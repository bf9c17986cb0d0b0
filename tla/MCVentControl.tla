---------------------------- MODULE MCVentControl ----------------------------
(* A command in each mode: one with the value the set point has at boot,    *)
(* one beyond the range of its mode.                                        *)
EXTENDS VentControl

MCCommands == {[auto |-> TRUE, value |-> 50], [auto |-> FALSE, value |-> 110]}
=============================================================================
