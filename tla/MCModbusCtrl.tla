---------------------------- MODULE MCModbusCtrl ----------------------------
(* Small instances of ModbusCtrl: two registers with answers of different  *)
(* lengths (a READ of two registers and a WRITE, scaled down), an exception*)
(* answer shorter than both.                                               *)
EXTENDS ModbusCtrl, TLC

CONSTANTS r1, r2

MCRespLen == (r1 :> 3) @@ (r2 :> 2)

MCOneLen == r1 :> 3
=============================================================================
