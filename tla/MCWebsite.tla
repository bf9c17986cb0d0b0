------------------------------ MODULE MCWebsite ------------------------------
(* Statuses and a failure while the status and the history are looked at;    *)
(* settings while the connection to the broker is lost twice.                *)
EXTENDS Website

MCWorlds ==
  {[statuses |-> 2, drops |-> 0, failures |-> 1, applies |-> 0],
   [statuses |-> 0, drops |-> 2, failures |-> 0, applies |-> 2]}

(* Readings of an earlier run have nothing to do with settings.              *)
MCInit == Init /\ (world.applies > 0 => db = <<>>)
MCSpec == MCInit /\ [][Next]_vars /\ Fairness
=============================================================================
