------------------------------ MODULE MCStores ------------------------------
(* The two stores that are written round and round: the ring of the TCP      *)
(* connection and the log region of the EEPROM.  They share nothing; a       *)
(* behaviour is about one of them.                                           *)
EXTENDS IPStack, EepromLog

VARIABLE subject
vars == <<subject, stack, log>>

(* The log as the first start of a new chip leaves it.                       *)
LogStarted ==
  /\ pc = "ready" /\ unused = 0 /\ clearing = MAX_LOGS - 1
  /\ used = [i \in Slots |-> "free"] /\ entry = [i \in Slots |-> NoEntry]
  /\ pushed = 0 /\ failures = 0 /\ kept = {} /\ revived = {}

Init ==
  \/ subject = "ring" /\ StackInit /\ LogStarted
  \/ subject = "log" /\ LogInit /\ StackInit /\ dropped = 0

Next ==
  \/ subject = "ring" /\ StackNext /\ UNCHANGED <<subject, log>>
  \/ subject = "log" /\ LogNext /\ UNCHANGED <<subject, stack>>

(* The fairness of EepromLog's LogFairSpec.                                  *)
Running == subject = "log" /\ (Boot \/ ClearSlot \/ Increment) /\ UNCHANGED <<subject, stack>>

Spec == Init /\ [][Next]_vars /\ WF_vars(Running)
=============================================================================
