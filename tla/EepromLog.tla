------------------------------ MODULE EepromLog ------------------------------
(***************************************************************************)
(* One region of log entries of LogHandler in the EEPROM: pushLog() and    *)
(* the reboot log work the same way on two regions that do not overlap.    *)
(* A slot holds a status byte and an entry with its CRC.  The handler      *)
(* keeps only the address of the slot to write next, in RAM, and finds it  *)
(* again at boot by looking for the first slot whose status byte is 0.  A  *)
(* full region is cleared by zeroing the status bytes one by one.          *)
(*                                                                         *)
(* Power may fail at any point: between two writes, or in the middle of    *)
(* one.  The CRC is taken to recognise every mixture of two entries.       *)
(***************************************************************************)
EXTENDS Integers

CONSTANTS
  MAX_LOGS,    \* slots of the region
  MaxPushes,   \* bound: entries ever pushed
  MaxFailures  \* bound: power failures

ASSUME LogAssumption ==
  /\ MAX_LOGS \in Nat \ {0}
  /\ MaxPushes \in Nat /\ MaxFailures \in Nat

Slots == 0..(MAX_LOGS - 1)
NoEntry == 0  \* bytes that fail the CRC
Entries == 1..MaxPushes

VARIABLES
  pc,        \* what the handler does next
  unused,    \* unusedLogAddr, as a slot number
  clearing,  \* the slot clearAllLogs() clears next
  used,      \* status byte of each slot: 0, LOG_IN_USE or neither
  entry,     \* the other bytes of each slot
  pushed,    \* entries pushed so far: the number of the newest
  failures,  \* power failures so far
  kept,      \* entries written whole since clearAllLogs() last began
  revived    \* slots whose cleared entry a torn write made readable again

log == <<pc, unused, clearing, used, entry, pushed, failures, kept, revived>>

Status == {"free", "inUse", "other"}
Readable(i) == used[i] = "inUse" /\ entry[i] # NoEntry

(* A new chip reads 0xFF everywhere.                                       *)
LogInit ==
  /\ pc = "down"
  /\ unused = 0 /\ clearing = 0
  /\ used = [i \in Slots |-> "other"]
  /\ entry = [i \in Slots |-> NoEntry]
  /\ pushed = 0 /\ failures = 0 /\ kept = {} /\ revived = {}

-----------------------------------------------------------------------------
(* Mutated forms of the definitions below, slips the properties must       *)
(* notice; no specification uses them.                                     *)
FindFirstAnyFree ==
  /\ pc = "down" /\ pc' = "ready"
  /\ \E i \in Slots : used[i] = "free" /\ unused' = i
  /\ UNCHANGED <<clearing, used, entry, pushed, failures, kept, revived>>

FindFirstAlwaysZero ==
  /\ pc = "down" /\ pc' = "ready"
  /\ \E i \in Slots : used[i] = "free"
  /\ unused' = 0
  /\ UNCHANGED <<clearing, used, entry, pushed, failures, kept, revived>>

IncrementLate ==
  /\ pc = "increment"
  /\ unused' = unused + 1
  /\ IF unused' > MAX_LOGS
     THEN pc' = "clear" /\ clearing' = 0 /\ kept' = {}
     ELSE pc' = "ready" /\ UNCHANGED <<clearing, kept>>
  /\ UNCHANGED <<used, entry, pushed, failures, revived>>

FindNoneIgnored ==
  /\ pc = "down"
  /\ \A i \in Slots : used[i] # "free"
  /\ UNCHANGED log

-----------------------------------------------------------------------------
BeginClear == pc' = "clear" /\ clearing' = 0 /\ kept' = {}

(* findFirstAvailableLog(), run by the constructor.                        *)
FindFirst ==
  /\ pc = "down" /\ pc' = "ready"
  /\ \E i \in Slots :
       /\ used[i] = "free"
       /\ \A j \in 0..(i - 1) : used[j] # "free"
       /\ unused' = i
  /\ UNCHANGED <<clearing, used, entry, pushed, failures, kept, revived>>

FindNone ==
  /\ pc = "down"
  /\ \A i \in Slots : used[i] # "free"
  /\ BeginClear
  /\ UNCHANGED <<unused, used, entry, pushed, failures, revived>>

(* clearAllLogs(): one byte of one slot at a time.                         *)
ClearSlot ==
  /\ pc = "clear"
  /\ used' = [used EXCEPT ![clearing] = "free"]
  /\ IF clearing + 1 < MAX_LOGS
     THEN clearing' = clearing + 1 /\ UNCHANGED <<pc, unused>>
     ELSE pc' = "ready" /\ unused' = 0 /\ UNCHANGED clearing
  /\ revived' = revived \ {clearing}
  /\ UNCHANGED <<entry, pushed, failures, kept>>

(* pushLog(): enterLogToEeprom(), then incrementUnusedLogIndex().          *)
EnterLog ==
  /\ pc = "ready" /\ pc' = "increment"
  /\ pushed < MaxPushes /\ pushed' = pushed + 1
  /\ used' = [used EXCEPT ![unused] = "inUse"]
  /\ entry' = [entry EXCEPT ![unused] = pushed']
  /\ kept' = kept \cup {pushed'} /\ revived' = revived \ {unused}
  /\ UNCHANGED <<unused, clearing, failures>>

Increment ==
  /\ pc = "increment"
  /\ unused' = unused + 1
  /\ IF unused' >= MAX_LOGS THEN BeginClear
     ELSE pc' = "ready" /\ UNCHANGED <<clearing, kept>>
  /\ UNCHANGED <<used, entry, pushed, failures, revived>>

Fail == failures < MaxFailures /\ failures' = failures + 1 /\ pc' = "down"

PowerFails ==
  /\ pc # "down" /\ Fail
  /\ UNCHANGED <<unused, clearing, used, entry, pushed, kept, revived>>

(* Power fails inside the page write of EnterLog: each byte of the slot is *)
(* old or new.                                                             *)
TornEntry ==
  /\ pc = "ready" /\ Fail
  /\ pushed < MaxPushes /\ pushed' = pushed + 1
  /\ \E s \in {used[unused], "inUse"}, e \in {entry[unused], NoEntry, pushed'} :
       /\ used' = [used EXCEPT ![unused] = s]
       /\ entry' = [entry EXCEPT ![unused] = e]
       /\ revived' = IF e # entry[unused] THEN revived \ {unused}
                     ELSE IF s # used[unused] THEN revived \cup {unused}
                     ELSE revived
  /\ UNCHANGED <<unused, clearing, kept>>

(* Power fails inside a byte write of ClearSlot.                           *)
TornClear ==
  /\ pc = "clear" /\ Fail
  /\ used' = [used EXCEPT ![clearing] = "other"]
  /\ UNCHANGED <<unused, clearing, entry, pushed, kept, revived>>

Boot == FindFirst \/ FindNone
Push == EnterLog \/ Increment
LogNext ==
  Boot \/ ClearSlot \/ Push \/ PowerFails \/ TornEntry \/ TornClear

LogSpec == LogInit /\ [][LogNext]_log

(* The code runs on; power need not fail.                                  *)
LogFairSpec == LogSpec /\ WF_log(Boot \/ ClearSlot \/ Increment)

-----------------------------------------------------------------------------
(* Types; the handler never writes outside the region.                     *)
TypeOK ==
  /\ pc \in {"down", "ready", "increment", "clear"}
  /\ pc \in {"ready", "increment"} => unused \in Slots
  /\ unused \in Nat
  /\ clearing \in Slots
  /\ used \in [Slots -> Status]
  /\ entry \in [Slots -> Entries \cup {NoEntry}]
  /\ pushed \in 0..MaxPushes /\ failures \in 0..MaxFailures
  /\ kept \subseteq Entries /\ revived \subseteq Slots

(* Whatever power failures and restarts happen, an entry whose write was   *)
(* completed can be read until the handler next begins to clear the        *)
(* region: the slot found at boot is never one that holds it.              *)
KeptReadable == \A e \in kept : \E i \in Slots : Readable(i) /\ entry[i] = e

(* The region is only cleared when no slot in it is free.                  *)
ClearOnlyWhenFull ==
  [][pc # "clear" /\ pc' = "clear" => \A i \in Slots : used[i] # "free"]_log

(* printValidLogs() shows the entries before the next slot in the order    *)
(* they were pushed, and what it shows after them is older: leftovers of a *)
(* clear that a power failure cut short.  The exception: a write torn      *)
(* after the status byte makes the entry cleared from that slot valid      *)
(* again, wherever that slot lies.                                         *)
LogOrder ==
  pc \in {"ready", "increment"} =>
    LET next == IF pc = "ready" THEN unused ELSE unused + 1 IN
      \A i, j \in Slots \ revived :
        Readable(i) /\ Readable(j) /\ i < j =>
          /\ j < next => entry[i] < entry[j]
          /\ i < next /\ next <= j => entry[j] < entry[i]

(* Every start ends with a slot to write to, however often power failed    *)
(* while the region was being cleared.                                     *)
StartEnds == pc = "down" ~> pc = "ready"
=============================================================================
