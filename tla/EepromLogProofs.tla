-------------------------- MODULE EepromLogProofs ---------------------------
(***************************************************************************)
(* Proofs about EepromLog: whatever the size of the region and however     *)
(* often power fails, completed entries stay readable until the next clear *)
(* and in the order they were pushed, and the region is only cleared when  *)
(* it is full.  The argument: no slot in front of an entry that is still   *)
(* owed to a reader is free, so neither the running handler nor a restart  *)
(* can come back to it; and the free slots are one run, so neither can     *)
(* leave out a slot.                                                       *)
(***************************************************************************)
EXTENDS EepromLog, TLAPS

(* The slots the handler has passed are in use.                            *)
PassedInUse ==
  pc \in {"ready", "increment"} =>
    \A j \in Slots :
      j < unused \/ (pc = "increment" /\ j = unused) => used[j] # "free"

(* Slot i holds entry e, no slot in front of it is free, and the handler   *)
(* has passed it.                                                          *)
Holds(i, e) ==
  /\ used[i] = "inUse" /\ entry[i] = e
  /\ \A j \in Slots : j < i => used[j] # "free"
  /\ pc = "ready" => i < unused
  /\ pc = "increment" => i <= unused

KeptHeld == \A e \in kept : \E i \in Slots : Holds(i, e)

IInv == TypeOK /\ PassedInUse /\ KeptHeld /\ (pc = "clear" => kept = {})

LEMMA SlotBounds ==
  /\ 0 \in Slots
  /\ \A i \in Slots : i \in Nat /\ i < MAX_LOGS
  /\ \A i \in Nat : i < MAX_LOGS => i \in Slots
BY LogAssumption DEF Slots

LEMMA InitHolds == LogInit => IInv
<1> SUFFICES ASSUME LogInit PROVE IInv
  OBVIOUS
<1>1. TypeOK
  BY LogAssumption, SlotBounds DEF LogInit, TypeOK, Status, Entries, NoEntry
<1> QED
  BY <1>1 DEF LogInit, IInv, PassedInUse, KeptHeld

(* Types are preserved by every step; the clear's last slot and the last   *)
(* entry of the region are where an address could leave it.                *)
LEMMA TypeStep == TypeOK /\ [LogNext]_log => TypeOK'
<1> SUFFICES ASSUME TypeOK, [LogNext]_log PROVE TypeOK'
  OBVIOUS
<1> USE LogAssumption, SlotBounds DEF TypeOK, Status, Entries, NoEntry
<1>1. CASE FindFirst
  BY <1>1 DEF FindFirst
<1>2. CASE FindNone
  BY <1>2 DEF FindNone, BeginClear
<1>3. CASE ClearSlot
  BY <1>3 DEF ClearSlot
<1>4. CASE EnterLog
  <2>1. pushed' \in 1..MaxPushes
    BY <1>4 DEF EnterLog
  <2>2. entry' \in [Slots -> Entries \cup {NoEntry}]
    BY <1>4, <2>1 DEF EnterLog
  <2>3. kept' \subseteq Entries
    BY <1>4, <2>1 DEF EnterLog
  <2> QED BY <1>4, <2>1, <2>2, <2>3 DEF EnterLog
<1>5. CASE Increment
  <2>1. unused \in Nat /\ unused' = unused + 1
    BY <1>5 DEF Increment
  <2>2. CASE unused' >= MAX_LOGS
    BY <1>5, <2>1, <2>2 DEF Increment, BeginClear
  <2>3. CASE ~(unused' >= MAX_LOGS)
    <3>1. unused' \in Slots
      BY <2>1, <2>3
    <3> QED BY <1>5, <2>1, <2>3, <3>1 DEF Increment
  <2> QED BY <2>2, <2>3
<1>6. CASE PowerFails
  BY <1>6 DEF PowerFails, Fail
<1>7. CASE TornEntry
  <2>1. pushed' \in 1..MaxPushes
    BY <1>7 DEF TornEntry
  <2>2. unused \in Slots
    BY <1>7 DEF TornEntry
  <2>3. PICK s \in {used[unused], "inUse"},
             e \in {entry[unused], NoEntry, pushed'} :
          /\ used' = [used EXCEPT ![unused] = s]
          /\ entry' = [entry EXCEPT ![unused] = e]
    BY <1>7 DEF TornEntry
  <2>4. s \in Status /\ e \in Entries \cup {NoEntry}
    BY <2>1, <2>2, <2>3
  <2>5. used' \in [Slots -> Status] /\ entry' \in [Slots -> Entries \cup {NoEntry}]
    BY <2>3, <2>4
  <2>6. revived' \subseteq Slots
    BY <1>7, <2>2 DEF TornEntry
  <2> QED BY <1>7, <2>1, <2>5, <2>6 DEF TornEntry, Fail
<1>8. CASE TornClear
  BY <1>8 DEF TornClear, Fail
<1>9. CASE UNCHANGED log
  BY <1>9 DEF log
<1> QED
  BY <1>1, <1>2, <1>3, <1>4, <1>5, <1>6, <1>7, <1>8, <1>9
  DEF LogNext, Boot, Push

(* A step that frees no slot in front of what is held, and leaves the held *)
(* slots alone, keeps them held.                                           *)
LEMMA StepHolds == IInv /\ [LogNext]_log => IInv'
<1> SUFFICES ASSUME IInv, [LogNext]_log PROVE IInv'
  OBVIOUS
<1>0. TypeOK /\ TypeOK' /\ PassedInUse /\ KeptHeld /\ (pc = "clear" => kept = {})
  BY TypeStep DEF IInv
<1> USE SlotBounds
<1>1. CASE FindFirst
  <2>1. PICK f \in Slots :
          used[f] = "free" /\ unused' = f /\ \A j \in 0..(f - 1) : used[j] # "free"
    BY <1>1 DEF FindFirst
  <2>2. \A j \in Slots : j < f => used[j] # "free"
    BY <2>1
  <2>3. PassedInUse'
    BY <1>1, <2>1, <2>2 DEF FindFirst, PassedInUse
  <2>4. ASSUME NEW e \in kept PROVE \E i \in Slots : Holds(i, e)'
    <3>1. PICK i \in Slots : Holds(i, e)
      BY <1>0, <2>4 DEF KeptHeld
    <3>2. i < f
      BY <2>1, <3>1 DEF Holds
    <3> QED BY <1>1, <2>1, <3>1, <3>2 DEF FindFirst, Holds
  <2> QED BY <1>0, <1>1, <2>3, <2>4 DEF FindFirst, IInv, KeptHeld
<1>2. CASE FindNone
  BY <1>0, <1>2 DEF FindNone, BeginClear, IInv, PassedInUse, KeptHeld
<1>3. CASE ClearSlot
  <2>1. kept' = {} /\ (pc' = "clear" \/ (pc' = "ready" /\ unused' = 0))
    BY <1>0, <1>3 DEF ClearSlot
  <2> QED BY <1>0, <2>1 DEF IInv, PassedInUse, KeptHeld
<1>4. CASE EnterLog
  <2>1. /\ unused \in Slots /\ unused' = unused
        /\ used' = [used EXCEPT ![unused] = "inUse"]
        /\ entry' = [entry EXCEPT ![unused] = pushed']
        /\ pc = "ready" /\ pc' = "increment" /\ kept' = kept \cup {pushed'}
    BY <1>0, <1>4 DEF EnterLog, TypeOK
  <2>2. used \in [Slots -> Status] /\ entry \in [Slots -> Entries \cup {NoEntry}]
    BY <1>0 DEF TypeOK
  <2>3. \A j \in Slots : j <= unused => used'[j] # "free"
    BY <1>0, <2>1, <2>2 DEF PassedInUse
  <2>4. PassedInUse'
    BY <2>1, <2>3 DEF PassedInUse
  <2>5. \A e : e = pushed' => \E i \in Slots : Holds(i, e)'
    <3>1. /\ used'[unused] = "inUse" /\ entry'[unused] = pushed'
          /\ \A j \in Slots : j < unused => used'[j] # "free"
          /\ unused <= unused'
      BY <2>1, <2>2, <2>3
    <3> QED BY <2>1, <3>1 DEF Holds
  <2>6. ASSUME NEW e \in kept PROVE \E i \in Slots : Holds(i, e)'
    <3>1. PICK i \in Slots : Holds(i, e)
      BY <1>0, <2>6 DEF KeptHeld
    <3>2. i < unused
      BY <2>1, <3>1 DEF Holds
    <3> QED BY <2>1, <2>2, <2>3, <3>1, <3>2 DEF Holds
  <2>7. KeptHeld'
    BY <2>1, <2>5, <2>6 DEF KeptHeld
  <2> QED BY <1>0, <2>1, <2>4, <2>7 DEF IInv
<1>5. CASE Increment
  <2>1. CASE pc' = "clear"
    BY <1>0, <1>5, <2>1
    DEF Increment, BeginClear, IInv, PassedInUse, KeptHeld
  <2>2. CASE pc' # "clear"
    <3>1. /\ pc = "increment" /\ pc' = "ready" /\ unused' = unused + 1
          /\ unused \in Nat
          /\ UNCHANGED <<used, entry, kept>>
      BY <1>0, <1>5, <2>2 DEF Increment, BeginClear, TypeOK
    <3>2. PassedInUse'
      BY <1>0, <3>1 DEF PassedInUse
    <3>3. KeptHeld'
      BY <1>0, <3>1 DEF KeptHeld, Holds
    <3> QED BY <1>0, <3>1, <3>2, <3>3 DEF IInv
  <2> QED BY <2>1, <2>2
<1>6. CASE PowerFails
  BY <1>0, <1>6 DEF PowerFails, Fail, IInv, PassedInUse, KeptHeld, Holds
<1>7. CASE TornEntry
  <2>1. PICK s \in {used[unused], "inUse"} : used' = [used EXCEPT ![unused] = s]
    BY <1>7 DEF TornEntry
  <2>2. PICK b : entry' = [entry EXCEPT ![unused] = b]
    BY <1>7 DEF TornEntry
  <2>3. pc = "ready" /\ pc' = "down" /\ kept' = kept /\ unused \in Slots
    BY <1>0, <1>7 DEF TornEntry, Fail, TypeOK
  <2>4. used \in [Slots -> Status] /\ entry \in [Slots -> Entries \cup {NoEntry}]
    BY <1>0 DEF TypeOK
  <2>5. \A j \in Slots : used[j] # "free" => used'[j] # "free"
    BY <2>1, <2>3, <2>4
  <2>6. ASSUME NEW e \in kept PROVE \E i \in Slots : Holds(i, e)'
    <3>1. PICK i \in Slots : Holds(i, e)
      BY <1>0, <2>6 DEF KeptHeld
    <3>2. i < unused
      BY <2>3, <3>1 DEF Holds
    <3>3. used'[i] = used[i] /\ entry'[i] = entry[i]
      BY <2>1, <2>2, <2>3, <2>4, <3>2
    <3> QED BY <2>3, <2>5, <3>1, <3>3 DEF Holds
  <2> QED BY <1>0, <2>3, <2>6 DEF IInv, PassedInUse, KeptHeld
<1>8. CASE TornClear
  BY <1>0, <1>8 DEF TornClear, Fail, IInv, PassedInUse, KeptHeld
<1>9. CASE UNCHANGED log
  BY <1>0, <1>9 DEF log, IInv, PassedInUse, KeptHeld, Holds
<1> QED
  BY <1>1, <1>2, <1>3, <1>4, <1>5, <1>6, <1>7, <1>8, <1>9
  DEF LogNext, Boot, Push

LEMMA Invariance == LogSpec => []IInv
BY InitHolds, StepHolds, PTL DEF LogSpec

(* Every address the handler writes to lies in the region, and the other   *)
(* types hold.                                                             *)
THEOREM TypeCorrect == LogSpec => []TypeOK
<1>1. IInv => TypeOK
  BY DEF IInv
<1> QED BY <1>1, Invariance, PTL

(* Whatever power failures and restarts happen, an entry whose write was   *)
(* completed can be read until the region is next cleared.                 *)
THEOREM KeptReadableAlways == LogSpec => []KeptReadable
<1>1. IInv => KeptReadable
  <2> SUFFICES ASSUME IInv, NEW e \in kept
               PROVE  \E i \in Slots : Readable(i) /\ entry[i] = e
    BY DEF KeptReadable
  <2>1. PICK i \in Slots : Holds(i, e)
    BY DEF IInv, KeptHeld
  <2>2. e # NoEntry
    BY LogAssumption DEF IInv, TypeOK, Entries, NoEntry
  <2> QED BY <2>1, <2>2 DEF Holds, Readable
<1> QED BY <1>1, Invariance, PTL

(* The region is only cleared when no slot in it is free.                  *)
THEOREM ClearOnlyWhenFullAlways == LogSpec => ClearOnlyWhenFull
<1> DEFINE Full == pc # "clear" /\ pc' = "clear" => \A i \in Slots : used[i] # "free"
<1>1. IInv /\ [LogNext]_log => [Full]_log
  <2> SUFFICES ASSUME IInv, LogNext, pc # "clear", pc' = "clear"
               PROVE  \A i \in Slots : used[i] # "free"
    OBVIOUS
  <2>1. FindNone \/ Increment
    BY DEF LogNext, Boot, Push, FindFirst, ClearSlot, EnterLog, PowerFails,
           TornEntry, TornClear, Fail
  <2>2. CASE FindNone
    BY <2>2 DEF FindNone
  <2>3. CASE Increment
    <3>1. pc = "increment" /\ unused + 1 >= MAX_LOGS /\ unused \in Nat
      BY <2>3 DEF Increment, IInv, TypeOK
    <3> QED BY <3>1, SlotBounds, LogAssumption DEF IInv, PassedInUse
  <2> QED BY <2>1, <2>2, <2>3
<1> QED BY <1>1, Invariance, PTL DEF LogSpec, ClearOnlyWhenFull

-----------------------------------------------------------------------------
(* The order of what is shown.  Two facts about the free slots carry it: a *)
(* clear has freed exactly the slots it has passed, and in front of the    *)
(* handler the free slots come first, before any slot an interrupted clear *)
(* left in use.  So a restart finds the slot the handler was at, the one   *)
(* behind it, slot 0, or none.                                             *)
FirstFree(f) == used[f] = "free" /\ \A j \in Slots : j < f => used[j] # "free"

Ahead(i) ==
  \/ pc = "ready" /\ unused <= i
  \/ pc = "increment" /\ unused < i
  \/ pc = "down" /\ \E f \in Slots : f <= i /\ used[f] = "free"

FreeRun ==
  \A i, j \in Slots : Ahead(i) /\ i <= j /\ used[j] = "free" => used[i] = "free"

Cleared == pc = "clear" => \A j \in Slots : used[j] = "free" <=> j < clearing

Shown(i) == i \in Slots \ revived /\ Readable(i)

Ordered(n) ==
  \A i, j \in Slots : Shown(i) /\ Shown(j) /\ i < j =>
    /\ j < n => entry[i] < entry[j]
    /\ i < n /\ n <= j => entry[j] < entry[i]

OrderInv ==
  /\ \A i \in Slots : entry[i] <= pushed
  /\ pc = "ready" => Ordered(unused)
  /\ pc = "increment" => Ordered(unused + 1)
  /\ pc = "down" => \A f \in Slots : FirstFree(f) => Ordered(f)

LEMMA RunInit == LogInit => FreeRun /\ Cleared
BY DEF LogInit, FreeRun, Cleared

(* Every step keeps the free slots in one run.                             *)
LEMMA RunStep == IInv /\ FreeRun /\ Cleared /\ [LogNext]_log => (FreeRun /\ Cleared)'
<1> SUFFICES ASSUME IInv, FreeRun, Cleared, [LogNext]_log
             PROVE  FreeRun' /\ Cleared'
  OBVIOUS
<1>0. TypeOK /\ TypeOK' /\ PassedInUse
  BY TypeStep DEF IInv
<1>t. used \in [Slots -> Status] /\ clearing \in Slots /\ unused \in Nat
  BY <1>0 DEF TypeOK
<1> USE SlotBounds
<1>1. CASE FindFirst
  <2>1. /\ pc = "down" /\ pc' = "ready" /\ used' = used
        /\ unused' \in Slots /\ used[unused'] = "free"
    BY <1>1 DEF FindFirst
  <2>2. \A i : Ahead(i)' => Ahead(i)
    BY <2>1 DEF Ahead
  <2> QED BY <2>1, <2>2 DEF FreeRun, Cleared
<1>2. CASE FindNone
  BY <1>2 DEF FindNone, BeginClear, FreeRun, Ahead, Cleared
<1>3. CASE ClearSlot
  <2>1. /\ pc = "clear" /\ used' = [used EXCEPT ![clearing] = "free"]
        /\ \/ clearing + 1 < MAX_LOGS /\ pc' = "clear" /\ clearing' = clearing + 1
           \/ clearing + 1 >= MAX_LOGS /\ pc' = "ready" /\ unused' = 0
    BY <1>3, <1>t, LogAssumption DEF ClearSlot
  <2>2. \A j \in Slots : used'[j] = "free" <=> j < clearing + 1
    BY <1>t, <2>1 DEF Cleared
  <2>3. CASE pc' = "clear"
    BY <2>1, <2>2, <2>3 DEF FreeRun, Ahead, Cleared
  <2>4. CASE pc' = "ready"
    <3>1. \A j \in Slots : used'[j] = "free"
      BY <1>t, <2>1, <2>2, <2>4, LogAssumption
    <3> QED BY <2>4, <3>1 DEF FreeRun, Cleared
  <2> QED BY <2>1, <2>3, <2>4
<1>4. CASE EnterLog
  <2>1. /\ pc = "ready" /\ pc' = "increment" /\ unused' = unused /\ unused \in Slots
        /\ used' = [used EXCEPT ![unused] = "inUse"]
    BY <1>0, <1>4 DEF EnterLog, TypeOK
  <2> QED BY <1>t, <2>1 DEF FreeRun, Ahead, Cleared
<1>5. CASE Increment
  <2>1. pc = "increment" /\ unused' = unused + 1 /\ used' = used
    BY <1>5 DEF Increment
  <2>2. CASE unused' >= MAX_LOGS
    <3>1. pc' = "clear" /\ clearing' = 0
      BY <1>5, <2>2 DEF Increment, BeginClear
    <3>2. \A j \in Slots : used[j] # "free"
      BY <1>0, <1>t, <2>1, <2>2, LogAssumption DEF PassedInUse
    <3> QED BY <2>1, <3>1, <3>2 DEF FreeRun, Ahead, Cleared
  <2>3. CASE ~(unused' >= MAX_LOGS)
    <3>1. pc' = "ready"
      BY <1>5, <2>3 DEF Increment
    <3> QED BY <1>t, <2>1, <3>1 DEF FreeRun, Ahead, Cleared
  <2> QED BY <2>2, <2>3
<1>6. CASE PowerFails
  <2>1. pc # "down" /\ pc' = "down" /\ used' = used
    BY <1>6 DEF PowerFails, Fail
  <2>2. CASE pc = "clear"
    BY <1>t, <2>1, <2>2 DEF FreeRun, Cleared
  <2>3. CASE pc \in {"ready", "increment"}
    <3>1. ASSUME NEW i \in Slots, Ahead(i)' PROVE Ahead(i)
      <4>1. PICK f \in Slots : f <= i /\ used[f] = "free"
        BY <2>1, <3>1 DEF Ahead
      <4> QED BY <1>0, <1>t, <2>3, <4>1 DEF Ahead, PassedInUse
    <3> QED BY <2>1, <3>1 DEF FreeRun, Cleared
  <2> QED BY <1>0, <2>1, <2>2, <2>3 DEF TypeOK
<1>7. CASE TornEntry
  <2>1. PICK s \in {used[unused], "inUse"} : used' = [used EXCEPT ![unused] = s]
    BY <1>7 DEF TornEntry
  <2>2. pc = "ready" /\ pc' = "down" /\ unused \in Slots
    BY <1>0, <1>7 DEF TornEntry, Fail, TypeOK
  <2>3. ASSUME NEW i \in Slots, NEW j \in Slots,
               Ahead(i)', i <= j, used'[j] = "free"
        PROVE  used'[i] = "free"
    <3>1. PICK f \in Slots : f <= i /\ used'[f] = "free"
      BY <2>2, <2>3 DEF Ahead
    <3>2. used[f] = "free" /\ used[j] = "free"
      BY <1>t, <2>1, <2>2, <2>3, <3>1
    <3>3. unused <= f
      BY <1>0, <1>t, <2>2, <3>2 DEF PassedInUse
    <3>4. unused <= i
      BY <1>t, <3>1, <3>3
    <3>5. used[i] = "free" /\ used[unused] = "free"
      BY <1>t, <2>2, <2>3, <3>2, <3>4 DEF FreeRun, Ahead
    <3>6. CASE i = unused
      <4>1. f = unused
        BY <1>t, <3>1, <3>3, <3>6
      <4> QED BY <3>1, <3>6, <4>1
    <3>7. CASE i # unused
      BY <1>t, <2>1, <2>2, <3>5, <3>7
    <3> QED BY <3>6, <3>7
  <2> QED BY <2>2, <2>3 DEF FreeRun, Cleared
<1>8. CASE TornClear
  <2>1. pc = "clear" /\ pc' = "down" /\ used' = [used EXCEPT ![clearing] = "other"]
    BY <1>8 DEF TornClear, Fail
  <2>2. \A j \in Slots : used'[j] = "free" <=> j < clearing
    BY <1>t, <2>1 DEF Cleared
  <2> QED BY <1>t, <2>1, <2>2 DEF FreeRun, Cleared
<1>9. CASE UNCHANGED log
  BY <1>9 DEF log, FreeRun, Ahead, Cleared
<1> QED
  BY <1>1, <1>2, <1>3, <1>4, <1>5, <1>6, <1>7, <1>8, <1>9
  DEF LogNext, Boot, Push

LEMMA OrderInit == LogInit => OrderInv
BY LogAssumption, SlotBounds DEF LogInit, OrderInv, FirstFree, NoEntry

(* Ordered says nothing about slots that are not shown.                    *)
LEMMA OrderKept ==
  ASSUME NEW n, Ordered(n),
         \A i \in Slots : Shown(i)' => Shown(i) /\ entry'[i] = entry[i]
  PROVE  Ordered(n)'
BY DEF Ordered

(* The newest entry, written to the slot next, comes after what precedes   *)
(* it and before the leftovers behind it.                                  *)
LEMMA OrderExtended ==
  ASSUME TypeOK, NEW n \in Slots, Ordered(n),
         \A i \in Slots : entry[i] <= pushed,
         NEW new \in Nat, new > pushed, entry'[n] = new,
         \A i \in Slots \ {n} : Shown(i)' => Shown(i) /\ entry'[i] = entry[i]
  PROVE  Ordered(n + 1)'
<1>1. pushed \in Nat /\ \A i \in Slots : entry[i] \in Nat
  BY LogAssumption DEF TypeOK, Entries, NoEntry
<1> SUFFICES ASSUME NEW i \in Slots, NEW j \in Slots, Shown(i)', Shown(j)', i < j
             PROVE  /\ j < n + 1 => entry'[i] < entry'[j]
                    /\ i < n + 1 /\ n + 1 <= j => entry'[j] < entry'[i]
  BY DEF Ordered
<1>2. CASE i # n /\ j # n
  BY <1>2, SlotBounds DEF Ordered
<1>3. CASE i = n
  BY <1>1, <1>3, SlotBounds
<1>4. CASE j = n
  BY <1>1, <1>4, SlotBounds
<1> QED BY <1>2, <1>3, <1>4

(* Every step keeps the entries shown in order.                            *)
LEMMA OrderStep ==
  IInv /\ FreeRun /\ Cleared /\ OrderInv /\ [LogNext]_log => OrderInv'
<1> SUFFICES ASSUME IInv, FreeRun, Cleared, OrderInv, [LogNext]_log
             PROVE  OrderInv'
  OBVIOUS
<1>0. TypeOK /\ TypeOK' /\ PassedInUse
  BY TypeStep DEF IInv
<1>t. /\ used \in [Slots -> Status] /\ clearing \in Slots /\ unused \in Nat
      /\ entry \in [Slots -> Entries \cup {NoEntry}] /\ pushed \in Nat
      /\ \A i \in Slots : entry[i] \in Nat
  BY <1>0, LogAssumption DEF TypeOK, Entries, NoEntry
<1>l. \A i \in Slots : entry[i] <= pushed
  BY DEF OrderInv
<1> USE SlotBounds
<1>1. CASE FindFirst
  <2>1. /\ pc = "down" /\ pc' = "ready"
        /\ UNCHANGED <<used, entry, pushed, revived>>
        /\ unused' \in Slots /\ FirstFree(unused')
    BY <1>1 DEF FindFirst, FirstFree
  <2>2. Ordered(unused')
    BY <2>1 DEF OrderInv
  <2> QED BY <1>l, <2>1, <2>2 DEF OrderInv, Ordered, Shown, Readable
<1>2. CASE FindNone
  BY <1>2 DEF FindNone, BeginClear, OrderInv
<1>3. CASE ClearSlot
  <2>1. /\ UNCHANGED <<entry, pushed>> /\ pc = "clear"
        /\ pc' = "clear" \/ (pc' = "ready" /\ unused' = 0)
        /\ used' = [used EXCEPT ![clearing] = "free"]
        /\ revived' = revived \ {clearing}
    BY <1>3 DEF ClearSlot
  <2>2. Ordered(0)
    BY <1>t, <1>0, <2>1 DEF Ordered
  <2>3. CASE pc' = "clear"
    BY <1>l, <2>1, <2>3 DEF OrderInv
  <2>4. CASE pc' = "ready"
    <3>1. \A i \in Slots : Shown(i)' => Shown(i) /\ entry'[i] = entry[i]
      BY <1>t, <2>1 DEF Shown, Readable
    <3>2. Ordered(0)'
      BY <2>2, <3>1, OrderKept
    <3>3. Ordered(unused)'
      BY <2>1, <2>4, <3>2 DEF Ordered
    <3> QED BY <1>l, <2>1, <2>4, <3>3 DEF OrderInv
  <2> QED BY <2>1, <2>3, <2>4
<1>4. CASE EnterLog
  <2>1. /\ pc = "ready" /\ pc' = "increment"
        /\ unused' = unused /\ unused \in Slots /\ pushed' = pushed + 1
        /\ used' = [used EXCEPT ![unused] = "inUse"]
        /\ entry' = [entry EXCEPT ![unused] = pushed']
        /\ revived' = revived \ {unused}
    BY <1>0, <1>4 DEF EnterLog, TypeOK
  <2>2. entry'[unused] = pushed + 1 /\ pushed + 1 \in Nat /\ pushed + 1 > pushed
    BY <1>t, <2>1
  <2>3. \A i \in Slots \ {unused} : Shown(i)' => Shown(i) /\ entry'[i] = entry[i]
    BY <1>t, <2>1 DEF Shown, Readable
  <2>4. Ordered(unused)
    BY <2>1 DEF OrderInv
  <2>5. Ordered(unused + 1)'
    BY <1>0, <1>l, <2>1, <2>2, <2>3, <2>4, OrderExtended
  <2>6. \A i \in Slots : entry'[i] <= pushed'
    BY <1>l, <1>t, <2>1
  <2> QED BY <2>1, <2>5, <2>6 DEF OrderInv
<1>5. CASE Increment
  <2>1. /\ pc = "increment" /\ unused' = unused + 1
        /\ UNCHANGED <<used, entry, pushed, revived>>
        /\ pc' = "clear" \/ pc' = "ready"
    BY <1>5 DEF Increment, BeginClear
  <2>2. Ordered(unused')
    BY <2>1 DEF OrderInv
  <2> QED BY <1>l, <2>1, <2>2 DEF OrderInv, Ordered, Shown, Readable
<1>6. CASE PowerFails
  <2>1. /\ pc # "down" /\ pc' = "down" /\ UNCHANGED <<used, entry, pushed, revived>>
    BY <1>6 DEF PowerFails, Fail
  <2>2. ASSUME NEW f \in Slots, FirstFree(f)
        PROVE  Ordered(f)
    <3>1. CASE pc = "clear"
      <4>1. f = 0
        BY <1>t, <2>2, <3>1 DEF Cleared, FirstFree
      <4> QED BY <1>t, <4>1 DEF Ordered
    <3>2. CASE pc = "ready"
      <4>1. unused <= f /\ unused \in Slots
        BY <1>0, <1>t, <2>2, <3>2 DEF PassedInUse, FirstFree, TypeOK
      <4>2. used[unused] = "free"
        BY <1>t, <2>2, <3>2, <4>1 DEF FreeRun, Ahead, FirstFree
      <4>3. f = unused
        BY <1>t, <2>2, <4>1, <4>2 DEF FirstFree
      <4> QED BY <3>2, <4>3 DEF OrderInv
    <3>3. CASE pc = "increment"
      <4>1. unused < f
        BY <1>0, <1>t, <2>2, <3>3 DEF PassedInUse, FirstFree
      <4>2. unused + 1 \in Slots /\ unused + 1 <= f
        BY <1>t, <4>1, LogAssumption
      <4>3. used[unused + 1] = "free"
        BY <1>t, <2>2, <3>3, <4>2 DEF FreeRun, Ahead, FirstFree
      <4>4. f = unused + 1
        BY <1>t, <2>2, <4>2, <4>3 DEF FirstFree
      <4> QED BY <3>3, <4>4 DEF OrderInv
    <3> QED BY <1>0, <2>1, <3>1, <3>2, <3>3 DEF TypeOK
  <2> QED BY <1>l, <2>1, <2>2 DEF OrderInv, Ordered, Shown, Readable, FirstFree
<1>7. CASE TornEntry
  <2>1. /\ pc = "ready" /\ pc' = "down" /\ unused \in Slots
        /\ pushed' = pushed + 1 /\ unused' = unused
    BY <1>0, <1>7 DEF TornEntry, Fail, TypeOK
  <2>2. PICK s \in {used[unused], "inUse"}, e \in {entry[unused], NoEntry, pushed'} :
          /\ used' = [used EXCEPT ![unused] = s]
          /\ entry' = [entry EXCEPT ![unused] = e]
          /\ revived' = IF e # entry[unused] THEN revived \ {unused}
                        ELSE IF s # used[unused] THEN revived \cup {unused}
                        ELSE revived
    BY <1>7 DEF TornEntry
  <2>3. \A i \in Slots : entry'[i] <= pushed'
    BY <1>l, <1>t, <2>1, <2>2 DEF NoEntry
  <2>4. \A i \in Slots \ {unused} : Shown(i)' => Shown(i) /\ entry'[i] = entry[i]
    BY <1>t, <2>1, <2>2 DEF Shown, Readable
  <2>5. Ordered(unused)
    BY <2>1 DEF OrderInv
  <2>6. ASSUME NEW f \in Slots, FirstFree(f)'
        PROVE  Ordered(f)'
    <3>1. used'[f] = "free" /\ used[f] = "free"
      BY <1>t, <2>1, <2>2, <2>6 DEF FirstFree
    <3>2. unused <= f
      BY <1>0, <1>t, <2>1, <3>1 DEF PassedInUse
    <3>3. used[unused] = "free"
      BY <1>t, <2>1, <3>1, <3>2 DEF FreeRun, Ahead
    <3>4. CASE f = unused
      <4>1. ~Shown(unused)'
        BY <2>1, <3>1, <3>4 DEF Shown, Readable
      <4>2. Ordered(unused)'
        BY <2>1, <2>4, <2>5, <4>1 DEF Ordered
      <4> QED BY <2>1, <3>4, <4>2 DEF Ordered
    <3>5. CASE f # unused
      <4>1. unused < f /\ unused + 1 \in Slots /\ unused + 1 <= f
        BY <1>t, <3>2, <3>5, LogAssumption
      <4>2. used[unused + 1] = "free"
        BY <1>t, <2>1, <3>1, <4>1 DEF FreeRun, Ahead
      <4>3. used'[unused + 1] = "free"
        BY <1>t, <2>1, <2>2, <4>1, <4>2
      <4>4. f = unused + 1
        BY <1>t, <2>6, <4>1, <4>3 DEF FirstFree
      <4>5. Ordered(unused + 1)'
        <5>1. CASE e = pushed'
          <6>1. entry'[unused] = pushed + 1
            BY <1>t, <2>1, <2>2, <5>1
          <6>2. pushed + 1 \in Nat /\ pushed + 1 > pushed
            BY <1>t
          <6> QED BY <1>0, <1>l, <2>1, <2>4, <2>5, <6>1, <6>2, OrderExtended
        <5>2. CASE e # pushed'
          <6>1. ~Shown(unused)'
            <7>1. CASE e = NoEntry
              BY <1>t, <2>1, <2>2, <7>1 DEF Shown, Readable
            <7>2. CASE e # NoEntry
              <8>1. e = entry[unused]
                BY <2>2, <5>2, <7>2
              <8>2. used'[unused] = s
                BY <1>t, <2>1, <2>2
              <8>3. s # "free"
                BY <2>6, <4>1, <4>4, <8>2, <2>1 DEF FirstFree
              <8>4. unused \in revived'
                BY <2>2, <3>3, <8>1, <8>3
              <8> QED BY <2>1, <8>4 DEF Shown
            <7> QED BY <7>1, <7>2
          <6>2. \A i, j \in Slots : i # unused /\ j # unused /\ i < j =>
                  /\ j < unused + 1 => j < unused
                  /\ i < unused + 1 /\ unused + 1 <= j => i < unused /\ unused <= j
            BY <1>t
          <6> QED BY <2>1, <2>4, <2>5, <6>1, <6>2 DEF Ordered
        <5> QED BY <5>1, <5>2
      <4> QED BY <2>1, <4>4, <4>5 DEF Ordered
    <3> QED BY <3>4, <3>5
  <2> QED BY <2>1, <2>3, <2>6 DEF OrderInv
<1>8. CASE TornClear
  <2>1. /\ pc = "clear" /\ pc' = "down" /\ UNCHANGED <<entry, pushed>>
        /\ used' = [used EXCEPT ![clearing] = "other"]
    BY <1>8 DEF TornClear, Fail
  <2>2. ASSUME NEW f \in Slots, FirstFree(f)'
        PROVE  Ordered(f)'
    <3>1. \A j \in Slots : used'[j] = "free" <=> j < clearing
      BY <1>t, <2>1 DEF Cleared
    <3>2. f = 0
      BY <1>t, <2>2, <3>1 DEF FirstFree
    <3> QED BY <1>t, <3>2 DEF Ordered
  <2> QED BY <1>l, <2>1, <2>2 DEF OrderInv
<1>9. CASE UNCHANGED log
  BY <1>9 DEF log, OrderInv, Ordered, Shown, Readable, FirstFree
<1> QED
  BY <1>1, <1>2, <1>3, <1>4, <1>5, <1>6, <1>7, <1>8, <1>9
  DEF LogNext, Boot, Push

(* What printValidLogs() shows up to the next slot is in the order it was  *)
(* pushed, and what it shows behind it is older, for every size of region  *)
(* and wherever power fails.                                               *)
THEOREM LogOrderAlways == LogSpec => []LogOrder
<1> DEFINE Inv == IInv /\ FreeRun /\ Cleared /\ OrderInv
<1>1. LogInit => Inv
  BY InitHolds, RunInit, OrderInit
<1>2. Inv /\ [LogNext]_log => Inv'
  BY StepHolds, RunStep, OrderStep
<1>3. Inv => LogOrder
  BY DEF OrderInv, Ordered, Shown, LogOrder
<1> QED BY <1>1, <1>2, <1>3, PTL DEF LogSpec
=============================================================================
