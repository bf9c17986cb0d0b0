----------------------------- MODULE WebsiteProofs -----------------------------
(***************************************************************************)
(* Proofs about Website and the server below it, for any number of calls   *)
(* at a time and every world.  History: readings reach the database in the *)
(* order of publication, and unless refreshes overlapped at most one       *)
(* answer can still come to a table that is empty.  Settings: the one      *)
(* published last is the last to reach the controller, however often the   *)
(* connection is lost, and no settings were confirmed before it that it    *)
(* could undo.                                                             *)
(***************************************************************************)
EXTENDS Website, TLAPS

Readings == [nr : Nat, cmd : Nat]

Calls ==
  [op : {"free", "status", "history", "apply"}, at : {"none", "server", "answered"},
   nr : Nat, body : Seq(Readings)]

(* Types, and that no more was transmitted than is waiting to be.          *)
TypeOK ==
  /\ world \in Worlds
  /\ overlapped \in BOOLEAN
  /\ handler \in [at : {"idle", "setAuto", "setTarget", "push"}, msg : [nr : Int, cmd : Nat]]
  /\ handler.at # "idle" => handler.msg \in Readings
  /\ arriving \in Seq(Readings) /\ db \in Seq(Readings) /\ table \in Seq(Readings)
  /\ outgoing \in Seq(Nat) /\ inbox \in Seq(Nat) /\ ctrl \in Nat
  /\ transmitted \in 0..Len(outgoing)
  /\ calls \in [Slots -> Calls]
  /\ statuses \in Nat /\ applies \in 0..world.applies
  /\ published \subseteq Nat /\ confirmed \subseteq Nat
  /\ before \in [1..world.applies -> SUBSET Nat]

-----------------------------------------------------------------------------
(* Facts about sequences.                                                  *)
LEMMA SequenceFacts ==
  ASSUME NEW S, NEW s \in Seq(S)
  PROVE  /\ Len(s) \in Nat /\ DOMAIN s = 1..Len(s)
         /\ \A i \in DOMAIN s : s[i] \in S
         /\ s # <<>> => /\ Head(s) = s[1] /\ Head(s) \in S /\ Len(s) > 0
                        /\ Last(s) = s[Len(s)] /\ Last(s) \in S
                        /\ Tail(s) \in Seq(S) /\ Len(Tail(s)) = Len(s) - 1
                        /\ \A i \in 1..(Len(s) - 1) : Tail(s)[i] = s[i + 1]
BY DEF Last

LEMMA AppendFacts ==
  ASSUME NEW S, NEW s \in Seq(S), NEW e \in S
  PROVE  /\ Append(s, e) \in Seq(S) /\ Len(Append(s, e)) = Len(s) + 1
         /\ Append(s, e)[Len(s) + 1] = e
         /\ \A i \in 1..Len(s) : Append(s, e)[i] = s[i]
OBVIOUS

LEMMA TailOfOne ==
  ASSUME NEW S, NEW s \in Seq(S), Len(s) > 0, Tail(s) = <<>>
  PROVE  Len(s) = 1
<1>1. Len(Tail(s)) = Len(s) - 1 /\ Len(s) \in Nat
  OBVIOUS
<1>2. Len(<<>>) = 0
  OBVIOUS
<1>3. Len(Tail(s)) = Len(<<>>)
  BY Zenon
<1> QED BY <1>1, <1>2, <1>3

LEMMA ReadingNumbered ==
  ASSUME NEW s \in Seq(Readings), NEW i \in DOMAIN s
  PROVE  s[i] \in Readings /\ s[i].nr \in Nat
<1>1. s[i] \in Readings
  OBVIOUS
<1> QED BY <1>1 DEF Readings

LEMMA ReverseFacts ==
  ASSUME NEW S, NEW s \in Seq(S)
  PROVE  /\ Reverse(s) \in Seq(S) /\ DOMAIN Reverse(s) = 1..Len(s)
         /\ \A i \in 1..Len(s) : Reverse(s)[i] = s[(Len(s) - i) + 1]
BY DEF Reverse

-----------------------------------------------------------------------------
(* What the calls look like after a step on one of them.                   *)
LEMMA CallAnswered ==
  ASSUME calls \in [Slots -> Calls], NEW i \in Slots, NEW b \in Seq(Readings), Answer(i, b)
  PROVE  /\ calls' \in [Slots -> Calls]
         /\ calls'[i].op = calls[i].op /\ calls'[i].nr = calls[i].nr
         /\ calls'[i].body = b
         /\ \A j \in Slots \ {i} : calls'[j] = calls[j]
BY DEF Answer, Calls

LEMMA CallApplied ==
  ASSUME calls \in [Slots -> Calls], NEW i \in Slots,
         calls' = [calls EXCEPT ![i].at = "answered"]
  PROVE  /\ calls' \in [Slots -> Calls]
         /\ calls'[i].op = calls[i].op /\ calls'[i].nr = calls[i].nr
         /\ calls'[i].body = calls[i].body
         /\ \A j \in Slots \ {i} : calls'[j] = calls[j]
BY DEF Calls

LEMMA CallFreed ==
  ASSUME calls \in [Slots -> Calls], NEW i \in Slots,
         calls' = [calls EXCEPT ![i] = FreeSlot]
  PROVE  /\ calls' \in [Slots -> Calls]
         /\ calls'[i].op = "free"
         /\ \A j \in Slots \ {i} : calls'[j] = calls[j]
<1>1. FreeSlot \in Calls
  BY DEF FreeSlot, Calls
<1> QED BY <1>1 DEF FreeSlot

LEMMA CallMade ==
  ASSUME calls \in [Slots -> Calls],
         NEW op \in {"status", "history", "apply"}, NEW nr \in Nat, Fetch(op, nr)
  PROVE  \E i \in Slots :
           /\ calls' \in [Slots -> Calls]
           /\ calls[i].op = "free"
           /\ calls'[i].op = op /\ calls'[i].nr = nr /\ calls'[i].body = <<>>
           /\ \A j \in Slots \ {i} : calls'[j] = calls[j]
<1>1. PICK i \in Slots :
        /\ calls[i] = FreeSlot
        /\ calls' = [calls EXCEPT ![i] = [op |-> op, at |-> "server", nr |-> nr, body |-> <<>>]]
  BY DEF Fetch
<1>2. [op |-> op, at |-> "server", nr |-> nr, body |-> <<>>] \in Calls
  BY DEF Calls
<1> QED BY <1>1, <1>2 DEF FreeSlot

-----------------------------------------------------------------------------
(* Types.                                                                  *)
LEMMA TypeInit == Init => TypeOK
<1> SUFFICES ASSUME Init PROVE TypeOK
  OBVIOUS
<1>1. OldReading \in Readings /\ FreeSlot \in Calls
  BY DEF OldReading, Readings, FreeSlot, Calls
<1>2. db \in Seq(Readings)
  <2>1. CASE db = <<>>
    BY <2>1
  <2>2. CASE db = <<OldReading>>
    BY <1>1, <2>2
  <2>3. db = <<>> \/ db = <<OldReading>>
    BY Zenon DEF Init, ServerInit
  <2> QED BY <2>1, <2>2, <2>3
<1>3. calls \in [Slots -> Calls]
  BY <1>1 DEF Init, ServerInit
<1>4. world.applies \in Nat
  BY ServerAssumption DEF Init, ServerInit
<1>5. before \in [1..world.applies -> SUBSET Nat]
  BY <1>4 DEF Init
<1>6. overlapped \in BOOLEAN
  BY Zenon DEF Init
<1>7. /\ handler \in [at : {"idle", "setAuto", "setTarget", "push"}, msg : [nr : Int, cmd : Nat]]
      /\ handler.at = "idle"
  BY DEF Init, ServerInit, NoStatus
<1>8. Len(outgoing) = 0 /\ transmitted = 0
  BY DEF Init, ServerInit
<1> QED BY <1>2, <1>3, <1>4, <1>5, <1>6, <1>7, <1>8 DEF Init, ServerInit, TypeOK

LEMMA TypeStep == TypeOK /\ [Next]_vars => TypeOK'
<1> SUFFICES ASSUME TypeOK, [Next]_vars PROVE TypeOK'
  OBVIOUS
<1>0. world.applies \in Nat /\ applies \in Nat
  BY ServerAssumption DEF TypeOK
<1>1. CASE Handler /\ UNCHANGED pageVars
  <2>1. CASE HandleMessage
    <3>1. Head(arriving) \in Readings /\ Tail(arriving) \in Seq(Readings)
      BY <2>1, SequenceFacts DEF TypeOK, HandleMessage
    <3>2. /\ handler' \in [at : {"idle", "setAuto", "setTarget", "push"}, msg : [nr : Int, cmd : Nat]]
          /\ handler'.msg \in Readings
      BY <2>1, <3>1 DEF HandleMessage, Readings
    <3> QED BY <1>1, <2>1, <3>1, <3>2 DEF TypeOK, HandleMessage, pageVars, ctrlVars
  <2>2. CASE HandlerSetsMode
    <3>1. /\ handler'.msg = handler.msg /\ handler.at # "idle"
          /\ handler' \in [at : {"idle", "setAuto", "setTarget", "push"}, msg : [nr : Int, cmd : Nat]]
      BY <2>2 DEF HandlerSetsMode, TypeOK
    <3> QED BY <1>1, <2>2, <3>1 DEF TypeOK, HandlerSetsMode, pageVars, ctrlVars, mqttVars
  <2>3. CASE PushReading
    <3>1. db' \in Seq(Readings)
      BY <2>3, AppendFacts DEF TypeOK, PushReading
    <3>2. handler'.at = "idle"
      BY <2>3 DEF PushReading
    <3> QED BY <1>1, <2>3, <3>1, <3>2 DEF TypeOK, PushReading, pageVars, ctrlVars, mqttVars
  <2>4. CASE PushReadingFails
    <3>1. handler'.at = "idle"
      BY <2>4 DEF PushReadingFails
    <3> QED BY <1>1, <2>4, <3>1 DEF TypeOK, PushReadingFails, pageVars, ctrlVars, mqttVars
  <2> QED BY <1>1, <2>1, <2>2, <2>3, <2>4 DEF Handler
<1>2. CASE Startup /\ UNCHANGED pageVars
  BY <1>2 DEF TypeOK, Startup, StartupQuery, StartupQueryFails, StartupSetsMode, pageVars,
     ctrlVars, mqttVars
<1>3. CASE Transmit /\ UNCHANGED pageVars
  <2>1. outgoing[transmitted + 1] \in Nat /\ transmitted + 1 \in 0..Len(outgoing)
    BY <1>3, SequenceFacts DEF TypeOK, Transmit
  <2>2. inbox' \in Seq(Nat)
    BY <1>3, <2>1, AppendFacts DEF TypeOK, Transmit
  <2> QED BY <1>3, <2>1, <2>2 DEF TypeOK, Transmit, pageVars, threadVars
<1>4. CASE Acknowledge /\ UNCHANGED pageVars
  <2>1. Len(outgoing) \in Nat /\ transmitted \in Nat /\ Len(outgoing) > 0
    BY <1>4, SequenceFacts DEF TypeOK, Acknowledge
  <2>2. outgoing # <<>>
    BY <2>1
  <2>3. outgoing' \in Seq(Nat) /\ Len(outgoing') = Len(outgoing) - 1
    BY <1>4, <2>2, SequenceFacts DEF TypeOK, Acknowledge
  <2>4. transmitted' \in 0..Len(outgoing')
    BY <1>4, <2>1, <2>3 DEF TypeOK, Acknowledge
  <2> QED BY <1>4, <2>3, <2>4 DEF TypeOK, Acknowledge, pageVars, threadVars, ctrlVars
<1>5. CASE (HandleConnect \/ Drop) /\ UNCHANGED pageVars
  <2>1. arriving' \in Seq(Readings) /\ transmitted' \in 0..Len(outgoing)
    <3>1. CASE HandleConnect
      BY <3>1 DEF TypeOK, HandleConnect
    <3>2. CASE Drop
      <4>1. Len(outgoing) \in Nat
        BY SequenceFacts DEF TypeOK
      <4>2. transmitted' = 0 /\ arriving' = <<>>
        BY <3>2 DEF Drop
      <4> QED BY <4>1, <4>2
    <3> QED BY <1>5, <3>1, <3>2
  <2> QED BY <1>5, <2>1 DEF TypeOK, HandleConnect, Drop, pageVars, threadVars, ctrlVars
<1>6. CASE ControllerTakes /\ UNCHANGED pageVars
  <2>1. ctrl' \in Nat /\ inbox' \in Seq(Nat)
    BY <1>6, SequenceFacts DEF TypeOK, ControllerTakes
  <2> QED BY <1>6, <2>1 DEF TypeOK, ControllerTakes, pageVars, threadVars, mqttVars
<1>7. CASE ControllerReports /\ UNCHANGED pageVars
  <2>1. statuses' \in Nat /\ [nr |-> statuses', cmd |-> ctrl] \in Readings
    BY <1>7 DEF TypeOK, ControllerReports, Readings
  <2>2. arriving' \in Seq(Readings)
    BY <1>7, <2>1, AppendFacts DEF TypeOK, ControllerReports
  <2> QED BY <1>7, <2>1, <2>2 DEF TypeOK, ControllerReports, pageVars, threadVars
<1>8. CASE (\E i \in Slots : Http(i)) /\ UNCHANGED pageVars
  <2> SUFFICES ASSUME NEW i \in Slots, Http(i), UNCHANGED pageVars PROVE TypeOK'
    BY <1>8
  <2>1. CASE GetStatus(i) \/ GetAllReadings(i) \/ QueryFails(i)
    <3>1. LatestReading \in Seq(Readings) /\ AllReadings \in Seq(Readings)
            /\ ServerError \in Seq(Readings)
      BY SequenceFacts, ReverseFacts DEF TypeOK, LatestReading, AllReadings, ServerError
    <3>2. calls' \in [Slots -> Calls]
      BY <2>1, <3>1, CallAnswered DEF GetStatus, GetAllReadings, QueryFails, TypeOK
    <3> QED BY <2>1, <3>2 DEF TypeOK, GetStatus, GetAllReadings, QueryFails, pageVars,
              threadVars, ctrlVars, mqttVars
  <2>2. CASE SetMode(i)
    <3>1. calls' \in [Slots -> Calls] /\ calls[i].nr \in Nat
      BY <2>2, CallApplied DEF SetMode, TypeOK, Calls
    <3>2. outgoing' \in Seq(Nat) /\ Len(outgoing') = Len(outgoing) + 1 /\ Len(outgoing) \in Nat
      BY <2>2, <3>1, AppendFacts DEF SetMode, TypeOK
    <3>3. transmitted \in 0..Len(outgoing')
      BY <3>2 DEF TypeOK
    <3>4. published' \subseteq Nat
      BY <2>2, <3>1 DEF SetMode, TypeOK
    <3> QED BY <2>2, <3>1, <3>2, <3>3, <3>4 DEF TypeOK, SetMode, pageVars, threadVars, ctrlVars
  <2>3. CASE SetModeUnpublished(i)
    <3>1. calls' \in [Slots -> Calls]
      BY <2>3, CallApplied DEF SetModeUnpublished, TypeOK
    <3> QED BY <2>3, <3>1 DEF TypeOK, SetModeUnpublished, pageVars, threadVars, ctrlVars, mqttVars
  <2> QED BY <2>1, <2>2, <2>3 DEF Http
<1>9. CASE RefreshStatus \/ RefreshHistory
  <2>1. calls' \in [Slots -> Calls]
    BY <1>9, CallMade DEF RefreshStatus, RefreshHistory, TypeOK
  <2>2. table' \in Seq(Readings)
    <3>1. CASE RefreshStatus
      BY <3>1 DEF RefreshStatus, TypeOK, pageVars
    <3>2. CASE RefreshHistory
      BY <3>2 DEF RefreshHistory
    <3> QED BY <1>9, <3>1, <3>2
  <2>3. overlapped' \in BOOLEAN
    <3>1. CASE RefreshStatus
      BY <3>1 DEF RefreshStatus, TypeOK, pageVars
    <3>2. CASE RefreshHistory
      BY <3>2, Zenon DEF RefreshHistory, HistoryAsked
    <3> QED BY <1>9, <3>1, <3>2
  <2> QED BY <1>9, <2>1, <2>2, <2>3 DEF TypeOK, RefreshStatus, RefreshHistory, Fetch, pageVars,
            threadVars, ctrlVars, mqttVars
<1>10. CASE ApplySettings
  <2>1. applies' = applies + 1 /\ applies' \in 0..world.applies /\ applies' \in 1..world.applies
    BY <1>0, <1>10 DEF ApplySettings, TypeOK
  <2>2. calls' \in [Slots -> Calls]
    BY <1>0, <1>10, <2>1, CallMade DEF ApplySettings, TypeOK
  <2>3. before' \in [1..world.applies -> SUBSET Nat]
    BY <1>10, <2>1 DEF ApplySettings, TypeOK
  <2> QED BY <1>10, <2>1, <2>2, <2>3 DEF TypeOK, ApplySettings, Fetch, threadVars, ctrlVars,
            mqttVars
<1>11. CASE \E i \in Slots : Show(i)
  <2> SUFFICES ASSUME NEW i \in Slots, Show(i) PROVE TypeOK'
    BY <1>11
  <2>1. calls' \in [Slots -> Calls] /\ calls[i].nr \in Nat /\ calls[i].body \in Seq(Readings)
    BY CallFreed DEF Show, ShowStatus, ShowHistory, SettingsConfirmed, Answered, TypeOK, Calls
  <2>2. table' \in Seq(Readings)
    <3>1. CASE ShowHistory(i)
      BY <2>1, <3>1 DEF ShowHistory, TypeOK
    <3>2. CASE ShowStatus(i) \/ SettingsConfirmed(i)
      BY <3>2 DEF ShowStatus, SettingsConfirmed, TypeOK
    <3> QED BY <3>1, <3>2 DEF Show
  <2>3. confirmed' \subseteq Nat
    BY <2>1 DEF Show, ShowStatus, ShowHistory, SettingsConfirmed, TypeOK
  <2> QED BY <2>1, <2>2, <2>3 DEF TypeOK, Show, ShowStatus, ShowHistory, SettingsConfirmed,
            Answered, threadVars, ctrlVars, mqttVars
<1>12. CASE \E i \in Slots : FetchFails(i)
  <2>1. calls' \in [Slots -> Calls]
    BY <1>12, CallFreed DEF FetchFails, TypeOK
  <2> QED BY <1>12, <2>1 DEF TypeOK, FetchFails, threadVars, ctrlVars, mqttVars
<1>13. CASE UNCHANGED vars
  BY <1>13 DEF TypeOK, vars, serverVars, pageVars, threadVars, ctrlVars, mqttVars
<1> QED
  BY <1>1, <1>2, <1>3, <1>4, <1>5, <1>6, <1>7, <1>8, <1>9, <1>10, <1>11, <1>12, <1>13
  DEF Next, ServerNext, PageNext, Link

(* Whatever is stored, lost or answered late, messages and readings are    *)
(* well formed, and the client never counts more settings transmitted than *)
(* it keeps to send again.                                                 *)
THEOREM TypeCorrect == Spec => []TypeOK
BY TypeInit, TypeStep, PTL DEF Spec

-----------------------------------------------------------------------------
(* The history.  Readings stay in the order of publication on their way    *)
(* through the MQTT client, handle_message() and the database.             *)
Increasing(s) == \A i, j \in DOMAIN s : i < j => s[i].nr < s[j].nr
Decreasing(s) == \A i, j \in DOMAIN s : i < j => s[j].nr < s[i].nr
Below(s, n) == \A i \in DOMAIN s : s[i].nr < n

ReadingsInOrder ==
  /\ Increasing(db) /\ Below(db, statuses + 1)
  /\ Increasing(arriving) /\ Below(arriving, statuses + 1)
  /\ \A j \in DOMAIN arriving : Below(db, arriving[j].nr)
  /\ handler.at # "idle" => Below(db, handler.msg.nr)
  /\ handler.at # "idle" => handler.msg.nr <= statuses
  /\ handler.at # "idle" => \A j \in DOMAIN arriving : handler.msg.nr < arriving[j].nr

Asked(i) == calls[i].op = "history"

(* Unless refreshes overlapped there is one answer to wait for, and the    *)
(* table stays empty until it is shown.                                    *)
OneAnswer ==
  /\ Decreasing(table)
  /\ \A i \in Slots : Asked(i) => table = <<>>
  /\ \A i, j \in Slots : Asked(i) /\ Asked(j) => i = j

HistoryInv ==
  /\ ReadingsInOrder
  /\ \A i \in Slots : Asked(i) => Decreasing(calls[i].body)
  /\ ~overlapped => OneAnswer

LEMMA AppendIncreasing ==
  ASSUME NEW s \in Seq(Readings), NEW e \in Readings, Increasing(s), Below(s, e.nr)
  PROVE  Increasing(Append(s, e))
<1> DEFINE t == Append(s, e)
<1>1. Len(s) \in Nat /\ DOMAIN s = 1..Len(s) /\ \A i \in DOMAIN s : s[i] \in Readings
  BY SequenceFacts
<1>2. /\ DOMAIN t = 1..(Len(s) + 1) /\ t[Len(s) + 1] = e
      /\ \A i \in 1..Len(s) : t[i] = s[i]
  BY <1>1, AppendFacts
<1> SUFFICES ASSUME NEW i \in DOMAIN t, NEW j \in DOMAIN t, i < j PROVE t[i].nr < t[j].nr
  BY DEF Increasing
<1> HIDE DEF t
<1>3. i \in DOMAIN s /\ t[i] = s[i]
  BY <1>1, <1>2
<1>4. CASE j = Len(s) + 1
  BY <1>2, <1>3, <1>4 DEF Below
<1>5. CASE j # Len(s) + 1
  <2>1. j \in DOMAIN s /\ t[j] = s[j]
    BY <1>1, <1>2, <1>5
  <2> QED BY <1>3, <2>1 DEF Increasing
<1> QED BY <1>4, <1>5

LEMMA AppendBelow ==
  ASSUME NEW s \in Seq(Readings), NEW e \in Readings, NEW n \in Nat,
         Below(s, n), e.nr < n
  PROVE  Below(Append(s, e), n)
<1>1. Len(s) \in Nat /\ DOMAIN s = 1..Len(s)
  BY SequenceFacts
<1>2. DOMAIN Append(s, e) = 1..(Len(s) + 1)
  BY <1>1, AppendFacts
<1> QED BY <1>1, <1>2, AppendFacts DEF Below

LEMMA BelowMore ==
  ASSUME NEW s \in Seq(Readings), NEW m \in Int, NEW n \in Int, m <= n, Below(s, m)
  PROVE  Below(s, n)
<1> SUFFICES ASSUME NEW i \in DOMAIN s PROVE s[i].nr < n
  BY DEF Below
<1>1. s[i].nr \in Nat
  BY ReadingNumbered
<1> QED BY <1>1 DEF Below

LEMMA TailIncreasing ==
  ASSUME NEW s \in Seq(Readings), s # <<>>, Increasing(s)
  PROVE  /\ Increasing(Tail(s))
         /\ \A j \in DOMAIN Tail(s) : Head(s).nr < Tail(s)[j].nr
         /\ \A j \in DOMAIN Tail(s) : \E k \in DOMAIN s : Tail(s)[j] = s[k]
<1>1. /\ Len(s) \in Nat /\ DOMAIN s = 1..Len(s) /\ Len(s) > 0 /\ Head(s) = s[1]
      /\ DOMAIN Tail(s) = 1..(Len(s) - 1)
      /\ \A i \in 1..(Len(s) - 1) : Tail(s)[i] = s[i + 1]
  BY SequenceFacts
<1> DEFINE t == Tail(s)
<1>2. \A j \in DOMAIN t : j + 1 \in DOMAIN s /\ t[j] = s[j + 1]
  BY <1>1
<1>3. Increasing(t)
  <2> HIDE DEF t
  <2> SUFFICES ASSUME NEW i \in DOMAIN t, NEW j \in DOMAIN t, i < j PROVE t[i].nr < t[j].nr
    BY DEF Increasing
  <2>1. i + 1 < j + 1
    BY <1>1, Zenon, SMT DEF t
  <2> QED BY <1>2, <2>1 DEF Increasing
<1>4. \A j \in DOMAIN t : s[1].nr < t[j].nr
  <2> SUFFICES ASSUME NEW j \in DOMAIN t PROVE s[1].nr < t[j].nr
    OBVIOUS
  <2>1. 1 < j + 1 /\ 1 \in DOMAIN s
    BY <1>1
  <2> QED BY <1>2, <2>1 DEF Increasing
<1> QED BY <1>1, <1>2, <1>3, <1>4

LEMMA ReverseDecreasing ==
  ASSUME NEW s \in Seq(Readings), Increasing(s)
  PROVE  Decreasing(Reverse(s))
<1> DEFINE t == Reverse(s)
<1>1. /\ Len(s) \in Nat /\ DOMAIN s = 1..Len(s) /\ DOMAIN t = 1..Len(s)
      /\ \A i \in 1..Len(s) : t[i] = s[(Len(s) - i) + 1]
  BY SequenceFacts, ReverseFacts
<1> HIDE DEF t
<1>2. SUFFICES ASSUME NEW i \in DOMAIN t, NEW j \in DOMAIN t, i < j PROVE t[j].nr < t[i].nr
  BY DEF Decreasing, t
<1> DEFINE k == (Len(s) - j) + 1
           l == (Len(s) - i) + 1
<1>3. k \in DOMAIN s /\ l \in DOMAIN s /\ k < l
  BY <1>1, <1>2
<1>4. t[i] = s[l] /\ t[j] = s[k]
  BY <1>1
<1> HIDE DEF k, l
<1> QED BY <1>3, <1>4 DEF Increasing

(* Few steps touch a reading on its way.                                   *)
LEMMA OrderTouched ==
  ASSUME [Next]_vars
  PROVE  \/ HandleMessage \/ HandlerSetsMode \/ PushReading \/ PushReadingFails
         \/ Drop \/ ControllerReports
         \/ UNCHANGED <<db, arriving, statuses, handler>>
<1>1. CASE ServerNext
  <2>1. CASE Startup
    BY <2>1 DEF Startup, StartupQuery, StartupQueryFails, StartupSetsMode, ctrlVars, mqttVars
  <2>2. CASE Link
    BY <2>2 DEF Link, Transmit, Acknowledge, HandleConnect, ControllerTakes, threadVars,
       ctrlVars, mqttVars
  <2>3. CASE \E i \in Slots : Http(i)
    BY <2>3 DEF Http, GetStatus, GetAllReadings, QueryFails, SetMode, SetModeUnpublished,
       threadVars, ctrlVars, mqttVars
  <2> QED BY <1>1, <2>1, <2>2, <2>3 DEF ServerNext, Handler
<1>2. CASE PageNext
  BY <1>2 DEF PageNext, RefreshStatus, RefreshHistory, ApplySettings, Show, ShowStatus,
     ShowHistory, SettingsConfirmed, FetchFails, Fetch, Answered, threadVars, ctrlVars, mqttVars
<1>3. CASE UNCHANGED vars
  BY <1>3 DEF vars, serverVars, threadVars, ctrlVars, mqttVars
<1> QED BY <1>1, <1>2, <1>3 DEF Next

LEMMA OrderStep ==
  ASSUME TypeOK, ReadingsInOrder, [Next]_vars
  PROVE  ReadingsInOrder'
<1> USE DEF ReadingsInOrder
<1>0. statuses \in Nat /\ db \in Seq(Readings) /\ arriving \in Seq(Readings)
  BY DEF TypeOK
<1>1. CASE HandleMessage
  <2>1. /\ arriving # <<>> /\ arriving' = Tail(arriving) /\ handler'.msg = Head(arriving)
        /\ db' = db /\ statuses' = statuses
    BY <1>1 DEF HandleMessage, ctrlVars
  <2>2. Head(arriving) = arriving[1] /\ 1 \in DOMAIN arriving /\ arriving[1].nr \in Nat
    <3>1. Head(arriving) = arriving[1] /\ 1 \in DOMAIN arriving
      BY <1>0, <2>1, SequenceFacts
    <3> QED BY <1>0, <3>1, ReadingNumbered
  <2>3. /\ Increasing(arriving')
        /\ \A j \in DOMAIN arriving' : Head(arriving).nr < arriving'[j].nr
        /\ \A j \in DOMAIN arriving' : \E k \in DOMAIN arriving : arriving'[j] = arriving[k]
    BY <1>0, <2>1, TailIncreasing
  <2>4. Below(arriving', statuses + 1)
    BY <2>3 DEF Below
  <2>5. \A j \in DOMAIN arriving' : Below(db, arriving'[j].nr)
    BY <2>3
  <2>6. Below(db, handler'.msg.nr) /\ handler'.msg.nr <= statuses
    BY <1>0, <2>1, <2>2 DEF Below
  <2> QED BY <2>1, <2>3, <2>4, <2>5, <2>6
<1>2. CASE HandlerSetsMode
  BY <1>2 DEF HandlerSetsMode, TypeOK, mqttVars, ctrlVars
<1>3. CASE PushReading
  <2>1. /\ handler.at = "push" /\ handler'.at = "idle" /\ db' = Append(db, handler.msg)
        /\ arriving' = arriving /\ statuses' = statuses /\ handler.msg \in Readings
    BY <1>3 DEF PushReading, TypeOK, mqttVars, ctrlVars
  <2>2. Increasing(db')
    BY <1>0, <2>1, AppendIncreasing
  <2>3. handler.msg.nr < statuses + 1
    BY <1>0, <2>1 DEF Readings
  <2>4. Below(db', statuses + 1)
    BY <1>0, <2>1, <2>3, AppendBelow
  <2>5. ASSUME NEW j \in DOMAIN arriving PROVE Below(db', arriving[j].nr)
    <3>1. arriving[j].nr \in Nat /\ handler.msg.nr < arriving[j].nr
      BY <1>0, <2>1, ReadingNumbered
    <3> QED BY <1>0, <2>1, <3>1, AppendBelow
  <2> QED BY <2>1, <2>2, <2>4, <2>5
<1>4. CASE PushReadingFails
  BY <1>4 DEF PushReadingFails, TypeOK, mqttVars, ctrlVars
<1>5. CASE Drop
  <2>1. /\ arriving' = <<>> /\ db' = db /\ statuses' = statuses /\ handler' = handler
        /\ DOMAIN <<>> = {}
    BY <1>5 DEF Drop, threadVars, ctrlVars
  <2> QED BY <2>1 DEF Increasing, Below
<1>6. CASE ControllerReports
  <2>1. statuses' = statuses + 1 /\ statuses' \in Nat /\ statuses + 1 <= statuses' + 1
          /\ db' = db /\ handler' = handler
    BY <1>0, <1>6 DEF ControllerReports, threadVars
  <2>2. Below(db, statuses' + 1)
    BY <1>0, <2>1, BelowMore
  <2>3. CASE arriving' = arriving
    <3>1. Below(arriving, statuses' + 1)
      BY <1>0, <2>1, BelowMore
    <3>2. handler.at # "idle" => handler.msg.nr <= statuses'
      BY <1>0, <2>1 DEF TypeOK, Readings
    <3> QED BY <2>1, <2>2, <2>3, <3>1, <3>2
  <2>4. CASE arriving' = Append(arriving, [nr |-> statuses', cmd |-> ctrl])
    <3> DEFINE e == [nr |-> statuses', cmd |-> ctrl]
    <3>1. e \in Readings /\ e.nr = statuses' /\ e.nr < statuses' + 1
      BY <2>1 DEF Readings, TypeOK
    <3> HIDE DEF e
    <3>2. arriving' = Append(arriving, e)
      BY <2>4 DEF e
    <3>3. Below(arriving, e.nr)
      BY <1>0, <2>1, <3>1, BelowMore
    <3>4. Increasing(arriving')
      BY <1>0, <3>1, <3>2, <3>3, AppendIncreasing
    <3>5. Below(arriving', statuses' + 1)
      <4>1. Below(arriving, statuses' + 1)
        BY <1>0, <2>1, BelowMore
      <4> QED BY <1>0, <2>1, <3>1, <3>2, <4>1, AppendBelow
    <3>6. \A j \in DOMAIN arriving' :
            \/ j \in DOMAIN arriving /\ arriving'[j] = arriving[j]
            \/ arriving'[j] = e
      <4>1. DOMAIN arriving' = 1..(Len(arriving) + 1) /\ DOMAIN arriving = 1..Len(arriving)
              /\ Len(arriving) \in Nat
        BY <1>0, <3>1, <3>2, AppendFacts, SequenceFacts
      <4> QED BY <1>0, <3>1, <3>2, <4>1, AppendFacts
    <3>7. Below(db, e.nr)
      BY <2>1, <3>1
    <3>8. handler.at # "idle" => handler.msg.nr <= statuses' /\ handler.msg.nr < e.nr
      BY <1>0, <2>1, <3>1 DEF TypeOK, Readings
    <3>9. \A j \in DOMAIN arriving' : Below(db, arriving'[j].nr)
      BY <3>6, <3>7
    <3>10. handler.at # "idle" => \A j \in DOMAIN arriving' : handler.msg.nr < arriving'[j].nr
      BY <3>6, <3>8
    <3> QED BY <2>1, <2>2, <3>4, <3>5, <3>8, <3>9, <3>10
  <2> QED BY <1>6, <2>3, <2>4 DEF ControllerReports
<1>7. CASE UNCHANGED <<db, arriving, statuses, handler>>
  BY <1>7
<1> QED BY <1>1, <1>2, <1>3, <1>4, <1>5, <1>6, <1>7, OrderTouched

LEMMA HistoryInit == Init => HistoryInv
<1> SUFFICES ASSUME Init PROVE HistoryInv
  OBVIOUS
<1>1. /\ arriving = <<>> /\ table = <<>> /\ handler.at = "idle" /\ statuses = 0
      /\ \A i \in Slots : calls[i].op = "free"
  BY DEF Init, ServerInit, FreeSlot
<1>2. Increasing(<<>>) /\ Decreasing(<<>>) /\ \A n \in Nat : Below(<<>>, n)
  BY DEF Increasing, Decreasing, Below
<1>3. Increasing(db) /\ Below(db, 1)
  <2>1. CASE db = <<>>
    BY <1>2, <2>1
  <2>2. CASE db = <<OldReading>>
    BY <2>2 DEF Increasing, Below, OldReading
  <2>3. db = <<>> \/ db = <<OldReading>>
    BY Zenon DEF Init, ServerInit
  <2> QED BY <2>1, <2>2, <2>3
<1>4. ReadingsInOrder
  <2>1. DOMAIN arriving = {}
    BY <1>1
  <2>2. Below(arriving, 1) /\ Increasing(arriving)
    BY <1>1, <1>2
  <2>3. statuses + 1 = 1
    BY <1>1
  <2> QED BY <1>1, <1>3, <2>1, <2>2, <2>3 DEF ReadingsInOrder
<1> QED BY <1>1, <1>2, <1>4, Zenon DEF HistoryInv, OneAnswer, Asked

(* A step that shows nothing and asks for nothing more keeps the invariant. *)
LEMMA HistoryKept ==
  ASSUME HistoryInv, ReadingsInOrder', table' = table, overlapped' = overlapped,
         \A i \in Slots : Asked(i)' => Asked(i) /\ Decreasing(calls'[i].body)
  PROVE  HistoryInv'
<1>1. OneAnswer => OneAnswer'
  BY DEF OneAnswer
<1>2. \A i \in Slots : Asked(i)' => Decreasing(calls'[i].body)
  OBVIOUS
<1>3. ~overlapped' => OneAnswer'
  BY <1>1 DEF HistoryInv
<1> QED BY <1>2, <1>3 DEF HistoryInv

LEMMA HistoryStep ==
  ASSUME TypeOK, HistoryInv, [Next]_vars
  PROVE  HistoryInv'
<1>0. ReadingsInOrder' /\ calls \in [Slots -> Calls]
  BY OrderStep DEF HistoryInv, TypeOK
<1>1. CASE ServerNext /\ UNCHANGED pageVars
  <2>0. table' = table /\ overlapped' = overlapped
    BY <1>1 DEF pageVars
  <2>1. CASE \E i \in Slots : Http(i)
    <3> SUFFICES ASSUME NEW i \in Slots, Http(i) PROVE HistoryInv'
      BY <2>1
    <3>1. /\ calls'[i].op = calls[i].op
          /\ \A j \in Slots \ {i} : calls'[j] = calls[j]
          /\ calls[i].op = "history" => Decreasing(calls'[i].body)
      <4>1. CASE GetStatus(i)
        <5>1. LatestReading \in Seq(Readings)
          BY SequenceFacts DEF LatestReading, ServerError, TypeOK
        <5> QED BY <1>0, <4>1, <5>1, CallAnswered DEF GetStatus
      <4>2. CASE GetAllReadings(i)
        <5>1. AllReadings \in Seq(Readings) /\ Decreasing(AllReadings)
          BY ReverseFacts, ReverseDecreasing DEF AllReadings, TypeOK, HistoryInv, ReadingsInOrder
        <5> QED BY <1>0, <4>2, <5>1, CallAnswered DEF GetAllReadings
      <4>3. CASE QueryFails(i)
        <5>1. ServerError \in Seq(Readings) /\ Decreasing(ServerError)
          BY DEF ServerError, Decreasing
        <5> QED BY <1>0, <4>3, <5>1, CallAnswered DEF QueryFails
      <4>4. CASE SetMode(i) \/ SetModeUnpublished(i)
        <5>1. calls[i].op = "apply"
          BY <4>4 DEF SetMode, SetModeUnpublished
        <5>2. calls'[i].op = calls[i].op /\ \A j \in Slots \ {i} : calls'[j] = calls[j]
          BY <1>0, <4>4, CallApplied DEF SetMode, SetModeUnpublished
        <5> QED BY <5>1, <5>2
      <4> QED BY <4>1, <4>2, <4>3, <4>4 DEF Http
    <3>2. \A j \in Slots : Asked(j)' => Asked(j) /\ Decreasing(calls'[j].body)
      BY <3>1 DEF Asked, HistoryInv
    <3> QED BY <1>0, <2>0, <3>2, HistoryKept
  <2>2. CASE Handler \/ Startup \/ Link \/ Drop \/ ControllerReports
    <3>1. calls' = calls
      BY <2>2 DEF Handler, HandleMessage, HandlerSetsMode, PushReading, PushReadingFails,
         Startup, StartupQuery, StartupQueryFails, StartupSetsMode, Link, Transmit, Acknowledge,
         HandleConnect, ControllerTakes, Drop, ControllerReports
    <3>2. \A j \in Slots : Asked(j)' => Asked(j) /\ Decreasing(calls'[j].body)
      BY <3>1 DEF Asked, HistoryInv
    <3> QED BY <1>0, <2>0, <3>2, HistoryKept
  <2> QED BY <1>1, <2>1, <2>2 DEF ServerNext
<1>2. CASE RefreshStatus \/ ApplySettings
  <2>0. table' = table /\ overlapped' = overlapped
    BY <1>2 DEF RefreshStatus, ApplySettings, pageVars
  <2>1. \A j \in Slots : Asked(j)' => calls'[j] = calls[j]
    <3>1. CASE RefreshStatus
      BY <1>0, <3>1, CallMade DEF RefreshStatus, Asked
    <3>2. CASE ApplySettings
      <4>1. applies' \in Nat
        BY <3>2, ServerAssumption DEF ApplySettings, TypeOK
      <4> QED BY <1>0, <3>2, <4>1, CallMade DEF ApplySettings, Asked
    <3> QED BY <1>2, <3>1, <3>2
  <2>2. \A j \in Slots : Asked(j)' => Asked(j) /\ Decreasing(calls'[j].body)
    BY <2>1 DEF Asked, HistoryInv
  <2> QED BY <1>0, <2>0, <2>2, HistoryKept
<1>3. CASE RefreshHistory
  <2>1. table' = <<>> /\ overlapped' = HistoryAsked
    BY <1>3 DEF RefreshHistory
  <2>2. PICK i \in Slots : /\ calls'[i].op = "history" /\ calls'[i].body = <<>>
                           /\ \A j \in Slots \ {i} : calls'[j] = calls[j]
    BY <1>0, <1>3, CallMade DEF RefreshHistory
  <2>3. Decreasing(<<>>)
    BY DEF Decreasing
  <2>4. \A j \in Slots : Asked(j)' => Decreasing(calls'[j].body)
    BY <2>2, <2>3 DEF Asked, HistoryInv
  <2>5. ~overlapped' => \A j \in Slots : Asked(j)' => j = i
    BY <2>1, <2>2, Zenon DEF HistoryAsked, Asked
  <2>6. ~overlapped' => OneAnswer'
    BY <2>1, <2>3, <2>5 DEF OneAnswer
  <2> QED BY <1>0, <2>4, <2>6 DEF HistoryInv
<1>4. CASE \E i \in Slots : Show(i)
  <2> SUFFICES ASSUME NEW i \in Slots, Show(i) PROVE HistoryInv'
    BY <1>4
  <2>1. /\ calls'[i].op = "free" /\ overlapped' = overlapped
        /\ \A j \in Slots \ {i} : calls'[j] = calls[j]
    BY <1>0, CallFreed DEF Show, ShowStatus, ShowHistory, SettingsConfirmed, Answered
  <2>2. \A j \in Slots : Asked(j)' => Asked(j) /\ j # i /\ Decreasing(calls'[j].body)
    BY <2>1 DEF Asked, HistoryInv
  <2>3. CASE ShowStatus(i) \/ SettingsConfirmed(i)
    <3>1. table' = table
      BY <2>3 DEF ShowStatus, SettingsConfirmed
    <3> QED BY <1>0, <2>1, <2>2, <3>1, HistoryKept
  <2>4. CASE ShowHistory(i)
    <3>1. Asked(i) /\ table' = table \o calls[i].body /\ calls[i].body \in Seq(Readings)
      BY <1>0, <2>4 DEF ShowHistory, Answered, Asked, Calls
    <3>2. ASSUME ~overlapped PROVE OneAnswer'
      <4>1. table = <<>> /\ \A j \in Slots : Asked(j) => j = i
        BY <3>1, <3>2 DEF HistoryInv, OneAnswer
      <4>2. table' = calls[i].body
        BY <3>1, <4>1
      <4>3. Decreasing(table') /\ \A j \in Slots : ~Asked(j)'
        BY <2>2, <3>1, <4>1, <4>2 DEF HistoryInv
      <4> QED BY <4>3 DEF OneAnswer
    <3> QED BY <1>0, <2>1, <2>2, <3>2 DEF HistoryInv
  <2> QED BY <2>3, <2>4 DEF Show
<1>5. CASE \E i \in Slots : FetchFails(i)
  <2>1. table' = table /\ overlapped' = overlapped
    BY <1>5 DEF FetchFails
  <2>2. \A j \in Slots : Asked(j)' => calls'[j] = calls[j]
    BY <1>0, <1>5, CallFreed DEF FetchFails, Asked
  <2>3. \A j \in Slots : Asked(j)' => Asked(j) /\ Decreasing(calls'[j].body)
    BY <2>2 DEF Asked, HistoryInv
  <2> QED BY <1>0, <2>1, <2>3, HistoryKept
<1>6. CASE UNCHANGED vars
  <2>1. table' = table /\ overlapped' = overlapped /\ calls' = calls
    BY <1>6 DEF vars, serverVars, pageVars
  <2>2. \A j \in Slots : Asked(j)' => Asked(j) /\ Decreasing(calls'[j].body)
    BY <2>1 DEF Asked, HistoryInv
  <2> QED BY <1>0, <2>1, <2>2, HistoryKept
<1> QED BY <1>1, <1>2, <1>3, <1>4, <1>5, <1>6 DEF Next, PageNext

(* Unless refreshes overlapped, the history table shows the newest reading *)
(* first and none twice, for any number of readings, calls and failures.   *)
THEOREM HistoryNewestFirstAlways == Spec => []HistoryNewestFirst
<1>1. Init => TypeOK /\ HistoryInv
  BY TypeInit, HistoryInit
<1>2. TypeOK /\ HistoryInv /\ [Next]_vars => TypeOK' /\ HistoryInv'
  BY TypeStep, HistoryStep
<1>3. HistoryInv => HistoryNewestFirst
  BY DEF HistoryInv, OneAnswer, Decreasing, HistoryNewestFirst
<1> QED BY <1>1, <1>2, <1>3, PTL DEF Spec

-----------------------------------------------------------------------------
(* The settings.  Each is applied, published and confirmed once; what was  *)
(* confirmed is no longer on its way to the server.                        *)
Applied(i) == calls[i].op = "apply"

ConfirmedOnce ==
  /\ published \subseteq 1..applies
  /\ \A i \in Slots : Applied(i) => calls[i].nr \in 1..applies
  /\ \A i \in Slots : Applied(i) => calls[i].nr \notin confirmed
  /\ \A i, j \in Slots : Applied(i) /\ Applied(j) /\ calls[i].nr = calls[j].nr => i = j
  /\ confirmed \subseteq 1..applies
  /\ \A n \in 1..world.applies : before[n] \subseteq confirmed

(* The settings published last end every sequence of settings that is not  *)
(* empty, and the controller holds them when none are left to take, unless *)
(* some must still be transmitted.                                         *)
EndsWith(last) ==
  /\ \A n \in published : last \notin before[n]
  /\ outgoing # <<>> => Last(outgoing) = last
  /\ transmitted = Len(outgoing) => last = (IF inbox = <<>> THEN ctrl ELSE Last(inbox))

LastInv == ConfirmedOnce /\ \E last \in Nat : EndsWith(last)

(* What LastSettingsStand promises of a quiet system: the controller does  *)
(* not hold settings confirmed before published ones were applied.         *)
QuietSettingsStand ==
  outgoing = <<>> /\ inbox = <<>> => \A n \in published : ctrl \notin before[n]

LEMMA LastInit == Init => LastInv
<1> SUFFICES ASSUME Init PROVE LastInv
  OBVIOUS
<1>1. /\ published = {} /\ confirmed = {} /\ \A i \in Slots : calls[i].op = "free"
      /\ outgoing = <<>> /\ inbox = <<>> /\ ctrl = 0
      /\ \A n \in 1..world.applies : before[n] = {}
  BY DEF Init, ServerInit, FreeSlot
<1>2. ConfirmedOnce
  BY <1>1 DEF ConfirmedOnce, Applied
<1>3. EndsWith(0)
  BY <1>1, Zenon DEF EndsWith
<1> QED BY <1>2, <1>3 DEF LastInv

(* The last element survives whatever happens at the head.                 *)
LEMMA LastOfAppend ==
  ASSUME NEW S, NEW s \in Seq(S), NEW e \in S
  PROVE  Append(s, e) # <<>> /\ Last(Append(s, e)) = e
<1>1. Len(Append(s, e)) = Len(s) + 1 /\ Len(s) \in Nat /\ Append(s, e)[Len(s) + 1] = e
  BY AppendFacts
<1>2. Append(s, e) # <<>>
  <2>1. Len(<<>>) = 0
    OBVIOUS
  <2>2. Len(Append(s, e)) # Len(<<>>)
    BY <1>1, <2>1
  <2> QED BY <2>2, Zenon
<1> QED BY <1>1, <1>2 DEF Last

LEMMA LastOfTail ==
  ASSUME NEW S, NEW s \in Seq(S), s # <<>>
  PROVE  /\ Tail(s) # <<>> => Last(Tail(s)) = Last(s)
         /\ Tail(s) = <<>> => Head(s) = Last(s)
<1>1. /\ Len(s) \in Nat /\ Len(s) > 0 /\ Head(s) = s[1] /\ Last(s) = s[Len(s)]
      /\ Tail(s) \in Seq(S) /\ Len(Tail(s)) = Len(s) - 1
      /\ \A i \in 1..(Len(s) - 1) : Tail(s)[i] = s[i + 1]
  BY SequenceFacts
<1>2. CASE Tail(s) = <<>>
  BY <1>1, <1>2, TailOfOne
<1>3. CASE Tail(s) # <<>>
  <2>1. Last(Tail(s)) = Tail(s)[Len(Tail(s))] /\ Len(Tail(s)) > 0
    BY <1>1, <1>3, SequenceFacts
  <2>2. Len(s) - 1 \in 1..(Len(s) - 1) /\ (Len(s) - 1) + 1 = Len(s)
    BY <1>1, <2>1
  <2> QED BY <1>1, <1>3, <2>1, <2>2
<1> QED BY <1>2, <1>3

LEMMA ConfirmedOnceStep ==
  ASSUME TypeOK, ConfirmedOnce, [Next]_vars
  PROVE  ConfirmedOnce'
<1> USE DEF ConfirmedOnce, Applied
<1>0. /\ calls \in [Slots -> Calls] /\ applies \in Nat /\ world.applies \in Nat
      /\ before \in [1..world.applies -> SUBSET Nat]
  BY ServerAssumption DEF TypeOK
<1>1. CASE ServerNext /\ UNCHANGED pageVars
  <2>0. applies' = applies /\ confirmed' = confirmed /\ before' = before /\ world' = world
    BY <1>1 DEF pageVars, ServerNext, Handler, HandleMessage, HandlerSetsMode, PushReading,
       PushReadingFails, Startup, StartupQuery, StartupQueryFails, StartupSetsMode, Link,
       Transmit, Acknowledge, HandleConnect, ControllerTakes, Drop, ControllerReports, Http,
       GetStatus, GetAllReadings, QueryFails, SetMode, SetModeUnpublished, ctrlVars
  <2>1. CASE \E i \in Slots : Http(i)
    <3> SUFFICES ASSUME NEW i \in Slots, Http(i) PROVE ConfirmedOnce'
      BY <2>1
    <3>1. CASE GetStatus(i) \/ GetAllReadings(i) \/ QueryFails(i)
      <4>1. LatestReading \in Seq(Readings) /\ AllReadings \in Seq(Readings)
              /\ ServerError \in Seq(Readings)
        BY SequenceFacts, ReverseFacts DEF TypeOK, LatestReading, AllReadings, ServerError
      <4>2. \A j \in Slots : calls'[j].op = calls[j].op /\ calls'[j].nr = calls[j].nr
        BY <1>0, <3>1, <4>1, CallAnswered DEF GetStatus, GetAllReadings, QueryFails
      <4>3. published' = published
        BY <3>1 DEF GetStatus, GetAllReadings, QueryFails, mqttVars
      <4> QED BY <2>0, <4>2, <4>3
    <3>2. CASE SetMode(i) \/ SetModeUnpublished(i)
      <4>1. \A j \in Slots : calls'[j].op = calls[j].op /\ calls'[j].nr = calls[j].nr
        BY <1>0, <3>2, CallApplied DEF SetMode, SetModeUnpublished
      <4>2. published' \subseteq 1..applies
        BY <3>2 DEF SetMode, SetModeUnpublished, mqttVars
      <4> QED BY <2>0, <4>1, <4>2
    <3> QED BY <3>1, <3>2 DEF Http
  <2>2. CASE Handler \/ Startup \/ Link \/ Drop \/ ControllerReports
    <3>1. calls' = calls /\ published' = published
      BY <2>2 DEF Handler, HandleMessage, HandlerSetsMode, PushReading, PushReadingFails,
         Startup, StartupQuery, StartupQueryFails, StartupSetsMode, Link, Transmit, Acknowledge,
         HandleConnect, ControllerTakes, Drop, ControllerReports, mqttVars
    <3> QED BY <2>0, <3>1
  <2> QED BY <1>1, <2>1, <2>2 DEF ServerNext
<1>2. CASE RefreshStatus \/ RefreshHistory
  <2>1. \A j \in Slots : Applied(j)' => calls'[j] = calls[j]
    <3>1. CASE RefreshStatus
      BY <1>0, <3>1, CallMade DEF RefreshStatus
    <3>2. CASE RefreshHistory
      BY <1>0, <3>2, CallMade DEF RefreshHistory
    <3> QED BY <1>2, <3>1, <3>2
  <2>2. applies' = applies /\ confirmed' = confirmed /\ before' = before /\ world' = world
          /\ published' = published
    BY <1>2 DEF RefreshStatus, RefreshHistory, Fetch, pageVars, ctrlVars, mqttVars
  <2> QED BY <2>1, <2>2
<1>3. CASE ApplySettings
  <2>1. /\ applies' = applies + 1 /\ applies' \in 1..world.applies /\ confirmed' = confirmed
        /\ world' = world /\ published' = published
        /\ before' = [before EXCEPT ![applies'] = confirmed]
    BY <1>0, <1>3 DEF ApplySettings, Fetch, ctrlVars, mqttVars
  <2>2. PICK i \in Slots : /\ calls'[i].op = "apply" /\ calls'[i].nr = applies'
                           /\ \A j \in Slots \ {i} : calls'[j] = calls[j]
    BY <1>0, <1>3, <2>1, CallMade DEF ApplySettings
  <2>3. applies' \notin 1..applies /\ 1..applies \subseteq 1..applies' /\ applies' \in 1..applies'
    BY <1>0, <2>1
  <2>4. \A n \in 1..world.applies : before'[n] \subseteq confirmed
    BY <1>0, <2>1
  <2>5. \A j \in Slots : Applied(j)' => calls'[j].nr \in 1..applies' /\ calls'[j].nr \notin confirmed
    BY <2>2, <2>3
  <2>6. \A j, k \in Slots : Applied(j)' /\ Applied(k)' /\ calls'[j].nr = calls'[k].nr => j = k
    BY <2>2, <2>3
  <2>7. published' \subseteq 1..applies' /\ confirmed' \subseteq 1..applies'
    BY <2>1, <2>3
  <2> QED BY <2>1, <2>4, <2>5, <2>6, <2>7
<1>4. CASE \E i \in Slots : Show(i)
  <2> SUFFICES ASSUME NEW i \in Slots, Show(i) PROVE ConfirmedOnce'
    BY <1>4
  <2>1. /\ calls'[i].op = "free" /\ \A j \in Slots \ {i} : calls'[j] = calls[j]
        /\ applies' = applies /\ before' = before /\ world' = world /\ published' = published
    BY <1>0, CallFreed DEF Show, ShowStatus, ShowHistory, SettingsConfirmed, Answered,
       ctrlVars, mqttVars
  <2>2. CASE ShowStatus(i) \/ ShowHistory(i)
    <3>1. confirmed' = confirmed
      BY <2>2 DEF ShowStatus, ShowHistory
    <3> QED BY <2>1, <3>1
  <2>3. CASE SettingsConfirmed(i)
    <3>1. confirmed' = confirmed \cup {calls[i].nr} /\ calls[i].op = "apply"
      BY <2>3 DEF SettingsConfirmed, Answered
    <3> QED BY <2>1, <3>1
  <2> QED BY <2>2, <2>3 DEF Show
<1>5. CASE \E i \in Slots : FetchFails(i)
  <2>1. PICK i \in Slots : calls'[i].op = "free" /\ \A j \in Slots \ {i} : calls'[j] = calls[j]
    BY <1>0, <1>5, CallFreed DEF FetchFails
  <2>2. applies' = applies /\ confirmed' = confirmed /\ before' = before /\ world' = world
          /\ published' = published
    BY <1>5 DEF FetchFails, ctrlVars, mqttVars
  <2> QED BY <2>1, <2>2
<1>6. CASE UNCHANGED vars
  BY <1>6 DEF vars, serverVars, pageVars, ctrlVars, mqttVars
<1> QED BY <1>1, <1>2, <1>3, <1>4, <1>5, <1>6 DEF Next, PageNext

(* Steps that leave the settings where they are.                           *)
LEMMA LastKept ==
  ASSUME TypeOK, ConfirmedOnce, NEW last, EndsWith(last),
         UNCHANGED <<outgoing, transmitted, inbox, ctrl, published>>,
         \A n \in published : before'[n] = before[n]
  PROVE  EndsWith(last)'
BY DEF EndsWith

LEMMA LastTransmit ==
  ASSUME TypeOK, NEW last, EndsWith(last), Transmit, before' = before
  PROVE  EndsWith(last)'
<1>1. /\ transmitted < Len(outgoing) /\ transmitted' = transmitted + 1
      /\ inbox' = Append(inbox, outgoing[transmitted + 1])
      /\ outgoing' = outgoing /\ published' = published
      /\ Len(outgoing) \in Nat /\ transmitted \in Nat
  BY SequenceFacts DEF Transmit, TypeOK
<1>2. outgoing # <<>> /\ Last(outgoing) = last /\ Last(outgoing) = outgoing[Len(outgoing)]
  <2>1. outgoing # <<>>
    BY <1>1
  <2> QED BY <2>1, SequenceFacts DEF EndsWith, TypeOK
<1>3. transmitted + 1 \in DOMAIN outgoing /\ outgoing[transmitted + 1] \in Nat
  <2>1. transmitted + 1 \in 1..Len(outgoing)
    BY <1>1
  <2>2. DOMAIN outgoing = 1..Len(outgoing) /\ \A i \in DOMAIN outgoing : outgoing[i] \in Nat
    BY SequenceFacts DEF TypeOK
  <2> QED BY <2>1, <2>2, Zenon
<1>4. inbox' # <<>> /\ Last(inbox') = outgoing[transmitted + 1]
  <2>1. inbox \in Seq(Nat)
    BY DEF TypeOK
  <2>2. PICK e \in Nat : e = outgoing[transmitted + 1]
    BY <1>3
  <2>3. inbox' = Append(inbox, e)
    BY <1>1, <2>2
  <2> QED BY <2>1, <2>2, <2>3, LastOfAppend
<1>5. transmitted' = Len(outgoing') => last = Last(inbox')
  BY <1>1, <1>2, <1>4
<1> QED BY <1>1, <1>2, <1>4, <1>5 DEF EndsWith

LEMMA LastAcknowledge ==
  ASSUME TypeOK, NEW last, EndsWith(last), Acknowledge, before' = before
  PROVE  EndsWith(last)'
<1>1. /\ transmitted > 0 /\ transmitted' = transmitted - 1 /\ outgoing' = Tail(outgoing)
      /\ published' = published /\ inbox' = inbox /\ ctrl' = ctrl
      /\ Len(outgoing) \in Nat /\ transmitted \in Nat /\ transmitted <= Len(outgoing)
  BY SequenceFacts DEF Acknowledge, TypeOK, ctrlVars
<1>2. outgoing # <<>>
  BY <1>1
<1>3. Len(outgoing') = Len(outgoing) - 1 /\ (outgoing' # <<>> => Last(outgoing') = Last(outgoing))
  BY <1>1, <1>2, SequenceFacts, LastOfTail DEF TypeOK
<1>4. transmitted' = Len(outgoing') => transmitted = Len(outgoing)
  BY <1>1, <1>3
<1> QED BY <1>1, <1>2, <1>3, <1>4 DEF EndsWith

LEMMA LastDrop ==
  ASSUME TypeOK, NEW last, EndsWith(last), Drop, before' = before
  PROVE  EndsWith(last)'
<1>1. /\ transmitted' = 0 /\ outgoing' = outgoing /\ published' = published
      /\ inbox' = inbox /\ ctrl' = ctrl
      /\ Len(outgoing) \in Nat /\ transmitted \in 0..Len(outgoing)
  BY SequenceFacts DEF Drop, TypeOK, ctrlVars
<1>2. transmitted' = Len(outgoing') => transmitted = Len(outgoing)
  BY <1>1
<1> QED BY <1>1, <1>2 DEF EndsWith

LEMMA LastTaken ==
  ASSUME TypeOK, NEW last, EndsWith(last), ControllerTakes, before' = before
  PROVE  EndsWith(last)'
<1>1. /\ inbox # <<>> /\ ctrl' = Head(inbox) /\ inbox' = Tail(inbox)
      /\ outgoing' = outgoing /\ transmitted' = transmitted /\ published' = published
  BY DEF ControllerTakes, mqttVars
<1>2. (IF inbox' = <<>> THEN ctrl' ELSE Last(inbox')) = Last(inbox)
  BY <1>1, LastOfTail DEF TypeOK
<1> QED BY <1>1, <1>2 DEF EndsWith

(* What is published now was not confirmed before any of the settings.     *)
LEMMA LastPublished ==
  ASSUME TypeOK, ConfirmedOnce, NEW i \in Slots, SetMode(i), before' = before
  PROVE  \E last \in Nat : EndsWith(last)'
<1>1. PICK n : /\ n = calls[i].nr /\ calls[i].op = "apply"
               /\ outgoing' = Append(outgoing, n)
               /\ published' = published \cup {n} /\ transmitted' = transmitted
  BY DEF SetMode
<1>2. n \in 1..applies /\ n \notin confirmed /\ n \in Nat /\ applies \in Nat
      /\ applies \in 0..world.applies /\ world.applies \in Nat
  BY <1>1, ServerAssumption DEF ConfirmedOnce, Applied, TypeOK
<1>3. \A m \in published' : n \notin before[m]
  <2> SUFFICES ASSUME NEW m \in published' PROVE n \notin before[m]
    OBVIOUS
  <2>1. m \in 1..applies
    BY <1>1, <1>2 DEF ConfirmedOnce
  <2>2. m \in 1..world.applies
    BY <1>2, <2>1
  <2> QED BY <1>2, <2>2 DEF ConfirmedOnce
<1>4. Last(outgoing') = n
  BY <1>1, <1>2, LastOfAppend DEF TypeOK
<1>5. transmitted' # Len(outgoing')
  <2>1. Len(outgoing') = Len(outgoing) + 1 /\ Len(outgoing) \in Nat
    BY <1>1, <1>2, AppendFacts DEF TypeOK
  <2> QED BY <1>1, <2>1 DEF TypeOK
<1>6. EndsWith(n)'
  BY <1>1, <1>3, <1>4, <1>5 DEF EndsWith
<1> QED BY <1>2, <1>6

LEMMA LastStep ==
  ASSUME TypeOK, LastInv, [Next]_vars
  PROVE  LastInv'
<1>0. ConfirmedOnce /\ ConfirmedOnce'
  BY ConfirmedOnceStep DEF LastInv
<1>1. PICK last \in Nat : EndsWith(last)
  BY DEF LastInv
<1> SUFFICES \E end \in Nat : EndsWith(end)'
  BY <1>0 DEF LastInv
<1>2. CASE ServerNext /\ UNCHANGED pageVars
  <2>1. before' = before
    BY <1>2 DEF pageVars
  <2>2. CASE \E i \in Slots : Http(i)
    <3> SUFFICES ASSUME NEW i \in Slots, Http(i) PROVE \E end \in Nat : EndsWith(end)'
      BY <2>2
    <3>1. CASE SetMode(i)
      BY <1>0, <2>1, <3>1, LastPublished
    <3>2. CASE GetStatus(i) \/ GetAllReadings(i) \/ QueryFails(i) \/ SetModeUnpublished(i)
      <4>1. UNCHANGED <<outgoing, transmitted, inbox, ctrl, published>>
        BY <3>2 DEF GetStatus, GetAllReadings, QueryFails, SetModeUnpublished, mqttVars, ctrlVars
      <4> QED BY <1>0, <1>1, <2>1, <4>1, LastKept
    <3> QED BY <3>1, <3>2 DEF Http
  <2>3. CASE Link \/ Drop
    <3>1. CASE HandleConnect
      <4>1. UNCHANGED <<outgoing, transmitted, inbox, ctrl, published>>
        BY <3>1 DEF HandleConnect, ctrlVars
      <4> QED BY <1>0, <1>1, <2>1, <4>1, LastKept
    <3>2. CASE Transmit
      BY <1>1, <2>1, <3>2, LastTransmit
    <3>3. CASE Acknowledge
      BY <1>1, <2>1, <3>3, LastAcknowledge
    <3>4. CASE ControllerTakes
      BY <1>1, <2>1, <3>4, LastTaken
    <3>5. CASE Drop
      BY <1>1, <2>1, <3>5, LastDrop
    <3> QED BY <2>3, <3>1, <3>2, <3>3, <3>4, <3>5 DEF Link
  <2>4. CASE Handler \/ Startup \/ ControllerReports
    <3>1. UNCHANGED <<outgoing, transmitted, inbox, ctrl, published>>
      BY <2>4 DEF Handler, HandleMessage, HandlerSetsMode, PushReading, PushReadingFails, Startup,
         StartupQuery, StartupQueryFails, StartupSetsMode, ControllerReports, mqttVars, ctrlVars
    <3> QED BY <1>0, <1>1, <2>1, <3>1, LastKept
  <2> QED BY <1>2, <2>2, <2>3, <2>4 DEF ServerNext
<1>3. CASE PageNext
  <2>1. UNCHANGED <<outgoing, transmitted, inbox, ctrl, published>>
    BY <1>3 DEF PageNext, RefreshStatus, RefreshHistory, ApplySettings, Show, ShowStatus,
       ShowHistory, SettingsConfirmed, FetchFails, Fetch, Answered, ctrlVars, mqttVars
  <2>2. \A n \in published : before'[n] = before[n]
    <3>1. CASE ApplySettings
      <4>1. applies' = applies + 1 /\ before' = [before EXCEPT ![applies'] = confirmed]
              /\ applies \in Nat
        BY <3>1, ServerAssumption DEF ApplySettings, TypeOK
      <4>2. \A n \in published : n # applies'
        BY <1>0, <4>1 DEF ConfirmedOnce
      <4>3. \A n \in published : n \in DOMAIN before
        <5>1. world.applies \in Nat /\ applies <= world.applies
          BY ServerAssumption DEF TypeOK
        <5> QED BY <1>0, <4>1, <5>1 DEF ConfirmedOnce, TypeOK
      <4> QED BY <4>1, <4>2, <4>3 DEF TypeOK
    <3>2. CASE ~ApplySettings
      <4>1. before' = before
        BY <1>3, <3>2 DEF PageNext, RefreshStatus, RefreshHistory, Show, ShowStatus, ShowHistory,
           SettingsConfirmed, FetchFails, pageVars
      <4> QED BY <4>1
    <3> QED BY <3>1, <3>2
  <2> QED BY <1>0, <1>1, <2>1, <2>2, LastKept
<1>4. CASE UNCHANGED vars
  <2>1. UNCHANGED <<outgoing, transmitted, inbox, ctrl, published>> /\ before' = before
    BY <1>4 DEF vars, serverVars, pageVars, ctrlVars, mqttVars
  <2> QED BY <1>0, <1>1, <2>1, LastKept
<1> QED BY <1>2, <1>3, <1>4 DEF Next

(* However often the connection was lost and settings were sent twice: a   *)
(* quiet controller never holds settings that were confirmed before the    *)
(* operator applied published ones.  With what TLC checks, that settings   *)
(* are eventually all taken, this is LastSettingsStand.                    *)
THEOREM QuietSettingsStandAlways == Spec => []QuietSettingsStand
<1>1. Init => TypeOK /\ LastInv
  BY TypeInit, LastInit
<1>2. TypeOK /\ LastInv /\ [Next]_vars => TypeOK' /\ LastInv'
  BY TypeStep, LastStep
<1>3. TypeOK /\ LastInv => QuietSettingsStand
  <2> SUFFICES ASSUME TypeOK, LastInv, outgoing = <<>>, inbox = <<>>
               PROVE  \A n \in published : ctrl \notin before[n]
    BY DEF QuietSettingsStand
  <2>1. Len(<<>>) = 0
    OBVIOUS
  <2>2. transmitted = Len(outgoing)
    BY <2>1 DEF TypeOK
  <2> QED BY <2>2, Zenon DEF LastInv, EndsWith
<1> QED BY <1>1, <1>2, <1>3, PTL DEF Spec
=============================================================================
