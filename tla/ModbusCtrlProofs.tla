-------------------------- MODULE ModbusCtrlProofs --------------------------
(* Theorems about ModbusCtrl, for every set of registers, every answer      *)
(* length and every bound.                                                  *)
EXTENDS ModbusCtrl, TLAPS

(* TypeOK with what makes it inductive: the thread inside start() has a     *)
(* register, and a running receive channel was aimed at one.                *)
TypeInv ==
  /\ TypeOK
  /\ pc \notin {"idle", "wait"} => who \in Registers
  /\ RxActive => rx.buf \in Registers

LEMMA TypeInit == ASSUME Init PROVE TypeInv
<1> USE ConstantsAssumption DEF Init
<1>1. rxbuf \in [Registers -> [1..BufLen -> Bytes \cup {NoByte}]]
  OBVIOUS
<1>2. rxLen \in [Registers -> 0..Junk]
  BY DEF Junk
<1>3. pending \in Seq(Registers) /\ line \in Seq(Bytes)
  OBVIOUS
<1>4. /\ rx \in [buf : Registers \cup {NoReg}, moved : Nat, left : Nat]
      /\ rx.moved + rx.left <= BufLen
      /\ ~RxActive
  BY DEF RxActive
<1> QED
  BY <1>1, <1>2, <1>3, <1>4 DEF TypeInv, TypeOK

(* An answer is a sequence of characters.                                   *)
LEMMA AnswerType ==
  ASSUME NEW r \in Registers, NEW k \in Kinds
  PROVE  /\ AnswerLen(r, k) \in Nat \ {0}
         /\ Answer(r, k) \in Seq(Bytes)
         /\ Len(Answer(r, k)) = AnswerLen(r, k)
<1>1. AnswerLen(r, k) \in Nat \ {0}
  BY ConstantsAssumption DEF AnswerLen, Kinds
<1>2. Answer(r, k) \in [1..AnswerLen(r, k) -> Bytes]
  BY <1>1 DEF Answer, Byte, Bytes, Kinds
<1> QED
  BY <1>1, <1>2

(* end() keeps the types, whoever calls it.                                 *)
LEMMA TypeEnd ==
  ASSUME TypeInv, NEW t \in BOOLEAN, End(t),
         UNCHANGED <<pc, who, user, bus, rxbuf>>,
         rxIrq' \in BOOLEAN, alarm' \in BOOLEAN
  PROVE  TypeInv'
<1>1. /\ rx.buf \in Registers \cup {NoReg} /\ rx.moved \in Nat
      /\ rx.left \in Nat /\ rx.moved + rx.left <= BufLen
      /\ rx = [buf |-> rx.buf, moved |-> rx.moved, left |-> rx.left]
  BY DEF TypeInv, TypeOK
<1>2. RxDistance \in 0..Junk
  BY <1>1, ConstantsAssumption DEF RxDistance, Junk
<1>3. rxLen' \in [Registers -> 0..Junk]
  BY <1>2 DEF End, TypeInv, TypeOK
<1>4. /\ rx' \in [buf : Registers \cup {NoReg}, moved : Nat, left : Nat]
      /\ rx'.moved + rx'.left <= BufLen
      /\ rx'.left > 0 => rx'.buf \in Registers
  <2>1. CASE t
    <3>1. rx' = [buf |-> rx.buf, moved |-> rx.moved, left |-> 0]
      BY <1>1, <2>1 DEF End
    <3> QED
      BY <1>1, <3>1, ConstantsAssumption
  <2>2. CASE ~t
    BY <1>1, <2>2 DEF End, TypeInv, RxActive
  <2> QED
    BY <2>1, <2>2
<1> QED
  BY <1>3, <1>4 DEF End, TypeInv, TypeOK, RxActive, bus

LEMMA TypeDmaMove == ASSUME TypeInv, DmaMove PROVE TypeInv'
<1>1. /\ rx.buf \in Registers /\ rx.moved \in Nat
      /\ rx.left \in Nat \ {0} /\ rx.moved + rx.left <= BufLen
      /\ rx = [buf |-> rx.buf, moved |-> rx.moved, left |-> rx.left]
  BY DEF TypeInv, TypeOK, RxActive, DmaMove
<1>2. Head(line) \in Bytes /\ Tail(line) \in Seq(Bytes)
  BY DEF TypeInv, TypeOK, DmaMove
<1>3. rxbuf' \in [Registers -> [1..BufLen -> Bytes \cup {NoByte}]]
  <2>1. /\ rxbuf \in [Registers -> [1..BufLen -> Bytes \cup {NoByte}]]
        /\ rxbuf' = [rxbuf EXCEPT ![rx.buf] =
                      [rxbuf[rx.buf] EXCEPT ![rx.moved + 1] = Head(line)]]
    BY DEF TypeInv, TypeOK, DmaMove
  <2>2. [rxbuf[rx.buf] EXCEPT ![rx.moved + 1] = Head(line)]
          \in [1..BufLen -> Bytes \cup {NoByte}]
    BY <1>1, <1>2, <2>1
  <2> QED
    BY <1>1, <2>1, <2>2
<1>4. rx' = [buf |-> rx.buf, moved |-> rx.moved + 1, left |-> rx.left - 1]
  BY <1>1 DEF DmaMove
<1>5. /\ rx' \in [buf : Registers \cup {NoReg}, moved : Nat, left : Nat]
      /\ rx'.moved + rx'.left <= BufLen
      /\ rx'.buf \in Registers
  BY <1>1, <1>4, ConstantsAssumption
<1> QED
  BY <1>2, <1>3, <1>5 DEF TypeInv, TypeOK, RxActive, DmaMove, Junk

LEMMA TypeNext == ASSUME TypeInv, [Next]_vars PROVE TypeInv'
<1> USE DEF TypeInv, TypeOK, RxActive, Thread, bus, Junk
<1>1. ASSUME NEW r \in Registers, Call(r) PROVE TypeInv'
  BY <1>1 DEF Call
<1>2. CASE Claim
  BY <1>2 DEF Claim
<1>3. CASE SetUser
  BY <1>3 DEF SetUser
<1>4. CASE RxStart
  <2>1. who \in Registers
    BY <1>4 DEF RxStart
  <2>2. /\ rx' \in [buf : Registers \cup {NoReg}, moved : Nat, left : Nat]
        /\ rx'.moved + rx'.left <= BufLen
        /\ rx'.buf \in Registers
    BY <1>4, <2>1, ConstantsAssumption DEF RxStart
  <2> QED
    BY <1>4, <2>1, <2>2 DEF RxStart
<1>5. CASE TxStart
  BY <1>5 DEF TxStart
<1>6. CASE Arm
  BY <1>6 DEF Arm
<1>7. CASE Wait
  BY <1>7 DEF Wait
<1>8. CASE WaitReturns
  BY <1>8 DEF WaitReturns
<1>9. CASE DmaIrq
  BY <1>9, TypeEnd DEF DmaIrq
<1>10. CASE AlarmFires
  BY <1>10, TypeEnd DEF AlarmFires
<1>11. CASE DmaMove
  BY <1>11, TypeDmaMove
<1>12. CASE TimePasses
  <2>1. quiet' \in Nat
    BY <1>12, ConstantsAssumption DEF TimePasses
  <2> QED
    BY <1>12, <2>1 DEF TimePasses
<1>13. CASE SlaveSilent
  BY <1>13 DEF SlaveSilent
<1>14. ASSUME NEW k \in Kinds, SlaveAnswers(k) PROVE TypeInv'
  <2>1. Head(pending) \in Registers /\ Tail(pending) \in Seq(Registers)
    BY <1>14 DEF SlaveAnswers
  <2>2. line' \in Seq(Bytes)
    BY <1>14, <2>1, AnswerType DEF SlaveAnswers
  <2> QED
    BY <1>14, <2>1, <2>2 DEF SlaveAnswers
<1>15. CASE UNCHANGED vars
  BY <1>15 DEF vars
<1> QED
  BY <1>1, <1>2, <1>3, <1>4, <1>5, <1>6, <1>7, <1>8, <1>9, <1>10, <1>11,
     <1>12, <1>13, <1>14, <1>15 DEF Next, Start, Handlers, Environment

(* The types of the state of modbus_controller.cpp and of the register      *)
(* objects hold in every behaviour, and the receive channel never writes    *)
(* outside the rxbuf it was aimed at, even when a late answer or a stale    *)
(* alarm makes start() re-aim a running channel.                            *)
THEOREM TypeCorrect == Spec => []TypeOK
<1>1. Init => TypeInv
  BY TypeInit
<1>2. TypeInv /\ [Next]_vars => TypeInv'
  BY TypeNext
<1>3. TypeInv => TypeOK
  BY DEF TypeInv
<1> QED
  BY <1>1, <1>2, <1>3, PTL DEF Spec

(* Outside start() a busy bus has an alarm that will free it, under every   *)
(* behaviour of slaves and interrupts.                                      *)
THEOREM BusyHasAlarmAlways == Spec => []BusyHasAlarm
<1> USE DEF BusyHasAlarm, InStart
<1>1. Init => BusyHasAlarm
  BY DEF Init
<1>2. BusyHasAlarm /\ [Next]_vars => BusyHasAlarm'
  <2> SUFFICES ASSUME BusyHasAlarm, [Next]_vars PROVE BusyHasAlarm'
    OBVIOUS
  <2>1. CASE (\E r \in Registers : Call(r)) \/ Wait \/ WaitReturns
    BY <2>1 DEF Call, Wait, WaitReturns, Thread
  <2>2. CASE Start
    BY <2>2 DEF Start, Claim, SetUser, RxStart, TxStart, Arm, Thread
  <2>3. CASE Handlers
    BY <2>3 DEF Handlers, DmaIrq, AlarmFires, End
  <2>4. CASE Environment
    BY <2>4 DEF Environment, DmaMove, TimePasses, SlaveSilent, SlaveAnswers
  <2>5. CASE UNCHANGED vars
    BY <2>5 DEF vars
  <2> QED
    BY <2>1, <2>2, <2>3, <2>4, <2>5 DEF Next
<1> QED
  BY <1>1, <1>2, PTL DEF Spec

-----------------------------------------------------------------------------
(* The regime in which the bus works: a slave that answers has finished     *)
(* before the alarm, and no alarm of an earlier exchange hits start().      *)
Clean == AnswersInTime /\ ~AlarmDuringStart

(* Nothing of any exchange is left on the bus or in the channel.            *)
Still == ~RxActive /\ pending = <<>> /\ line = <<>>

(* How far the exchange of `user` has come: its request is on the bus, or   *)
(* the characters moved so far and those still on the line make up one      *)
(* answer to it, or (moved = 0, nothing on the line) nobody will answer.    *)
Asked == pending = <<user>> /\ line = <<>> /\ rx.moved = 0
Answered(k) ==
  /\ pending = <<>>
  /\ rx.moved + Len(line) = AnswerLen(user, k)
  /\ \A i \in 1..rx.moved : rxbuf[user][i] = Byte(user, k, i)
  /\ \A i \in 1..Len(line) : line[i] = Byte(user, k, rx.moved + i)
Unanswered == pending = <<>> /\ line = <<>> /\ rx.moved = 0

Aimed == user \in Registers /\ rx.buf = user
Progress ==
  /\ Aimed
  /\ rx.moved + rx.left = RespLen[user]
  /\ pc = "tx" => Unanswered
  /\ Asked \/ Unanswered \/ \E k \in Kinds : Answered(k)

(* The inductive invariant of the clean regime.  Between exchanges the bus  *)
(* is quiet and rx_len says what the channel moved; from the aiming of the  *)
(* channel to the end of the exchange, Progress.                            *)
BusInv ==
  /\ pc \in {"user", "rx", "tx"} => busy /\ ~rxIrq /\ quiet >= get_char_delay
  /\ pc \in {"rx", "tx", "arm"} => user = who
  /\ ~busy \/ rxIrq \/ pc \in {"user", "rx"} => Still
  /\ ~busy => rx.buf = user /\ (user # NoReg => rxLen[user] = rx.moved)
  /\ busy /\ pc \notin {"user", "rx"} => Progress

(* FullLengthIsWhole, asked of the user too until its buffer is handed to   *)
(* the channel: what makes it inductive.                                    *)
Whole ==
  \A r \in Registers :
    rxLen[r] = RespLen[r] /\ ~(busy /\ user = r /\ pc \notin {"user", "rx"}) =>
      \A i \in 1..RespLen[r] : rxbuf[r][i] = Byte(r, "full", i)

SafeInv == TypeInv /\ BusInv /\ OwnBytes /\ Whole

LEMMA SafeInit == ASSUME Init PROVE SafeInv
<1>1. TypeInv
  BY TypeInit
<1>2. BusInv
  BY DEF Init, BusInv, Still, RxActive
<1>3. OwnBytes
  BY DEF Init, OwnBytes
<1>4. Whole
  BY ConstantsAssumption DEF Init, Whole, Junk
<1> QED
  BY <1>1, <1>2, <1>3, <1>4 DEF SafeInv

(* What the types say of the receive channel, for the steps that follow.    *)
LEMMA RxType ==
  ASSUME TypeInv
  PROVE  /\ rx.moved \in Nat /\ rx.left \in Nat
         /\ rx.moved + rx.left <= BufLen
         /\ rx = [buf |-> rx.buf, moved |-> rx.moved, left |-> rx.left]
         /\ rxLen \in [Registers -> 0..Junk]
         /\ busy \in BOOLEAN /\ rxIrq \in BOOLEAN /\ quiet \in Nat
  BY DEF TypeInv, TypeOK

(* A complete exchange has moved the whole answer asked for: an exception   *)
(* answer is shorter, and without an answer nothing moves.                  *)
LEMMA CompleteIsFull ==
  ASSUME TypeInv, Progress, line = <<>>, rx.moved = RespLen[user]
  PROVE  \A i \in 1..RespLen[user] : rxbuf[user][i] = Byte(user, "full", i)
<1>1. user \in Registers /\ RespLen[user] \in Nat /\ ErrorLen < RespLen[user]
      /\ ErrorLen \in Nat \ {0}
  BY ConstantsAssumption DEF Progress, Aimed
<1>2. rx.moved # 0
  BY <1>1
<1>3. PICK k \in Kinds : Answered(k)
  BY <1>2 DEF Progress, Asked, Unanswered
<1>4. rx.moved = AnswerLen(user, k)
  BY <1>1, <1>3 DEF Answered
<1>5. k = "full"
  BY <1>1, <1>4 DEF AnswerLen, Kinds
<1> QED
  BY <1>3, <1>5 DEF Answered

(* Only end() starts the delay anew.                                        *)
LEMMA StaysQuiet ==
  ASSUME TypeInv, (\E r \in Registers : Call(r)) \/ Wait \/ WaitReturns
                    \/ Arm \/ TimePasses \/ UNCHANGED vars
  PROVE  quiet >= get_char_delay => quiet' >= get_char_delay
<1>1. quiet \in Nat
  BY RxType
<1>2. CASE TimePasses
  <2>1. PICK t \in Pauses : t > quiet /\ quiet' = t
    BY <1>2 DEF TimePasses
  <2> QED
    BY <1>1, <2>1, ConstantsAssumption DEF get_char_delay
<1>3. CASE (\E r \in Registers : Call(r)) \/ Wait \/ WaitReturns \/ Arm \/ UNCHANGED vars
  <2>1. quiet' = quiet
    BY <1>3 DEF Call, Wait, WaitReturns, Arm, vars
  <2> QED
    BY <2>1
<1> QED
  BY <1>2, <1>3

(* Steps of the thread other than the four that follow change neither the   *)
(* channel nor the bus.                                                     *)
LEMMA SafeCaller ==
  ASSUME SafeInv, (\E r \in Registers : Call(r)) \/ Wait \/ WaitReturns
                    \/ Arm \/ TimePasses \/ UNCHANGED vars
  PROVE  BusInv' /\ OwnBytes' /\ Whole'
<1>1. quiet >= get_char_delay => quiet' >= get_char_delay
  BY StaysQuiet DEF SafeInv
<1> USE DEF SafeInv, Call, Wait, WaitReturns, Arm, TimePasses, vars, Thread,
            bus
<1>2. BusInv'
  BY <1>1 DEF BusInv, Still, RxActive, Progress, Aimed, Asked, Answered, Unanswered
<1>3. OwnBytes'
  BY DEF OwnBytes
<1>4. Whole'
  BY DEF Whole
<1> QED
  BY <1>2, <1>3, <1>4

LEMMA SafeStart ==
  ASSUME SafeInv, Claim \/ SetUser \/ RxStart \/ TxStart
  PROVE  BusInv' /\ OwnBytes' /\ Whole'
<1> USE DEF SafeInv, Thread, bus
<1>1. CASE Claim
  BY <1>1 DEF Claim, BusInv, Still, RxActive, OwnBytes, Whole
<1>2. CASE SetUser
  BY <1>2 DEF SetUser, BusInv, Still, RxActive, OwnBytes, Whole
<1>3. CASE RxStart
  <2>1. who \in Registers /\ RespLen[who] \in Nat
    BY <1>3, ConstantsAssumption DEF RxStart, TypeInv
  <2>2. /\ busy /\ ~rxIrq /\ quiet >= get_char_delay /\ user = who
        /\ ~RxActive /\ pending = <<>> /\ line = <<>>
    BY <1>3 DEF RxStart, BusInv, Still
  <2>3. rx' = [buf |-> who, moved |-> 0, left |-> RespLen[who]]
    BY <1>3, <2>2 DEF RxStart
  <2>4. Progress'
    BY <1>3, <2>1, <2>2, <2>3 DEF RxStart, Progress, Aimed, Unanswered
  <2>5. BusInv'
    BY <1>3, <2>2, <2>4 DEF RxStart, BusInv
  <2> QED
    BY <1>3, <2>5 DEF RxStart, OwnBytes, Whole
<1>4. CASE TxStart
  <2>1. busy /\ ~rxIrq /\ quiet >= get_char_delay /\ user = who /\ Progress /\ Unanswered
    BY <1>4 DEF TxStart, BusInv, Progress
  <2>2. pending' = <<who>>
    BY <1>4, <2>1, ConstantsAssumption DEF TxStart, Unanswered
  <2>3. Progress'
    BY <1>4, <2>1, <2>2 DEF TxStart, Progress, Aimed, Asked, Unanswered
  <2>4. BusInv'
    BY <1>4, <2>1, <2>3 DEF TxStart, BusInv
  <2> QED
    BY <1>4, <2>4 DEF TxStart, OwnBytes, Whole
<1> QED
  BY <1>1, <1>2, <1>3, <1>4

(* end() finds the bus quiet but for the channel it may have to stop, and   *)
(* reports what the channel moved.                                          *)
LEMMA SafeEnd ==
  ASSUME SafeInv, NEW t \in BOOLEAN, End(t), pc \notin {"user", "rx", "tx"},
         pending = <<>>, line = <<>>, t \/ ~RxActive,
         UNCHANGED <<pc, who, user, bus, rxbuf>>
  PROVE  BusInv' /\ OwnBytes' /\ Whole'
<1>1. rx'.buf = rx.buf /\ rx'.moved = rx.moved /\ ~RxActive'
  BY RxType DEF SafeInv, End, RxActive
<1>2. rx.buf = user
  BY DEF SafeInv, BusInv, Progress, Aimed
<1>3. \A r \in Registers :
        rxLen'[r] = IF r = user THEN rx.moved ELSE rxLen[r]
  BY <1>2, RxType DEF SafeInv, End, RxDistance
<1>4. BusInv'
  <2>1. Still' /\ ~busy'
    BY <1>1 DEF End, Still, bus
  <2>2. user # NoReg => user \in Registers
    BY DEF SafeInv, TypeInv, TypeOK
  <2> QED
    BY <1>1, <1>2, <1>3, <2>1, <2>2 DEF SafeInv, BusInv
<1>5. OwnBytes'
  BY DEF SafeInv, OwnBytes
<1>6. Whole'
  <2> SUFFICES ASSUME NEW r \in Registers, rxLen'[r] = RespLen[r]
               PROVE  \A i \in 1..RespLen[r] : rxbuf[r][i] = Byte(r, "full", i)
    BY DEF Whole
  <2>1. CASE r = user /\ busy
    <3>1. rx.moved = RespLen[user] /\ Progress
      BY <1>3, <2>1 DEF SafeInv, BusInv
    <3> QED
      BY <2>1, <3>1, CompleteIsFull DEF SafeInv
  <2>2. CASE r = user /\ ~busy
    <3>1. rxLen[r] = rx.moved
      BY <2>2, ConstantsAssumption DEF SafeInv, BusInv
    <3> QED
      BY <1>3, <2>2, <3>1 DEF SafeInv, Whole
  <2>3. CASE r # user
    BY <1>3, <2>3 DEF SafeInv, Whole
  <2> QED
    BY <2>1, <2>2, <2>3
<1> QED
  BY <1>4, <1>5, <1>6

(* One character more of the answer reaches its place in the user's buffer. *)
LEMMA SafeDmaMove ==
  ASSUME SafeInv, DmaMove
  PROVE  BusInv' /\ OwnBytes' /\ Whole'
<1>1. /\ RxActive /\ line # <<>> /\ line' = Tail(line)
      /\ UNCHANGED <<pc, who, busy, quiet, user, pending, rxLen>>
      /\ rxbuf' = [rxbuf EXCEPT ![rx.buf][rx.moved + 1] = Head(line)]
      /\ rxIrq' = (rxIrq \/ rx.left = 1)
  BY DEF DmaMove
<1>2. /\ busy /\ ~rxIrq /\ pc \notin {"user", "rx", "tx"}
      /\ Progress /\ user \in Registers /\ rx.buf = user
  BY <1>1, RxType DEF SafeInv, BusInv, Still, Progress, Unanswered, Aimed
<1>3. /\ rx.moved \in Nat /\ rx.left \in Nat \ {0}
      /\ rx.moved + rx.left <= BufLen
      /\ rx' = [buf |-> user, moved |-> rx.moved + 1, left |-> rx.left - 1]
  <2>1. /\ rx.moved \in Nat /\ rx.left \in Nat \ {0}
        /\ rx.moved + rx.left <= BufLen
        /\ rx = [buf |-> rx.buf, moved |-> rx.moved, left |-> rx.left]
    BY <1>1, <1>2, RxType DEF SafeInv, RxActive
  <2>2. rx' = [buf |-> rx.buf, moved |-> rx.moved + 1, left |-> rx.left - 1]
    BY <2>1 DEF DmaMove
  <2> QED
    BY <1>2, <2>1, <2>2
<1>4. PICK k \in Kinds : Answered(k)
  BY <1>1, <1>2 DEF Progress, Asked, Unanswered
<1>5. /\ line \in Seq(Bytes) /\ Len(line) \in Nat \ {0}
      /\ Len(line') = Len(line) - 1
      /\ \A i \in 1..Len(line') : line'[i] = line[i + 1]
      /\ Head(line) = line[1]
  BY <1>1 DEF SafeInv, TypeInv, TypeOK
<1>6. Head(line) = Byte(user, k, rx.moved + 1)
  BY <1>3, <1>4, <1>5 DEF Answered
<1>7. \A r \in Registers : \A i \in 1..BufLen :
        rxbuf'[r][i] = IF r = user /\ i = rx.moved + 1
                       THEN Byte(user, k, rx.moved + 1) ELSE rxbuf[r][i]
  BY <1>1, <1>2, <1>3, <1>6, ConstantsAssumption DEF SafeInv, TypeInv, TypeOK
<1>8. /\ AnswerLen(user, k) \in Nat /\ AnswerLen(user, k) <= RespLen[user]
      /\ RespLen[user] \in Nat /\ RespLen[user] <= BufLen
      /\ rx.moved + rx.left = RespLen[user]
      /\ rx.moved + Len(line) = AnswerLen(user, k)
  BY <1>2, <1>4, ConstantsAssumption
     DEF AnswerLen, Kinds, Progress, Answered
<1>9. Answered(k)'
  <2>1. pending' = <<>> /\ rx'.moved + Len(line') = AnswerLen(user', k)
    BY <1>1, <1>3, <1>4, <1>5, <1>8 DEF Answered, AnswerLen
  <2>2. \A i \in 1..rx'.moved : rxbuf'[user][i] = Byte(user, k, i)
    <3> SUFFICES ASSUME NEW i \in 1..(rx.moved + 1)
                 PROVE  rxbuf'[user][i] = Byte(user, k, i)
      BY <1>3
    <3>1. i \in 1..BufLen
      BY <1>3, ConstantsAssumption
    <3>2. CASE i = rx.moved + 1
      BY <1>2, <1>7, <3>1, <3>2
    <3>3. CASE i # rx.moved + 1
      <4>1. i \in 1..rx.moved
        BY <1>3, <3>3
      <4> QED
        BY <1>2, <1>4, <1>7, <3>1, <3>3, <4>1 DEF Answered
    <3> QED
      BY <3>2, <3>3
  <2>3. \A i \in 1..Len(line') : line'[i] = Byte(user, k, rx'.moved + i)
    <3> SUFFICES ASSUME NEW i \in 1..Len(line')
                 PROVE  line'[i] = Byte(user, k, rx.moved + 1 + i)
      BY <1>3
    <3>1. i + 1 \in 1..Len(line) /\ line'[i] = line[i + 1]
      BY <1>5
    <3>2. line[i + 1] = Byte(user, k, rx.moved + (i + 1))
      BY <1>4, <3>1 DEF Answered
    <3>3. rx.moved + (i + 1) = rx.moved + 1 + i
      <4>1. i \in Nat /\ rx.moved \in Nat
        BY <1>3, <1>5
      <4> QED
        BY <4>1
    <3> QED
      BY <3>1, <3>2, <3>3
  <2> QED
    BY <1>1, <2>1, <2>2, <2>3 DEF Answered, Byte, AnswerLen
<1>10. Progress'
  <2>1. rx'.buf = user /\ rx'.moved + rx'.left = RespLen[user]
    BY <1>3, <1>8
  <2> QED
    BY <1>1, <1>2, <1>9, <2>1 DEF Progress, Aimed
<1>11. rxIrq' => Still'
  <2> SUFFICES ASSUME rx.left = 1 PROVE Still'
    BY <1>1, <1>2
  <2>1. Len(line') = 0
    BY <1>3, <1>5, <1>8
  <2>2. line' = <<>>
    BY <1>1, <1>5, <2>1
  <2> QED
    BY <1>1, <1>3, <1>4, <2>2 DEF Still, RxActive, Answered
<1>12. BusInv'
  BY <1>1, <1>2, <1>10, <1>11 DEF SafeInv, BusInv
<1>13. OwnBytes'
  BY <1>7 DEF SafeInv, OwnBytes, Byte
<1>14. Whole'
  <2> SUFFICES ASSUME NEW r \in Registers, r # user, rxLen[r] = RespLen[r],
                      NEW i \in 1..RespLen[r]
               PROVE  rxbuf'[r][i] = Byte(r, "full", i)
    BY <1>1, <1>2 DEF Whole
  <2>1. i \in 1..BufLen
    BY ConstantsAssumption
  <2> QED
    BY <1>7, <2>1 DEF SafeInv, Whole
<1> QED
  BY <1>12, <1>13, <1>14

LEMMA SafeSlave ==
  ASSUME SafeInv, SlaveSilent \/ \E k \in Kinds : SlaveAnswers(k)
  PROVE  BusInv' /\ OwnBytes' /\ Whole'
<1>1. /\ pending # <<>>
      /\ UNCHANGED <<pc, who, busy, quiet, user, rx, rxIrq, rxbuf, rxLen>>
  BY DEF SlaveSilent, SlaveAnswers
<1>2. /\ busy /\ ~rxIrq /\ pc \notin {"user", "rx", "tx"} /\ Progress
      /\ user \in Registers
  BY <1>1, RxType
     DEF SafeInv, BusInv, Still, Progress, Unanswered, Aimed
<1>3. pending = <<user>> /\ line = <<>> /\ rx.moved = 0
  BY <1>1, <1>2 DEF Progress, Asked, Answered, Unanswered
<1>4. Progress'
  <2>1. CASE SlaveSilent
    BY <1>1, <1>2, <1>3, <2>1
       DEF SlaveSilent, Progress, Aimed, Unanswered
  <2>2. ASSUME NEW k \in Kinds, SlaveAnswers(k) PROVE Progress'
    <3>1. line' = Answer(user, k) /\ pending' = <<>>
      BY <1>2, <1>3, <2>2, AnswerType DEF SlaveAnswers
    <3>2. Len(line') = AnswerLen(user, k) /\ AnswerLen(user, k) \in Nat
      BY <1>2, <3>1, AnswerType
    <3>3. \A i \in 1..Len(line') : line'[i] = Byte(user, k, 0 + i)
      BY <3>1, <3>2 DEF Answer
    <3>4. Answered(k)'
      BY <1>1, <1>3, <3>1, <3>2, <3>3 DEF Answered, AnswerLen, Byte
    <3> QED
      BY <1>1, <1>2, <3>4 DEF Progress, Aimed
  <2> QED
    BY <2>1, <2>2
<1>5. BusInv'
  BY <1>1, <1>2, <1>4 DEF SafeInv, BusInv
<1> QED
  BY <1>1, <1>5 DEF SafeInv, OwnBytes, Whole

LEMMA SafeNext == ASSUME Clean, SafeInv, [Next]_vars PROVE SafeInv'
<1>1. TypeInv'
  BY TypeNext DEF SafeInv
<1>2. CASE \/ \E r \in Registers : Call(r)
           \/ Wait \/ WaitReturns \/ Arm \/ TimePasses \/ UNCHANGED vars
  BY <1>1, <1>2, SafeCaller DEF SafeInv
<1>3. CASE Claim \/ SetUser \/ RxStart \/ TxStart
  BY <1>1, <1>3, SafeStart DEF SafeInv
<1>4. CASE DmaIrq
  BY <1>1, <1>4, SafeEnd DEF DmaIrq, SafeInv, BusInv, Still
<1>5. CASE AlarmFires
  BY <1>1, <1>5, SafeEnd DEF AlarmFires, SafeInv, Clean, InStart
<1>6. CASE DmaMove
  BY <1>1, <1>6, SafeDmaMove DEF SafeInv
<1>7. CASE SlaveSilent \/ \E k \in Kinds : SlaveAnswers(k)
  BY <1>1, <1>7, SafeSlave DEF SafeInv
<1> QED
  BY <1>2, <1>3, <1>4, <1>5, <1>6, <1>7
     DEF Next, Start, Handlers, Environment

(* In the clean regime start(), the handlers and the line stay in step:     *)
(* what the four properties below and the simulation of SerialBus rest on.  *)
THEOREM SafeAlways == ASSUME Clean PROVE Spec => []SafeInv
<1>1. Init => SafeInv
  BY SafeInit
<1>2. SafeInv /\ [Next]_vars => SafeInv'
  BY SafeNext
<1> QED
  BY <1>1, <1>2, PTL DEF Spec

(* In the clean regime no answer reaches another register's buffer or lands *)
(* shifted in its own.                                                      *)
THEOREM OwnBytesAlways == ASSUME Clean PROVE Spec => []OwnBytes
<1>1. SafeInv => OwnBytes
  BY DEF SafeInv
<1> QED
  BY <1>1, SafeAlways, PTL

(* In the clean regime main's loop on isbusy() ends only when the bus and   *)
(* the channel are at rest.                                                 *)
THEOREM IdleMeansStoppedAlways == ASSUME Clean PROVE Spec => []IdleMeansStopped
<1>1. SafeInv => IdleMeansStopped
  BY DEF SafeInv, BusInv, Still, IdleMeansStopped
<1> QED
  BY <1>1, SafeAlways, PTL

(* In the clean regime a full rx_len always stands for one whole answer.    *)
THEOREM FullLengthIsWholeAlways ==
  ASSUME Clean PROVE Spec => []FullLengthIsWhole
<1>1. SafeInv => FullLengthIsWhole
  BY DEF SafeInv, Whole, FullLengthIsWhole
<1> QED
  BY <1>1, SafeAlways, PTL

(* In the clean regime no request goes out before the bus has been quiet    *)
(* for the 32 bit times that get_char_delay() computes.                     *)
THEOREM QuietBeforeRequestAlways == ASSUME Clean PROVE Spec => QuietBeforeRequest
<1>1. SafeInv => (pc = "tx" /\ pc' = "arm" => quiet >= get_char_delay)
  BY DEF SafeInv, BusInv
<1> QED
  BY <1>1, SafeAlways, PTL DEF QuietBeforeRequest

-----------------------------------------------------------------------------
(* The step simulation of SerialBus.                                        *)
Reports == [r \in Registers |-> Outcome(r)]

(* Nothing that the callers see changes.                                    *)
LEMMA BusStutters ==
  ASSUME rxLen' = rxLen, Owner' = Owner
  PROVE  [Bus!Next]_<<Owner, Reports>>
  BY DEF Reports, Outcome

(* end() of a transfer finishes it; the alarm of one that is over reports   *)
(* the same length again.                                                   *)
LEMMA BusEnd ==
  ASSUME SafeInv, NEW t \in BOOLEAN, End(t), pc \notin {"user", "rx", "tx"},
         UNCHANGED <<pc, who, user, bus, rxbuf>>
  PROVE  [Bus!Next]_<<Owner, Reports>>
<1>1. rx.buf = user /\ RxDistance = rx.moved
  BY DEF SafeInv, BusInv, Progress, Aimed, RxDistance
<1>2. rxLen' = [rxLen EXCEPT ![user] = rx.moved] /\ Owner' = NoReg
  BY <1>1, Zenon DEF End, Owner
<1>3. rx.moved \in 0..BufLen /\ BufLen \in Nat
  BY RxType, ConstantsAssumption DEF SafeInv
<1>4. CASE busy
  <2>1. user \in Registers /\ Owner = user /\ user # NoReg
    BY <1>4, ConstantsAssumption DEF SafeInv, BusInv, Progress, Aimed, Owner
  <2>2. rxLen' = [r \in Registers |-> IF r = user THEN rx.moved ELSE rxLen[r]]
    BY <1>2, RxType DEF SafeInv
  <2>3. PICK o \in {"short", "whole"} :
          o = IF rx.moved = RespLen[user] THEN "whole" ELSE "short"
    OBVIOUS
  <2>4. Outcome(user)' = o
    BY <1>3, <2>1, <2>2, <2>3 DEF Outcome, Junk
  <2>5. \A r \in Registers : r # user => Outcome(r)' = Outcome(r)
    BY <2>2 DEF Outcome
  <2>6. Reports' = [Reports EXCEPT ![Owner] = o]
    BY <2>1, <2>4, <2>5 DEF Reports
  <2>7. Bus!Finish
    BY <1>2, <2>1, <2>3, <2>6 DEF Bus!Finish, Bus!Outcomes, Reports
  <2> QED BY <2>7 DEF Bus!Next
<1>5. CASE ~busy
  <2>1. rxLen' = rxLen
    BY <1>2, <1>5, RxType, ConstantsAssumption DEF SafeInv, BusInv, TypeInv, TypeOK
  <2>2. Owner = NoReg
    BY <1>5 DEF Owner
  <2> QED BY <1>2, <2>1, <2>2, BusStutters
<1> QED BY <1>4, <1>5

LEMMA BusStep ==
  ASSUME Clean, SafeInv, [Next]_vars
  PROVE  [Bus!Next]_<<Owner, Reports>>
<1>1. CASE SetUser
  <2>1. Owner = NoReg /\ Owner' = who /\ Reports' = Reports /\ who \in Registers
    BY <1>1 DEF SetUser, Thread, SafeInv, TypeInv, BusInv, Owner, Reports, Outcome
  <2>2. Bus!Begin(who)
    BY <2>1 DEF Bus!Begin, Reports
  <2> QED BY <2>1, <2>2 DEF Bus!Next
<1>2. CASE DmaIrq
  BY <1>2, BusEnd DEF DmaIrq, SafeInv, BusInv
<1>3. CASE AlarmFires
  BY <1>3, BusEnd DEF AlarmFires, Clean, InStart
<1>4. CASE (\E r \in Registers : Call(r)) \/ Claim \/ Wait \/ WaitReturns
  <2>1. rxLen' = rxLen
    BY <1>4 DEF Call, Claim, Wait, WaitReturns
  <2>2. Owner' = Owner
    BY <1>4 DEF Call, Claim, Wait, WaitReturns, Thread, Owner
  <2> QED BY <2>1, <2>2, BusStutters
<1>5. CASE RxStart \/ TxStart \/ Arm
  BY <1>5, BusStutters DEF RxStart, TxStart, Arm, Thread, Owner
<1>6. CASE Environment \/ UNCHANGED vars
  BY <1>6, BusStutters DEF Environment, DmaMove, TimePasses, SlaveSilent, SlaveAnswers, vars,
     Owner
<1> QED
  BY <1>1, <1>2, <1>3, <1>4, <1>5, <1>6 DEF Next, Start, Handlers

(* In the clean regime transfers never overlap, and only its own end        *)
(* changes what a register reports: all of ImplementsSerialBus but that     *)
(* each transfer ends.                                                      *)
THEOREM TakesBusSteps ==
  ASSUME Clean PROVE Spec => Bus!Init /\ [][Bus!Next]_<<Owner, Reports>>
<1>1. Init => Bus!Init
  BY ConstantsAssumption DEF Init, Bus!Init, Owner, Reports, Outcome, Junk
<1>2. SafeInv /\ [Next]_vars => [Bus!Next]_<<Owner, Reports>>
  BY BusStep
<1> QED
  BY <1>1, <1>2, SafeAlways, PTL DEF Spec
=============================================================================
