----------------------------- MODULE ModbusCtrl -----------------------------
(***************************************************************************)
(* The Modbus master of src/src/modbus_handler: ModbusCtrl::start, run by  *)
(* the one main thread for any register object, against ModbusCtrl::end,   *)
(* run by two interrupt handlers (the receive DMA channel's completion and *)
(* the hardware alarm).  `busy` is the only thing the three share to tell  *)
(* whether the bus is in use.                                              *)
(*                                                                         *)
(* The statements of start() are separate steps, since an interrupt may    *)
(* come between any two of them; each handler is one step, since the two   *)
(* interrupts have the same priority and the thread does not run inside a  *)
(* handler.  A request is at most 11 characters and the UART's transmit    *)
(* FIFO holds 32, so the transmit channel has handed the whole request     *)
(* over when its start() returns and aborting it later has no effect.      *)
(***************************************************************************)
EXTENDS Naturals, Sequences

CONSTANTS
  Registers,        \* the ReadRegister and WriteRegister objects
  RespLen,          \* characters each register's start_transfer() waits for
  ErrorLen,         \* characters of a slave's exception answer
  BufLen,           \* PAYLOAD_MAX_LEN, the size of every rxbuf
  NoReg,            \* current_user before the first start()
  NoByte,           \* a buffer cell no answer has reached yet
  AnswersInTime,    \* TRUE: a slave that answers is done before the alarm
  AlarmDuringStart, \* TRUE: the last exchange's alarm may hit start() itself
  MaxOutstanding,   \* bound: unanswered requests the slaves remember
  MaxLine,          \* bound: characters on the line or in the receive FIFO
  Pauses            \* bound: how long the bus may have been quiet, in bit
                    \* times, when the thread looks at the clock

ASSUME ConstantsAssumption ==
  /\ NoReg \notin Registers
  /\ RespLen \in [Registers -> Nat]
  /\ ErrorLen \in Nat \ {0}
  /\ BufLen \in Nat \ {0}
  /\ \A r \in Registers : ErrorLen < RespLen[r] /\ RespLen[r] <= BufLen
  /\ AnswersInTime \in BOOLEAN
  /\ AlarmDuringStart \in BOOLEAN
  /\ MaxOutstanding \in Nat \ {0}
  /\ MaxLine \in Nat \ {0}
  /\ Pauses \subseteq Nat
  /\ \E t \in Pauses : t >= 32   \* the clock gets past any delay

VARIABLES
  pc,       \* what the main thread does next
  who,      \* the register whose start() is running or ran last
  busy,     \* ModbusCtrl::busy
  quiet,    \* bit times since ctrl_time
  user,     \* current_user
  rx,       \* the receive DMA channel: its buffer, the characters moved
            \* into it and those it still waits for
  rxIrq,    \* its completion interrupt is pending
  alarm,    \* the hardware alarm has a target
  pending,  \* requests on the bus that no slave has dealt with
  line,     \* answer characters not yet moved by the DMA, oldest first
  rxbuf,    \* rxbuf of every register object
  rxLen     \* rx_len of every register object

vars == <<pc, who, busy, quiet, user, rx, rxIrq, alarm, pending, line, rxbuf,
          rxLen>>
bus == <<pending, line>>

(* An answer is told apart by whose it is, whether it is the answer asked  *)
(* for or an exception, and the place of each character in it.             *)
Kinds == {"full", "error"}
AnswerLen(r, k) == IF k = "full" THEN RespLen[r] ELSE ErrorLen
Byte(r, k, i) == [from |-> r, kind |-> k, at |-> i]
Bytes == [from : Registers, kind : Kinds, at : Nat]
Answer(r, k) == [i \in 1..AnswerLen(r, k) |-> Byte(r, k, i)]

(* rx_len is the distance from the user's buffer to the channel's write    *)
(* address: a number of characters if the channel was aimed at that        *)
(* buffer, and a value unrelated to it otherwise.                          *)
Junk == BufLen + 1
RxDistance == IF rx.buf = user THEN rx.moved ELSE Junk

RxActive == rx.left > 0

(* Time on the line is counted in bits.  A character is a start bit, eight *)
(* data bits and two stop bits; get_char_delay() takes it for eight bits.  *)
(* What its division to whole microseconds drops is far less than a bit.   *)
CHAR_BITS == 1 + 8 + 2
get_char_delay == 8 * 4

(* The thread is inside start(), past the waiting loop.                    *)
InStart == pc \in {"user", "rx", "tx", "arm"}

(* ctrl_time is 0, the time of the boot, which is long ago.                *)
Init ==
  /\ pc = "idle" /\ who = NoReg
  /\ busy = FALSE /\ user = NoReg
  /\ quiet \in Pauses /\ \A t \in Pauses : t <= quiet
  /\ rx = [buf |-> NoReg, moved |-> 0, left |-> 0]
  /\ rxIrq = FALSE /\ alarm = FALSE
  /\ pending = <<>> /\ line = <<>>
  /\ rxbuf = [r \in Registers |-> [i \in 1..BufLen |-> NoByte]]
  /\ rxLen = [r \in Registers |-> Junk]

(* The main thread.  A pending interrupt is served before its next step.   *)
Thread(from, to) == pc = from /\ ~rxIrq /\ pc' = to

-----------------------------------------------------------------------------
(* Mutated forms of the definitions below, slips the properties must       *)
(* notice; no specification uses them.                                     *)
ClaimBusy ==
  /\ Thread("gate", "user")
  /\ quiet >= get_char_delay
  /\ busy' = TRUE
  /\ UNCHANGED <<who, quiet, user, rx, rxIrq, alarm, bus, rxbuf, rxLen>>

ClaimAtOnce ==
  /\ Thread("gate", "user")
  /\ ~busy
  /\ busy' = TRUE
  /\ UNCHANGED <<who, quiet, user, rx, rxIrq, alarm, bus, rxbuf, rxLen>>

RxStartNoAddress ==
  /\ Thread("rx", "tx")
  /\ rx' = [rx EXCEPT !.buf = who, !.left = RespLen[who]]
  /\ UNCHANGED <<who, busy, quiet, user, rxIrq, alarm, bus, rxbuf, rxLen>>

ArmNever ==
  /\ Thread("arm", "idle")
  /\ UNCHANGED <<who, busy, quiet, user, rx, rxIrq, alarm, bus, rxbuf, rxLen>>

EndNoAbort(timeout) ==
  /\ rx' = rx
  /\ quiet' = 0
  /\ busy' = FALSE
  /\ rxLen' = [rxLen EXCEPT ![user] = RxDistance]

EndStaysBusy(timeout) ==
  /\ rx' = IF timeout THEN [rx EXCEPT !.left = 0] ELSE rx
  /\ quiet' = 0
  /\ busy' = (busy /\ timeout)
  /\ rxLen' = [rxLen EXCEPT ![user] = RxDistance]

EndExpectedLength(timeout) ==
  /\ rx' = IF timeout THEN [rx EXCEPT !.left = 0] ELSE rx
  /\ quiet' = 0
  /\ busy' = FALSE
  /\ rxLen' = [r \in Registers |->
                 IF r = user THEN RespLen[r] ELSE rxLen[r]]

EndOfCaller(timeout) ==
  /\ rx' = IF timeout THEN [rx EXCEPT !.left = 0] ELSE rx
  /\ quiet' = 0
  /\ busy' = FALSE
  /\ rxLen' = [rxLen EXCEPT ![who] = rx.moved]

-----------------------------------------------------------------------------
(* The statements of start() and of its callers.                           *)
Call(r) ==
  /\ Thread("idle", "gate")
  /\ who' = r
  /\ UNCHANGED <<busy, quiet, user, rx, rxIrq, alarm, bus, rxbuf, rxLen>>

Claim ==
  /\ Thread("gate", "user")
  /\ ~busy /\ quiet >= get_char_delay
  /\ busy' = TRUE
  /\ UNCHANGED <<who, quiet, user, rx, rxIrq, alarm, bus, rxbuf, rxLen>>

SetUser ==
  /\ Thread("user", "rx")
  /\ user' = who
  /\ UNCHANGED <<who, busy, quiet, rx, rxIrq, alarm, bus, rxbuf, rxLen>>

(* A running channel takes the new address but ignores the trigger, so it  *)
(* goes on to the end of its old count.                                    *)
RxStart ==
  /\ Thread("rx", "tx")
  /\ rx' = [buf |-> who, moved |-> 0,
            left |-> IF RxActive THEN rx.left ELSE RespLen[who]]
  /\ UNCHANGED <<who, busy, quiet, user, rxIrq, alarm, bus, rxbuf, rxLen>>

(* A request that finds MaxOutstanding others unanswered gets no answer.   *)
TxStart ==
  /\ Thread("tx", "arm")
  /\ pending' = IF Len(pending) < MaxOutstanding
                THEN Append(pending, who) ELSE pending
  /\ UNCHANGED <<who, busy, quiet, user, rx, rxIrq, alarm, line, rxbuf, rxLen>>

(* Every caller uses the default timeout, so the alarm is always set; end()*)
(* never clears it.                                                        *)
Arm ==
  /\ Thread("arm", "idle")
  /\ alarm' = TRUE
  /\ UNCHANGED <<who, busy, quiet, user, rx, rxIrq, bus, rxbuf, rxLen>>

(* wait(), and the loop on isbusy() in main.                               *)
Wait ==
  /\ Thread("idle", "wait")
  /\ UNCHANGED <<who, busy, quiet, user, rx, rxIrq, alarm, bus, rxbuf, rxLen>>

WaitReturns ==
  /\ Thread("wait", "idle")
  /\ ~busy
  /\ UNCHANGED <<who, busy, quiet, user, rx, rxIrq, alarm, bus, rxbuf, rxLen>>

-----------------------------------------------------------------------------
(* The interrupt handlers.                                                 *)
End(timeout) ==
  /\ rx' = IF timeout THEN [rx EXCEPT !.left = 0] ELSE rx
  /\ quiet' = 0
  /\ busy' = FALSE
  /\ rxLen' = [rxLen EXCEPT ![user] = RxDistance]

DmaIrq ==
  /\ rxIrq
  /\ rxIrq' = FALSE
  /\ End(FALSE)
  /\ UNCHANGED <<pc, who, user, alarm, bus, rxbuf>>

AlarmFires ==
  /\ alarm
  /\ AnswersInTime => pending = <<>> /\ line = <<>>
  /\ AlarmDuringStart \/ ~InStart
  /\ alarm' = FALSE
  /\ End(TRUE)
  /\ UNCHANGED <<pc, who, user, rxIrq, bus, rxbuf>>

-----------------------------------------------------------------------------
(* The hardware and the slaves.                                            *)
DmaMove ==
  /\ RxActive /\ line # <<>>
  /\ rxbuf' = [rxbuf EXCEPT ![rx.buf][rx.moved + 1] = Head(line)]
  /\ rx' = [rx EXCEPT !.moved = @ + 1, !.left = @ - 1]
  /\ rxIrq' = (rxIrq \/ rx.left = 1)
  /\ line' = Tail(line)
  /\ UNCHANGED <<pc, who, busy, quiet, user, alarm, pending, rxLen>>

TimePasses ==
  /\ \E t \in Pauses : t > quiet /\ quiet' = t
  /\ UNCHANGED <<pc, who, busy, user, rx, rxIrq, alarm, bus, rxbuf, rxLen>>

SlaveAnswers(k) ==
  /\ pending # <<>>
  /\ Len(line) + AnswerLen(Head(pending), k) <= MaxLine
  /\ line' = line \o Answer(Head(pending), k)
  /\ pending' = Tail(pending)
  /\ UNCHANGED <<pc, who, busy, quiet, user, rx, rxIrq, alarm, rxbuf, rxLen>>

(* The request or its answer was lost, or no slave has this address.       *)
SlaveSilent ==
  /\ pending # <<>>
  /\ pending' = Tail(pending)
  /\ UNCHANGED <<pc, who, busy, quiet, user, rx, rxIrq, alarm, line, rxbuf,
                 rxLen>>

-----------------------------------------------------------------------------
Start == Claim \/ SetUser \/ RxStart \/ TxStart \/ Arm
Handlers == DmaIrq \/ AlarmFires
Environment ==
  DmaMove \/ TimePasses \/ SlaveSilent \/ \E k \in Kinds : SlaveAnswers(k)

Next ==
  \/ \E r \in Registers : Call(r)
  \/ Start \/ Wait \/ WaitReturns
  \/ Handlers
  \/ Environment

Spec == Init /\ [][Next]_vars

(* The thread runs whenever no interrupt is pending, interrupts are served,*)
(* time passes, the DMA moves what is there, and a request does not stay   *)
(* on the bus for ever.  Nothing obliges a slave to answer.                *)
Fairness ==
  /\ WF_vars(Start) /\ WF_vars(WaitReturns)
  /\ WF_vars(DmaIrq) /\ WF_vars(AlarmFires)
  /\ WF_vars(DmaMove) /\ WF_vars(TimePasses) /\ WF_vars(SlaveSilent)

FairSpec == Spec /\ Fairness

-----------------------------------------------------------------------------
(* Types of all variables: buffers hold answer characters, the receive     *)
(* channel stays inside the buffer it was given, rx_len is a length no     *)
(* longer than the buffer or junk.                                         *)
TypeOK ==
  /\ pc \in {"idle", "gate", "user", "rx", "tx", "arm", "wait"}
  /\ who \in Registers \cup {NoReg}
  /\ busy \in BOOLEAN /\ quiet \in Nat
  /\ rxIrq \in BOOLEAN /\ alarm \in BOOLEAN
  /\ user \in Registers \cup {NoReg}
  /\ rx \in [buf : Registers \cup {NoReg}, moved : Nat, left : Nat]
  /\ rx.moved + rx.left <= BufLen
  /\ pending \in Seq(Registers)
  /\ line \in Seq(Bytes)
  /\ rxbuf \in [Registers -> [1..BufLen -> Bytes \cup {NoByte}]]
  /\ rxLen \in [Registers -> 0..Junk]

(* Outside start() a busy bus always has an alarm that will free it: the   *)
(* waiting loops of start(), wait() and main cannot spin for ever on an    *)
(* exchange nobody ends, whatever the slaves and the interrupts do.        *)
BusyHasAlarm == busy /\ ~InStart => alarm

(* When busy is FALSE and the thread is not inside start(), no exchange is *)
(* under way: the receive channel is stopped, no request waits for its     *)
(* answer and no character is in flight.  main's loop on isbusy() takes    *)
(* the four measurements for complete on the strength of this.             *)
IdleMeansStopped ==
  ~busy /\ ~InStart => ~RxActive /\ pending = <<>> /\ line = <<>>

(* Every character in a register's buffer is the character of that         *)
(* register's own answer that belongs at this place: no answer reaches     *)
(* another register's buffer or lands shifted.                             *)
OwnBytes ==
  \A r \in Registers : \A i \in 1..BufLen :
    \/ rxbuf[r][i] = NoByte
    \/ rxbuf[r][i].from = r /\ rxbuf[r][i].at = i

(* A register that is not being transferred and reports the expected       *)
(* rx_len holds one whole answer, never the head of an exception answer    *)
(* over the tail of an older value: rx_len is all that is_ok() has to tell *)
(* the two apart.                                                          *)
FullLengthIsWhole ==
  \A r \in Registers :
    rxLen[r] = RespLen[r] /\ ~(busy /\ user = r) =>
      \A i \in 1..RespLen[r] : rxbuf[r][i] = Byte(r, "full", i)

(* When a request goes out the bus has been quiet for what get_char_delay()*)
(* computes, although the delay is looked at before busy is set and the    *)
(* interrupts that start it anew come at any time.  These 32 bit times are *)
(* less than three characters of this UART (see FourCharactersQuiet).      *)
QuietBeforeRequest == [][pc = "tx" /\ pc' = "arm" => quiet >= get_char_delay]_vars

(* What the comment in get_char_delay() says of it: four characters, which *)
(* on the line are 44 bit times.                                           *)
FourCharactersQuiet == [][pc = "tx" /\ pc' = "arm" => quiet >= 4 * CHAR_BITS]_vars

(* The bus as its callers see it: a transfer owns the bus from the moment  *)
(* current_user is set until busy is cleared, and a register reports what  *)
(* its rx_len says.                                                        *)
Owner == IF busy /\ pc # "user" THEN user ELSE NoReg
Outcome(r) ==
  IF rxLen[r] = Junk THEN "none"
  ELSE IF rxLen[r] = RespLen[r] THEN "whole" ELSE "short"

Bus == INSTANCE SerialBus
         WITH owner <- Owner, outcome <- [r \in Registers |-> Outcome(r)]

(* The master implements the serial bus: transfers never overlap, every    *)
(* transfer ends, and ending it changes its own register's report only.    *)
ImplementsSerialBus == Bus!Spec

(* Every start() gets through its waiting loop and returns, and every      *)
(* wait() returns.                                                         *)
CallsReturn == (pc = "gate" ~> pc = "idle") /\ (pc = "wait" ~> pc = "idle")
=============================================================================
