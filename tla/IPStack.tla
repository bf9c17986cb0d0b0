------------------------------ MODULE IPStack -------------------------------
(***************************************************************************)
(* IPStack: the TCP connection under the MQTT client and its ring buffer.  *)
(* The firmware is linked with the polling variant of lwIP, so lwIP calls  *)
(* back only while read() polls; the bytes of the peer's stream are        *)
(* numbered 1, 2, ... and a byte is its number.                            *)
(*                                                                         *)
(* lwIP itself is external: what it may call, and that it frees the        *)
(* control block before it calls tcp_client_err().                         *)
(***************************************************************************)
EXTENDS Integers, Sequences

CONSTANTS
  BUF_SIZE,
  Segments,  \* lengths of the segments lwIP hands over
  Lengths,   \* numbers of bytes the client asks for
  MaxBytes   \* bound: bytes of the stream

ASSUME StackAssumption ==
  /\ BUF_SIZE \in Nat \ {0}
  /\ Segments \subseteq Nat \ {0} /\ Lengths \subseteq Nat \ {0}
  /\ MaxBytes \in Nat

VARIABLES
  pcb,      \* the control block held: "none", "open", or "gone", freed by lwIP
  want,     \* the length read() was called with, 0 outside it
  buffer, count, wr, rd,
  dropped,
  got,      \* the bytes the last read() returned
  sent      \* bytes of the stream handed over by lwIP

ring == <<buffer, count, wr, rd>>
stack == <<pcb, want, ring, dropped, got, sent>>

Cells == 0..(BUF_SIZE - 1)
Least(a, b) == IF a < b THEN a ELSE b

(* The constructor leaves the buffer and `dropped` uninitialized.          *)
StackInit ==
  /\ pcb = "none" /\ want = 0
  /\ buffer = [i \in Cells |-> 0]
  /\ count = 0 /\ wr = 0 /\ rd = 0
  /\ dropped \in {0, 7}
  /\ got = <<>> /\ sent = 0

-----------------------------------------------------------------------------
(* Mutated forms of the definitions below, slips the properties must       *)
(* notice; no specification uses them.                                     *)
CopyInSecondFromStart(n) ==
  LET first == BUF_SIZE - wr IN
    IF wr + n > BUF_SIZE
    THEN /\ buffer' = [i \in Cells |->
                         IF i >= wr THEN sent + 1 + (i - wr)
                         ELSE IF i < n - first THEN sent + 1 + i
                         ELSE buffer[i]]
         /\ wr' = n - first
    ELSE /\ buffer' = [i \in Cells |->
                         IF wr <= i /\ i < wr + n THEN sent + 1 + (i - wr)
                                                  ELSE buffer[i]]
         /\ wr' = (wr + n) % BUF_SIZE

-----------------------------------------------------------------------------
(* connect() and disconnect() leave the ring as it is; write() hands its   *)
(* bytes to lwIP and changes nothing here.                                 *)
Connect ==
  /\ want = 0
  /\ pcb' = "open"
  /\ UNCHANGED <<want, ring, dropped, got, sent>>

Disconnect ==
  /\ want = 0 /\ pcb # "none"
  /\ pcb' = "none"
  /\ UNCHANGED <<want, ring, dropped, got, sent>>

Read(len) ==
  /\ want = 0 /\ pcb # "none"
  /\ want' = len
  /\ UNCHANGED <<pcb, ring, dropped, got, sent>>

(* The next n bytes of the stream go into the ring, in two parts when they *)
(* run past its end.                                                       *)
CopyIn(n) ==
  LET first == BUF_SIZE - wr IN
    IF wr + n > BUF_SIZE
    THEN /\ buffer' = [i \in Cells |->
                         IF i >= wr THEN sent + 1 + (i - wr)
                         ELSE IF i < n - first THEN sent + 1 + first + i
                         ELSE buffer[i]]
         /\ wr' = (n - first) % BUF_SIZE
    ELSE /\ buffer' = [i \in Cells |->
                         IF wr <= i /\ i < wr + n THEN sent + 1 + (i - wr)
                                                  ELSE buffer[i]]
         /\ wr' = (wr + n) % BUF_SIZE

(* tcp_client_recv(): what does not fit is counted, and acknowledged all   *)
(* the same.                                                               *)
Receive(len) ==
  /\ want # 0 /\ pcb = "open"
  /\ sent + len <= MaxBytes /\ sent' = sent + len
  /\ LET n == Least(BUF_SIZE - count, len) IN
       /\ CopyIn(n)
       /\ count' = count + n
       /\ dropped' = dropped + (len - n)
  /\ UNCHANGED <<pcb, want, rd, got>>

(* tcp_client_err(): lwIP has freed the control block, the handle stays.   *)
ConnectionFails ==
  /\ want # 0 /\ pcb = "open"
  /\ pcb' = "gone"
  /\ UNCHANGED <<want, ring, dropped, got, sent>>

(* The first n bytes of the ring, in two parts when they run past its end. *)
CopyOut(n) ==
  LET first == BUF_SIZE - rd IN
    IF rd + n > BUF_SIZE
    THEN /\ got' = [k \in 1..n |-> IF k <= first THEN buffer[rd + k - 1]
                                   ELSE buffer[k - 1 - first]]
         /\ rd' = n - first
    ELSE /\ got' = [k \in 1..n |-> buffer[rd + k - 1]]
         /\ rd' = (rd + n) % BUF_SIZE

(* read() returns when it has the bytes or its time is over.               *)
ReadReturns ==
  /\ want # 0 /\ want' = 0
  /\ LET n == Least(count, want) IN
       /\ CopyOut(n)
       /\ count' = count - n
  /\ UNCHANGED <<pcb, buffer, wr, dropped, sent>>

StackNext ==
  \/ Connect \/ Disconnect
  \/ \E n \in Lengths : Read(n)
  \/ \E n \in Segments : Receive(n)
  \/ ConnectionFails \/ ReadReturns

StackSpec == StackInit /\ [][StackNext]_stack

-----------------------------------------------------------------------------
(* Types; the indices stay inside the buffer and never cross: the write    *)
(* index is `count` bytes ahead of the read index.                         *)
StackTypeOK ==
  /\ pcb \in {"none", "open", "gone"}
  /\ want \in Lengths \cup {0}
  /\ buffer \in [Cells -> Nat]
  /\ count \in 0..BUF_SIZE /\ wr \in Cells /\ rd \in Cells
  /\ dropped \in Nat /\ sent \in Nat
  /\ got \in Seq(Nat)

Ahead(i, n) == IF i + n < BUF_SIZE THEN i + n ELSE i + n - BUF_SIZE

IndicesAgree == wr = Ahead(rd, count)

(* What the ring holds, oldest byte first.                                 *)
Held == [k \in 1..count |-> buffer[Ahead(rd, k - 1)]]

Fifo == INSTANCE ByteFifo WITH Capacity <- BUF_SIZE, queue <- Held,
                               lost <- dropped

(* The ring is a bounded queue of bytes: wrapping round its end, filling   *)
(* it to the last cell and reading less than was asked for lose, repeat    *)
(* and reorder nothing, and only what finds it full is dropped.            *)
ImplementsFifo == Fifo!Spec
=============================================================================
