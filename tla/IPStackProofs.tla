--------------------------- MODULE IPStackProofs ----------------------------
(***************************************************************************)
(* Proofs about IPStack for every buffer size, segment and read length:    *)
(* its indices never cross, and the ring implements the bounded queue of   *)
(* ByteFifo.                                                               *)
(***************************************************************************)
EXTENDS IPStack, SequenceTheorems, TLAPS

IInv == StackTypeOK /\ IndicesAgree

LEMMA CellBounds ==
  /\ BUF_SIZE \in Nat /\ BUF_SIZE > 0
  /\ \A i : i \in Cells <=> i \in Nat /\ i < BUF_SIZE
BY StackAssumption DEF Cells

(* `% BUF_SIZE` as the code uses it, on at most BUF_SIZE.                  *)
LEMMA Wrap ==
  /\ \A n \in Nat : n < BUF_SIZE => n % BUF_SIZE = n
  /\ BUF_SIZE % BUF_SIZE = 0
BY CellBounds

(* What a step of CopyIn leaves in the ring, by distance from wr.          *)
LEMMA CopyInCells ==
  ASSUME StackTypeOK, NEW n \in 0..BUF_SIZE, CopyIn(n)
  PROVE  /\ wr' = Ahead(wr, n)
         /\ buffer' \in [Cells -> Nat]
         /\ \A j \in 0..(BUF_SIZE - 1) :
              buffer'[Ahead(wr, j)] = IF j < n THEN sent + 1 + j
                                      ELSE buffer[Ahead(wr, j)]
<1> USE CellBounds
<1>0. wr \in Nat /\ wr < BUF_SIZE /\ sent \in Nat /\ buffer \in [Cells -> Nat]
  BY DEF StackTypeOK
<1>1. CASE wr + n > BUF_SIZE
  <2>1. /\ wr' = n - (BUF_SIZE - wr)
        /\ buffer' = [i \in Cells |->
                         IF i >= wr THEN sent + 1 + (i - wr)
                         ELSE IF i < n - (BUF_SIZE - wr)
                              THEN sent + 1 + (BUF_SIZE - wr) + i
                         ELSE buffer[i]]
    <3>1. n - (BUF_SIZE - wr) \in Nat /\ n - (BUF_SIZE - wr) < BUF_SIZE
      BY <1>0, <1>1
    <3> QED BY <1>1, <3>1, Wrap DEF CopyIn
  <2>2. buffer' \in [Cells -> Nat]
    BY <1>0, <1>1, <2>1
  <2> QED BY <1>0, <1>1, <2>1, <2>2 DEF Ahead
<1>2. CASE ~(wr + n > BUF_SIZE)
  <2>1. /\ wr' = Ahead(wr, n)
        /\ buffer' = [i \in Cells |->
                        IF wr <= i /\ i < wr + n THEN sent + 1 + (i - wr)
                                                 ELSE buffer[i]]
    BY <1>0, <1>2, Wrap DEF CopyIn, Ahead
  <2>2. buffer' \in [Cells -> Nat]
    BY <1>0, <1>2, <2>1
  <2> QED BY <1>0, <1>2, <2>1, <2>2 DEF Ahead
<1> QED BY <1>1, <1>2

(* What a step of CopyOut returns.                                         *)
LEMMA CopyOutCells ==
  ASSUME StackTypeOK, NEW n \in 0..BUF_SIZE, CopyOut(n)
  PROVE  /\ rd' = Ahead(rd, n)
         /\ got' = [k \in 1..n |-> buffer[Ahead(rd, k - 1)]]
<1> USE CellBounds
<1>0. rd \in Nat /\ rd < BUF_SIZE
  BY DEF StackTypeOK
<1>1. CASE rd + n > BUF_SIZE
  <2>1. rd' = n - (BUF_SIZE - rd)
        /\ got' = [k \in 1..n |-> IF k <= BUF_SIZE - rd THEN buffer[rd + k - 1]
                                  ELSE buffer[k - 1 - (BUF_SIZE - rd)]]
    BY <1>1 DEF CopyOut
  <2>2. \A k \in 1..n : Ahead(rd, k - 1) = IF k <= BUF_SIZE - rd THEN rd + k - 1
                                           ELSE k - 1 - (BUF_SIZE - rd)
    BY <1>0 DEF Ahead
  <2> QED BY <1>0, <1>1, <2>1, <2>2 DEF Ahead
<1>2. CASE ~(rd + n > BUF_SIZE)
  <2>1. rd' = (rd + n) % BUF_SIZE /\ got' = [k \in 1..n |-> buffer[rd + k - 1]]
    BY <1>2 DEF CopyOut
  <2>3. (rd + n) % BUF_SIZE = Ahead(rd, n)
    BY <1>0, <1>2, Wrap DEF Ahead
  <2>2. \A k \in 1..n : Ahead(rd, k - 1) = rd + k - 1
    BY <1>0, <1>2 DEF Ahead
  <2> QED BY <2>1, <2>2, <2>3
<1> QED BY <1>1, <1>2

LEMMA InitHolds == StackInit => IInv
<1> SUFFICES ASSUME StackInit PROVE IInv
  OBVIOUS
<1> USE CellBounds
<1>1. got \in Seq(Nat)
  BY DEF StackInit
<1>2. 0 \in Cells /\ buffer \in [Cells -> Nat]
  BY DEF StackInit
<1>3. wr = Ahead(rd, count)
  BY DEF StackInit, Ahead
<1> QED BY <1>1, <1>2, <1>3 DEF StackInit, IInv, StackTypeOK, IndicesAgree

LEMMA StepHolds == IInv /\ [StackNext]_stack => IInv'
<1> SUFFICES ASSUME IInv, [StackNext]_stack PROVE IInv'
  OBVIOUS
<1> USE CellBounds
<1>0. StackTypeOK /\ IndicesAgree
  BY DEF IInv
<1>a. rd \in Nat /\ rd < BUF_SIZE /\ wr = Ahead(rd, count)
  BY <1>0 DEF StackTypeOK, IndicesAgree
<1>1. CASE Connect \/ Disconnect \/ ConnectionFails \/ UNCHANGED stack
  BY <1>0, <1>1 DEF Connect, Disconnect, ConnectionFails, ring, stack,
                    IInv, StackTypeOK, IndicesAgree, Ahead
<1>2. ASSUME NEW len \in Lengths, Read(len) PROVE IInv'
  BY <1>0, <1>2 DEF Read, ring, IInv, StackTypeOK, IndicesAgree, Ahead
<1>3. ASSUME NEW len \in Segments, Receive(len) PROVE IInv'
  <2> DEFINE n == Least(BUF_SIZE - count, len)
  <2>1. len \in Nat /\ count \in 0..BUF_SIZE /\ dropped \in Nat /\ sent \in Nat
    BY <1>0, StackAssumption DEF StackTypeOK
  <2>2. n \in 0..BUF_SIZE /\ n <= BUF_SIZE - count /\ n <= len
    BY <2>1 DEF Least
  <2>3. /\ CopyIn(n) /\ count' = count + n /\ dropped' = dropped + (len - n)
        /\ sent' = sent + len
        /\ UNCHANGED <<pcb, want, rd, got>>
    BY <1>3 DEF Receive
  <2> HIDE DEF n
  <2>4. wr' = Ahead(wr, n) /\ buffer' \in [Cells -> Nat]
    BY <1>0, <2>2, <2>3, CopyInCells
  <2>5. wr' = Ahead(rd, count + n) /\ wr' \in Nat /\ wr' < BUF_SIZE
    BY <1>a, <2>1, <2>2, <2>4 DEF Ahead
  <2>6. count' \in 0..BUF_SIZE /\ dropped' \in Nat /\ sent' \in Nat
    BY <2>1, <2>2, <2>3
  <2> QED BY <1>0, <2>3, <2>4, <2>5, <2>6 DEF IInv, StackTypeOK, IndicesAgree
<1>4. CASE ReadReturns
  <2> DEFINE n == Least(count, want)
  <2>1. want \in Nat /\ count \in 0..BUF_SIZE
    BY <1>0, StackAssumption DEF StackTypeOK
  <2>2. n \in 0..BUF_SIZE /\ n <= count
    BY <2>1 DEF Least
  <2>3. /\ CopyOut(n) /\ count' = count - n /\ want' = 0
        /\ UNCHANGED <<pcb, buffer, wr, dropped, sent>>
    BY <1>4 DEF ReadReturns
  <2> HIDE DEF n
  <2>4. rd' = Ahead(rd, n) /\ got' = [k \in 1..n |-> buffer[Ahead(rd, k - 1)]]
    BY <1>0, <2>2, <2>3, CopyOutCells
  <2>5. rd' \in Nat /\ rd' < BUF_SIZE /\ wr = Ahead(rd', count - n)
    BY <1>a, <2>1, <2>2, <2>4 DEF Ahead
  <2>6. got' \in Seq(Nat)
    <3>1. \A k \in 1..n : Ahead(rd, k - 1) \in Cells
      BY <1>a, <2>2 DEF Ahead
    <3>2. got' \in [1..n -> Nat]
      BY <1>0, <2>4, <3>1 DEF StackTypeOK
    <3> QED BY <2>2, <3>2
  <2>7. count' \in 0..BUF_SIZE
    BY <2>1, <2>2, <2>3
  <2> QED BY <1>0, <2>3, <2>5, <2>6, <2>7 DEF IInv, StackTypeOK, IndicesAgree
<1> QED BY <1>1, <1>2, <1>3, <1>4 DEF StackNext

LEMMA Invariance == StackSpec => []IInv
BY InitHolds, StepHolds, PTL DEF StackSpec

(* The indices stay inside the buffer, for every size of it.               *)
THEOREM TypeCorrect == StackSpec => []StackTypeOK
<1>1. IInv => StackTypeOK
  BY DEF IInv
<1> QED BY <1>1, Invariance, PTL

(* The write index is always `count` bytes ahead of the read index.        *)
THEOREM IndicesAgreeAlways == StackSpec => []IndicesAgree
<1>1. IInv => IndicesAgree
  BY DEF IInv
<1> QED BY <1>1, Invariance, PTL

-----------------------------------------------------------------------------
LEMMA SeqAsFunction ==
  ASSUME NEW S, NEW s \in Seq(S), NEW m, m = Len(s)
  PROVE  s = [k \in 1..m |-> s[k]]
OBVIOUS

(* The ring as a sequence.                                                 *)
LEMMA HeldSeq ==
  ASSUME IInv
  PROVE  /\ Held \in Seq(Nat) /\ Len(Held) = count /\ DOMAIN Held = 1..count
         /\ \A k \in 1..count : Held[k] = buffer[Ahead(rd, k - 1)]
<1>1. count \in Nat /\ count <= BUF_SIZE /\ rd \in Nat /\ rd < BUF_SIZE
      /\ buffer \in [Cells -> Nat]
  BY CellBounds DEF IInv, StackTypeOK
<1>2. \A k \in 1..count : Ahead(rd, k - 1) \in Cells
  BY <1>1, CellBounds DEF Ahead
<1>3. Held \in [1..count -> Nat]
  BY <1>1, <1>2 DEF Held
<1> QED BY <1>1, <1>3 DEF Held

LEMMA InitMaps == StackInit => Fifo!Init
<1> SUFFICES ASSUME StackInit PROVE Fifo!Init
  OBVIOUS
<1>1. IInv /\ count = 0
  BY InitHolds DEF StackInit
<1>2. Held = <<>>
  BY <1>1, HeldSeq
<1> QED BY <1>2 DEF StackInit, Fifo!Init

(* A segment joins the end of the queue, as far as there is room.          *)
LEMMA ReceiveMaps ==
  ASSUME IInv, IInv', NEW len \in Segments, Receive(len)
  PROVE  Fifo!Arrive(len)
<1> USE CellBounds
<1> DEFINE n == Least(BUF_SIZE - count, len)
<1>0. /\ count \in Nat /\ count <= BUF_SIZE /\ rd \in Nat /\ rd < BUF_SIZE
      /\ wr = Ahead(rd, count) /\ sent \in Nat /\ dropped \in Nat
      /\ len \in Nat /\ StackTypeOK
  BY StackAssumption DEF IInv, StackTypeOK, IndicesAgree
<1>1. n \in 0..BUF_SIZE /\ count + n <= BUF_SIZE
  BY <1>0 DEF Least
<1>2. /\ CopyIn(n) /\ count' = count + n /\ rd' = rd /\ got' = got
      /\ dropped' = dropped + (len - n) /\ sent' = sent + len
  BY DEF Receive
<1>3. n = Fifo!Least(len, BUF_SIZE - Len(Held))
  <2>1. Len(Held) = count
    BY HeldSeq
  <2> QED BY <1>0, <2>1 DEF Least, Fifo!Least
<1> HIDE DEF n
<1>4. \A j \in 0..(BUF_SIZE - 1) :
        buffer'[Ahead(wr, j)] = IF j < n THEN sent + 1 + j
                                ELSE buffer[Ahead(wr, j)]
  BY <1>0, <1>1, <1>2, CopyInCells
<1>5. ASSUME NEW k \in 1..count
      PROVE  buffer'[Ahead(rd, k - 1)] = buffer[Ahead(rd, k - 1)]
  <2>1. BUF_SIZE - count + k - 1 \in 0..(BUF_SIZE - 1)
        /\ ~(BUF_SIZE - count + k - 1 < n)
        /\ Ahead(wr, BUF_SIZE - count + k - 1) = Ahead(rd, k - 1)
    BY <1>0, <1>1 DEF Ahead
  <2> QED BY <1>4, <2>1
<1>6. ASSUME NEW k \in (count + 1)..(count + n)
      PROVE  buffer'[Ahead(rd, k - 1)] = sent + (k - count)
  <2>1. k - 1 - count \in 0..(BUF_SIZE - 1) /\ k - 1 - count < n
        /\ Ahead(wr, k - 1 - count) = Ahead(rd, k - 1)
    BY <1>0, <1>1 DEF Ahead
  <2> QED BY <1>0, <1>1, <1>4, <2>1
<1>7. Held' = Held \o [i \in 1..n |-> sent + i]
  <2> DEFINE new == [i \in 1..n |-> sent + i]
  <2>1. new \in Seq(Nat) /\ Len(new) = n /\ \A i \in 1..n : new[i] = sent + i
    BY <1>0, <1>1
  <2>2. /\ Held \in Seq(Nat) /\ Len(Held) = count
        /\ \A k \in 1..count : Held[k] = buffer[Ahead(rd, k - 1)]
    BY HeldSeq
  <2>3. Held' = [k \in 1..(count + n) |-> buffer'[Ahead(rd, k - 1)]]
    BY <1>2 DEF Held
  <2> HIDE DEF new
  <2>4. /\ Held \o new \in Seq(Nat) /\ Len(Held \o new) = count + n
        /\ \A k \in 1..(count + n) :
             (Held \o new)[k] = IF k <= count THEN Held[k] ELSE new[k - count]
    BY <2>1, <2>2, ConcatProperties
  <2>5. ASSUME NEW k \in 1..(count + n)
        PROVE  buffer'[Ahead(rd, k - 1)] = (Held \o new)[k]
    <3>1. CASE k <= count
      <4>1. k \in 1..count
        BY <1>0, <3>1
      <4> QED BY <1>5, <2>2, <2>4, <3>1, <4>1
    <3>2. CASE ~(k <= count)
      <4>1. k \in (count + 1)..(count + n) /\ k - count \in 1..n
        BY <1>0, <1>1, <3>2
      <4>2. (Held \o new)[k] = sent + (k - count)
        BY <2>1, <2>4, <3>2, <4>1
      <4> QED BY <1>6, <4>1, <4>2
    <3> QED BY <3>1, <3>2
  <2>6. Held' = Held \o new
    <3>1. Held \o new = [k \in 1..(count + n) |-> (Held \o new)[k]]
      BY <2>4, SeqAsFunction
    <3> QED BY <2>3, <2>5, <3>1
  <2> QED BY <2>6 DEF new
<1>8. dropped' = dropped + len - n
  BY <1>0, <1>1, <1>2
<1> QED BY <1>2, <1>3, <1>7, <1>8 DEF Fifo!Arrive

(* A read takes from the front of the queue what it asked for, or all.     *)
LEMMA ReadMaps ==
  ASSUME IInv, IInv', ReadReturns
  PROVE  want \in Lengths /\ Fifo!Take(want)
<1> USE CellBounds
<1> DEFINE n == Least(count, want)
<1>0. /\ count \in Nat /\ count <= BUF_SIZE /\ rd \in Nat /\ rd < BUF_SIZE
      /\ want \in Lengths /\ want \in Nat /\ StackTypeOK
  BY StackAssumption DEF IInv, StackTypeOK, ReadReturns
<1>1. n \in 0..BUF_SIZE /\ n <= count
  BY <1>0 DEF Least
<1>2. CopyOut(n) /\ count' = count - n /\ UNCHANGED <<buffer, sent, dropped>>
  BY DEF ReadReturns
<1>3. n = Fifo!Least(want, Len(Held))
  BY <1>0, HeldSeq DEF Least, Fifo!Least
<1> HIDE DEF n
<1>4. rd' = Ahead(rd, n) /\ got' = [k \in 1..n |-> buffer[Ahead(rd, k - 1)]]
  BY <1>0, <1>1, <1>2, CopyOutCells
<1>5. /\ Held \in Seq(Nat) /\ Len(Held) = count
      /\ \A k \in 1..count : Held[k] = buffer[Ahead(rd, k - 1)]
  BY HeldSeq
<1>6. got' = SubSeq(Held, 1, n)
  <2>1. SubSeq(Held, 1, n) = [k \in 1..n |-> Held[k]]
    BY <1>0, <1>1, <1>5
  <2> QED BY <1>1, <1>4, <1>5, <2>1
<1>7. Held' = SubSeq(Held, n + 1, Len(Held))
  <2>1. SubSeq(Held, n + 1, count) = [k \in 1..(count - n) |-> Held[k + n]]
    BY <1>0, <1>1, <1>5
  <2>2. Held' = [k \in 1..(count - n) |-> buffer[Ahead(rd', k - 1)]]
    BY <1>2 DEF Held
  <2>3. ASSUME NEW k \in 1..(count - n)
        PROVE  Ahead(rd', k - 1) = Ahead(rd, k + n - 1) /\ k + n \in 1..count
    BY <1>0, <1>1, <1>4 DEF Ahead
  <2>4. ASSUME NEW k \in 1..(count - n)
        PROVE  buffer[Ahead(rd', k - 1)] = Held[k + n]
    <3>1. k + n \in 1..count /\ Ahead(rd', k - 1) = Ahead(rd, k + n - 1)
      BY <2>3
    <3> QED BY <1>0, <1>1, <1>5, <3>1
  <2> QED BY <1>5, <2>1, <2>2, <2>4
<1> QED BY <1>0, <1>2, <1>3, <1>6, <1>7 DEF Fifo!Take

(* Every other step leaves the queue as it is.                             *)
LEMMA OthersStutter ==
  ASSUME \/ Connect \/ Disconnect \/ ConnectionFails
         \/ (\E len \in Lengths : Read(len))
         \/ UNCHANGED stack
  PROVE  UNCHANGED Fifo!vars
BY DEF Connect, Disconnect, ConnectionFails, Read, stack, ring, Held,
       Fifo!vars

(* The ring implements the bounded queue, for every size of the ring and   *)
(* every pattern of segments and reads.                                    *)
THEOREM Refinement == StackSpec => ImplementsFifo
<1>1. IInv /\ IInv' /\ [StackNext]_stack => [Fifo!Next]_(Fifo!vars)
  <2> SUFFICES ASSUME IInv, IInv', [StackNext]_stack
               PROVE  Fifo!Next \/ UNCHANGED Fifo!vars
    OBVIOUS
  <2>1. ASSUME NEW len \in Segments, Receive(len) PROVE Fifo!Next
    BY <2>1, ReceiveMaps DEF Fifo!Next
  <2>2. CASE ReadReturns
    BY <2>2, ReadMaps DEF Fifo!Next
  <2> QED BY <2>1, <2>2, OthersStutter DEF StackNext
<1> QED BY <1>1, InitMaps, Invariance, PTL DEF StackSpec, ImplementsFifo, Fifo!Spec
=============================================================================
