------------------------------ MODULE ByteFifo ------------------------------
(***************************************************************************)
(* What IPStack's receive buffer promises its reader: the bytes of the     *)
(* stream, numbered as they were sent, in their order and each once; bytes *)
(* that find the buffer full are lost, and counted.                        *)
(***************************************************************************)
EXTENDS Integers, Sequences

CONSTANTS Capacity,  \* bytes the buffer holds
          Segments,  \* lengths in which bytes may arrive
          Lengths    \* numbers of bytes a reader may ask for

VARIABLES queue,  \* bytes received and not yet read
          sent,   \* bytes of the stream so far
          lost,   \* count of the lost ones, from whatever it starts at
          got     \* what the last read returned

vars == <<queue, sent, lost, got>>

Least(a, b) == IF a < b THEN a ELSE b

Init == queue = <<>> /\ sent = 0 /\ lost \in Nat /\ got = <<>>

Arrive(n) ==
  LET room == Least(n, Capacity - Len(queue)) IN
    /\ queue' = queue \o [i \in 1..room |-> sent + i]
    /\ sent' = sent + n
    /\ lost' = lost + n - room
    /\ UNCHANGED got

Take(n) ==
  LET taken == Least(n, Len(queue)) IN
    /\ got' = SubSeq(queue, 1, taken)
    /\ queue' = SubSeq(queue, taken + 1, Len(queue))
    /\ UNCHANGED <<sent, lost>>

Next == (\E n \in Segments : Arrive(n)) \/ (\E n \in Lengths : Take(n))

Spec == Init /\ [][Next]_vars
=============================================================================
