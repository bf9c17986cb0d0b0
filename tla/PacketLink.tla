------------------------------ MODULE PacketLink ------------------------------
(***************************************************************************)
(* Two ends of one connection that use MQTTPacket/src: a sender serializes *)
(* packets into its buffer and writes them, the receiver takes them off    *)
(* the stream with MQTTPacket_readnb(), whose state in MQTTTransport       *)
(* survives from call to call, or with MQTTPacket_read(), which waits, and *)
(* deserializes them.  The connection may break at any byte; the receiver  *)
(* goes on with the same MQTTTransport on the next one.                    *)
(***************************************************************************)
EXTENDS MqttPacket

MaxCount == 2   \* the arrays the receiver hands over have room for two

(* The packets that can be sent: fields of the width they have on the      *)
(* wire, no more filters than the receiver has room for (MQTTDeserialize_  *)
(* suback lets one more through).  A user name and a password are refused  *)
(* when empty, and a password without a user name.                         *)
Octets == Seq(0..255)
Strings == {s \in Octets : Len(s) <= MAX_WORD}
Option(S) == {option \in SUBSET S : \A x, y \in option : x = y}
Wills == [topic : Strings, message : Strings, qos : 0..2, retained : BOOLEAN]
Credentials == {s \in Strings : s # <<>>}

Packets ==
  {p \in [kind : {"connect"}, version : {3, 4}, clean : BOOLEAN, keepAlive : 0..MAX_WORD,
          id : Strings, will : Option(Wills), user : Option(Credentials),
          password : Option(Credentials)] : p.user = Absent => p.password = Absent}
  \cup [kind : {"connack"}, present : BOOLEAN, rc : 0..255]
  \cup [kind : {"zero"}, type : {PINGREQ, PINGRESP, DISCONNECT}]
  \cup {p \in [kind : {"publish"}, dup : BOOLEAN, qos : 0..2, retained : BOOLEAN,
               topic : Strings, id : 0..MAX_WORD, payload : Octets] : p.qos = 0 => p.id = 0}
  \cup [kind : {"ack"}, type : {PUBACK, PUBREC, PUBREL, PUBCOMP}, dup : BOOLEAN,
        id : 0..MAX_WORD]
  \cup {p \in [kind : {"subscribe"}, dup : BOOLEAN, id : 0..MAX_WORD, filters : Seq(Strings),
               qoss : Octets] : Len(p.filters) = Len(p.qoss) /\ Len(p.filters) <= MaxCount}
  \cup {p \in [kind : {"suback"}, id : 0..MAX_WORD, granted : Octets] :
          Len(p.granted) <= MaxCount + 1}
  \cup {p \in [kind : {"unsubscribe"}, dup : BOOLEAN, id : 0..MAX_WORD,
               filters : Seq(Strings)] : Len(p.filters) <= MaxCount}
  \cup [kind : {"unsuback"}, id : 0..MAX_WORD]

CONSTANTS
  Streams,    \* sequences of packets to send, one of them in a behaviour
  BUFLEN,     \* size of the buffers at both ends
  Chunks,     \* how many bytes of a body one getfn() may bring, if not all
  MaxBreaks   \* bound: connections that break

ASSUME LinkAssumption ==
  /\ Streams \subseteq Seq(Packets)
  /\ BUFLEN \in 7..MAX_REMAINING   \* no guard of a longer packet asks for too little
  /\ MaxBreaks \in Nat
  /\ Chunks \subseteq Nat \ {0}

VARIABLES
  stream, \* the member of Streams, which stays
  sent,   \* how many of its packets were sent on this connection
  wire,   \* bytes written and not yet read
  trp,    \* MQTTTransport: state, len, multiplier, rem_len
  buf,    \* the receiver's buffer, as far as it is filled
  got,    \* packets received on this connection
  rc,     \* what the last read that did not ask for another call returned
  breaks  \* connections broken so far

link == <<stream, sent, wire, trp, buf, got, rc, breaks>>

LinkInit ==
  /\ stream \in Streams /\ sent = 0 /\ wire = <<>> /\ got = <<>> /\ breaks = 0
  /\ trp = [state |-> 0, len |-> 0, multiplier |-> 0, rem |-> 0]
  /\ buf = <<>> /\ rc = "none"

MAX_NO_OF_REMAINING_LENGTH_BYTES == 4
(* Slips for the properties to notice; no specification uses them.         *)
BreakUnnoticed ==
  /\ breaks < MaxBreaks /\ breaks' = breaks + 1
  /\ rc' = "none" /\ wire' = <<>> /\ sent' = 0 /\ got' = <<>>
  /\ UNCHANGED <<stream, trp, buf>>

-----------------------------------------------------------------------------
Send ==
  /\ sent < Len(stream) /\ sent' = sent + 1
  /\ Serialize(stream[sent'], BUFLEN) # Refused
  /\ wire' = wire \o Serialize(stream[sent'], BUFLEN)
  /\ UNCHANGED <<stream, trp, buf, got, rc, breaks>>

(* getfn() brings n bytes; 0 of them changes nothing, and is no step here. *)
Getfn(n) == wire # <<>> /\ n \in 1..Len(wire) /\ wire' = SubSeq(wire, n + 1, Len(wire))

Complete(frame) ==
  /\ got' = Append(got, Deserialize(frame, MaxCount, 0))
  /\ rc' = "packet"

(* case 0: the header byte.                                                *)
ReadHeader ==
  /\ trp.state = 0
  /\ Getfn(1)
  /\ buf' = <<Head(wire)>>
  /\ trp' = [trp EXCEPT !.state = 1, !.len = 0]
  /\ UNCHANGED <<stream, sent, got, rc, breaks>>

(* case 1: one byte of the length in MQTTPacket_decodenb(); with the last  *)
(* of them the length is put back into the buffer, and a packet without a  *)
(* body is complete.                                                       *)
ReadLength ==
  /\ trp.state = 1
  /\ trp.len < MAX_NO_OF_REMAINING_LENGTH_BYTES   \* no serializer writes more
  /\ Getfn(1)
  /\ LET fresh == trp.len = 0
         multiplier == IF fresh THEN 1 ELSE trp.multiplier
         rem == (IF fresh THEN 0 ELSE trp.rem) + (Head(wire) % 128) * multiplier
         frame == buf \o encode[rem]
         next == [trp EXCEPT !.rem = rem, !.multiplier = 128 * multiplier]
     IN  CASE Head(wire) >= 128 ->
                trp' = [next EXCEPT !.len = @ + 1] /\ UNCHANGED <<buf, got, rc>>
           [] Head(wire) < 128 /\ rem + Len(frame) > BUFLEN ->
                /\ trp' = [next EXCEPT !.state = 0, !.len = Len(frame)]
                /\ rc' = "error" /\ UNCHANGED <<buf, got>>
           [] Head(wire) < 128 /\ rem + Len(frame) <= BUFLEN /\ rem > 0 ->
                /\ trp' = [next EXCEPT !.state = 2, !.len = Len(frame)]
                /\ buf' = frame /\ UNCHANGED <<got, rc>>
           [] OTHER ->
                /\ trp' = [next EXCEPT !.state = 0, !.len = Len(frame)]
                /\ buf' = frame /\ Complete(frame)
  /\ UNCHANGED <<stream, sent, breaks>>

(* case 2: some of the body, or all that is left of it.                    *)
ReadBody(n) ==
  /\ trp.state = 2
  /\ n <= trp.rem
  /\ Getfn(n)
  /\ LET frame == buf \o SubSeq(wire, 1, n) IN
     /\ buf' = frame
     /\ IF n = trp.rem
        THEN trp' = [trp EXCEPT !.state = 0, !.rem = 0, !.len = @ + n] /\ Complete(frame)
        ELSE trp' = [trp EXCEPT !.rem = @ - n, !.len = @ + n] /\ UNCHANGED <<got, rc>>
  /\ UNCHANGED <<stream, sent, breaks>>

(* MQTTPacket_read(): the same with calls that wait for all they ask for.  *)
MQTTPacket_read ==
  /\ trp.state = 0 /\ wire # <<>>
  /\ LET length == decode(wire, 2)
         frame == <<Head(wire)>> \o encode[length.value]
                    \o SubSeq(wire, 2 + length.used, 1 + length.used + length.value)
     IN  /\ Getfn(1 + length.used + length.value)
         /\ Len(frame) <= BUFLEN
         /\ buf' = frame /\ Complete(frame)
  /\ UNCHANGED <<stream, sent, trp, breaks>>

(* getfn() returns -1; both sides start on a new connection.               *)
Break ==
  /\ breaks < MaxBreaks /\ breaks' = breaks + 1
  /\ trp' = [trp EXCEPT !.state = 0]
  /\ rc' = "none" /\ wire' = <<>> /\ sent' = 0 /\ got' = <<>>
  /\ UNCHANGED <<stream, buf>>

LinkNext ==
  \/ Send \/ ReadHeader \/ ReadLength
  \/ \E n \in Chunks \cup {trp.rem} : ReadBody(n)
  \/ MQTTPacket_read
  \/ Break

LinkSpec == LinkInit /\ [][LinkNext]_link

-----------------------------------------------------------------------------
(* The packets received are the first of those sent, field by field, and   *)
(* nothing of a connection that broke is taken for a part of a packet.     *)
(* What the sender's guard lets into its buffer fits into the receiver's,  *)
(* and what a length function announced is what is written behind it: the  *)
(* receiver is never out of step.                                          *)
ReceivedAsSent ==
  /\ got = SubSeq(stream, 1, Len(got))
  /\ rc # "error"
  /\ wire = <<>> => trp.state = 0 /\ Len(got) = sent
=============================================================================
