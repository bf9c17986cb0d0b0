--------------------------- MODULE MqttSessionProofs ---------------------------
(***************************************************************************)
(* Proofs about MqttSession, for every set of identifiers and worlds and   *)
(* any number of messages.  Each invariant is inductive relative to those  *)
(* before it: the phases, the stream and where in it the client reads,     *)
(* then the exchanges over it, from the grant of the subscription to the   *)
(* acknowledgement of each setting.                                        *)
(***************************************************************************)
EXTENDS MqttSession, TLAPS

Parts == [pkt : PacketsOf(Types), part : {"head", "length", "body"}]
UpTypes == {"CONNECT", "SUBSCRIBE", "PINGREQ", "PUBACK", "PUBREC"}

(* Which operation runs in which phase.                                    *)
PhaseInv ==
  /\ phase \in {"connect", "subscribe", "loop", "failed"}
  /\ pc \in {"main", "cycle", "head", "length", "body", "handle", "keepalive"}
  /\ op \in {"none", "connect", "subscribe", "yield"}
  /\ late \in {"inTime", "expired", "overdue"}
  /\ op = "none" <=> pc = "main"
  /\ op = "connect" => phase = "connect"
  /\ op = "subscribe" => phase = "subscribe"
  /\ op = "yield" => phase = "loop"
  /\ phase = "failed" => ~isconnected

(* What is in the packets.                                                 *)
PacketInv ==
  /\ cur \in PacketsOf(Types)
  /\ stream \in Seq(Parts)
  /\ uplink \in Seq(PacketsOf(UpTypes))
  /\ msgs \in 0..MaxMessages
  /\ world \in Worlds

(* A packet's bytes follow one another; the broker's last one is whole, so *)
(* no more is here than was sent, and a head is not here without a length. *)
Follows(x, y) ==
  /\ x.part = "head" => y.part = "length" /\ y.pkt = x.pkt
  /\ x.part = "length" => y.part = IF x.pkt.type = "PINGRESP" THEN "head" ELSE "body"
  /\ x.part = "body" => y.part = "head"

EndsPacket(x) == x.part = "body" \/ (x.part = "length" /\ x.pkt.type = "PINGRESP")

Joined(s) == \A i \in 1..(Len(s) - 1) : Follows(s[i], s[i + 1])

StreamInv ==
  /\ arrived \in 0..Len(stream)
  /\ Joined(stream)
  /\ alive /\ stream # <<>> => EndsPacket(stream[Len(stream)])
  /\ world.wholeHeaders /\ arrived > 0 => stream[arrived].part # "head"

(* Until a read fails, which closes the session or lets the operation run  *)
(* out, the first byte not read is the one the client waits for.           *)
Orderly ==
  /\ world.wholeHeaders
  /\ \/ isconnected
     \/ phase = "connect" /\ ~(pc = "cycle" /\ rc = "broken" /\ late # "inTime")

SyncInv ==
  Orderly =>
    /\ pc = "length" => arrived > 0 /\ stream[1].part = "length" /\ stream[1].pkt = cur
    /\ pc = "body" => /\ stream # <<>> => stream[1].part = "body"
                      /\ alive => stream # <<>>
    /\ pc \notin {"length", "body"} /\ stream # <<>> => stream[1].part = "head"

ReturnInv ==
  /\ result = "failure" => ~isconnected /\ phase # "connect"
  /\ pc = "cycle" /\ rc = "failure" => ~isconnected

(* Without QoS 2 nothing of its exchange is on the way.                    *)
PlainPackets == {p \in PacketsOf(Types) : p.type # "PUBREL" /\ p.qos # 2}
PlainParts == {x \in Parts : x.pkt \in PlainPackets}
PlainUp == PacketsOf(UpTypes \ {"PUBREC"})

Plain == cur \in PlainPackets /\ stream \in Seq(PlainParts) /\ uplink \in Seq(PlainUp)

PlainInv == 2 \notin world.qoses => Plain

LEMMA SequenceFacts ==
  ASSUME NEW S, NEW s \in Seq(S)
  PROVE  /\ Len(s) \in Nat
         /\ \A i \in 1..Len(s) : s[i] \in S
         /\ s # <<>> => Head(s) = s[1] /\ Head(s) \in S /\ Tail(s) \in Seq(S) /\ Len(s) > 0
         /\ \A n \in 0..Len(s) : SubSeq(s, 1, n) \in Seq(S)
         /\ \A n \in 0..Len(s) : SubSeq(s, n + 1, Len(s)) \in Seq(S)
  OBVIOUS

LEMMA TailOfOne ==
  ASSUME NEW S, NEW s \in Seq(S), Len(s) > 0, Tail(s) = <<>>
  PROVE  Len(s) = 1
<1>1. Len(Tail(s)) = Len(s) - 1 /\ Len(s) \in Nat
  OBVIOUS
<1>2. Len(<<>>) = 0
  OBVIOUS
<1>3. Len(Tail(s)) = Len(<<>>)
  BY Zenon
<1> QED BY <1>1, <1>2, <1>3

(* The groups of steps that the cases below name.                          *)
LEMMA StepIs ==
  ASSUME [Next]_vars
  PROVE  \/ Main \/ Publish \/ WriteFails \/ Again \/ Returns
         \/ ReadHead \/ TimeOutHead \/ ReadLength \/ TimeOutLength \/ ReadBody
         \/ TimeOutBody \/ ReadAstray \/ Handle \/ Keepalive
         \/ Arrive \/ Die \/ BrokerAnswers \/ DeadlinePasses
         \/ SentExpires \/ RecvExpires \/ PingExpires
         \/ (\E q \in 0..2 : BrokerPublishes(q)) \/ UNCHANGED vars
  BY DEF Next, Client, ReadPacket

-----------------------------------------------------------------------------
(* Each operation runs in the phase CommHandler calls it in, and a failed  *)
(* set-up leaves the session closed.                                       *)
THEOREM PhaseInvariant == Spec => []PhaseInv
<1>1. Init => PhaseInv
  BY DEF Init, PhaseInv
<1>2. PhaseInv /\ [Next]_vars => PhaseInv'
  <2> SUFFICES ASSUME PhaseInv, [Next]_vars PROVE PhaseInv'
    OBVIOUS
  <2> USE DEF PhaseInv, control, session, broker, timers
  <2>1. CASE Main
    BY <2>1 DEF Main, Connect, Subscribe, Yield, Begin
  <2>2. CASE Publish
    BY <2>2 DEF Publish, PublishQos0
  <2>3. CASE WriteFails
    BY <2>3 DEF WriteFails, CloseSession
  <2>4. CASE Again
    BY <2>4 DEF Again
  <2>5. CASE Returns
    <3>1. CASE YieldReturns
      BY <3>1 DEF YieldReturns, Return, KeepSession
    <3>2. CASE ConnectReturns
      BY <3>2 DEF ConnectReturns, Return
    <3>3. CASE SubscribeReturns
      BY <3>3 DEF SubscribeReturns, Return
    <3>4. CASE WaitFails
      BY <3>4 DEF WaitFails, Return, CloseSession
    <3> QED BY <2>5, <3>1, <3>2, <3>3, <3>4 DEF Returns
  <2>6. CASE ReadHead \/ TimeOutHead \/ ReadLength \/ TimeOutLength \/ ReadBody
    BY <2>6 DEF ReadHead, TimeOutHead, ReadLength, TimeOutLength, ReadBody, Read
  <2>7. CASE TimeOutBody \/ ReadAstray
    BY <2>7 DEF TimeOutBody, ReadAstray, CycleExit, CloseSession, KeepSession
  <2>8. CASE Handle
    BY <2>8 DEF Handle, HandlePublish, HandlePublishFails, HandleOther, HandleUnknown,
                CycleExit, CloseSession, KeepSession
  <2>9. CASE Keepalive
    BY <2>9 DEF Keepalive, KeepaliveIdle, SendPing, SendPingFails, PingMissing,
                CycleExit, CloseSession
  <2>10. CASE Arrive \/ Die \/ BrokerAnswers \/ \E q \in 0..2 : BrokerPublishes(q)
    BY <2>10 DEF Arrive, Die, BrokerAnswers, BrokerPublishes
  <2>11. CASE DeadlinePasses
    BY <2>11 DEF DeadlinePasses
  <2>12. CASE SentExpires \/ RecvExpires \/ PingExpires
    BY <2>12 DEF SentExpires, RecvExpires, PingExpires, Elapse
  <2>13. CASE UNCHANGED vars
    BY <2>13 DEF vars
  <2> QED BY StepIs, <2>1, <2>2, <2>3, <2>4, <2>5, <2>6, <2>7, <2>8, <2>9, <2>10,
             <2>11, <2>12, <2>13
<1> QED BY <1>1, <1>2, PTL DEF Spec

-----------------------------------------------------------------------------
LEMMA PacketsTyped ==
  ASSUME NEW types, NEW t \in types, NEW i \in Ids \cup {0}
  PROVE  Packet(t) \in PacketsOf(types) /\ [Packet(t) EXCEPT !.id = i] \in PacketsOf(types)
<1>1. 0 \in 0..MaxMessages
  BY SessionAssumption
<1>2. Packet(t) \in PacketsOf(types)
  BY <1>1 DEF Packet, PacketsOf
<1>3. ASSUME NEW p \in PacketsOf(types) PROVE [p EXCEPT !.id = i] \in PacketsOf(types)
  BY DEF PacketsOf
<1> QED BY <1>2, <1>3

LEMMA SendTyped ==
  ASSUME PacketInv, NEW t \in UpTypes, NEW i \in Ids \cup {0}, SendPacket(t, i)
  PROVE  uplink' \in Seq(PacketsOf(UpTypes))
<1> DEFINE p == [Packet(t) EXCEPT !.id = i]
<1>1. p \in PacketsOf(UpTypes)
  BY PacketsTyped
<1>2. uplink' = Append(uplink, p) \/ uplink' = uplink
  BY DEF SendPacket, Write
<1> HIDE DEF p
<1> QED BY <1>1, <1>2 DEF PacketInv

LEMMA BytesTyped ==
  ASSUME NEW p \in PacketsOf(Types)
  PROVE  Bytes(p) \in Seq(Parts)
<1>1. \A k \in {"head", "length", "body"} : Part(p, k) \in Parts
  BY DEF Part, Parts
<1> QED BY <1>1 DEF Bytes

LEMMA AnswerTyped ==
  ASSUME PacketInv, NEW p \in PacketsOf(Types), Answer(p)
  PROVE  stream' \in Seq(Parts)
  BY BytesTyped DEF Answer, PacketInv

LEMMA TakeTyped ==
  ASSUME PacketInv, StreamInv, Take, NEW k, NextIs(k)
  PROVE  stream' \in Seq(Parts) /\ Head(stream) \in Parts
<1>1. stream # <<>>
  BY DEF NextIs, StreamInv, PacketInv
<1> QED BY <1>1 DEF Take, PacketInv

(* What the broker sends.                                                  *)
LEMMA AnswersTyped ==
  ASSUME PacketInv, BrokerAnswers
  PROVE  UNCHANGED input \/ \E p \in PacketsOf(Types) : Answer(p)
<1> DEFINE i == Head(uplink).id
<1>1. i \in Ids \cup {0}
  <2>1. Head(uplink) \in PacketsOf(UpTypes)
    BY DEF BrokerAnswers, PacketInv
  <2> QED BY <2>1 DEF PacketsOf
<1>2. \/ Answer(Packet("CONNACK")) \/ Answer(Packet("SUBACK"))
      \/ Answer(Packet("PINGRESP")) \/ Answer([Packet("PUBREL") EXCEPT !.id = i])
      \/ UNCHANGED input
  BY DEF BrokerAnswers
<1> HIDE DEF i
<1>3. /\ Packet("CONNACK") \in PacketsOf(Types) /\ Packet("SUBACK") \in PacketsOf(Types)
      /\ Packet("PINGRESP") \in PacketsOf(Types)
      /\ [Packet("PUBREL") EXCEPT !.id = i] \in PacketsOf(Types)
  BY <1>1, PacketsTyped DEF Types
<1> QED BY <1>2, <1>3

LEMMA PublishesTyped ==
  ASSUME PacketInv, NEW q \in 0..2, BrokerPublishes(q)
  PROVE  msgs' \in 0..MaxMessages /\ \E p \in PacketsOf(Types) : Answer(p)
<1>1. msgs' \in 0..MaxMessages
  BY SessionAssumption DEF BrokerPublishes, PacketInv
<1>2. PICK i \in Ids : Answer([type |-> "PUBLISH", qos |-> q, id |-> i, msg |-> msgs',
                             cut |-> FALSE])
  BY DEF BrokerPublishes
<1>3. [type |-> "PUBLISH", qos |-> q, id |-> i, msg |-> msgs', cut |-> FALSE]
        \in PacketsOf(Types)
  BY <1>1 DEF PacketsOf, Types
<1> QED BY <1>1, <1>2, <1>3

LEMMA BrokerTyped ==
  ASSUME PacketInv, BrokerAnswers
  PROVE  PacketInv'
<1>1. uplink' \in Seq(PacketsOf(UpTypes))
  BY DEF BrokerAnswers, PacketInv
<1>2. stream' \in Seq(Parts)
  BY AnswersTyped, AnswerTyped DEF input, PacketInv
<1>3. cur' = cur /\ msgs' = msgs /\ world' = world
  BY DEF BrokerAnswers, control
<1> QED BY <1>1, <1>2, <1>3 DEF PacketInv

LEMMA PublishTyped ==
  ASSUME PacketInv, NEW q \in 0..2, BrokerPublishes(q)
  PROVE  PacketInv'
<1>1. msgs' \in 0..MaxMessages /\ stream' \in Seq(Parts)
  BY PublishesTyped, AnswerTyped
<1>2. cur' = cur /\ uplink' = uplink /\ world' = world
  BY DEF BrokerPublishes, control
<1> QED BY <1>1, <1>2 DEF PacketInv

LEMMA PacketStep ==
  ASSUME PacketInv, StreamInv, [Next]_vars
  PROVE  PacketInv'
<1> USE DEF PacketInv, control, session, broker, input, timers
<1>0. NoPacket \in PacketsOf(Types)
  BY PacketsTyped DEF NoPacket, Types
<1>1. CASE Main
  <2>1. CASE Connect
    <3>1. uplink' \in Seq(PacketsOf(UpTypes))
      BY <2>1, SendTyped DEF Connect, UpTypes
    <3> QED BY <1>0, <2>1, <3>1 DEF Connect, Begin
  <2>2. CASE Subscribe
    <3>1. uplink' \in Seq(PacketsOf(UpTypes))
      BY <2>2, SendTyped DEF Subscribe, UpTypes
    <3> QED BY <1>0, <2>2, <3>1 DEF Subscribe, Begin
  <2>3. CASE Yield
    BY <1>0, <2>3 DEF Yield, Begin
  <2> QED BY <1>1, <2>1, <2>2, <2>3 DEF Main
<1>2. CASE Publish \/ WriteFails
  BY <1>2 DEF Publish, PublishQos0, WriteFails
<1>3. CASE Again
  BY <1>0, <1>3 DEF Again
<1>4. CASE Returns
  BY <1>4 DEF Returns, YieldReturns, ConnectReturns, SubscribeReturns, WaitFails, Return
<1>5. CASE ReadHead
  <2>1. stream' \in Seq(Parts) /\ Head(stream).pkt \in PacketsOf(Types)
    BY <1>5, TakeTyped DEF ReadHead, Parts
  <2> QED BY <1>5, <2>1 DEF ReadHead
<1>6. CASE ReadLength
  BY <1>6, TakeTyped DEF ReadLength
<1>7. CASE ReadBody
  BY <1>7, TakeTyped DEF ReadBody
<1>8. CASE TimeOutHead \/ TimeOutBody
  BY <1>8 DEF TimeOutHead, TimeOutBody
<1>9. CASE TimeOutLength
  <2>1. [cur EXCEPT !.cut = TRUE] \in PacketsOf(Types)
    BY DEF PacketsOf
  <2> QED BY <1>9, <2>1 DEF TimeOutLength
<1>10. CASE ReadAstray
  <2>1. stream' \in Seq(Parts)
    <3>1. PICK n \in 1..arrived : stream' = SubSeq(stream, n + 1, Len(stream))
      BY <1>10 DEF ReadAstray
    <3>2. n \in 0..Len(stream)
      BY DEF StreamInv
    <3> QED BY <3>1, <3>2, SequenceFacts
  <2>2. uplink' \in Seq(PacketsOf(UpTypes))
    BY <1>10, SendTyped DEF ReadAstray, UpTypes
  <2> QED BY <1>10, <2>1, <2>2 DEF ReadAstray
<1>11. CASE Handle
  <2>1. CASE HandlePublish
    <3>1. IdsRead(cur) \subseteq Ids \cup {0}
      BY DEF IdsRead, PacketsOf
    <3>2. uplink' \in Seq(PacketsOf(UpTypes))
      BY <2>1, <3>1, SendTyped DEF HandlePublish, UpTypes
    <3> QED BY <2>1, <3>2 DEF HandlePublish
  <2>2. CASE HandlePublishFails \/ HandleOther \/ HandleUnknown
    BY <2>2 DEF HandlePublishFails, HandleOther, HandleUnknown
  <2> QED BY <1>11, <2>1, <2>2 DEF Handle
<1>12. CASE Keepalive
  <2>1. uplink' \in Seq(PacketsOf(UpTypes))
    BY <1>12, SendTyped DEF Keepalive, KeepaliveIdle, SendPing, SendPingFails, PingMissing,
                            UpTypes
  <2> QED BY <1>12, <2>1 DEF Keepalive, KeepaliveIdle, SendPing, SendPingFails, PingMissing
<1>13. CASE Arrive \/ DeadlinePasses
  BY <1>13 DEF Arrive, DeadlinePasses
<1>14. CASE Die
  <2>1. stream' \in Seq(Parts) /\ uplink' \in Seq(PacketsOf(UpTypes))
    BY <1>14, SequenceFacts DEF Die, StreamInv
  <2> QED BY <1>14, <2>1 DEF Die
<1>15. CASE BrokerAnswers
  BY <1>15, BrokerTyped
<1>16. CASE \E q \in 0..2 : BrokerPublishes(q)
  BY <1>16, PublishTyped
<1>17. CASE SentExpires \/ RecvExpires \/ PingExpires
  BY <1>17 DEF SentExpires, RecvExpires, PingExpires, Elapse
<1>18. CASE UNCHANGED vars
  BY <1>18 DEF vars
<1> QED BY StepIs, <1>1, <1>2, <1>3, <1>4, <1>5, <1>6, <1>7, <1>8, <1>9, <1>10, <1>11,
           <1>12, <1>13, <1>14, <1>15, <1>16, <1>17, <1>18

-----------------------------------------------------------------------------
LEMMA BytesJoined ==
  ASSUME NEW p \in PacketsOf(Types)
  PROVE  /\ Joined(Bytes(p)) /\ Len(Bytes(p)) \in {2, 3}
         /\ Bytes(p)[1].part = "head" /\ EndsPacket(Bytes(p)[Len(Bytes(p))])
  BY DEF Bytes, Part, Joined, Follows, EndsPacket

LEMMA JoinedAppended ==
  ASSUME NEW s \in Seq(Parts), NEW b \in Seq(Parts), Joined(s), Joined(b),
         s # <<>> => EndsPacket(s[Len(s)]), b # <<>>, b[1].part = "head"
  PROVE  Joined(s \o b) /\ (s \o b)[Len(s \o b)] = b[Len(b)]
<1>1. Len(s \o b) = Len(s) + Len(b) /\ Len(s) \in Nat /\ Len(b) \in Nat \ {0}
  OBVIOUS
<1>2. /\ \A i \in 1..Len(s) : (s \o b)[i] = s[i]
      /\ \A i \in 1..Len(b) : (s \o b)[Len(s) + i] = b[i]
  OBVIOUS
<1>3. ASSUME NEW i \in 1..(Len(s) + Len(b) - 1)
      PROVE  Follows((s \o b)[i], (s \o b)[i + 1])
  <2>1. CASE i < Len(s)
    BY <1>1, <1>2, <2>1 DEF Joined
  <2>2. CASE i = Len(s)
    BY <1>1, <1>2, <2>2 DEF Follows, EndsPacket
  <2>3. CASE i > Len(s)
    <3> DEFINE k == i - Len(s)
    <3>1. k \in 1..(Len(b) - 1) /\ i = Len(s) + k
      BY <1>1, <2>3
    <3> HIDE DEF k
    <3>2. k \in 1..Len(b) /\ k + 1 \in 1..Len(b) /\ i + 1 = Len(s) + (k + 1)
      BY <1>1, <3>1
    <3>3. (s \o b)[i] = b[k] /\ (s \o b)[i + 1] = b[k + 1]
      BY <1>2, <3>1, <3>2
    <3> QED BY <3>1, <3>3 DEF Joined
  <2> QED BY <1>1, <2>1, <2>2, <2>3
<1> QED BY <1>1, <1>2, <1>3 DEF Joined

LEMMA AnswerJoins ==
  ASSUME PacketInv, StreamInv, NEW p \in PacketsOf(Types), Answer(p), alive,
         alive' = alive, world' = world
  PROVE  StreamInv'
<1> DEFINE b == Bytes(p)
<1>1. b \in Seq(Parts) /\ b # <<>> /\ Joined(b) /\ b[1].part = "head" /\ EndsPacket(b[Len(b)])
  BY BytesTyped, BytesJoined
<1>2. stream' = stream \o b /\ arrived' = arrived
  BY DEF Answer
<1> HIDE DEF b
<1>3. Joined(stream \o b) /\ (stream \o b)[Len(stream \o b)] = b[Len(b)]
  BY <1>1, JoinedAppended DEF PacketInv, StreamInv
<1>4. arrived \in 0..Len(stream \o b)
        /\ (arrived > 0 => (stream \o b)[arrived] = stream[arrived])
  BY <1>1 DEF PacketInv, StreamInv
<1> QED BY <1>1, <1>2, <1>3, <1>4 DEF StreamInv

(* Any number of the bytes that are here may be read.                      *)
LEMMA DropJoined ==
  ASSUME PacketInv, StreamInv, NEW n \in 1..arrived,
         stream' = SubSeq(stream, n + 1, Len(stream)), arrived' = arrived - n,
         alive' = alive, world' = world
  PROVE  StreamInv'
<1> DEFINE t == SubSeq(stream, n + 1, Len(stream))
           left == arrived - n
<1>1. /\ Len(stream) \in Nat /\ arrived \in 0..Len(stream) /\ stream \in Seq(Parts)
      /\ n \in 1..Len(stream)
  BY DEF StreamInv, PacketInv
<1>2. Len(t) = Len(stream) - n /\ \A i \in 1..(Len(stream) - n) : t[i] = stream[i + n]
  BY <1>1
<1> HIDE DEF t
<1>3. ASSUME NEW i \in 1..(Len(t) - 1)
      PROVE  Follows(t[i], t[i + 1])
  <2>1. /\ i \in 1..(Len(stream) - n) /\ i + 1 \in 1..(Len(stream) - n)
        /\ i + n \in 1..(Len(stream) - 1) /\ (i + 1) + n = (i + n) + 1
    BY <1>1, <1>2
  <2>2. t[i] = stream[i + n] /\ t[i + 1] = stream[(i + n) + 1]
    BY <1>2, <2>1
  <2> QED BY <2>1, <2>2 DEF Joined, StreamInv
<1>4. left \in 0..Len(t)
  BY <1>1, <1>2
<1>5. left > 0 => t[left] = stream[arrived]
  BY <1>1, <1>2
<1>6. t # <<>> => stream # <<>> /\ t[Len(t)] = stream[Len(stream)]
  BY <1>1, <1>2
<1>7. arrived > 0
  BY <1>1
<1>8. stream' = t /\ arrived' = left
  BY DEF t
<1> HIDE DEF left
<1> QED BY <1>3, <1>4, <1>5, <1>6, <1>7, <1>8 DEF StreamInv, Joined

LEMMA TakeJoins ==
  ASSUME PacketInv, StreamInv, Take, NEW k, NextIs(k), alive' = alive, world' = world
  PROVE  StreamInv'
<1>1. stream \in Seq(Parts) /\ arrived \in 1..Len(stream)
  BY DEF PacketInv, StreamInv, NextIs
<1>2. Tail(stream) = SubSeq(stream, 1 + 1, Len(stream))
  BY <1>1
<1>3. 1 \in 1..arrived
  BY <1>1
<1> QED BY <1>2, <1>3, DropJoined DEF Take

LEMMA StreamStep ==
  ASSUME PacketInv, StreamInv, [Next]_vars
  PROVE  StreamInv'
<1>1. CASE UNCHANGED <<stream, arrived, alive, world>>
  BY <1>1 DEF StreamInv, Joined
<1>2. CASE ReadHead
  BY <1>2, TakeJoins DEF ReadHead, broker
<1>3. CASE ReadLength
  BY <1>3, TakeJoins DEF ReadLength, broker
<1>4. CASE ReadBody
  BY <1>4, TakeJoins DEF ReadBody, broker
<1>5. CASE ReadAstray
  <2>1. PICK n \in 1..arrived :
          stream' = SubSeq(stream, n + 1, Len(stream)) /\ arrived' = arrived - n
    BY <1>5 DEF ReadAstray
  <2> QED BY <1>5, <2>1, DropJoined DEF ReadAstray, broker
<1>6. CASE Arrive
  <2> DEFINE k == IF world.wholeHeaders /\ stream[arrived + 1].part = "head" THEN 2 ELSE 1
  <2>1. /\ stream \in Seq(Parts) /\ arrived \in Nat /\ arrived < Len(stream)
        /\ stream' = stream /\ world' = world /\ alive' = alive /\ alive
    BY <1>6 DEF Arrive, broker, PacketInv, StreamInv
  <2>2. /\ arrived' = arrived + k
    BY <1>6 DEF Arrive
  <2>3. stream[arrived + 1].part = "head" =>
          arrived + 2 <= Len(stream) /\ stream[arrived + 2].part = "length"
    <3>1. SUFFICES ASSUME stream[arrived + 1].part = "head"
                   PROVE  arrived + 2 <= Len(stream) /\ stream[arrived + 2].part = "length"
      OBVIOUS
    <3>2. arrived + 1 # Len(stream)
      BY <2>1, <3>1 DEF StreamInv, EndsPacket
    <3>3. arrived + 1 \in 1..(Len(stream) - 1) /\ (arrived + 1) + 1 = arrived + 2
      BY <2>1, <3>2
    <3> QED BY <2>1, <3>1, <3>3 DEF StreamInv, Joined, Follows
  <2>4. arrived + k \in 0..Len(stream) /\
          (world.wholeHeaders => stream[arrived + k].part # "head")
    BY <2>1, <2>3
  <2> HIDE DEF k
  <2> QED BY <2>1, <2>2, <2>4 DEF StreamInv
<1>7. CASE Die
  <2> DEFINE t == SubSeq(stream, 1, arrived)
  <2>1. /\ stream' = t /\ arrived' = arrived /\ world' = world /\ ~alive'
        /\ stream \in Seq(Parts) /\ arrived \in 0..Len(stream)
    BY <1>7 DEF Die, PacketInv, StreamInv
  <2>2. Len(t) = arrived /\ \A i \in 1..arrived : t[i] = stream[i]
    BY <2>1
  <2> HIDE DEF t
  <2>3. Joined(t)
    BY <2>1, <2>2 DEF Joined, StreamInv
  <2> QED BY <2>1, <2>2, <2>3 DEF StreamInv
<1>8. CASE BrokerAnswers
  <2>1. alive /\ alive' = alive /\ world' = world
    BY <1>8 DEF BrokerAnswers
  <2>2. CASE UNCHANGED input
    BY <1>1, <2>1, <2>2 DEF input
  <2>3. CASE \E p \in PacketsOf(Types) : Answer(p)
    BY <2>1, <2>3, AnswerJoins
  <2> QED BY <1>8, <2>2, <2>3, AnswersTyped
<1>9. CASE \E q \in 0..2 : BrokerPublishes(q)
  <2>1. alive /\ alive' = alive /\ world' = world
    BY <1>9 DEF BrokerPublishes
  <2>2. \E p \in PacketsOf(Types) : Answer(p)
    BY <1>9, PublishesTyped
  <2> QED BY <2>1, <2>2, AnswerJoins
<1>10. CASE Main \/ Publish \/ WriteFails \/ Again \/ Returns
  BY <1>1, <1>10 DEF Main, Connect, Subscribe, Yield, Publish, PublishQos0, WriteFails, Again, Returns,
    YieldReturns, ConnectReturns, SubscribeReturns, WaitFails, Return, input, broker
<1>11. CASE TimeOutHead \/ TimeOutLength \/ TimeOutBody \/ Handle \/ Keepalive
  BY <1>1, <1>11 DEF TimeOutHead, TimeOutLength, TimeOutBody, Handle, HandlePublish,
    HandlePublishFails, HandleOther, HandleUnknown, Keepalive, KeepaliveIdle, SendPing,
    SendPingFails, PingMissing, input, broker
<1>12. CASE DeadlinePasses \/ SentExpires \/ RecvExpires \/ PingExpires \/ UNCHANGED vars
  BY <1>1, <1>12 DEF DeadlinePasses, SentExpires, RecvExpires, PingExpires, Elapse, input,
    broker, vars
<1> QED BY StepIs, <1>2, <1>3, <1>4, <1>5, <1>6, <1>7, <1>8, <1>9, <1>10, <1>11, <1>12

(* Whatever is sent, read or lost, the unread stream is a run of packets   *)
(* in which head, length and body follow one another.                      *)
THEOREM StreamInvariant == Spec => [](PacketInv /\ StreamInv)
<1>1. Init => PacketInv /\ StreamInv
  <2> SUFFICES ASSUME Init PROVE PacketInv /\ StreamInv
    OBVIOUS
  <2>1. /\ cur = NoPacket /\ stream = <<>> /\ uplink = <<>> /\ msgs = 0 /\ arrived = 0
        /\ world \in Worlds
    BY DEF Init
  <2>2. NoPacket \in PacketsOf(Types)
    BY PacketsTyped DEF NoPacket, Types
  <2>3. 0 \in 0..MaxMessages
    BY SessionAssumption
  <2>4. PacketInv
    BY <2>1, <2>2, <2>3 DEF PacketInv
  <2> QED BY <2>1, <2>4 DEF StreamInv, Joined
<1>2. PacketInv /\ StreamInv /\ [Next]_vars => PacketInv' /\ StreamInv'
  BY PacketStep, StreamStep
<1> QED BY <1>1, <1>2, PTL DEF Spec

-----------------------------------------------------------------------------
(* A step into an orderly state comes from one.                            *)
LEMMA OrderlyBefore ==
  ASSUME PhaseInv, PacketInv, [Next]_vars, Orderly'
  PROVE  Orderly
<1> USE DEF Orderly, PhaseInv, control, session, broker, timers
<1>1. CASE Main \/ Publish \/ WriteFails \/ Again
  BY <1>1 DEF Main, Connect, Subscribe, Yield, Begin, Publish, PublishQos0, WriteFails, CloseSession, Again
<1>2. CASE Returns
  <2>1. CASE YieldReturns
    BY <2>1 DEF YieldReturns, Return, KeepSession
  <2>2. CASE ConnectReturns
    BY <2>2 DEF ConnectReturns, Return
  <2>3. CASE SubscribeReturns
    BY <2>3 DEF SubscribeReturns, Return
  <2>4. CASE WaitFails
    BY <2>4 DEF WaitFails, Return, CloseSession
  <2> QED BY <1>2, <2>1, <2>2, <2>3, <2>4 DEF Returns
<1>3. CASE ReadHead \/ TimeOutHead \/ ReadLength \/ TimeOutLength \/ ReadBody
  BY <1>3 DEF ReadHead, TimeOutHead, ReadLength, TimeOutLength, ReadBody, Read
<1>4. CASE TimeOutBody \/ ReadAstray
  BY <1>4 DEF TimeOutBody, ReadAstray, CycleExit, CloseSession, KeepSession
<1>5. CASE Handle
  BY <1>5 DEF Handle, HandlePublish, HandlePublishFails, HandleOther, HandleUnknown,
              CycleExit, CloseSession, KeepSession
<1>6. CASE Keepalive
  BY <1>6 DEF Keepalive, KeepaliveIdle, SendPing, SendPingFails, PingMissing,
              CycleExit, CloseSession
<1>7. CASE Arrive \/ Die \/ BrokerAnswers \/ \E q \in 0..2 : BrokerPublishes(q)
  BY <1>7 DEF Arrive, Die, BrokerAnswers, BrokerPublishes
<1>8. CASE DeadlinePasses \/ SentExpires \/ RecvExpires \/ PingExpires
  BY <1>8 DEF DeadlinePasses, SentExpires, RecvExpires, PingExpires, Elapse
<1>9. CASE UNCHANGED vars
  BY <1>9 DEF vars
<1> QED BY StepIs, <1>1, <1>2, <1>3, <1>4, <1>5, <1>6, <1>7, <1>8, <1>9

(* The client takes the byte it waits for.                                 *)
LEMMA Taken ==
  ASSUME PacketInv, StreamInv, NEW k, NextIs(k), Take
  PROVE  /\ Head(stream) = stream[1] /\ stream[1].part = k
         /\ Len(stream) > 0 /\ arrived > 0 /\ arrived' = arrived - 1
         /\ stream' # <<>> => Len(stream) > 1 /\ stream'[1] = stream[2]
                               /\ Follows(stream[1], stream[2])
<1>1. stream \in Seq(Parts) /\ arrived \in 1..Len(stream)
  BY DEF PacketInv, StreamInv, NextIs
<1>2. Head(stream) = stream[1] /\ stream[1].part = k
  BY <1>1 DEF NextIs
<1>3. stream' = Tail(stream) /\ arrived' = arrived - 1
  BY DEF Take
<1>4. stream' # <<>> => Len(stream) > 1 /\ stream'[1] = stream[2]
  BY <1>1, <1>3
<1>5. Len(stream) > 1 => Follows(stream[1], stream[2])
  <2>1. SUFFICES ASSUME Len(stream) > 1 PROVE Follows(stream[1], stream[2])
    OBVIOUS
  <2>2. 1 \in 1..(Len(stream) - 1) /\ 1 + 1 = 2
    BY <1>1, <2>1
  <2> QED BY <2>2 DEF StreamInv, Joined
<1> QED BY <1>1, <1>2, <1>3, <1>4, <1>5

(* Nothing is read, and the client does not begin to.                      *)
LEMMA SyncLeftAlone ==
  ASSUME SyncInv, Orderly, stream' = stream,
         \/ pc' \notin {"length", "body"} /\ pc \notin {"length", "body"}
         \/ pc' = pc /\ cur' = cur /\ arrived' = arrived /\ alive' = alive
  PROVE  SyncInv'
  BY DEF SyncInv

(* What is sent comes after what was sent before.                          *)
LEMMA SyncAppended ==
  ASSUME PacketInv, SyncInv, Orderly, NEW p \in PacketsOf(Types), Answer(p), alive,
         alive' = alive, StreamInv, pc' = pc, cur' = cur
  PROVE  SyncInv'
<1> DEFINE b == Bytes(p)
<1>1. b \in Seq(Parts) /\ b # <<>> /\ b[1].part = "head"
  BY BytesTyped, BytesJoined
<1>2. stream' = stream \o b /\ arrived' = arrived
  BY DEF Answer
<1> HIDE DEF b
<1>3. stream' # <<>> /\ IF stream = <<>> THEN stream'[1] = b[1] ELSE stream'[1] = stream[1]
  BY <1>1, <1>2 DEF PacketInv
<1>4. arrived > 0 => stream # <<>>
  BY DEF StreamInv, PacketInv
<1> QED BY <1>1, <1>2, <1>3, <1>4 DEF SyncInv

LEMMA SyncStep ==
  ASSUME PhaseInv, PacketInv, StreamInv, StreamInv', SyncInv, [Next]_vars, Orderly'
  PROVE  SyncInv'
<1>0. Orderly
  BY OrderlyBefore
<1> USE DEF control, session, broker, input, timers
<1>1. CASE Main \/ Publish \/ WriteFails \/ Again
  BY <1>0, <1>1, SyncLeftAlone DEF Main, Connect, Subscribe, Yield, Begin, Publish, PublishQos0,
    WriteFails, Again
<1>2. CASE Returns
  BY <1>0, <1>2, SyncLeftAlone DEF Returns, YieldReturns, ConnectReturns,
    SubscribeReturns, WaitFails, Return
<1>3. CASE ReadHead
  <2>1. /\ NextIs("head") /\ Take /\ pc' = "length" /\ cur' = Head(stream).pkt
        /\ world.wholeHeaders
    BY <1>0, <1>3 DEF ReadHead, Read, Orderly
  <2>2. stream[1].part = "head" /\ arrived > 0
    BY <2>1, Taken
  <2>3. arrived # 1
    BY <2>1, <2>2 DEF StreamInv
  <2>4. arrived' > 0 /\ stream' # <<>>
    <3>1. arrived \in Nat /\ arrived' = arrived - 1
      BY <2>1, Taken DEF StreamInv, PacketInv
    <3>2. arrived - 1 > 0
      BY <2>2, <2>3, <3>1
    <3>3. stream' # <<>>
      BY <3>1, <3>2 DEF StreamInv
    <3> QED BY <3>1, <3>2, <3>3
  <2>5. stream'[1].part = "length" /\ stream'[1].pkt = stream[1].pkt
    BY <2>1, <2>2, <2>4, Taken DEF Follows
  <2>6. cur' = stream[1].pkt
    BY <2>1, Taken
  <2> QED BY <2>1, <2>4, <2>5, <2>6 DEF SyncInv
<1>4. CASE ReadLength
  <2>1. /\ NextIs("length") /\ Take /\ pc = "length" /\ cur' = cur /\ alive' = alive
        /\ pc' = IF cur.type = "PINGRESP" THEN "handle" ELSE "body"
    BY <1>4 DEF ReadLength, Read
  <2>2. stream[1].part = "length" /\ stream[1].pkt = cur
    BY <1>0, <2>1 DEF SyncInv
  <2>3. stream' # <<>> =>
          stream'[1].part = IF cur.type = "PINGRESP" THEN "head" ELSE "body"
    BY <2>1, <2>2, Taken DEF Follows
  <2>4. alive /\ cur.type # "PINGRESP" => stream' # <<>>
    <3>1. Len(stream) > 0 /\ stream \in Seq(Parts)
      BY <2>1, Taken DEF PacketInv
    <3>2. stream' = Tail(stream)
      BY <2>1 DEF Take
    <3>3. stream' = <<>> => Len(stream) = 1
      BY <3>1, <3>2, TailOfOne
    <3> QED BY <2>2, <3>1, <3>3 DEF StreamInv, EndsPacket
  <2> QED BY <2>1, <2>3, <2>4 DEF SyncInv
<1>5. CASE ReadBody
  <2>1. NextIs("body") /\ Take /\ pc' = "handle"
    BY <1>5 DEF ReadBody, Read
  <2>2. stream' # <<>> => stream'[1].part = "head"
    BY <2>1, Taken DEF Follows
  <2> QED BY <2>1, <2>2 DEF SyncInv
<1>6. CASE TimeOutHead
  BY <1>0, <1>6, SyncLeftAlone DEF TimeOutHead
<1>7. CASE TimeOutLength
  BY <1>0, <1>7 DEF TimeOutLength, SyncInv
<1>8. CASE TimeOutBody
  BY <1>8 DEF TimeOutBody, CycleExit, CloseSession, Timely, Orderly, PhaseInv
<1>9. CASE ReadAstray
  <2>1. pc = "head" /\ arrived > 0 /\ Head(stream).part # "head"
    BY <1>9 DEF ReadAstray, NextIs
  <2>2. stream # <<>> /\ Head(stream) = stream[1]
    BY <2>1 DEF StreamInv, PacketInv
  <2> QED BY <1>0, <2>1, <2>2 DEF SyncInv
<1>10. CASE Handle
  BY <1>0, <1>10, SyncLeftAlone DEF Handle, HandlePublish, HandlePublishFails, HandleOther,
    HandleUnknown, CycleExit
<1>11. CASE Keepalive
  BY <1>0, <1>11, SyncLeftAlone DEF Keepalive, KeepaliveIdle, SendPing, SendPingFails,
    PingMissing, CycleExit
<1>12. CASE Arrive
  <2>1. arrived > 0 => arrived' > 0
    BY <1>12 DEF Arrive, StreamInv, PacketInv
  <2> QED BY <1>0, <1>12, <2>1 DEF Arrive, SyncInv
<1>13. CASE Die
  <2>1. /\ stream \in Seq(Parts) /\ arrived \in 0..Len(stream)
        /\ stream' = SubSeq(stream, 1, arrived) /\ arrived' = arrived
        /\ pc' = pc /\ cur' = cur /\ ~alive'
    BY <1>13 DEF Die, StreamInv, PacketInv
  <2>2. (stream' # <<>> => stream # <<>> /\ stream'[1] = stream[1])
          /\ (arrived > 0 => stream' # <<>>)
    BY <2>1
  <2> QED BY <1>0, <2>1, <2>2 DEF SyncInv
<1>14. CASE BrokerAnswers
  <2>1. alive /\ alive' = alive /\ pc' = pc /\ cur' = cur
    BY <1>14 DEF BrokerAnswers
  <2>2. UNCHANGED input \/ \E p \in PacketsOf(Types) : Answer(p)
    BY <1>14, AnswersTyped
  <2>3. CASE UNCHANGED input
    BY <1>0, <2>1, <2>3, SyncLeftAlone
  <2>4. CASE \E p \in PacketsOf(Types) : Answer(p)
    BY <1>0, <2>1, <2>4, SyncAppended
  <2> QED BY <2>2, <2>3, <2>4
<1>15. CASE \E q \in 0..2 : BrokerPublishes(q)
  <2>1. alive /\ alive' = alive /\ pc' = pc /\ cur' = cur
    BY <1>15 DEF BrokerPublishes
  <2>2. \E p \in PacketsOf(Types) : Answer(p)
    BY <1>15, PublishesTyped
  <2> QED BY <1>0, <2>1, <2>2, SyncAppended
<1>16. CASE DeadlinePasses \/ SentExpires \/ RecvExpires \/ PingExpires
  BY <1>0, <1>16, SyncLeftAlone DEF DeadlinePasses, SentExpires, RecvExpires, PingExpires,
    Elapse
<1>17. CASE UNCHANGED vars
  BY <1>0, <1>17, SyncLeftAlone DEF vars
<1> QED BY StepIs, <1>1, <1>2, <1>3, <1>4, <1>5, <1>6, <1>7, <1>8, <1>9, <1>10, <1>11,
           <1>12, <1>13, <1>14, <1>15, <1>16, <1>17

(* Until a read fails, the first unread byte is the one readPacket() waits *)
(* for.                                                                    *)
THEOREM SyncInvariant == Spec => []SyncInv
<1>1. Init => SyncInv
  BY DEF Init, SyncInv
<1>2. PhaseInv /\ PacketInv /\ StreamInv /\ StreamInv' /\ SyncInv /\ [Next]_vars => SyncInv'
  <2>1. ~Orderly' => SyncInv'
    BY DEF SyncInv
  <2> QED BY <2>1, SyncStep
<1> QED BY <1>1, <1>2, PhaseInvariant, StreamInvariant, PTL DEF Spec

(* While the session is open the client begins to read at the first byte   *)
(* of a packet, unless a deadline fell between a head and its length.      *)
THEOREM InStepAlways == Spec => []InStep
<1>1. PacketInv /\ SyncInv => InStep
  <2> SUFFICES ASSUME PacketInv, SyncInv, world.wholeHeaders, isconnected,
                      pc \in {"main", "cycle", "head"}, stream # <<>>
               PROVE  Head(stream).part = "head"
    BY DEF InStep
  <2>1. stream[1].part = "head"
    BY DEF SyncInv, Orderly
  <2> QED BY <2>1 DEF PacketInv
<1> QED BY <1>1, StreamInvariant, SyncInvariant, PTL

-----------------------------------------------------------------------------
(* Every way out of cycle() with a failure has closed the session.         *)
THEOREM ReturnInvariant == Spec => []ReturnInv
<1>1. Init => ReturnInv
  BY DEF Init, ReturnInv
<1>2. PhaseInv /\ PacketInv /\ ReturnInv /\ [Next]_vars => ReturnInv'
  <2> SUFFICES ASSUME PhaseInv, PacketInv, ReturnInv, [Next]_vars PROVE ReturnInv'
    OBVIOUS
  <2> USE DEF ReturnInv, control, session, broker, timers
  <2>1. CASE Main
    BY <2>1 DEF Main, Connect, Subscribe, Yield, Begin
  <2>2. CASE Publish \/ WriteFails \/ Again
    BY <2>2 DEF Publish, PublishQos0, WriteFails, CloseSession, Again
  <2>3. CASE Returns
    <3>1. CASE YieldReturns
      BY <3>1 DEF YieldReturns, Return, KeepSession
    <3>2. CASE ConnectReturns
      BY <3>2 DEF ConnectReturns, Return, PhaseInv
    <3>3. CASE SubscribeReturns
      BY <3>3 DEF SubscribeReturns, Return
    <3>4. CASE WaitFails
      BY <3>4 DEF WaitFails, Return, CloseSession
    <3> QED BY <2>3, <3>1, <3>2, <3>3, <3>4 DEF Returns
  <2>4. CASE ReadHead \/ TimeOutHead \/ ReadLength \/ TimeOutLength \/ ReadBody
    BY <2>4 DEF ReadHead, TimeOutHead, ReadLength, TimeOutLength, ReadBody, Read
  <2>5. CASE TimeOutBody \/ ReadAstray
    BY <2>5 DEF TimeOutBody, ReadAstray, CycleExit, CloseSession, KeepSession
  <2>6. cur.type # "failure"
    BY DEF PacketInv, PacketsOf, Types
  <2>7. CASE Handle
    BY <2>6, <2>7 DEF Handle, HandlePublish, HandlePublishFails, HandleOther, HandleUnknown,
                      CycleExit, CloseSession, KeepSession
  <2>8. CASE Keepalive
    BY <2>6, <2>8 DEF Keepalive, KeepaliveIdle, SendPing, SendPingFails, PingMissing,
                      CycleExit, CloseSession
  <2>9. CASE Arrive \/ Die \/ BrokerAnswers \/ \E q \in 0..2 : BrokerPublishes(q)
    BY <2>9 DEF Arrive, Die, BrokerAnswers, BrokerPublishes
  <2>10. CASE DeadlinePasses \/ SentExpires \/ RecvExpires \/ PingExpires
    BY <2>10 DEF DeadlinePasses, SentExpires, RecvExpires, PingExpires, Elapse
  <2>11. CASE UNCHANGED vars
    BY <2>11 DEF vars
  <2> QED BY StepIs, <2>1, <2>2, <2>3, <2>4, <2>5, <2>7, <2>8, <2>9, <2>10, <2>11
<1> QED BY <1>1, <1>2, PhaseInvariant, StreamInvariant, PTL DEF Spec

(* When yield() fails the client has disconnected.                         *)
THEOREM FailureMeansClosedAlways == Spec => []FailureMeansClosed
<1>1. ReturnInv => FailureMeansClosed
  BY DEF ReturnInv, FailureMeansClosed
<1> QED BY <1>1, ReturnInvariant, PTL

-----------------------------------------------------------------------------
LEMMA PlainFacts ==
  /\ NoPacket \in PlainPackets
  /\ \A t \in {"CONNACK", "SUBACK", "PINGRESP"} : Packet(t) \in PlainPackets
<1>1. \A t \in Types : Packet(t) \in PacketsOf(Types)
  BY PacketsTyped
<1>2. \A t : Packet(t).type = t /\ Packet(t).qos = 0
  BY DEF Packet
<1> QED BY <1>1, <1>2 DEF NoPacket, PlainPackets, Types

LEMMA PlainSent ==
  ASSUME Plain, NEW t \in UpTypes \ {"PUBREC"}, NEW i \in Ids \cup {0}, SendPacket(t, i)
  PROVE  uplink' \in Seq(PlainUp)
<1> DEFINE p == [Packet(t) EXCEPT !.id = i]
<1>1. p \in PlainUp
  BY PacketsTyped DEF PlainUp
<1>2. uplink' = Append(uplink, p) \/ uplink' = uplink
  BY DEF SendPacket, Write
<1> HIDE DEF p
<1> QED BY <1>1, <1>2 DEF Plain

LEMMA PlainAnswered ==
  ASSUME Plain, NEW p \in PlainPackets, Answer(p)
  PROVE  stream' \in Seq(PlainParts)
<1>1. p \in PacketsOf(Types)
  BY DEF PlainPackets
<1>2. \A k \in {"head", "length", "body"} : Part(p, k) \in PlainParts
  BY <1>1 DEF Part, Parts, PlainParts
<1>3. Bytes(p) \in Seq(PlainParts)
  BY <1>2 DEF Bytes
<1> QED BY <1>3 DEF Answer, Plain

LEMMA PlainTaken ==
  ASSUME PacketInv, StreamInv, Plain, Take, NEW k, NextIs(k)
  PROVE  stream' \in Seq(PlainParts) /\ Head(stream).pkt \in PlainPackets
<1>1. stream # <<>>
  BY DEF NextIs, StreamInv, PacketInv
<1>2. Head(stream) \in PlainParts /\ Tail(stream) \in Seq(PlainParts)
  BY <1>1 DEF Plain
<1> QED BY <1>2 DEF Take, PlainParts

LEMMA PlainStep ==
  ASSUME PacketInv, StreamInv, Plain, 2 \notin world.qoses, [Next]_vars
  PROVE  Plain'
<1> USE DEF Plain, control, session, broker, input, timers
<1>1. CASE Main
  <2>1. CASE Connect
    <3>1. uplink' \in Seq(PlainUp)
      BY <2>1, PlainSent DEF Connect, UpTypes
    <3> QED BY PlainFacts, <2>1, <3>1 DEF Connect, Begin
  <2>2. CASE Subscribe
    <3>1. uplink' \in Seq(PlainUp)
      BY <2>2, PlainSent DEF Subscribe, UpTypes
    <3> QED BY PlainFacts, <2>2, <3>1 DEF Subscribe, Begin
  <2>3. CASE Yield
    BY PlainFacts, <2>3 DEF Yield, Begin
  <2> QED BY <1>1, <2>1, <2>2, <2>3 DEF Main
<1>2. CASE Publish \/ WriteFails
  BY <1>2 DEF Publish, PublishQos0, WriteFails
<1>3. CASE Again
  BY PlainFacts, <1>3 DEF Again
<1>4. CASE Returns
  BY <1>4 DEF Returns, YieldReturns, ConnectReturns, SubscribeReturns, WaitFails, Return
<1>5. CASE ReadHead
  BY <1>5, PlainTaken DEF ReadHead
<1>6. CASE ReadLength
  BY <1>6, PlainTaken DEF ReadLength
<1>7. CASE ReadBody
  BY <1>7, PlainTaken DEF ReadBody
<1>8. CASE TimeOutHead \/ TimeOutBody
  BY <1>8 DEF TimeOutHead, TimeOutBody
<1>9. CASE TimeOutLength
  <2>1. [cur EXCEPT !.cut = TRUE] \in PlainPackets
    BY DEF PlainPackets, PacketsOf
  <2> QED BY <1>9, <2>1 DEF TimeOutLength
<1>10. CASE ReadAstray
  <2>1. stream' \in Seq(PlainParts)
    <3>1. PICK n \in 1..arrived : stream' = SubSeq(stream, n + 1, Len(stream))
      BY <1>10 DEF ReadAstray
    <3>2. n \in 0..Len(stream)
      BY DEF StreamInv, PacketInv
    <3> QED BY <3>1, <3>2, SequenceFacts
  <2>2. uplink' \in Seq(PlainUp)
    BY <1>10, PlainSent DEF ReadAstray, UpTypes
  <2> QED BY <1>10, <2>1, <2>2 DEF ReadAstray
<1>11. CASE Handle
  <2>1. CASE HandlePublish
    <3>1. IdsRead(cur) \subseteq Ids \cup {0} /\ cur.qos \in {0, 1}
      BY DEF IdsRead, PacketInv, PacketsOf, PlainPackets
    <3>2. uplink' \in Seq(PlainUp)
      BY <2>1, <3>1, PlainSent DEF HandlePublish, UpTypes
    <3> QED BY <2>1, <3>2 DEF HandlePublish
  <2>2. CASE HandlePublishFails \/ HandleOther \/ HandleUnknown
    BY <2>2 DEF HandlePublishFails, HandleOther, HandleUnknown
  <2> QED BY <1>11, <2>1, <2>2 DEF Handle
<1>12. CASE Keepalive
  <2>1. uplink' \in Seq(PlainUp)
    BY <1>12, PlainSent DEF Keepalive, KeepaliveIdle, SendPing, SendPingFails, PingMissing,
                            UpTypes
  <2> QED BY <1>12, <2>1 DEF Keepalive, KeepaliveIdle, SendPing, SendPingFails, PingMissing
<1>13. CASE Arrive \/ DeadlinePasses
  BY <1>13 DEF Arrive, DeadlinePasses
<1>14. CASE Die
  <2>1. stream' \in Seq(PlainParts) /\ uplink' \in Seq(PlainUp)
    <3>1. arrived \in 0..Len(stream) /\ stream' = SubSeq(stream, 1, arrived) /\ uplink' = <<>>
      BY <1>14 DEF Die, StreamInv
    <3> QED BY <3>1, SequenceFacts
  <2> QED BY <1>14, <2>1 DEF Die
<1>15. CASE BrokerAnswers
  <2>1. Head(uplink) \in PlainUp /\ uplink' \in Seq(PlainUp)
    BY <1>15 DEF BrokerAnswers
  <2>2. Head(uplink).type # "PUBREC"
    BY <2>1 DEF PlainUp, PacketsOf
  <2>3. UNCHANGED input \/ \E t \in {"CONNACK", "SUBACK", "PINGRESP"} : Answer(Packet(t))
    BY <1>15, <2>2 DEF BrokerAnswers
  <2>4. stream' \in Seq(PlainParts)
    BY <2>3, PlainAnswered, PlainFacts
  <2> QED BY <1>15, <2>1, <2>4 DEF BrokerAnswers
<1>16. CASE \E q \in 0..2 : BrokerPublishes(q)
  <2>1. PICK q \in 0..2 : BrokerPublishes(q)
    BY <1>16
  <2>2. msgs' \in 0..MaxMessages
    BY <2>1, PublishesTyped
  <2>3. PICK i \in Ids : Answer([type |-> "PUBLISH", qos |-> q, id |-> i, msg |-> msgs',
                               cut |-> FALSE])
    BY <2>1 DEF BrokerPublishes
  <2>4. q # 2
    BY <2>1 DEF BrokerPublishes
  <2>5. [type |-> "PUBLISH", qos |-> q, id |-> i, msg |-> msgs', cut |-> FALSE]
          \in PlainPackets
    BY <2>2, <2>4 DEF PlainPackets, PacketsOf, Types
  <2>6. stream' \in Seq(PlainParts)
    BY <2>3, <2>5, PlainAnswered
  <2> QED BY <2>1, <2>6 DEF BrokerPublishes
<1>17. CASE SentExpires \/ RecvExpires \/ PingExpires
  BY <1>17 DEF SentExpires, RecvExpires, PingExpires, Elapse
<1>18. CASE UNCHANGED vars
  BY <1>18 DEF vars
<1> QED BY StepIs, <1>1, <1>2, <1>3, <1>4, <1>5, <1>6, <1>7, <1>8, <1>9, <1>10, <1>11,
           <1>12, <1>13, <1>14, <1>15, <1>16, <1>17, <1>18

LEMMA WorldStays ==
  ASSUME [Next]_vars
  PROVE  world' = world
<1> USE DEF control, session, broker, timers
<1>1. CASE Main \/ Publish \/ WriteFails \/ Again \/ Returns
  BY <1>1 DEF Main, Connect, Subscribe, Yield, Publish, PublishQos0, WriteFails, Again, Returns,
              YieldReturns, ConnectReturns, SubscribeReturns, WaitFails, Return
<1>2. CASE Arrive \/ Die \/ BrokerAnswers \/ \E q \in 0..2 : BrokerPublishes(q)
  BY <1>2 DEF Arrive, Die, BrokerAnswers, BrokerPublishes
<1>3. CASE \/ ReadHead \/ TimeOutHead \/ ReadLength \/ TimeOutLength \/ ReadBody
           \/ TimeOutBody \/ ReadAstray
  BY <1>3 DEF ReadHead, TimeOutHead, ReadLength, TimeOutLength, ReadBody, TimeOutBody,
              ReadAstray
<1>4. CASE Handle \/ Keepalive
  BY <1>4 DEF Handle, HandlePublish, HandlePublishFails, HandleOther, HandleUnknown,
              Keepalive, KeepaliveIdle, SendPing, SendPingFails, PingMissing
<1>5. CASE DeadlinePasses \/ SentExpires \/ RecvExpires \/ PingExpires \/ UNCHANGED vars
  BY <1>5 DEF DeadlinePasses, SentExpires, RecvExpires, PingExpires, Elapse, vars
<1> QED BY StepIs, <1>1, <1>2, <1>3, <1>4, <1>5

(* A broker that publishes nothing at QoS 2 never makes the client meet    *)
(* the packets of that exchange.                                           *)
THEOREM PlainInvariant == Spec => []PlainInv
<1>1. Init => PlainInv
  <2> SUFFICES ASSUME Init PROVE Plain
    BY DEF PlainInv
  <2>1. cur = NoPacket /\ stream = <<>> /\ uplink = <<>>
    BY DEF Init
  <2> QED BY <2>1, PlainFacts DEF Plain
<1>2. PacketInv /\ StreamInv /\ PlainInv /\ [Next]_vars => PlainInv'
  <2> SUFFICES ASSUME PacketInv, StreamInv, PlainInv, [Next]_vars, (2 \notin world.qoses)'
               PROVE  Plain'
    BY DEF PlainInv
  <2>1. 2 \notin world.qoses
    BY WorldStays
  <2> QED BY <2>1, PlainStep DEF PlainInv
<1> QED BY <1>1, <1>2, StreamInvariant, PTL DEF Spec

(* An open session is closed only when a read, a write, an answer or a     *)
(* ping failed, never for a packet the client cannot make out.             *)
THEOREM ClosedForCauseAlways == Spec => []ClosedForCause
<1> DEFINE Causes == {"none", "read", "write", "wait", "ping"}
<1>1. Init => ClosedForCause
  BY DEF Init, ClosedForCause
<1>2. PacketInv /\ StreamInv /\ SyncInv /\ PlainInv /\ ClosedForCause /\ [Next]_vars
        => ClosedForCause'
  <2> SUFFICES ASSUME PacketInv, StreamInv, SyncInv, PlainInv, ClosedForCause, [Next]_vars,
                      (world.wholeHeaders /\ 2 \notin world.qoses)'
               PROVE  cause' \in Causes
    BY DEF ClosedForCause
  <2>1. world.wholeHeaders /\ 2 \notin world.qoses
    BY WorldStays
  <2>2. cause \in Causes
    BY <2>1 DEF ClosedForCause
  <2>3. Plain
    BY <2>1 DEF PlainInv
  <2> USE DEF control, session, broker, timers
  <2>4. CASE Main \/ Publish \/ Again
    BY <2>2, <2>4 DEF Main, Connect, Subscribe, Yield, Begin, Publish, PublishQos0, Again
  <2>5. CASE WriteFails
    BY <2>2, <2>5 DEF WriteFails, CloseSession
  <2>6. CASE Returns
    BY <2>2, <2>6 DEF Returns, YieldReturns, ConnectReturns, SubscribeReturns, WaitFails,
                      Return, KeepSession, CloseSession
  <2>7. CASE ReadHead \/ TimeOutHead \/ ReadLength \/ TimeOutLength \/ ReadBody
    BY <2>2, <2>7 DEF ReadHead, TimeOutHead, ReadLength, TimeOutLength, ReadBody
  <2>8. CASE TimeOutBody
    BY <2>2, <2>8 DEF TimeOutBody, CloseSession
  <2>9. CASE ReadAstray
    <3>1. ~isconnected
      <4> SUFFICES ASSUME isconnected PROVE FALSE
        OBVIOUS
      <4>1. stream # <<>>
        BY <2>9 DEF ReadAstray, StreamInv, PacketInv
      <4>2. pc = "head" /\ ~(arrived > 0 /\ Head(stream).part = "head") /\ arrived > 0
        BY <2>9 DEF ReadAstray, NextIs
      <4>3. stream[1].part = "head"
        BY <2>1, <4>1, <4>2 DEF SyncInv, Orderly
      <4> QED BY <4>1, <4>2, <4>3 DEF PacketInv
    <3> QED BY <2>2, <2>9, <3>1 DEF ReadAstray, CloseSession, KeepSession
  <2>10. CASE Handle
    <3>1. cur.type # "PUBREL"
      BY <2>3 DEF Plain, PlainPackets
    <3> QED BY <2>2, <2>10, <3>1 DEF Handle, HandlePublish, HandlePublishFails, HandleOther,
                                      HandleUnknown, KeepSession, CloseSession
  <2>11. CASE Keepalive
    BY <2>2, <2>11 DEF Keepalive, KeepaliveIdle, SendPing, SendPingFails, PingMissing,
                       CloseSession
  <2>12. CASE Arrive \/ Die \/ BrokerAnswers \/ \E q \in 0..2 : BrokerPublishes(q)
    BY <2>2, <2>12 DEF Arrive, Die, BrokerAnswers, BrokerPublishes
  <2>13. CASE DeadlinePasses \/ SentExpires \/ RecvExpires \/ PingExpires
    BY <2>2, <2>13 DEF DeadlinePasses, SentExpires, RecvExpires, PingExpires, Elapse
  <2>14. CASE UNCHANGED vars
    BY <2>2, <2>14 DEF vars
  <2> QED BY StepIs, <2>4, <2>5, <2>6, <2>7, <2>8, <2>9, <2>10, <2>11, <2>12, <2>13, <2>14
<1> QED BY <1>1, <1>2, StreamInvariant, SyncInvariant, PlainInvariant, PTL DEF Spec

-----------------------------------------------------------------------------
Flags ==
  /\ patient \in BOOLEAN /\ isconnected \in BOOLEAN /\ handler \in BOOLEAN
  /\ pingOut \in BOOLEAN /\ sentDue \in BOOLEAN /\ recvDue \in BOOLEAN
  /\ pingDue \in BOOLEAN /\ alive \in BOOLEAN /\ granted \in BOOLEAN

Held ==
  /\ rc \in Types \cup {"start", "failure", "broken"}
  /\ result \in {"success", "failure"}
  /\ delivered \in Seq(0..MaxMessages) /\ acked \subseteq 0..MaxMessages
  /\ flight \in [Ids -> 0..MaxMessages]

LEMMA FlagsStep ==
  ASSUME Flags, [Next]_vars
  PROVE  Flags'
<1> USE DEF Flags, control, session, broker, input, timers
<1>1. CASE Main
  <2>1. CASE Connect
    BY <2>1, Zenon DEF Connect, Begin, SendPacket, Write
  <2>2. CASE Subscribe
    BY <2>2, Zenon DEF Subscribe, Begin, SendPacket, Write
  <2>3. CASE Yield
    BY <2>3, Zenon DEF Yield, Begin
  <2> QED BY <1>1, <2>1, <2>2, <2>3 DEF Main
<1>2. CASE Publish
  BY <1>2, Zenon DEF Publish, PublishQos0
<1>3. CASE WriteFails
  BY <1>3, Zenon DEF WriteFails, CloseSession
<1>4. CASE Again
  BY <1>4, Zenon DEF Again
<1>5. CASE Returns
  <2>1. CASE YieldReturns
    BY <2>1, Zenon DEF YieldReturns, Return, KeepSession
  <2>2. CASE ConnectReturns
    BY <2>2, Zenon DEF ConnectReturns, Return
  <2>3. CASE SubscribeReturns
    BY <2>3, Zenon DEF SubscribeReturns, Return
  <2>4. CASE WaitFails
    BY <2>4, Zenon DEF WaitFails, Return, CloseSession
  <2> QED BY <1>5, <2>1, <2>2, <2>3, <2>4 DEF Returns
<1>6. CASE ReadHead
  BY <1>6, Zenon DEF ReadHead, Read, Take
<1>7. CASE TimeOutHead
  BY <1>7, Zenon DEF TimeOutHead
<1>8. CASE ReadLength
  BY <1>8, Zenon DEF ReadLength, Read, Take
<1>9. CASE TimeOutLength
  BY <1>9, Zenon DEF TimeOutLength
<1>10. CASE ReadBody
  BY <1>10, Zenon DEF ReadBody, Read, Take
<1>11. CASE TimeOutBody
  BY <1>11, Zenon DEF TimeOutBody, CloseSession
<1>12. CASE ReadAstray
  BY <1>12, Zenon DEF ReadAstray, CloseSession, KeepSession, SendPacket, Write
<1>13. CASE Handle
  <2>1. CASE HandlePublish
    BY <2>1, Zenon DEF HandlePublish, KeepSession, SendPacket, Write
  <2>2. CASE HandlePublishFails
    BY <2>2, Zenon DEF HandlePublishFails, CloseSession
  <2>3. CASE HandleOther
    BY <2>3, Zenon DEF HandleOther
  <2>4. CASE HandleUnknown
    BY <2>4, Zenon DEF HandleUnknown, CloseSession
  <2> QED BY <1>13, <2>1, <2>2, <2>3, <2>4 DEF Handle
<1>14. CASE Keepalive
  <2>1. CASE KeepaliveIdle
    BY <2>1, Zenon DEF KeepaliveIdle
  <2>2. CASE SendPing
    BY <2>2, Zenon DEF SendPing, SendPacket, Write
  <2>3. CASE SendPingFails
    BY <2>3, Zenon DEF SendPingFails, CloseSession
  <2>4. CASE PingMissing
    BY <2>4, Zenon DEF PingMissing, CloseSession
  <2> QED BY <1>14, <2>1, <2>2, <2>3, <2>4 DEF Keepalive
<1>15. CASE Arrive
  BY <1>15, Zenon DEF Arrive
<1>16. CASE Die
  BY <1>16, Zenon DEF Die
<1>17. CASE BrokerAnswers
  BY <1>17, Zenon DEF BrokerAnswers
<1>18. CASE \E q \in 0..2 : BrokerPublishes(q)
  BY <1>18, Zenon DEF BrokerPublishes
<1>19. CASE DeadlinePasses
  BY <1>19, Zenon DEF DeadlinePasses
<1>20. CASE SentExpires
  BY <1>20, Zenon DEF SentExpires, Elapse
<1>21. CASE RecvExpires
  BY <1>21, Zenon DEF RecvExpires, Elapse
<1>22. CASE PingExpires
  BY <1>22, Zenon DEF PingExpires, Elapse
<1>23. CASE UNCHANGED vars
  BY <1>23, Zenon DEF vars
<1> QED BY StepIs, <1>1, <1>2, <1>3, <1>4, <1>5, <1>6, <1>7, <1>8, <1>9, <1>10, <1>11,
           <1>12, <1>13, <1>14, <1>15, <1>16, <1>17, <1>18, <1>19, <1>20, <1>21, <1>22, <1>23

LEMMA HeldStep ==
  ASSUME PacketInv, Held, [Next]_vars
  PROVE  Held'
<1> USE DEF Held, control, session, broker, input, timers
<1>1. CASE Main \/ Publish \/ WriteFails \/ Again
  BY <1>1 DEF Main, Connect, Subscribe, Yield, Begin, Publish, PublishQos0, WriteFails, Again
<1>2. CASE Returns
  BY <1>2 DEF Returns, YieldReturns, ConnectReturns, SubscribeReturns, WaitFails, Return
<1>3. CASE \/ ReadHead \/ TimeOutHead \/ ReadLength \/ TimeOutLength \/ ReadBody
           \/ TimeOutBody \/ ReadAstray
  BY <1>3 DEF ReadHead, TimeOutHead, ReadLength, TimeOutLength, ReadBody, TimeOutBody,
              ReadAstray, CycleExit
<1>4. CASE Handle
  <2>1. cur.msg \in 0..MaxMessages /\ cur.type \in Types
    BY DEF PacketInv, PacketsOf
  <2>2. Deliver(cur) => delivered' \in Seq(0..MaxMessages)
    <3>1. Append(delivered, cur.msg) \in Seq(0..MaxMessages)
      BY <2>1
    <3> QED BY <3>1, Zenon DEF Deliver
  <2>3. CASE HandlePublish
    BY <2>2, <2>3 DEF HandlePublish
  <2>4. CASE HandlePublishFails
    BY <2>2, <2>4 DEF HandlePublishFails, CycleExit
  <2>5. CASE HandleOther
    BY <2>5 DEF HandleOther
  <2>6. CASE HandleUnknown
    BY <2>1, <2>6 DEF HandleUnknown, CycleExit
  <2> QED BY <1>4, <2>3, <2>4, <2>5, <2>6 DEF Handle
<1>5. CASE Keepalive
  <2>1. cur.type \in Types
    BY DEF PacketInv, PacketsOf
  <2> QED BY <1>5, <2>1 DEF Keepalive, KeepaliveIdle, SendPing, SendPingFails, PingMissing,
                            CycleExit
<1>6. CASE Arrive \/ Die
  BY <1>6 DEF Arrive, Die
<1>7. CASE BrokerAnswers
  <2>1. 0 \in 0..MaxMessages
    BY SessionAssumption
  <2>2. acked' \subseteq 0..MaxMessages /\ flight' \in [Ids -> 0..MaxMessages]
    BY <1>7, <2>1 DEF BrokerAnswers
  <2>3. UNCHANGED <<rc, result, delivered>>
    BY <1>7 DEF BrokerAnswers
  <2> QED BY <2>2, <2>3
<1>8. CASE \E q \in 0..2 : BrokerPublishes(q)
  <2>1. PICK q \in 0..2 : BrokerPublishes(q)
    BY <1>8
  <2>2. msgs' \in 0..MaxMessages
    BY <2>1, PublishesTyped
  <2>3. flight' \in [Ids -> 0..MaxMessages]
    BY <2>1, <2>2 DEF BrokerPublishes
  <2> QED BY <2>1, <2>3 DEF BrokerPublishes
<1>9. CASE DeadlinePasses \/ SentExpires \/ RecvExpires \/ PingExpires
  BY <1>9 DEF DeadlinePasses, SentExpires, RecvExpires, PingExpires, Elapse
<1>10. CASE UNCHANGED vars
  BY <1>10 DEF vars
<1> QED BY StepIs, <1>1, <1>2, <1>3, <1>4, <1>5, <1>6, <1>7, <1>8, <1>9, <1>10

(* Types: whatever the peer and the clock do, no more bytes are here than  *)
(* were sent, and every packet on either way is one of the protocol's.     *)
THEOREM TypeCorrect == Spec => []TypeOK
<1>1. Init => Flags /\ Held
  <2> SUFFICES ASSUME Init PROVE Flags /\ Held
    OBVIOUS
  <2>1. Flags
    BY Zenon DEF Init, Flags
  <2>2. 0 \in 0..MaxMessages
    BY SessionAssumption
  <2>3. Held
    BY <2>2 DEF Init, Held
  <2> QED BY <2>1, <2>3
<1>2. PacketInv /\ Flags /\ Held /\ [Next]_vars => Flags' /\ Held'
  BY FlagsStep, HeldStep
<1>3. PhaseInv /\ PacketInv /\ StreamInv /\ Flags /\ Held => TypeOK
  <2> SUFFICES ASSUME PhaseInv, PacketInv, StreamInv, Flags, Held PROVE TypeOK
    OBVIOUS
  <2>1. {patient, isconnected, handler, pingOut, sentDue, recvDue, pingDue, alive, granted}
          \subseteq BOOLEAN
    BY Zenon DEF Flags
  <2> QED BY <2>1 DEF PhaseInv, PacketInv, StreamInv, Held, TypeOK, Parts, UpTypes
<1> QED BY <1>1, <1>2, <1>3, PhaseInvariant, StreamInvariant, PTL DEF Spec

-----------------------------------------------------------------------------
(* The settings in the stream: those whose head has not been read, and the *)
(* one that is being read.                                                 *)
Begins(x, type) == x.part = "head" /\ x.pkt.type = type
Reading == pc \in {"length", "body", "handle"}
Due == Reading /\ cur.type = "PUBLISH"
Above(m) == \A d \in DOMAIN delivered : delivered[d] < m

(* Settings are delivered, read and waiting in the order they were sent.   *)
OrderInv ==
  /\ \A a, b \in DOMAIN delivered : a < b => delivered[a] < delivered[b]
  /\ Above(msgs + 1)
  /\ Due => Above(cur.msg) /\ cur.msg \in 1..msgs
  /\ \A k \in DOMAIN stream : Begins(stream[k], "PUBLISH") =>
       /\ Above(stream[k].pkt.msg) /\ stream[k].pkt.msg \in 1..msgs
       /\ Due => cur.msg < stream[k].pkt.msg
  /\ \A j, k \in DOMAIN stream :
       j < k /\ Begins(stream[j], "PUBLISH") /\ Begins(stream[k], "PUBLISH") =>
         stream[j].pkt.msg < stream[k].pkt.msg

(* What is left of the stream when n bytes are read or the end is lost,    *)
(* and the one head that an answer adds.                                   *)
Shrunk(n) ==
  /\ \A k \in DOMAIN stream' : k + n \in DOMAIN stream /\ stream'[k] = stream[k + n]
  /\ alive' => \A k \in DOMAIN stream : k > n => k - n \in DOMAIN stream'

Grown(p) ==
  /\ \A k \in DOMAIN stream : k \in DOMAIN stream' /\ stream'[k] = stream[k]
  /\ \A k \in DOMAIN stream' \ DOMAIN stream :
       /\ \A j \in DOMAIN stream : j < k
       /\ stream'[k].part = "head" => k = Len(stream) + 1
  /\ Len(stream) + 1 \in DOMAIN stream' /\ stream'[Len(stream) + 1] = Part(p, "head")

LEMMA SameShrinks ==
  ASSUME PacketInv, stream' = stream
  PROVE  Shrunk(0)
BY DEF Shrunk, PacketInv

LEMMA TakeShrinks ==
  ASSUME PacketInv, StreamInv, NEW k, NextIs(k), Take
  PROVE  Shrunk(1) /\ 1 \in DOMAIN stream /\ Head(stream) = stream[1] /\ stream[1].part = k
<1>1. stream \in Seq(Parts) /\ Len(stream) > 0 /\ Head(stream) = stream[1] /\ stream[1].part = k
  BY Taken DEF PacketInv
<1>2. stream' = Tail(stream)
  BY DEF Take
<1>3. Shrunk(1)
  BY <1>1, <1>2 DEF Shrunk
<1> QED BY <1>1, <1>3

LEMMA AstrayShrinks ==
  ASSUME PacketInv, StreamInv, ReadAstray
  PROVE  \E n \in Nat : Shrunk(n)
<1>1. PICK n \in 1..arrived : stream' = SubSeq(stream, n + 1, Len(stream))
  BY DEF ReadAstray
<1>2. stream \in Seq(Parts) /\ n \in 1..Len(stream) /\ n \in Nat
  BY <1>1 DEF PacketInv, StreamInv
<1>3. Len(stream') = Len(stream) - n /\ \A i \in 1..(Len(stream) - n) : stream'[i] = stream[i + n]
        /\ DOMAIN stream' = 1..Len(stream') /\ DOMAIN stream = 1..Len(stream)
  BY <1>1, <1>2
<1>4. ASSUME NEW k \in DOMAIN stream' PROVE k + n \in DOMAIN stream /\ stream'[k] = stream[k + n]
  BY <1>2, <1>3
<1>5. ASSUME NEW k \in DOMAIN stream, k > n PROVE k - n \in DOMAIN stream'
  BY <1>2, <1>3, <1>5
<1> QED BY <1>2, <1>4, <1>5 DEF Shrunk

LEMMA DieShrinks ==
  ASSUME PacketInv, StreamInv, Die
  PROVE  Shrunk(0) /\ ~alive'
<1>1. stream \in Seq(Parts) /\ arrived \in 0..Len(stream) /\ stream' = SubSeq(stream, 1, arrived)
        /\ ~alive'
  BY DEF PacketInv, StreamInv, Die
<1>2. DOMAIN stream' = 1..arrived /\ \A i \in 1..arrived : stream'[i] = stream[i]
  BY <1>1
<1> QED BY <1>1, <1>2 DEF Shrunk

LEMMA AnswerGrows ==
  ASSUME PacketInv, NEW p \in PacketsOf(Types), Answer(p)
  PROVE  Grown(p)
<1> DEFINE b == Bytes(p)
<1>1. b \in Seq(Parts) /\ Len(b) \in {2, 3} /\ b[1] = Part(p, "head") /\ b[2].part # "head"
        /\ (Len(b) = 3 => b[3].part # "head")
  BY BytesTyped, BytesJoined DEF Bytes, Part
<1>2. stream' = stream \o b /\ stream \in Seq(Parts)
  BY DEF Answer, PacketInv
<1> HIDE DEF b
<1>3. /\ DOMAIN stream' = 1..(Len(stream) + Len(b)) /\ DOMAIN stream = 1..Len(stream)
      /\ Len(stream) \in Nat
      /\ \A i \in 1..Len(stream) : stream'[i] = stream[i]
      /\ \A i \in 1..Len(b) : stream'[Len(stream) + i] = b[i]
  BY <1>1, <1>2
<1>4. /\ stream'[Len(stream) + 1] = Part(p, "head")
      /\ stream'[Len(stream) + 2].part # "head"
      /\ Len(b) = 3 => stream'[Len(stream) + 3].part # "head"
  BY <1>1, <1>3
<1>5. ASSUME NEW k \in DOMAIN stream', k \notin DOMAIN stream
      PROVE  /\ \A j \in DOMAIN stream : j < k
             /\ stream'[k].part = "head" => k = Len(stream) + 1
  <2>1. \/ k = Len(stream) + 1 \/ k = Len(stream) + 2
        \/ k = Len(stream) + 3 /\ Len(b) = 3
    BY <1>1, <1>3, <1>5
  <2>2. \A j \in DOMAIN stream : j < k
    BY <1>3, <2>1
  <2> QED BY <1>4, <2>1, <2>2
<1> QED BY <1>1, <1>3, <1>4, <1>5 DEF Grown

(* Only BrokerPublishes sends settings; the subscription is confirmed when *)
(* it is granted.                                                          *)
LEMMA AnswersKinds ==
  ASSUME PacketInv, BrokerAnswers
  PROVE  \/ UNCHANGED stream /\ Head(uplink).type # "SUBSCRIBE"
         \/ \E p \in PacketsOf(Types) :
              /\ Grown(p) /\ p.type # "PUBLISH"
              /\ Head(uplink).type = "SUBSCRIBE" => p.type = "SUBACK"
<1> DEFINE i == Head(uplink).id
<1>1. i \in Ids \cup {0}
  <2>1. Head(uplink) \in PacketsOf(UpTypes)
    BY DEF BrokerAnswers, PacketInv
  <2> QED BY <2>1 DEF PacketsOf
<1>2. \/ Answer(Packet("CONNACK")) /\ Head(uplink).type # "SUBSCRIBE"
      \/ Answer(Packet("SUBACK"))
      \/ Answer(Packet("PINGRESP")) /\ Head(uplink).type # "SUBSCRIBE"
      \/ Answer([Packet("PUBREL") EXCEPT !.id = i]) /\ Head(uplink).type # "SUBSCRIBE"
      \/ UNCHANGED input /\ Head(uplink).type # "SUBSCRIBE"
  BY DEF BrokerAnswers
<1> HIDE DEF i
<1>3. /\ Packet("CONNACK") \in PacketsOf(Types) /\ Packet("SUBACK") \in PacketsOf(Types)
      /\ Packet("PINGRESP") \in PacketsOf(Types)
      /\ [Packet("PUBREL") EXCEPT !.id = i] \in PacketsOf(Types)
  BY <1>1, PacketsTyped DEF Types
<1>4. /\ Packet("CONNACK").type # "PUBLISH" /\ Packet("SUBACK").type = "SUBACK"
      /\ Packet("PINGRESP").type # "PUBLISH" /\ [Packet("PUBREL") EXCEPT !.id = i].type # "PUBLISH"
  BY DEF Packet
<1>5. CASE UNCHANGED input /\ Head(uplink).type # "SUBSCRIBE"
  BY <1>5 DEF input
<1>6. CASE Answer(Packet("CONNACK")) /\ Head(uplink).type # "SUBSCRIBE"
  BY <1>3, <1>4, <1>6, AnswerGrows
<1>7. CASE Answer(Packet("SUBACK"))
  BY <1>3, <1>4, <1>7, AnswerGrows
<1>8. CASE Answer(Packet("PINGRESP")) /\ Head(uplink).type # "SUBSCRIBE"
  BY <1>3, <1>4, <1>8, AnswerGrows
<1>9. CASE Answer([Packet("PUBREL") EXCEPT !.id = i]) /\ Head(uplink).type # "SUBSCRIBE"
  BY <1>3, <1>4, <1>9, AnswerGrows
<1> QED BY <1>2, <1>5, <1>6, <1>7, <1>8, <1>9

LEMMA PublishGrows ==
  ASSUME PacketInv, NEW q \in 0..2, BrokerPublishes(q)
  PROVE  \E p \in PacketsOf(Types), i \in Ids :
           /\ Grown(p) /\ p.type = "PUBLISH" /\ p.qos = q /\ p.msg = msgs' /\ p.id = i /\ ~p.cut
           /\ q = 0 => flight' = flight
           /\ q # 0 => flight[i] = 0 /\ flight' = [flight EXCEPT ![i] = msgs']
<1>1. msgs' \in 0..MaxMessages
  BY SessionAssumption DEF BrokerPublishes, PacketInv
<1>2. PICK i \in Ids :
        /\ q = 0 \/ flight[i] = 0
        /\ flight' = IF q = 0 THEN flight ELSE [flight EXCEPT ![i] = msgs']
        /\ Answer([type |-> "PUBLISH", qos |-> q, id |-> i, msg |-> msgs', cut |-> FALSE])
  BY DEF BrokerPublishes
<1>3. [type |-> "PUBLISH", qos |-> q, id |-> i, msg |-> msgs', cut |-> FALSE]
        \in PacketsOf(Types)
  BY <1>1 DEF PacketsOf, Types
<1>4. PICK p \in PacketsOf(Types) :
        p = [type |-> "PUBLISH", qos |-> q, id |-> i, msg |-> msgs', cut |-> FALSE]
  BY <1>3
<1>5. Grown(p)
  BY <1>2, <1>4, AnswerGrows
<1> QED BY <1>2, <1>4, <1>5

(* All other steps at most take from the stream.                           *)
LEMMA StreamStays ==
  ASSUME [Next]_vars
  PROVE  \/ ReadHead \/ ReadLength \/ ReadBody \/ ReadAstray \/ Die \/ BrokerAnswers
         \/ (\E q \in 0..2 : BrokerPublishes(q)) \/ UNCHANGED <<stream, alive>>
<1> USE DEF input, broker
<1>1. CASE Main \/ Publish \/ WriteFails \/ Again \/ Returns
  BY <1>1 DEF Main, Connect, Subscribe, Yield, Publish, PublishQos0, WriteFails, Again, Returns,
    YieldReturns, ConnectReturns, SubscribeReturns, WaitFails, Return
<1>2. CASE TimeOutHead \/ TimeOutLength \/ TimeOutBody \/ Handle \/ Keepalive \/ Arrive
  BY <1>2 DEF TimeOutHead, TimeOutLength, TimeOutBody, Handle, HandlePublish,
    HandlePublishFails, HandleOther, HandleUnknown, Keepalive, KeepaliveIdle, SendPing,
    SendPingFails, PingMissing, Arrive
<1>3. CASE DeadlinePasses \/ SentExpires \/ RecvExpires \/ PingExpires \/ UNCHANGED vars
  BY <1>3 DEF DeadlinePasses, SentExpires, RecvExpires, PingExpires, Elapse, vars
<1> QED BY StepIs, <1>1, <1>2, <1>3

LEMMA StreamMoves ==
  ASSUME PacketInv, StreamInv, [Next]_vars
  PROVE  BrokerAnswers \/ (\E q \in 0..2 : BrokerPublishes(q)) \/ \E n \in Nat : Shrunk(n)
<1>0. 0 \in Nat /\ 1 \in Nat
  OBVIOUS
<1>1. CASE ReadHead \/ ReadLength \/ ReadBody
  BY <1>0, <1>1, TakeShrinks DEF ReadHead, ReadLength, ReadBody
<1> QED BY <1>0, <1>1, StreamStays, SameShrinks, AstrayShrinks, DieShrinks

(* Only ReadHead begins to read a packet, and only a missing length changes *)
(* the one being read.                                                      *)
LEMMA ReadingKept ==
  ASSUME PacketInv, [Next]_vars, ~ReadHead
  PROVE  Reading' => /\ Reading /\ cur'.type = cur.type /\ cur'.qos = cur.qos
                     /\ cur'.id = cur.id /\ cur'.msg = cur.msg
                     /\ cur'.cut # cur.cut => TimeOutLength
<1> USE DEF Reading, control, session, broker, timers
<1>1. CASE Main \/ Publish \/ WriteFails \/ Again
  BY <1>1 DEF Main, Connect, Subscribe, Yield, Begin, Publish, PublishQos0, WriteFails, Again
<1>2. CASE Returns
  BY <1>2 DEF Returns, YieldReturns, ConnectReturns, SubscribeReturns, WaitFails, Return
<1>3. CASE TimeOutHead \/ ReadLength \/ TimeOutBody \/ ReadBody
  BY <1>3 DEF TimeOutHead, ReadLength, TimeOutBody, ReadBody, Read, CycleExit
<1>4. CASE TimeOutLength
  <2>1. /\ cur'.type = cur.type /\ cur'.qos = cur.qos
        /\ cur'.id = cur.id /\ cur'.msg = cur.msg
    BY <1>4 DEF TimeOutLength, PacketInv, PacketsOf
  <2> QED BY <1>4, <2>1 DEF TimeOutLength
<1>5. CASE ReadAstray
  BY <1>5 DEF ReadAstray, CycleExit
<1>6. CASE Handle
  BY <1>6 DEF Handle, HandlePublish, HandlePublishFails, HandleOther, HandleUnknown, CycleExit
<1>7. CASE Keepalive
  BY <1>7 DEF Keepalive, KeepaliveIdle, SendPing, SendPingFails, PingMissing, CycleExit
<1>8. CASE Arrive \/ Die \/ DeadlinePasses \/ SentExpires \/ RecvExpires \/ PingExpires
  BY <1>8 DEF Arrive, Die, DeadlinePasses, SentExpires, RecvExpires, PingExpires, Elapse
<1>9. CASE BrokerAnswers \/ \E q \in 0..2 : BrokerPublishes(q)
  BY <1>9 DEF BrokerAnswers, BrokerPublishes
<1>10. CASE UNCHANGED vars
  BY <1>10 DEF vars
<1> QED BY StepIs, <1>1, <1>2, <1>3, <1>4, <1>5, <1>6, <1>7, <1>8, <1>9, <1>10

(* Steps that deliver nothing and do not begin to read a setting.          *)
LEMMA OrderKept ==
  ASSUME PacketInv, PacketInv', OrderInv, NEW n \in Nat, Shrunk(n),
         delivered' = delivered, msgs' = msgs, Due' => Due /\ cur'.msg = cur.msg
  PROVE  OrderInv'
<1>1. Above(msgs + 1)' /\ (Due' => Above(cur.msg)' /\ cur'.msg \in 1..msgs')
  BY DEF OrderInv, Above
<1>2. ASSUME NEW k \in DOMAIN stream', Begins(stream'[k], "PUBLISH")
      PROVE  /\ Above(stream[k].pkt.msg)' /\ stream'[k].pkt.msg \in 1..msgs'
             /\ Due' => cur'.msg < stream'[k].pkt.msg
  BY <1>2 DEF OrderInv, Above, Shrunk
<1>3. ASSUME NEW j \in DOMAIN stream', NEW k \in DOMAIN stream', j < k,
             Begins(stream'[j], "PUBLISH"), Begins(stream'[k], "PUBLISH")
      PROVE  stream'[j].pkt.msg < stream'[k].pkt.msg
  <2>1. j \in Nat /\ k \in Nat
    BY DEF PacketInv
  <2>2. j + n < k + n
    BY <1>3, <2>1
  <2> QED BY <1>3, <2>2 DEF OrderInv, Shrunk
<1> QED BY <1>1, <1>2, <1>3 DEF OrderInv, Above

(* A setting is handed over when all before it were.                       *)
LEMMA OrderDelivered ==
  ASSUME PacketInv, Held, OrderInv, Due, Deliver(cur), stream' = stream, msgs' = msgs, ~Due'
  PROVE  OrderInv'
<1>1. CASE delivered' = delivered
  BY <1>1 DEF OrderInv, Above
<1>2. CASE delivered' = Append(delivered, cur.msg)
  <2>1. delivered \in Seq(0..MaxMessages) /\ cur.msg \in Nat
    BY SessionAssumption DEF Held, PacketInv, PacketsOf
  <2>2. /\ DOMAIN delivered = 1..Len(delivered) /\ Len(delivered) \in Nat
        /\ DOMAIN delivered' = 1..(Len(delivered) + 1)
        /\ delivered'[Len(delivered) + 1] = cur.msg
        /\ \A d \in 1..Len(delivered) : delivered'[d] = delivered[d]
    BY <1>2, <2>1
  <2>3. Above(cur.msg) /\ cur.msg \in 1..msgs /\ msgs \in Nat
    BY SessionAssumption DEF OrderInv, PacketInv
  <2>4. \A m : Above(m) /\ cur.msg < m => Above(m)'
    BY <2>2 DEF Above
  <2>5. ASSUME NEW a \in DOMAIN delivered', NEW b \in DOMAIN delivered', a < b
        PROVE  delivered'[a] < delivered'[b]
    <3>1. a \in DOMAIN delivered /\ delivered'[a] = delivered[a]
      BY <2>2, <2>5
    <3>2. CASE b = Len(delivered) + 1
      BY <2>2, <2>3, <3>1, <3>2 DEF Above
    <3>3. CASE b # Len(delivered) + 1
      <4>1. b \in DOMAIN delivered /\ delivered'[b] = delivered[b]
        BY <2>2, <3>3
      <4> QED BY <2>5, <3>1, <4>1 DEF OrderInv
    <3> QED BY <3>2, <3>3
  <2>6. Above(msgs + 1)'
    <3>1. Above(msgs + 1) /\ cur.msg < msgs + 1
      BY <2>3 DEF OrderInv
    <3> QED BY <2>2, <3>1 DEF Above
  <2>7. ASSUME NEW k \in DOMAIN stream, Begins(stream[k], "PUBLISH")
        PROVE  Above(stream[k].pkt.msg)'
    <3>1. Above(stream[k].pkt.msg) /\ cur.msg < stream[k].pkt.msg
      BY <2>7 DEF OrderInv
    <3> QED BY <2>2, <3>1 DEF Above
  <2> QED BY <2>5, <2>6, <2>7 DEF OrderInv
<1> QED BY <1>1, <1>2, Zenon DEF Deliver

LEMMA OrderRead ==
  ASSUME PacketInv, PacketInv', StreamInv, OrderInv, ReadHead
  PROVE  OrderInv'
<1>1. /\ Shrunk(1) /\ 1 \in DOMAIN stream /\ cur' = stream[1].pkt /\ stream[1].part = "head"
      /\ delivered' = delivered /\ msgs' = msgs
  BY TakeShrinks DEF ReadHead, session, broker
<1>2. CASE cur'.type # "PUBLISH"
  BY <1>1, <1>2, OrderKept DEF Due
<1>3. CASE cur'.type = "PUBLISH"
  <2>1. Above(cur'.msg) /\ cur'.msg \in 1..msgs /\ Begins(stream[1], "PUBLISH")
    BY <1>1, <1>3 DEF OrderInv, Begins
  <2>2. ASSUME NEW k \in DOMAIN stream', Begins(stream'[k], "PUBLISH")
        PROVE  /\ Above(stream[k].pkt.msg)' /\ stream'[k].pkt.msg \in 1..msgs'
               /\ cur'.msg < stream'[k].pkt.msg
    <3>1. k + 1 \in DOMAIN stream /\ stream'[k] = stream[k + 1] /\ 1 < k + 1
      <4>1. k \in 1..Len(stream') /\ Len(stream') \in Nat
        BY DEF PacketInv
      <4> QED BY <1>1, <4>1 DEF Shrunk
    <3> QED BY <1>1, <2>1, <2>2, <3>1 DEF OrderInv, Above
  <2>3. ASSUME NEW j \in DOMAIN stream', NEW k \in DOMAIN stream', j < k,
               Begins(stream'[j], "PUBLISH"), Begins(stream'[k], "PUBLISH")
        PROVE  stream'[j].pkt.msg < stream'[k].pkt.msg
    <3>1. j \in Nat /\ k \in Nat
      BY DEF PacketInv
    <3>2. j + 1 < k + 1
      BY <2>3, <3>1
    <3> QED BY <1>1, <2>3, <3>2 DEF OrderInv, Shrunk
  <2>4. Above(msgs + 1)' /\ Above(cur.msg)' /\ cur'.msg \in 1..msgs'
    BY <1>1, <2>1 DEF OrderInv, Above
  <2>5. \A a, b \in DOMAIN delivered' : a < b => delivered'[a] < delivered'[b]
    BY <1>1 DEF OrderInv
  <2> QED BY <2>2, <2>3, <2>4, <2>5 DEF OrderInv
<1> QED BY <1>2, <1>3

(* What the broker sends is behind what it sent before.                    *)
LEMMA OrderGrown ==
  ASSUME PacketInv, PacketInv', Held, OrderInv, NEW p \in PacketsOf(Types), Grown(p),
         pc' = pc, cur' = cur, delivered' = delivered,
         \/ p.type # "PUBLISH" /\ msgs' = msgs
         \/ p.msg = msgs' /\ msgs' = msgs + 1
  PROVE  OrderInv'
<1>1. msgs \in Nat /\ msgs' \in Nat /\ msgs' >= msgs
  BY SessionAssumption DEF PacketInv
<1>2. Due' <=> Due
  BY DEF Due, Reading
<1>3. \A d \in DOMAIN delivered : delivered[d] \in Nat
  BY SessionAssumption DEF Held
<1>4. Above(msgs + 1)'
  <2>1. ASSUME NEW d \in DOMAIN delivered PROVE delivered[d] < msgs' + 1
    <3>1. delivered[d] < msgs + 1 /\ delivered[d] \in Nat
      BY <1>3 DEF OrderInv, Above
    <3> QED BY <1>1, <3>1
  <2> QED BY <2>1 DEF Above
<1>5. Due' => Above(cur.msg)' /\ cur'.msg \in 1..msgs'
  <2>1. Due => cur.msg \in 1..msgs'
    BY <1>1 DEF OrderInv
  <2> QED BY <1>2, <2>1 DEF OrderInv, Above
<1>6. ASSUME NEW k \in DOMAIN stream', Begins(stream'[k], "PUBLISH")
      PROVE  \/ k \in DOMAIN stream /\ stream'[k] = stream[k] /\ Begins(stream[k], "PUBLISH")
             \/ /\ \A j \in DOMAIN stream : j < k
                /\ k = Len(stream) + 1 /\ stream'[k].pkt.msg = msgs' /\ msgs' = msgs + 1
  <2>1. CASE k \in DOMAIN stream
    BY <1>6, <2>1 DEF Grown
  <2>2. CASE k \notin DOMAIN stream
    BY <1>6, <2>2 DEF Grown, Begins, Part
  <2> QED BY <2>1, <2>2
<1>7. ASSUME NEW k \in DOMAIN stream', Begins(stream'[k], "PUBLISH")
      PROVE  /\ Above(stream[k].pkt.msg)' /\ stream'[k].pkt.msg \in 1..msgs'
             /\ Due' => cur'.msg < stream'[k].pkt.msg
  <2>1. CASE k \in DOMAIN stream /\ stream'[k] = stream[k] /\ Begins(stream[k], "PUBLISH")
    <3>1. stream[k].pkt.msg \in 1..msgs
      BY <2>1 DEF OrderInv
    <3>2. stream'[k].pkt.msg \in 1..msgs'
      BY <1>1, <2>1, <3>1
    <3> QED BY <1>2, <2>1, <3>2 DEF OrderInv, Above
  <2>2. CASE stream'[k].pkt.msg = msgs' /\ msgs' = msgs + 1
    <3>1. Due' => cur'.msg < msgs'
      <4>1. Due => cur.msg \in 1..msgs
        BY DEF OrderInv
      <4> QED BY <1>1, <1>2, <2>2, <4>1
    <3>2. Above(msgs + 1) /\ msgs' \in 1..msgs'
      BY <1>1, <2>2 DEF OrderInv
    <3> QED BY <2>2, <3>1, <3>2 DEF Above
  <2> QED BY <1>6, <1>7, <2>1, <2>2
<1>8. ASSUME NEW j \in DOMAIN stream', NEW k \in DOMAIN stream', j < k,
             Begins(stream'[j], "PUBLISH"), Begins(stream'[k], "PUBLISH")
      PROVE  stream'[j].pkt.msg < stream'[k].pkt.msg
  <2>1. j \in Nat /\ k \in Nat
    BY DEF PacketInv
  <2>2. j \in DOMAIN stream /\ stream'[j] = stream[j] /\ Begins(stream[j], "PUBLISH")
    <3>1. k \in DOMAIN stream => k < Len(stream) + 1
      BY DEF PacketInv
    <3>2. k < Len(stream) + 1 \/ k = Len(stream) + 1
      BY <1>6, <1>8, <3>1
    <3>3. j # Len(stream) + 1
      <4>1. Len(stream) \in Nat
        BY DEF PacketInv
      <4> QED BY <1>8, <2>1, <3>2, <4>1
    <3> QED BY <1>6, <1>8, <3>3
  <2>3. stream[j].pkt.msg \in 1..msgs
    BY <2>2 DEF OrderInv
  <2>4. CASE k \in DOMAIN stream /\ stream'[k] = stream[k] /\ Begins(stream[k], "PUBLISH")
    BY <1>8, <2>2, <2>4 DEF OrderInv
  <2>5. CASE stream'[k].pkt.msg = msgs' /\ msgs' = msgs + 1
    BY <1>1, <2>2, <2>3, <2>5
  <2> QED BY <1>6, <1>8, <2>4, <2>5
<1>9. \A a, b \in DOMAIN delivered' : a < b => delivered'[a] < delivered'[b]
  BY DEF OrderInv
<1> QED BY <1>4, <1>5, <1>7, <1>8, <1>9 DEF OrderInv

LEMMA OrderStep ==
  ASSUME PacketInv, PacketInv', StreamInv, Held, OrderInv, [Next]_vars
  PROVE  OrderInv'
<1> USE DEF control, session, broker, timers
<1>1. CASE BrokerAnswers
  <2>1. pc' = pc /\ cur' = cur /\ delivered' = delivered /\ msgs' = msgs
    BY <1>1 DEF BrokerAnswers
  <2>2. CASE UNCHANGED stream
    BY <2>1, <2>2, OrderKept, SameShrinks DEF Due, Reading
  <2>3. CASE \E p \in PacketsOf(Types) : Grown(p) /\ p.type # "PUBLISH"
    BY <2>1, <2>3, OrderGrown
  <2> QED BY <1>1, <2>2, <2>3, AnswersKinds
<1>2. CASE \E q \in 0..2 : BrokerPublishes(q)
  <2>1. pc' = pc /\ cur' = cur /\ delivered' = delivered /\ msgs' = msgs + 1
    BY <1>2 DEF BrokerPublishes
  <2>2. \E p \in PacketsOf(Types) : Grown(p) /\ p.msg = msgs'
    BY <1>2, PublishGrows
  <2> QED BY <2>1, <2>2, OrderGrown
<1>3. CASE ReadHead
  BY <1>3, OrderRead
<1>4. CASE HandlePublish \/ HandlePublishFails
  BY <1>4, OrderDelivered DEF HandlePublish, HandlePublishFails, input, Due, Reading, CycleExit
<1>5. CASE /\ ~BrokerAnswers /\ ~\E q \in 0..2 : BrokerPublishes(q)
           /\ ~ReadHead /\ ~HandlePublish /\ ~HandlePublishFails
  <2>1. PICK n \in Nat : Shrunk(n)
    BY <1>5, StreamMoves
  <2>2. delivered' = delivered /\ msgs' = msgs
    BY <1>5, StepIs DEF Main, Connect, Subscribe, Yield, Publish, PublishQos0, WriteFails, Again,
       Returns, YieldReturns, ConnectReturns, SubscribeReturns, WaitFails, Return, TimeOutHead,
       ReadLength, TimeOutLength, ReadBody, TimeOutBody, ReadAstray, Handle, HandleOther,
       HandleUnknown, Keepalive, KeepaliveIdle, SendPing, SendPingFails, PingMissing, Arrive, Die,
       DeadlinePasses, SentExpires, RecvExpires, PingExpires, Elapse, vars
  <2>3. Due' => Due /\ cur'.msg = cur.msg
    BY <1>5, ReadingKept DEF Due
  <2> QED BY <2>1, <2>2, <2>3, OrderKept
<1> QED BY <1>1, <1>2, <1>3, <1>4, <1>5

-----------------------------------------------------------------------------
(* What is on its way to the broker.                                       *)
UpShrunk(m) == \A k \in DOMAIN uplink' : k + m \in DOMAIN uplink /\ uplink'[k] = uplink[k + m]

Sent(type, id) ==
  \A k \in DOMAIN uplink' :
    \/ k \in DOMAIN uplink /\ uplink'[k] = uplink[k]
    \/ k = Len(uplink) + 1 /\ uplink'[k].type = type /\ uplink'[k].id = id

LEMMA SendAppends ==
  ASSUME PacketInv, NEW t, NEW i \in Ids \cup {0}, SendPacket(t, i)
  PROVE  Sent(t, i)
<1> DEFINE p == [Packet(t) EXCEPT !.id = i]
<1>1. p.type = t /\ p.id = i
  BY DEF Packet
<1>2. uplink' = Append(uplink, p) \/ uplink' = uplink
  BY DEF SendPacket, Write
<1> HIDE DEF p
<1>3. CASE uplink' = uplink
  BY <1>3 DEF Sent
<1>4. CASE uplink' = Append(uplink, p)
  <2>1. /\ DOMAIN uplink' = 1..(Len(uplink) + 1) /\ DOMAIN uplink = 1..Len(uplink)
        /\ Len(uplink) \in Nat /\ uplink'[Len(uplink) + 1] = p
        /\ \A k \in 1..Len(uplink) : uplink'[k] = uplink[k]
    BY <1>4 DEF PacketInv
  <2> QED BY <1>1, <2>1 DEF Sent
<1> QED BY <1>2, <1>3, <1>4

LEMMA UplinkMoves ==
  ASSUME PacketInv, [Next]_vars
  PROVE  \/ UpShrunk(0)
         \/ BrokerAnswers /\ UpShrunk(1)
         \/ \E t \in UpTypes, i \in Ids \cup {0} :
              /\ Sent(t, i)
              /\ t = "SUBSCRIBE" => Subscribe
              /\ t = "PUBACK" => ReadAstray \/ (HandlePublish /\ cur.qos = 1 /\ i \in IdsRead(cur))
<1>0. uplink' = uplink => UpShrunk(0)
  BY DEF UpShrunk, PacketInv
<1> USE <1>0 DEF control, session, broker, input, timers, UpTypes
<1>1. CASE Main
  <2>1. CASE Connect
    BY <2>1, SendAppends DEF Connect
  <2>2. CASE Subscribe
    BY <2>2, SendAppends DEF Subscribe
  <2> QED BY <1>1, <2>1, <2>2 DEF Main, Yield
<1>2. CASE Publish \/ WriteFails \/ Again \/ Returns
  BY <1>2 DEF Publish, WriteFails, Again, Returns, YieldReturns, ConnectReturns,
     SubscribeReturns, WaitFails, Return
<1>3. CASE ReadHead \/ TimeOutHead \/ ReadLength \/ TimeOutLength \/ ReadBody \/ TimeOutBody
  BY <1>3 DEF ReadHead, TimeOutHead, ReadLength, TimeOutLength, ReadBody, TimeOutBody
<1>4. CASE ReadAstray
  BY <1>4, SendAppends DEF ReadAstray
<1>5. CASE Handle
  <2>1. CASE HandlePublish
    <3>1. IdsRead(cur) \subseteq Ids \cup {0} /\ cur.qos \in 0..2
      BY DEF IdsRead, PacketInv, PacketsOf
    <3>2. CASE cur.qos = 0
      BY <2>1, <3>2 DEF HandlePublish
    <3>3. CASE cur.qos = 1
      <4>1. PICK i \in IdsRead(cur) : SendPacket("PUBACK", i)
        BY <2>1, <3>3 DEF HandlePublish
      <4> QED BY <2>1, <3>1, <3>3, <4>1, SendAppends
    <3>4. CASE cur.qos = 2
      <4>1. PICK i \in IdsRead(cur) : SendPacket("PUBREC", i)
        BY <2>1, <3>4 DEF HandlePublish
      <4> QED BY <3>1, <4>1, SendAppends
    <3> QED BY <3>1, <3>2, <3>3, <3>4
  <2>2. CASE HandlePublishFails \/ HandleOther \/ HandleUnknown
    BY <2>2 DEF HandlePublishFails, HandleOther, HandleUnknown
  <2> QED BY <1>5, <2>1, <2>2 DEF Handle
<1>6. CASE Keepalive
  BY <1>6, SendAppends DEF Keepalive, KeepaliveIdle, SendPing, SendPingFails, PingMissing
<1>7. CASE Arrive \/ DeadlinePasses \/ SentExpires \/ RecvExpires \/ PingExpires
  BY <1>7 DEF Arrive, DeadlinePasses, SentExpires, RecvExpires, PingExpires, Elapse
<1>8. CASE Die
  <2>1. DOMAIN uplink' = {}
    BY <1>8 DEF Die
  <2> QED BY <2>1 DEF UpShrunk
<1>9. CASE BrokerAnswers
  <2>1. uplink \in Seq(PacketsOf(UpTypes)) /\ uplink # <<>> /\ uplink' = Tail(uplink)
    BY <1>9 DEF BrokerAnswers, PacketInv
  <2>2. UpShrunk(1)
    BY <2>1 DEF UpShrunk
  <2> QED BY <1>9, <2>2
<1>10. CASE \E q \in 0..2 : BrokerPublishes(q)
  BY <1>10 DEF BrokerPublishes
<1>11. CASE UNCHANGED vars
  BY <1>11 DEF vars
<1> QED BY StepIs, <1>1, <1>2, <1>3, <1>4, <1>5, <1>6, <1>7, <1>8, <1>9, <1>10, <1>11

-----------------------------------------------------------------------------
(* No setting is sent before the subscription is granted, and it is asked  *)
(* for once.                                                               *)
Asking == phase = "connect" \/ (phase = "subscribe" /\ pc = "main")

GrantInv ==
  /\ ~granted => ~Due /\ \A k \in DOMAIN stream : ~Begins(stream[k], "PUBLISH")
  /\ Asking => ~granted /\ \A k \in DOMAIN uplink : uplink[k].type # "SUBSCRIBE"

(* While SUBSCRIBE is answered, either the SUBACK is being read or it      *)
(* comes before every setting.                                             *)
Coming == \/ pc \in {"length", "body", "handle", "keepalive"} /\ cur.type = "SUBACK"
          \/ pc = "cycle" /\ rc = "SUBACK"

SubackFirst ==
  /\ ~Due
  /\ \A k \in DOMAIN stream : Begins(stream[k], "PUBLISH") =>
       \E j \in DOMAIN stream : j < k /\ Begins(stream[j], "SUBACK")
  /\ granted /\ alive => \E j \in DOMAIN stream : Begins(stream[j], "SUBACK")

SubackInv == Orderly /\ op = "subscribe" /\ ~Coming => SubackFirst

HandlerInv == isconnected /\ phase = "loop" => handler

(* granted changes when SUBSCRIBE is answered.                             *)
LEMMA GrantMoves ==
  ASSUME [Next]_vars
  PROVE  granted' = granted \/ (BrokerAnswers /\ granted' = (granted \/ Head(uplink).type = "SUBSCRIBE"))
<1> USE DEF control, session, broker, input, timers
<1>1. CASE Main \/ Publish \/ WriteFails \/ Again \/ Returns
  BY <1>1 DEF Main, Connect, Subscribe, Yield, Publish, WriteFails, Again, Returns,
     YieldReturns, ConnectReturns, SubscribeReturns, WaitFails, Return
<1>2. CASE \/ ReadHead \/ TimeOutHead \/ ReadLength \/ TimeOutLength \/ ReadBody \/ TimeOutBody
           \/ ReadAstray
  BY <1>2 DEF ReadHead, TimeOutHead, ReadLength, TimeOutLength, ReadBody, TimeOutBody, ReadAstray
<1>3. CASE Handle
  BY <1>3 DEF Handle, HandlePublish, HandlePublishFails, HandleOther, HandleUnknown
<1>4. CASE Keepalive
  BY <1>4 DEF Keepalive, KeepaliveIdle, SendPing, SendPingFails, PingMissing
<1>5. CASE Arrive \/ Die \/ DeadlinePasses \/ SentExpires \/ RecvExpires \/ PingExpires
  BY <1>5 DEF Arrive, Die, DeadlinePasses, SentExpires, RecvExpires, PingExpires, Elapse
<1>6. CASE BrokerAnswers
  BY <1>6, Zenon DEF BrokerAnswers
<1>7. CASE \E q \in 0..2 : BrokerPublishes(q)
  BY <1>7 DEF BrokerPublishes
<1>8. CASE UNCHANGED vars
  BY <1>8 DEF vars
<1> QED BY StepIs, <1>1, <1>2, <1>3, <1>4, <1>5, <1>6, <1>7, <1>8

LEMMA AskingBefore ==
  ASSUME PhaseInv, [Next]_vars, Asking'
  PROVE  Asking /\ ~Subscribe
<1> USE DEF Asking, PhaseInv, control, session, broker, timers
<1>1. CASE Main \/ Publish \/ WriteFails \/ Again
  BY <1>1 DEF Main, Connect, Subscribe, Yield, Begin, Publish, PublishQos0, WriteFails, Again
<1>2. CASE Returns
  BY <1>2 DEF Returns, YieldReturns, ConnectReturns, SubscribeReturns, WaitFails, Return, Subscribe
<1>3. CASE \/ ReadHead \/ TimeOutHead \/ ReadLength \/ TimeOutLength \/ ReadBody
           \/ TimeOutBody \/ ReadAstray
  BY <1>3 DEF ReadHead, TimeOutHead, ReadLength, TimeOutLength, ReadBody, Read, TimeOutBody,
     ReadAstray, CycleExit, Subscribe
<1>4. CASE Handle
  BY <1>4 DEF Handle, HandlePublish, HandlePublishFails, HandleOther, HandleUnknown, CycleExit,
     Subscribe
<1>5. CASE Keepalive
  BY <1>5 DEF Keepalive, KeepaliveIdle, SendPing, SendPingFails, PingMissing, CycleExit, Subscribe
<1>6. CASE Arrive \/ Die \/ BrokerAnswers \/ \E q \in 0..2 : BrokerPublishes(q)
  BY <1>6 DEF Arrive, Die, BrokerAnswers, BrokerPublishes, Subscribe, Begin
<1>7. CASE DeadlinePasses \/ SentExpires \/ RecvExpires \/ PingExpires
  BY <1>7 DEF DeadlinePasses, SentExpires, RecvExpires, PingExpires, Elapse, Subscribe, Begin
<1>8. CASE UNCHANGED vars
  BY <1>8 DEF vars, Subscribe, Begin
<1> QED BY StepIs, <1>1, <1>2, <1>3, <1>4, <1>5, <1>6, <1>7, <1>8

LEMMA GrantStep ==
  ASSUME PhaseInv, PacketInv, StreamInv, GrantInv, [Next]_vars
  PROVE  GrantInv'
<1>1. ASSUME ~granted' PROVE ~Due' /\ \A k \in DOMAIN stream' : ~Begins(stream'[k], "PUBLISH")
  <2>0. ~granted /\ ~Due /\ \A k \in DOMAIN stream : ~Begins(stream[k], "PUBLISH")
    <3>1. ~granted
      BY <1>1, GrantMoves, Zenon
    <3> QED BY <3>1 DEF GrantInv
  <2>1. \A k \in DOMAIN stream' : ~Begins(stream'[k], "PUBLISH")
    <3>1. CASE BrokerAnswers
      <4>1. CASE UNCHANGED stream
        BY <2>0, <4>1
      <4>2. CASE \E p \in PacketsOf(Types) : Grown(p) /\ p.type # "PUBLISH"
        BY <2>0, <4>2 DEF Grown, Begins, Part
      <4> QED BY <3>1, <4>1, <4>2, AnswersKinds
    <3>2. CASE \E q \in 0..2 : BrokerPublishes(q)
      BY <2>0, <3>2, Zenon DEF BrokerPublishes
    <3>3. CASE \E n \in Nat : Shrunk(n)
      BY <2>0, <3>3 DEF Shrunk
    <3> QED BY <3>1, <3>2, <3>3, StreamMoves
  <2>2. ~Due'
    <3>1. CASE ReadHead
      <4>1. 1 \in DOMAIN stream /\ cur' = stream[1].pkt /\ stream[1].part = "head"
        BY <3>1, TakeShrinks DEF ReadHead
      <4> QED BY <2>0, <4>1 DEF Due, Begins
    <3>2. CASE ~ReadHead
      BY <2>0, <3>2, ReadingKept DEF Due
    <3> QED BY <3>1, <3>2
  <2> QED BY <2>1, <2>2
<1>2. ASSUME Asking' PROVE ~granted' /\ \A k \in DOMAIN uplink' : uplink'[k].type # "SUBSCRIBE"
  <2>0. ~granted /\ ~Subscribe /\ \A k \in DOMAIN uplink : uplink[k].type # "SUBSCRIBE"
    BY <1>2, AskingBefore DEF GrantInv
  <2>1. \A k \in DOMAIN uplink' : uplink'[k].type # "SUBSCRIBE"
    BY <2>0, UplinkMoves DEF UpShrunk, Sent
  <2>2. BrokerAnswers => Head(uplink).type # "SUBSCRIBE"
    <3>1. BrokerAnswers => 1 \in DOMAIN uplink /\ Head(uplink) = uplink[1]
      BY DEF BrokerAnswers, PacketInv
    <3> QED BY <2>0, <3>1
  <2>3. ~granted'
    BY <2>0, <2>2, GrantMoves, Zenon
  <2> QED BY <2>1, <2>3
<1> QED BY <1>1, <1>2 DEF GrantInv

LEMMA ComingStays ==
  ASSUME PhaseInv, PacketInv, [Next]_vars, Orderly, Orderly', Coming,
         op = "subscribe", op' = "subscribe"
  PROVE  Coming'
<1>0. phase = "subscribe" /\ isconnected /\ pc # "main"
  BY DEF PhaseInv, Orderly
<1> USE <1>0 DEF Coming, PhaseInv, Orderly, control, session, broker, timers
<1>1. CASE Main \/ Publish \/ WriteFails \/ Again
  BY <1>1 DEF Main, Connect, Subscribe, Yield, Publish, WriteFails, Again, Awaited
<1>2. CASE Returns
  BY <1>2 DEF Returns, YieldReturns, ConnectReturns, SubscribeReturns, WaitFails, Return
<1>3. CASE ReadHead \/ TimeOutHead \/ ReadLength \/ ReadBody \/ ReadAstray
  BY <1>3 DEF ReadHead, TimeOutHead, ReadLength, ReadBody, Read, ReadAstray
<1>4. CASE TimeOutBody
  BY <1>4 DEF TimeOutBody, CloseSession
<1>5. CASE TimeOutLength
  <2>1. cur'.type = cur.type
    BY <1>5 DEF TimeOutLength, PacketInv, PacketsOf
  <2> QED BY <1>5, <2>1 DEF TimeOutLength
<1>6. CASE Handle
  BY <1>6 DEF Handle, HandlePublish, HandlePublishFails, HandleOther, HandleUnknown
<1>7. CASE Keepalive
  BY <1>7 DEF Keepalive, KeepaliveIdle, SendPing, SendPingFails, PingMissing, CycleExit,
     CloseSession
<1>8. CASE Arrive \/ Die \/ DeadlinePasses \/ SentExpires \/ RecvExpires \/ PingExpires
  BY <1>8 DEF Arrive, Die, DeadlinePasses, SentExpires, RecvExpires, PingExpires, Elapse
<1>9. CASE BrokerAnswers \/ \E q \in 0..2 : BrokerPublishes(q)
  BY <1>9 DEF BrokerAnswers, BrokerPublishes
<1>10. CASE UNCHANGED vars
  BY <1>10 DEF vars
<1> QED BY StepIs, <1>1, <1>2, <1>3, <1>4, <1>5, <1>6, <1>7, <1>8, <1>9, <1>10

LEMMA SubscribingBefore ==
  ASSUME [Next]_vars, op' = "subscribe", ~Subscribe
  PROVE  op = "subscribe"
<1> USE DEF control, session, broker, timers
<1>1. CASE Main \/ Publish \/ WriteFails \/ Again
  BY <1>1 DEF Main, Connect, Yield, Begin, Publish, WriteFails, Again
<1>2. CASE Returns
  BY <1>2 DEF Returns, YieldReturns, ConnectReturns, SubscribeReturns, WaitFails, Return
<1>3. CASE \/ ReadHead \/ TimeOutHead \/ ReadLength \/ TimeOutLength \/ ReadBody
           \/ TimeOutBody \/ ReadAstray
  BY <1>3 DEF ReadHead, TimeOutHead, ReadLength, TimeOutLength, ReadBody, TimeOutBody, ReadAstray
<1>4. CASE Handle \/ Keepalive
  BY <1>4 DEF Handle, HandlePublish, HandlePublishFails, HandleOther, HandleUnknown, Keepalive,
     KeepaliveIdle, SendPing, SendPingFails, PingMissing
<1>5. CASE Arrive \/ Die \/ DeadlinePasses \/ SentExpires \/ RecvExpires \/ PingExpires
  BY <1>5 DEF Arrive, Die, DeadlinePasses, SentExpires, RecvExpires, PingExpires, Elapse
<1>6. CASE BrokerAnswers \/ \E q \in 0..2 : BrokerPublishes(q)
  BY <1>6 DEF BrokerAnswers, BrokerPublishes
<1>7. CASE UNCHANGED vars
  BY <1>7 DEF vars
<1> QED BY StepIs, <1>1, <1>2, <1>3, <1>4, <1>5, <1>6, <1>7

(* Nothing but a byte that is not the SUBACK's head leaves the stream.     *)
LEMMA FirstKept ==
  ASSUME PacketInv, PacketInv', SubackFirst, NEW n \in {0, 1}, Shrunk(n),
         n = 1 => ~Begins(stream[1], "SUBACK"), ~Due',
         granted' => granted, alive' => alive
  PROVE  SubackFirst'
<1>0. DOMAIN stream = 1..Len(stream) /\ DOMAIN stream' = 1..Len(stream')
        /\ Len(stream) \in Nat /\ Len(stream') \in Nat
  BY DEF PacketInv
<1>1. ASSUME NEW k \in DOMAIN stream', Begins(stream'[k], "PUBLISH")
      PROVE  \E j \in DOMAIN stream' : j < k /\ Begins(stream'[j], "SUBACK")
  <2>1. k + n \in DOMAIN stream /\ Begins(stream[k + n], "PUBLISH")
    BY <1>1 DEF Shrunk
  <2>2. PICK j \in DOMAIN stream : j < k + n /\ Begins(stream[j], "SUBACK")
    BY <2>1 DEF SubackFirst
  <2>3. j > n
    BY <1>0, <2>2
  <2>4. j - n \in DOMAIN stream' /\ j - n < k /\ (j - n) + n = j
    BY <1>0, <2>2, <2>3
  <2>5. stream'[j - n] = stream[j]
    BY <2>4 DEF Shrunk
  <2> QED BY <2>2, <2>4, <2>5
<1>2. ASSUME granted', alive'
      PROVE  \E j \in DOMAIN stream' : Begins(stream'[j], "SUBACK")
  <2>1. PICK j \in DOMAIN stream : Begins(stream[j], "SUBACK")
    BY <1>2, Zenon DEF SubackFirst
  <2>2. j > n
    BY <1>0, <2>1
  <2>3. j - n \in DOMAIN stream' /\ (j - n) + n = j
    BY <1>0, <1>2, <2>1, <2>2 DEF Shrunk
  <2>4. stream'[j - n] = stream[j]
    BY <2>3 DEF Shrunk
  <2> QED BY <2>1, <2>3, <2>4
<1> QED BY <1>1, <1>2 DEF SubackFirst

LEMMA FirstGrown ==
  ASSUME PacketInv, SubackFirst, NEW p \in PacketsOf(Types), Grown(p), ~Due', alive,
         p.type = "PUBLISH" => granted,
         granted' => granted \/ p.type = "SUBACK"
  PROVE  SubackFirst'
<1>1. ASSUME NEW k \in DOMAIN stream', Begins(stream'[k], "PUBLISH")
      PROVE  \E j \in DOMAIN stream' : j < k /\ Begins(stream'[j], "SUBACK")
  <2>1. CASE k \in DOMAIN stream
    <3>1. PICK j \in DOMAIN stream : j < k /\ Begins(stream[j], "SUBACK")
      BY <1>1, <2>1 DEF SubackFirst, Grown
    <3> QED BY <3>1 DEF Grown
  <2>2. CASE k \notin DOMAIN stream
    <3>1. p.type = "PUBLISH" /\ \A j \in DOMAIN stream : j < k
      BY <1>1, <2>2 DEF Grown, Begins, Part
    <3>2. PICK j \in DOMAIN stream : Begins(stream[j], "SUBACK")
      BY <3>1 DEF SubackFirst
    <3> QED BY <3>1, <3>2 DEF Grown
  <2> QED BY <2>1, <2>2
<1>2. ASSUME granted'
      PROVE  \E j \in DOMAIN stream' : Begins(stream'[j], "SUBACK")
  <2>1. CASE granted
    <3>1. PICK j \in DOMAIN stream : Begins(stream[j], "SUBACK")
      BY <2>1 DEF SubackFirst
    <3> QED BY <3>1 DEF Grown
  <2>2. CASE ~granted
    <3>1. p.type = "SUBACK"
      BY <1>2, <2>2
    <3> QED BY <3>1 DEF Grown, Begins, Part
  <2> QED BY <2>1, <2>2
<1> QED BY <1>1, <1>2 DEF SubackFirst

LEMMA SubackStep ==
  ASSUME PhaseInv, PacketInv, PacketInv', StreamInv, SyncInv, GrantInv, SubackInv, [Next]_vars
  PROVE  SubackInv'
<1> SUFFICES ASSUME Orderly', op' = "subscribe", ~Coming' PROVE SubackFirst'
  BY DEF SubackInv
<1>0. Orderly
  BY OrderlyBefore
<1>1. CASE Subscribe
  <2>1. /\ phase = "subscribe" /\ pc = "main" /\ pc' = "cycle"
        /\ stream' = stream /\ granted' = granted
    BY <1>1 DEF Subscribe, Begin, input, broker
  <2>2. ~granted /\ \A k \in DOMAIN stream : ~Begins(stream[k], "PUBLISH")
    BY <2>1 DEF GrantInv, Asking
  <2>3. ~granted'
    BY <2>1, <2>2, Zenon
  <2> QED BY <2>1, <2>2, <2>3 DEF SubackFirst, Due, Reading
<1>2. CASE ~Subscribe
  <2>1. op = "subscribe" /\ SubackFirst
    BY <1>0, <1>2, SubscribingBefore, ComingStays DEF SubackInv
  <2>2. ~ReadHead => ~Due'
    BY <2>1, ReadingKept DEF Due, SubackFirst
  <2>3. ~BrokerAnswers => (granted' => granted)
    BY GrantMoves, Zenon
  <2>4. CASE ReadHead
    <3>1. /\ Shrunk(1) /\ 1 \in DOMAIN stream /\ stream[1].part = "head" /\ alive' = alive
          /\ cur' = stream[1].pkt /\ pc' = "length" /\ (granted' => granted)
      BY <2>3, <2>4, TakeShrinks DEF ReadHead, Read, broker, BrokerAnswers, control
    <3>2. ~Begins(stream[1], "SUBACK")
      BY <3>1 DEF Begins, Coming
    <3>3. ~Begins(stream[1], "PUBLISH")
      <4>1. \A j \in DOMAIN stream : ~(j < 1)
        BY DEF PacketInv
      <4> QED BY <2>1, <3>1, <4>1 DEF SubackFirst
    <3>4. ~Due'
      BY <3>1, <3>3 DEF Due, Begins
    <3> QED BY <2>1, <3>1, <3>2, <3>4, FirstKept
  <2>5. CASE ReadLength \/ ReadBody
    <3>1. Shrunk(1) /\ stream[1].part # "head" /\ alive' = alive /\ ~ReadHead /\ ~BrokerAnswers
      BY <2>5, TakeShrinks DEF ReadLength, ReadBody, Read, ReadHead, BrokerAnswers, broker, control
    <3> QED BY <2>1, <2>2, <2>3, <3>1, FirstKept DEF Begins
  <2>6. CASE ReadAstray
    <3>1. pc = "head" /\ arrived > 0 /\ Head(stream).part # "head"
      BY <2>6 DEF ReadAstray, NextIs
    <3>2. stream # <<>> /\ Head(stream) = stream[1]
      BY <3>1 DEF StreamInv, PacketInv
    <3> QED BY <1>0, <3>1, <3>2 DEF SyncInv
  <2>7. CASE Die
    <3>1. ~ReadHead /\ ~BrokerAnswers
      BY <2>7 DEF Die, ReadHead, BrokerAnswers, Read, control, broker
    <3> QED BY <2>1, <2>2, <2>3, <2>7, <3>1, DieShrinks, FirstKept
  <2>8. CASE BrokerAnswers
    <3>1. ~Due' /\ alive /\ alive' = alive /\ granted' = (granted \/ Head(uplink).type = "SUBSCRIBE")
      <4>1. pc' = pc /\ cur' = cur
        BY <2>8 DEF BrokerAnswers, control
      <4>2. ~Due'
        BY <2>1, <4>1 DEF SubackFirst, Due, Reading
      <4> QED BY <2>8, <4>2, Zenon DEF BrokerAnswers
    <3>2. granted' => granted \/ Head(uplink).type = "SUBSCRIBE"
      BY <3>1, Zenon
    <3>3. CASE UNCHANGED stream /\ Head(uplink).type # "SUBSCRIBE"
      BY <2>1, <3>1, <3>2, <3>3, SameShrinks, FirstKept
    <3>4. CASE \E p \in PacketsOf(Types) :
                 /\ Grown(p) /\ p.type # "PUBLISH"
                 /\ Head(uplink).type = "SUBSCRIBE" => p.type = "SUBACK"
      BY <2>1, <3>1, <3>2, <3>4, FirstGrown
    <3> QED BY <2>8, <3>3, <3>4, AnswersKinds
  <2>9. CASE \E q \in 0..2 : BrokerPublishes(q)
    <3>1. pc' = pc /\ cur' = cur /\ granted' = granted /\ granted /\ alive
      BY <2>9 DEF BrokerPublishes, control
    <3>2. ~Due'
      BY <2>1, <3>1 DEF SubackFirst, Due, Reading
    <3>3. \E p \in PacketsOf(Types) : Grown(p)
      BY <2>9, PublishGrows
    <3> QED BY <2>1, <3>1, <3>2, <3>3, FirstGrown
  <2>10. CASE UNCHANGED <<stream, alive>> /\ ~BrokerAnswers /\ ~ReadHead
    BY <2>1, <2>2, <2>3, <2>10, SameShrinks, FirstKept
  <2> QED BY <2>4, <2>5, <2>6, <2>7, <2>8, <2>9, <2>10, StreamStays
<1> QED BY <1>1, <1>2

LEMMA HandlerStep ==
  ASSUME PhaseInv, HandlerInv, [Next]_vars
  PROVE  HandlerInv'
<1> USE DEF HandlerInv, PhaseInv, control, session, broker, timers
<1>1. CASE Main \/ Publish \/ WriteFails \/ Again
  BY <1>1 DEF Main, Connect, Subscribe, Yield, Begin, Publish, WriteFails, CloseSession, Again
<1>2. CASE Returns
  <2>1. CASE YieldReturns
    BY <2>1 DEF YieldReturns, Return, KeepSession
  <2>2. CASE ConnectReturns
    BY <2>2 DEF ConnectReturns, Return
  <2>3. CASE SubscribeReturns
    BY <2>3 DEF SubscribeReturns, Return
  <2>4. CASE WaitFails
    BY <2>4 DEF WaitFails, Return
  <2> QED BY <1>2, <2>1, <2>2, <2>3, <2>4 DEF Returns
<1>3. CASE \/ ReadHead \/ TimeOutHead \/ ReadLength \/ TimeOutLength \/ ReadBody
           \/ TimeOutBody \/ ReadAstray
  BY <1>3 DEF ReadHead, TimeOutHead, ReadLength, TimeOutLength, ReadBody, TimeOutBody, ReadAstray,
     CloseSession, KeepSession
<1>4. CASE Handle
  BY <1>4 DEF Handle, HandlePublish, HandlePublishFails, HandleOther, HandleUnknown, CloseSession,
     KeepSession
<1>5. CASE Keepalive
  BY <1>5 DEF Keepalive, KeepaliveIdle, SendPing, SendPingFails, PingMissing, CloseSession
<1>6. CASE Arrive \/ Die \/ DeadlinePasses \/ SentExpires \/ RecvExpires \/ PingExpires
  BY <1>6 DEF Arrive, Die, DeadlinePasses, SentExpires, RecvExpires, PingExpires, Elapse
<1>7. CASE BrokerAnswers \/ \E q \in 0..2 : BrokerPublishes(q)
  BY <1>7 DEF BrokerAnswers, BrokerPublishes
<1>8. CASE UNCHANGED vars
  BY <1>8 DEF vars
<1> QED BY StepIs, <1>1, <1>2, <1>3, <1>4, <1>5, <1>6, <1>7, <1>8

(* A setting that is read while the session is open finds its handler:     *)
(* the SUBACK, which attaches it, was read before.                         *)
LEMMA DueHandled ==
  ASSUME PhaseInv, GrantInv, SubackInv, HandlerInv, Orderly, Due
  PROVE  isconnected /\ handler
<1>1. phase # "connect"
  <2>1. Asking => ~Due
    BY DEF GrantInv
  <2> QED BY <2>1 DEF Asking
<1>2. isconnected /\ phase # "failed"
  BY <1>1 DEF Orderly, PhaseInv
<1>3. phase # "subscribe"
  <2>1. ~Coming
    BY DEF Coming, Due, Reading
  <2>2. op # "subscribe"
    BY <2>1 DEF SubackInv, SubackFirst
  <2>3. op # "none"
    BY DEF PhaseInv, Due, Reading
  <2> QED BY <1>1, <2>2, <2>3 DEF PhaseInv
<1> QED BY <1>1, <1>2, <1>3 DEF PhaseInv, HandlerInv

-----------------------------------------------------------------------------
(* For each identifier one packet of an exchange is on its way at most: a  *)
(* setting in the stream, the one being read, or its PUBACK.               *)
Wants(p, i) == p.type = "PUBLISH" /\ p.qos # 0 /\ p.id = i
Waiting(k, i) == stream[k].part = "head" /\ Wants(stream[k].pkt, i)
BeingRead(i) == Reading /\ Wants(cur, i)
AckAt(k, i) == uplink[k].type = "PUBACK" /\ uplink[k].id = i
NoAck(i) == \A k \in DOMAIN uplink : ~AckAt(k, i)

OneExchange(i) ==
  /\ BeingRead(i) => flight[i] = cur.msg /\ NoAck(i) /\ \A k \in DOMAIN stream : ~Waiting(k, i)
  /\ \A k \in DOMAIN stream : Waiting(k, i) => flight[i] = stream[k].pkt.msg /\ NoAck(i)
  /\ \A j, k \in DOMAIN stream : Waiting(j, i) /\ Waiting(k, i) => j = k
  /\ \A k \in DOMAIN uplink : AckAt(k, i) => flight[i] \in ToSet(delivered) /\ flight[i] # 0
  /\ \A j, k \in DOMAIN uplink : AckAt(j, i) /\ AckAt(k, i) => j = k

ExchangeInv ==
  Orderly =>
    /\ acked \subseteq ToSet(delivered)
    /\ Due => ~cur.cut
    /\ \A i \in Ids : OneExchange(i)

(* Settings in the stream are whole: cut is what the client makes of them. *)
WholeInv == \A k \in DOMAIN stream : Begins(stream[k], "PUBLISH") => ~stream[k].pkt.cut

LEMMA DeliveredGrow ==
  ASSUME Held, NEW p, p.msg \in 0..MaxMessages, Deliver(p)
  PROVE  /\ ToSet(delivered) \subseteq ToSet(delivered')
         /\ handler /\ ~p.cut => p.msg \in ToSet(delivered')
<1>1. CASE handler /\ ~p.cut
  <2>1. delivered' = Append(delivered, p.msg)
    BY <1>1, Zenon DEF Deliver
  <2>2. delivered \in Seq(0..MaxMessages)
    BY DEF Held
  <2>3. /\ DOMAIN delivered = 1..Len(delivered) /\ Len(delivered) \in Nat
        /\ DOMAIN delivered' = 1..(Len(delivered) + 1)
        /\ delivered'[Len(delivered) + 1] = p.msg
        /\ \A d \in 1..Len(delivered) : delivered'[d] = delivered[d]
    BY <2>1, <2>2
  <2> QED BY <2>3 DEF ToSet
<1>2. CASE ~(handler /\ ~p.cut)
  BY <1>2, Zenon DEF Deliver
<1> QED BY <1>1, <1>2

LEMMA WholeStep ==
  ASSUME PacketInv, StreamInv, WholeInv, [Next]_vars
  PROVE  WholeInv'
<1>1. CASE BrokerAnswers
  <2>1. CASE UNCHANGED stream
    BY <2>1 DEF WholeInv
  <2>2. CASE \E p \in PacketsOf(Types) : Grown(p) /\ p.type # "PUBLISH"
    BY <2>2 DEF WholeInv, Grown, Begins, Part
  <2> QED BY <1>1, <2>1, <2>2, AnswersKinds
<1>2. CASE \E q \in 0..2 : BrokerPublishes(q)
  <2>1. \E p \in PacketsOf(Types) : Grown(p) /\ ~p.cut
    BY <1>2, PublishGrows
  <2> QED BY <2>1 DEF WholeInv, Grown, Begins, Part
<1>3. CASE \E n \in Nat : Shrunk(n)
  BY <1>3 DEF WholeInv, Shrunk
<1> QED BY <1>1, <1>2, <1>3, StreamMoves

(* Steps that take an exchange no further, or end it.                      *)
LEMMA ExchangeKept ==
  ASSUME PacketInv, PacketInv', NEW i \in Ids, OneExchange(i), NEW n \in Nat, NEW m \in Nat,
         \A k \in DOMAIN stream' : Waiting(k, i)' =>
           k + n \in DOMAIN stream /\ stream'[k] = stream[k + n],
         \A k \in DOMAIN uplink' : AckAt(k, i)' =>
           k + m \in DOMAIN uplink /\ uplink'[k] = uplink[k + m],
         BeingRead(i)' => BeingRead(i) /\ cur'.msg = cur.msg,
         flight'[i] = flight[i], ToSet(delivered) \subseteq ToSet(delivered')
  PROVE  OneExchange(i)'
<1>0. (\A k \in DOMAIN stream' : k \in Nat) /\ (\A k \in DOMAIN uplink' : k \in Nat)
  BY DEF PacketInv
<1>1. NoAck(i) => NoAck(i)'
  BY DEF NoAck, AckAt
<1>2. \A k \in DOMAIN stream' : Waiting(k, i)' => Waiting(k + n, i)
  BY DEF Waiting
<1>3. BeingRead(i)' => /\ flight'[i] = cur'.msg /\ NoAck(i)'
                       /\ \A k \in DOMAIN stream' : ~Waiting(k, i)'
  BY <1>1, <1>2 DEF OneExchange
<1>4. ASSUME NEW k \in DOMAIN stream', Waiting(k, i)'
      PROVE  flight'[i] = stream'[k].pkt.msg /\ NoAck(i)'
  BY <1>1, <1>2, <1>4 DEF OneExchange
<1>5. ASSUME NEW j \in DOMAIN stream', NEW k \in DOMAIN stream', Waiting(j, i)', Waiting(k, i)'
      PROVE  j = k
  <2>1. j + n = k + n
    BY <1>2, <1>5 DEF OneExchange
  <2> QED BY <1>0, <2>1
<1>6. ASSUME NEW k \in DOMAIN uplink', AckAt(k, i)'
      PROVE  flight'[i] \in ToSet(delivered') /\ flight'[i] # 0
  <2>1. AckAt(k + m, i) /\ k + m \in DOMAIN uplink
    BY <1>6 DEF AckAt
  <2> QED BY <2>1 DEF OneExchange
<1>7. ASSUME NEW j \in DOMAIN uplink', NEW k \in DOMAIN uplink', AckAt(j, i)', AckAt(k, i)'
      PROVE  j = k
  <2>1. j + m = k + m
    BY <1>7 DEF OneExchange, AckAt
  <2> QED BY <1>0, <2>1
<1> QED BY <1>3, <1>4, <1>5, <1>6, <1>7 DEF OneExchange

LEMMA WaitingKept ==
  ASSUME PacketInv, StreamInv, [Next]_vars,
         BrokerAnswers \/ ~\E q \in 0..2 : BrokerPublishes(q)
  PROVE  \E n \in Nat : \A i \in Ids : \A k \in DOMAIN stream' :
           Waiting(k, i)' => k + n \in DOMAIN stream /\ stream'[k] = stream[k + n]
<1>1. CASE BrokerAnswers
  <2>1. CASE UNCHANGED stream
    <3>1. Shrunk(0)
      BY <2>1, SameShrinks
    <3> QED BY <3>1 DEF Shrunk
  <2>2. CASE \E p \in PacketsOf(Types) : Grown(p) /\ p.type # "PUBLISH"
    <3>1. ASSUME NEW i \in Ids, NEW k \in DOMAIN stream', Waiting(k, i)'
          PROVE  k + 0 \in DOMAIN stream /\ stream'[k] = stream[k + 0]
      <4>1. k \in DOMAIN stream /\ stream'[k] = stream[k]
        BY <2>2, <3>1 DEF Grown, Waiting, Wants, Part
      <4>2. k + 0 = k
        BY <4>1 DEF PacketInv
      <4> QED BY <4>1, <4>2
    <3> QED BY <3>1
  <2> QED BY <1>1, <2>1, <2>2, AnswersKinds
<1>2. CASE \E n \in Nat : Shrunk(n)
  BY <1>2 DEF Shrunk
<1> QED BY <1>1, <1>2, StreamMoves

LEMMA AcksKept ==
  ASSUME PacketInv, [Next]_vars, ~ReadAstray, ~(HandlePublish /\ cur.qos = 1)
  PROVE  \E m \in Nat : \A i \in Ids : \A k \in DOMAIN uplink' :
           AckAt(k, i)' => k + m \in DOMAIN uplink /\ uplink'[k] = uplink[k + m]
<1>1. CASE UpShrunk(0) \/ UpShrunk(1)
  BY <1>1 DEF UpShrunk
<1>2. CASE \E t \in UpTypes, i \in Ids \cup {0} : Sent(t, i) /\ t # "PUBACK"
  <2>1. ASSUME NEW i \in Ids, NEW k \in DOMAIN uplink', AckAt(k, i)'
        PROVE  k + 0 \in DOMAIN uplink /\ uplink'[k] = uplink[k + 0]
    <3>1. k \in DOMAIN uplink /\ uplink'[k] = uplink[k]
      BY <1>2, <2>1 DEF Sent, AckAt
    <3>2. k + 0 = k
      BY <3>1 DEF PacketInv
    <3> QED BY <3>1, <3>2
  <2> QED BY <2>1
<1> QED BY <1>1, <1>2, UplinkMoves

LEMMA BrokerKept ==
  ASSUME [Next]_vars, ~BrokerAnswers, ~\E q \in 0..2 : BrokerPublishes(q)
  PROVE  flight' = flight /\ acked' = acked
<1> USE DEF broker
<1>1. CASE Main \/ Publish \/ WriteFails \/ Again \/ Returns
  BY <1>1 DEF Main, Connect, Subscribe, Yield, Publish, WriteFails, Again, Returns,
     YieldReturns, ConnectReturns, SubscribeReturns, WaitFails, Return
<1>2. CASE \/ ReadHead \/ TimeOutHead \/ ReadLength \/ TimeOutLength \/ ReadBody
           \/ TimeOutBody \/ ReadAstray
  BY <1>2 DEF ReadHead, TimeOutHead, ReadLength, TimeOutLength, ReadBody, TimeOutBody, ReadAstray
<1>3. CASE Handle \/ Keepalive
  BY <1>3 DEF Handle, HandlePublish, HandlePublishFails, HandleOther, HandleUnknown, Keepalive,
     KeepaliveIdle, SendPing, SendPingFails, PingMissing
<1>4. CASE \/ Arrive \/ Die \/ DeadlinePasses \/ SentExpires \/ RecvExpires \/ PingExpires
           \/ UNCHANGED vars
  BY <1>4 DEF Arrive, Die, DeadlinePasses, SentExpires, RecvExpires, PingExpires, Elapse, vars
<1> QED BY StepIs, <1>1, <1>2, <1>3, <1>4

LEMMA DeliveredKept ==
  ASSUME PacketInv, Held, [Next]_vars
  PROVE  ToSet(delivered) \subseteq ToSet(delivered')
<1> USE DEF session
<1>1. CASE Main \/ Publish \/ WriteFails \/ Again \/ Returns
  BY <1>1 DEF Main, Connect, Subscribe, Yield, Publish, WriteFails, Again, Returns,
     YieldReturns, ConnectReturns, SubscribeReturns, WaitFails, Return
<1>2. CASE \/ ReadHead \/ TimeOutHead \/ ReadLength \/ TimeOutLength \/ ReadBody
           \/ TimeOutBody \/ ReadAstray
  BY <1>2 DEF ReadHead, TimeOutHead, ReadLength, TimeOutLength, ReadBody, TimeOutBody, ReadAstray
<1>3. CASE HandlePublish \/ HandlePublishFails
  <2>1. cur.msg \in 0..MaxMessages
    BY DEF PacketInv, PacketsOf
  <2> QED BY <1>3, <2>1, DeliveredGrow DEF HandlePublish, HandlePublishFails
<1>4. CASE HandleOther \/ HandleUnknown \/ Keepalive
  BY <1>4 DEF HandleOther, HandleUnknown, Keepalive, KeepaliveIdle, SendPing, SendPingFails,
     PingMissing
<1>5. CASE \/ Arrive \/ Die \/ DeadlinePasses \/ SentExpires \/ RecvExpires \/ PingExpires
           \/ BrokerAnswers \/ (\E q \in 0..2 : BrokerPublishes(q)) \/ UNCHANGED vars
  BY <1>5 DEF Arrive, Die, DeadlinePasses, SentExpires, RecvExpires, PingExpires, Elapse,
     BrokerAnswers, BrokerPublishes, vars
<1> QED BY StepIs, <1>1, <1>2, <1>3, <1>4, <1>5 DEF Handle

(* The exchange of i moves on: from the stream to the client, ...          *)
LEMMA ExchangeRead ==
  ASSUME PacketInv, PacketInv', StreamInv, NEW i \in Ids, OneExchange(i), ReadHead
  PROVE  OneExchange(i)'
<1>1. /\ Shrunk(1) /\ 1 \in DOMAIN stream /\ stream[1].part = "head" /\ cur' = stream[1].pkt
      /\ pc = "head" /\ uplink' = uplink /\ flight' = flight /\ delivered' = delivered
  BY TakeShrinks DEF ReadHead, Read, session, broker
<1>2. \A k \in DOMAIN stream' : /\ k + 1 \in DOMAIN stream /\ stream'[k] = stream[k + 1]
                                /\ Waiting(k, i)' => Waiting(k + 1, i)
  BY <1>1 DEF Shrunk, Waiting
<1>3. CASE ~Waiting(1, i)
  <2>1. ~BeingRead(i)'
    BY <1>1, <1>3 DEF BeingRead, Waiting
  <2>2. \A k \in DOMAIN uplink' : k + 0 \in DOMAIN uplink /\ uplink'[k] = uplink[k + 0]
    BY <1>1 DEF PacketInv
  <2>3. 0 \in Nat /\ 1 \in Nat
    OBVIOUS
  <2> QED BY <1>1, <1>2, <2>1, <2>2, <2>3, ExchangeKept
<1>4. CASE Waiting(1, i)
  <2>1. ASSUME NEW k \in DOMAIN stream', Waiting(k, i)' PROVE FALSE
    <3>1. k + 1 = 1
      BY <1>1, <1>2, <1>4, <2>1 DEF OneExchange
    <3>2. k \in Nat /\ k > 0
      BY DEF PacketInv
    <3> QED BY <3>1, <3>2
  <2>2. flight'[i] = cur'.msg /\ NoAck(i)'
    BY <1>1, <1>4 DEF OneExchange, NoAck, AckAt
  <2> QED BY <2>1, <2>2 DEF OneExchange, NoAck
<1> QED BY <1>3, <1>4

(* ... to the PUBACK, when it has been delivered, ...                      *)
LEMMA ExchangeAcked ==
  ASSUME PhaseInv, PacketInv, PacketInv', Held, OrderInv, GrantInv, SubackInv, HandlerInv,
         Orderly, Due => ~cur.cut, NEW i \in Ids, OneExchange(i),
         HandlePublish, cur.qos = 1
  PROVE  OneExchange(i)'
<1>1. /\ Due /\ ~cur.cut /\ stream' = stream /\ flight' = flight /\ ~Reading'
      /\ Deliver(cur) /\ SendPacket("PUBACK", cur.id)
  <2>1. pc = "handle" /\ cur.type = "PUBLISH" /\ pc' = "keepalive"
    BY DEF HandlePublish
  <2>2. Due /\ ~cur.cut /\ ~Reading'
    BY <2>1 DEF Due, Reading
  <2> QED BY <2>2 DEF HandlePublish, IdsRead, input, broker
<1>2. cur.id \in Ids \cup {0} /\ cur.msg \in 0..MaxMessages /\ cur.msg # 0
  BY <1>1 DEF PacketInv, PacketsOf, OrderInv
<1>3. Sent("PUBACK", cur.id)
  BY <1>1, <1>2, SendAppends
<1>4. ToSet(delivered) \subseteq ToSet(delivered') /\ cur.msg \in ToSet(delivered')
  BY <1>1, <1>2, DueHandled, DeliveredGrow
<1>5. ~BeingRead(i)'
  BY <1>1 DEF BeingRead
<1>6. CASE i # cur.id
  <2>1. 0 \in Nat
    OBVIOUS
  <2>2. \A k \in DOMAIN stream' : k + 0 \in DOMAIN stream /\ stream'[k] = stream[k + 0]
    BY <1>1 DEF PacketInv
  <2>3. ASSUME NEW k \in DOMAIN uplink', AckAt(k, i)'
        PROVE  k + 0 \in DOMAIN uplink /\ uplink'[k] = uplink[k + 0]
    <3>1. k \in DOMAIN uplink /\ uplink'[k] = uplink[k]
      BY <1>3, <1>6, <2>3 DEF Sent, AckAt
    <3>2. k + 0 = k
      BY <3>1 DEF PacketInv
    <3> QED BY <3>1, <3>2
  <2> QED BY <1>1, <1>4, <1>5, <2>1, <2>2, <2>3, ExchangeKept
<1>7. CASE i = cur.id
  <2>1. BeingRead(i)
    BY <1>1, <1>7 DEF BeingRead, Due, Wants
  <2>2. flight'[i] = cur.msg /\ NoAck(i) /\ \A k \in DOMAIN stream' : ~Waiting(k, i)'
    BY <1>1, <2>1 DEF OneExchange, Waiting
  <2>3. \A k \in DOMAIN uplink' : AckAt(k, i)' => k = Len(uplink) + 1
    BY <1>3, <2>2 DEF Sent, NoAck, AckAt
  <2> QED BY <1>2, <1>4, <1>5, <2>2, <2>3 DEF OneExchange
<1> QED BY <1>6, <1>7

(* ... and begins when the broker finds the identifier free.               *)
LEMMA ExchangeBegun ==
  ASSUME PacketInv, PacketInv', Held, OrderInv, NEW i \in Ids, OneExchange(i),
         NEW q \in 0..2, BrokerPublishes(q)
  PROVE  OneExchange(i)'
<1>1. pc' = pc /\ cur' = cur /\ uplink' = uplink /\ delivered' = delivered
  BY DEF BrokerPublishes, control, session
<1>2. PICK p \in PacketsOf(Types), j \in Ids :
        /\ Grown(p) /\ p.type = "PUBLISH" /\ p.qos = q /\ p.msg = msgs' /\ p.id = j
        /\ q = 0 => flight' = flight
        /\ q # 0 => flight[j] = 0 /\ flight' = [flight EXCEPT ![j] = msgs']
  BY PublishGrows
<1>3. BeingRead(i)' <=> BeingRead(i)
  BY <1>1 DEF BeingRead, Reading
<1>4. ASSUME NEW k \in DOMAIN stream', Waiting(k, i)'
      PROVE  \/ k \in DOMAIN stream /\ stream'[k] = stream[k] /\ Waiting(k, i)
             \/ k = Len(stream) + 1 /\ stream'[k] = Part(p, "head") /\ q # 0 /\ i = j
  <2>1. CASE k \in DOMAIN stream
    BY <1>2, <1>4, <2>1 DEF Grown, Waiting
  <2>2. CASE k \notin DOMAIN stream
    <3>1. k = Len(stream) + 1 /\ stream'[k] = Part(p, "head")
      BY <1>2, <1>4, <2>2 DEF Grown, Waiting
    <3> QED BY <1>2, <1>4, <3>1 DEF Waiting, Wants, Part
  <2> QED BY <2>1, <2>2
<1>5. CASE q = 0 \/ i # j
  <2>1. 0 \in Nat
    OBVIOUS
  <2>2. flight'[i] = flight[i]
    BY <1>2, <1>5 DEF Held
  <2>3. ASSUME NEW k \in DOMAIN stream', Waiting(k, i)'
        PROVE  k + 0 \in DOMAIN stream /\ stream'[k] = stream[k + 0]
    <3>1. k \in DOMAIN stream /\ stream'[k] = stream[k]
      BY <1>4, <1>5, <2>3
    <3>2. k + 0 = k
      BY <3>1 DEF PacketInv
    <3> QED BY <3>1, <3>2
  <2>4. \A k \in DOMAIN uplink' : k + 0 \in DOMAIN uplink /\ uplink'[k] = uplink[k + 0]
    BY <1>1 DEF PacketInv
  <2> QED BY <1>1, <1>3, <2>1, <2>2, <2>3, <2>4, ExchangeKept
<1>6. CASE q # 0 /\ i = j
  <2>1. flight[i] = 0 /\ flight'[i] = msgs'
    BY <1>2, <1>6 DEF Held
  <2>2. ~BeingRead(i)
    <3>1. BeingRead(i) => Due
      BY DEF BeingRead, Due, Wants
    <3> QED BY <2>1, <3>1 DEF OneExchange, OrderInv
  <2>3. \A k \in DOMAIN stream : ~Waiting(k, i)
    <3>1. \A k \in DOMAIN stream : Waiting(k, i) => Begins(stream[k], "PUBLISH")
      BY DEF Waiting, Wants, Begins
    <3> QED BY <2>1, <3>1 DEF OneExchange, OrderInv
  <2>4. NoAck(i)'
    BY <1>1, <2>1 DEF OneExchange, NoAck, AckAt
  <2>5. \A k \in DOMAIN stream' : Waiting(k, i)' =>
          k = Len(stream) + 1 /\ stream'[k] = Part(p, "head")
    BY <1>4, <2>3
  <2>6. \A k \in DOMAIN stream' : Waiting(k, i)' => flight'[i] = stream'[k].pkt.msg
    BY <1>2, <2>1, <2>5 DEF Part
  <2> QED BY <1>3, <2>2, <2>4, <2>5, <2>6 DEF OneExchange, NoAck
<1> QED BY <1>5, <1>6

(* The broker ends it when the PUBACK arrives.                             *)
LEMMA ExchangeEnded ==
  ASSUME PacketInv, PacketInv', StreamInv, Held, BrokerAnswers, [Next]_vars,
         acked \subseteq ToSet(delivered), \A i \in Ids : OneExchange(i)
  PROVE  acked' \subseteq ToSet(delivered') /\ \A i \in Ids : OneExchange(i)'
<1>1. pc' = pc /\ cur' = cur /\ delivered' = delivered
  BY DEF BrokerAnswers, control, session
<1>2. /\ \A k \in DOMAIN uplink' : k + 1 \in DOMAIN uplink /\ uplink'[k] = uplink[k + 1]
      /\ 1 \in DOMAIN uplink /\ Head(uplink) = uplink[1]
  <2>1. uplink \in Seq(PacketsOf(UpTypes)) /\ uplink # <<>> /\ uplink' = Tail(uplink)
    BY DEF BrokerAnswers, PacketInv
  <2> QED BY <2>1
<1>3. PICK n \in Nat : \A i \in Ids : \A k \in DOMAIN stream' :
        Waiting(k, i)' => k + n \in DOMAIN stream /\ stream'[k] = stream[k + n]
  BY WaitingKept
<1>4. ASSUME NEW i \in Ids PROVE BeingRead(i)' => BeingRead(i) /\ cur'.msg = cur.msg
  BY <1>1 DEF BeingRead, Reading
<1>5. ASSUME NEW i \in Ids, flight'[i] = flight[i] PROVE OneExchange(i)'
  <2>1. 1 \in Nat
    OBVIOUS
  <2> QED BY <1>1, <1>2, <1>3, <1>4, <1>5, <2>1, ExchangeKept
<1>6. CASE flight' = flight /\ acked' = acked
  BY <1>1, <1>5, <1>6
<1>7. CASE \E j \in Ids : /\ Head(uplink).type = "PUBACK" /\ Head(uplink).id = j
                          /\ flight' = [flight EXCEPT ![j] = 0]
                          /\ acked' = acked \cup {flight[j]}
  <2>1. PICK j \in Ids : /\ AckAt(1, j) /\ flight' = [flight EXCEPT ![j] = 0]
                         /\ acked' = acked \cup {flight[j]}
    BY <1>2, <1>7 DEF AckAt
  <2>2. acked' \subseteq ToSet(delivered')
    BY <1>1, <1>2, <2>1 DEF OneExchange
  <2>3. ASSUME NEW i \in Ids PROVE OneExchange(i)'
    <3>1. CASE i # j
      <4>1. flight'[i] = flight[i]
        BY <2>1, <3>1 DEF Held
      <4> QED BY <1>5, <4>1
    <3>2. CASE i = j
      <4>1. ~NoAck(i) /\ AckAt(1, i) /\ OneExchange(i)
        BY <1>2, <2>1, <3>2 DEF NoAck
      <4>2. ~BeingRead(i)'
        BY <1>4, <4>1 DEF OneExchange
      <4>3. \A k \in DOMAIN stream' : ~Waiting(k, i)'
        BY <1>3, <4>1 DEF OneExchange, Waiting
      <4>4. ASSUME NEW k \in DOMAIN uplink', AckAt(k, i)' PROVE FALSE
        <5>1. k + 1 = 1
          BY <1>2, <4>1, <4>4 DEF OneExchange, AckAt
        <5>2. k \in Nat /\ k > 0
          BY DEF PacketInv
        <5> QED BY <5>1, <5>2
      <4> QED BY <4>2, <4>3, <4>4 DEF OneExchange
    <3> QED BY <3>1, <3>2
  <2> QED BY <2>2, <2>3
<1> QED BY <1>6, <1>7 DEF BrokerAnswers

LEMMA ExchangeStep ==
  ASSUME PhaseInv, PacketInv, PacketInv', StreamInv, SyncInv, Held, OrderInv, GrantInv,
         SubackInv, HandlerInv, WholeInv, ExchangeInv, [Next]_vars
  PROVE  ExchangeInv'
<1> SUFFICES ASSUME Orderly'
             PROVE  /\ acked' \subseteq ToSet(delivered') /\ (Due' => ~cur'.cut)
                    /\ \A i \in Ids : OneExchange(i)'
  BY DEF ExchangeInv
<1>1. /\ Orderly /\ acked \subseteq ToSet(delivered) /\ (Due => ~cur.cut)
      /\ \A i \in Ids : OneExchange(i)
  BY OrderlyBefore DEF ExchangeInv
<1>2. ~ReadAstray
  <2>1. SUFFICES ASSUME ReadAstray PROVE FALSE
    OBVIOUS
  <2>2. pc = "head" /\ arrived > 0 /\ Head(stream).part # "head"
    BY <2>1 DEF ReadAstray, NextIs
  <2>3. stream # <<>> /\ Head(stream) = stream[1]
    BY <2>2 DEF StreamInv, PacketInv
  <2> QED BY <1>1, <2>2, <2>3 DEF SyncInv
<1>3. ~TimeOutLength
  BY <1>1 DEF SyncInv, TimeOutLength
<1>4. Due' => ~cur'.cut
  <2>1. CASE ReadHead
    <3>1. 1 \in DOMAIN stream /\ cur' = stream[1].pkt /\ stream[1].part = "head"
      BY <2>1, TakeShrinks DEF ReadHead
    <3> QED BY <3>1 DEF WholeInv, Begins, Due
  <2>2. CASE ~ReadHead
    BY <1>1, <1>3, <2>2, ReadingKept DEF Due
  <2> QED BY <2>1, <2>2
<1>5. CASE BrokerAnswers
  BY <1>1, <1>4, <1>5, ExchangeEnded
<1>6. CASE ~BrokerAnswers
  <2>1. ToSet(delivered) \subseteq ToSet(delivered')
    BY DeliveredKept
  <2>2. acked' = acked
    BY <1>6, BrokerKept DEF BrokerPublishes
  <2>3. ASSUME NEW i \in Ids PROVE OneExchange(i)'
    <3>1. OneExchange(i)
      BY <1>1
    <3>2. CASE ReadHead
      BY <3>1, <3>2, ExchangeRead
    <3>3. CASE HandlePublish /\ cur.qos = 1
      BY <1>1, <3>1, <3>3, ExchangeAcked
    <3>4. CASE \E q \in 0..2 : BrokerPublishes(q)
      BY <3>1, <3>4, ExchangeBegun
    <3>5. CASE ~ReadHead /\ ~(HandlePublish /\ cur.qos = 1) /\ ~\E q \in 0..2 : BrokerPublishes(q)
      <4>1. PICK n \in Nat : \A k \in DOMAIN stream' :
              Waiting(k, i)' => k + n \in DOMAIN stream /\ stream'[k] = stream[k + n]
        BY <3>5, WaitingKept
      <4>2. PICK m \in Nat : \A k \in DOMAIN uplink' :
              AckAt(k, i)' => k + m \in DOMAIN uplink /\ uplink'[k] = uplink[k + m]
        BY <1>2, <3>5, AcksKept
      <4>3. BeingRead(i)' => BeingRead(i) /\ cur'.msg = cur.msg
        BY <3>5, ReadingKept DEF BeingRead, Wants
      <4>4. flight'[i] = flight[i]
        BY <1>6, <3>5, BrokerKept
      <4> QED BY <2>1, <3>1, <4>1, <4>2, <4>3, <4>4, ExchangeKept
    <3> QED BY <3>2, <3>3, <3>4, <3>5
  <2> QED BY <1>1, <1>4, <2>1, <2>2, <2>3
<1> QED BY <1>5, <1>6

(* What is said above of settings, their order and their exchanges.        *)
Exchanges ==
  Held /\ OrderInv /\ GrantInv /\ SubackInv /\ HandlerInv /\ WholeInv /\ ExchangeInv

(* The exchange of each identifier goes from the stream to the client, to  *)
(* its PUBACK and to the broker, one at a time, until a read fails.        *)
THEOREM ExchangesInvariant == Spec => []Exchanges
<1> USE DEF Exchanges
<1>1. Init => Exchanges
  <2> SUFFICES ASSUME Init PROVE Exchanges
    OBVIOUS
  <2>1. /\ DOMAIN stream = {} /\ DOMAIN uplink = {} /\ DOMAIN delivered = {} /\ acked = {}
        /\ pc = "main" /\ op = "none" /\ phase = "connect" /\ ~granted
    BY DEF Init
  <2>2. 0 \in 0..MaxMessages
    BY SessionAssumption
  <2>3. Held
    BY <2>2 DEF Init, Held
  <2>4. OrderInv
    BY <2>1 DEF OrderInv, Above, Due, Reading
  <2>5. GrantInv /\ SubackInv /\ HandlerInv /\ WholeInv
    BY <2>1 DEF GrantInv, SubackInv, HandlerInv, WholeInv, Due, Reading
  <2>6. ExchangeInv
    BY <2>1 DEF ExchangeInv, OneExchange, BeingRead, Due, Reading
  <2> QED BY <2>3, <2>4, <2>5, <2>6
<1>2. /\ PhaseInv /\ PacketInv /\ PacketInv' /\ StreamInv /\ SyncInv /\ Exchanges
      /\ [Next]_vars
      => Exchanges'
  <2> SUFFICES ASSUME PhaseInv, PacketInv, PacketInv', StreamInv, SyncInv, Exchanges, [Next]_vars
               PROVE  Exchanges'
    OBVIOUS
  <2> QED BY HeldStep, OrderStep, GrantStep, SubackStep, HandlerStep, WholeStep, ExchangeStep
<1> HIDE DEF Exchanges
<1> QED BY <1>1, <1>2, PhaseInvariant, StreamInvariant, SyncInvariant, PTL DEF Spec

(* While the session is open, a setting the client acknowledged was handed *)
(* to message_arrived(): HandlePublish delivers before it sends the PUBACK *)
(* and the broker reuses an identifier only after it.  Settings are handed *)
(* over in the order sent, none twice, open or not.                        *)
THEOREM AckedDeliveredAlways == Spec => []AckedDelivered
<1>1. Exchanges => AckedDelivered
  BY DEF Exchanges, ExchangeInv, OrderInv, AckedDelivered, Orderly
<1> QED BY <1>1, ExchangesInvariant, PTL

-----------------------------------------------------------------------------
(* Where a setting of an open session is that the broker has sent.         *)
Queued(m) == \E k \in DOMAIN stream : Begins(stream[k], "PUBLISH") /\ stream[k].pkt.msg = m
InHand(m) == m \in ToSet(delivered) \/ (Due /\ cur.msg = m) \/ Queued(m)

(* Until a read fails, every setting the broker sent has been delivered,   *)
(* is being handled, or waits in the stream.                               *)
NothingLost == Orderly /\ alive => \A m \in 1..msgs : InHand(m)

LEMMA QueuedKept ==
  ASSUME PacketInv, StreamInv, SyncInv, Orderly, [Next]_vars, alive', NEW m, Queued(m)
  PROVE  Queued(m)' \/ (ReadHead /\ Due' /\ cur'.msg = m)
<1>1. PICK k \in DOMAIN stream : Begins(stream[k], "PUBLISH") /\ stream[k].pkt.msg = m
  BY DEF Queued
<1>2. CASE UNCHANGED stream
  BY <1>1, <1>2 DEF Queued
<1>3. ASSUME Shrunk(1), k # 1 PROVE Queued(m)'
  <2>1. k > 1 /\ k \in Nat
    BY <1>3 DEF PacketInv
  <2>2. k - 1 \in DOMAIN stream'
    BY <1>3, <2>1 DEF Shrunk
  <2>3. stream'[k - 1] = stream[(k - 1) + 1]
    BY <1>3, <2>2 DEF Shrunk
  <2>4. (k - 1) + 1 = k
    BY <2>1
  <2>5. stream'[k - 1] = stream[k]
    BY <2>3, <2>4
  <2> QED BY <1>1, <2>2, <2>5 DEF Queued
<1>4. CASE ReadHead
  <2>1. Shrunk(1) /\ cur' = stream[1].pkt /\ pc' = "length"
    BY <1>4, TakeShrinks DEF ReadHead, Read
  <2>2. k = 1 => Due' /\ cur'.msg = m
    BY <1>1, <2>1 DEF Due, Reading, Begins
  <2> QED BY <1>3, <1>4, <2>1, <2>2
<1>5. CASE ReadLength \/ ReadBody
  <2>1. Shrunk(1) /\ stream[1].part # "head"
    BY <1>5, TakeShrinks DEF ReadLength, ReadBody
  <2> QED BY <1>1, <1>3, <2>1 DEF Begins
<1>6. CASE ReadAstray
  <2>1. pc = "head" /\ arrived > 0 /\ Head(stream).part # "head"
    BY <1>6 DEF ReadAstray, NextIs
  <2>2. stream # <<>> /\ Head(stream) = stream[1]
    BY <2>1 DEF StreamInv, PacketInv
  <2> QED BY <2>1, <2>2 DEF SyncInv
<1>7. CASE \E p \in PacketsOf(Types) : Grown(p)
  BY <1>1, <1>7 DEF Queued, Grown
<1>8. CASE BrokerAnswers \/ \E q \in 0..2 : BrokerPublishes(q)
  BY <1>2, <1>7, <1>8, AnswersKinds, PublishGrows
<1>9. CASE Die
  BY <1>9, DieShrinks
<1> QED BY <1>2, <1>4, <1>5, <1>6, <1>8, <1>9, StreamStays

(* The client leaves a setting it has begun to read only to deliver it, or *)
(* with the session closed.                                                *)
LEMMA DueKept ==
  ASSUME PhaseInv, PacketInv, SyncInv, Held, GrantInv, SubackInv, HandlerInv, ExchangeInv,
         Orderly, Orderly', [Next]_vars, Due
  PROVE  cur.msg \in ToSet(delivered') \/ (Due' /\ cur'.msg = cur.msg)
<1>1. isconnected /\ handler /\ ~cur.cut /\ cur.type = "PUBLISH" /\ Reading
  BY DueHandled DEF ExchangeInv, Due
<1> USE <1>1 DEF Due, Reading, control, session, broker, timers
<1>2. CASE Main \/ Publish \/ WriteFails \/ Again \/ Returns
  BY <1>2 DEF Main, Connect, Subscribe, Yield, Publish, WriteFails, Again, Returns,
     YieldReturns, ConnectReturns, SubscribeReturns, WaitFails, Return
<1>3. CASE ReadHead \/ TimeOutHead \/ ReadLength \/ ReadBody \/ ReadAstray
  BY <1>3 DEF ReadHead, TimeOutHead, ReadLength, ReadBody, Read, ReadAstray
<1>4. CASE TimeOutLength
  BY <1>4 DEF TimeOutLength, SyncInv
<1>5. CASE TimeOutBody
  <2>1. ~isconnected' /\ phase' = phase /\ phase # "connect"
    BY <1>5 DEF TimeOutBody, CloseSession, GrantInv, Asking
  <2> QED BY <2>1 DEF Orderly
<1>6. CASE HandlePublish \/ HandlePublishFails
  <2>1. Deliver(cur) /\ cur.msg \in 0..MaxMessages
    BY <1>6 DEF HandlePublish, HandlePublishFails, PacketInv, PacketsOf
  <2> QED BY <2>1, DeliveredGrow
<1>7. CASE HandleOther \/ HandleUnknown \/ Keepalive
  BY <1>7 DEF HandleOther, HandleUnknown, Keepalive, KeepaliveIdle, SendPing, SendPingFails,
     PingMissing
<1>8. CASE \/ Arrive \/ Die \/ DeadlinePasses \/ SentExpires \/ RecvExpires \/ PingExpires
           \/ BrokerAnswers \/ (\E q \in 0..2 : BrokerPublishes(q)) \/ UNCHANGED vars
  BY <1>8 DEF Arrive, Die, DeadlinePasses, SentExpires, RecvExpires, PingExpires, Elapse,
     BrokerAnswers, BrokerPublishes, vars
<1> QED BY StepIs, <1>2, <1>3, <1>4, <1>5, <1>6, <1>7, <1>8 DEF Handle

LEMMA MsgsMove ==
  ASSUME PacketInv, [Next]_vars
  PROVE  \/ msgs' = msgs
         \/ /\ msgs' = msgs + 1
            /\ \E k \in DOMAIN stream' :
                 Begins(stream'[k], "PUBLISH") /\ stream'[k].pkt.msg = msgs'
<1>1. CASE \E q \in 0..2 : BrokerPublishes(q)
  <2>1. \E p \in PacketsOf(Types) : Grown(p) /\ p.type = "PUBLISH" /\ p.msg = msgs'
    BY <1>1, PublishGrows
  <2>2. \E k \in DOMAIN stream' : Begins(stream'[k], "PUBLISH") /\ stream'[k].pkt.msg = msgs'
    BY <2>1 DEF Grown, Begins, Part
  <2> QED BY <1>1, <2>2 DEF BrokerPublishes
<1>2. CASE ~\E q \in 0..2 : BrokerPublishes(q)
  BY <1>2, StepIs DEF Main, Connect, Subscribe, Yield, Publish, WriteFails, Again,
     Returns, YieldReturns, ConnectReturns, SubscribeReturns, WaitFails, Return, ReadHead,
     TimeOutHead, ReadLength, TimeOutLength, ReadBody, TimeOutBody, ReadAstray, Handle,
     HandlePublish, HandlePublishFails, HandleOther, HandleUnknown, Keepalive, KeepaliveIdle,
     SendPing, SendPingFails, PingMissing, Arrive, Die, BrokerAnswers, DeadlinePasses,
     SentExpires, RecvExpires, PingExpires, Elapse, broker, vars
<1> QED BY <1>1, <1>2

LEMMA AliveBefore ==
  ASSUME [Next]_vars, alive'
  PROVE  alive
<1> USE DEF broker
<1>1. CASE ReadHead \/ ReadLength \/ ReadBody \/ ReadAstray
  BY <1>1, Zenon DEF ReadHead, ReadLength, ReadBody, ReadAstray
<1>2. CASE Die
  BY <1>2, Zenon DEF Die
<1>3. CASE BrokerAnswers \/ \E q \in 0..2 : BrokerPublishes(q)
  BY <1>3, Zenon DEF BrokerAnswers, BrokerPublishes
<1>4. CASE UNCHANGED <<stream, alive>>
  BY <1>4, Zenon
<1> QED BY <1>1, <1>2, <1>3, <1>4, StreamStays

LEMMA LossStep ==
  ASSUME PhaseInv, PacketInv, StreamInv, SyncInv, Held, GrantInv, SubackInv, HandlerInv,
         ExchangeInv, NothingLost, [Next]_vars
  PROVE  NothingLost'
<1> SUFFICES ASSUME Orderly', alive', NEW m \in 1..msgs' PROVE InHand(m)'
  BY DEF NothingLost
<1>1. Orderly /\ alive
  BY OrderlyBefore, AliveBefore
<1>2. ToSet(delivered) \subseteq ToSet(delivered')
  BY DeliveredKept
<1>3. msgs \in Nat
  BY SessionAssumption DEF PacketInv
<1>4. CASE m \in 1..msgs
  <2>1. InHand(m)
    BY <1>1, <1>4 DEF NothingLost
  <2>2. CASE m \in ToSet(delivered)
    BY <1>2, <2>2 DEF InHand
  <2>3. CASE Due /\ cur.msg = m
    BY <1>1, <2>3, DueKept DEF InHand
  <2>4. CASE Queued(m)
    BY <1>1, <2>4, QueuedKept DEF InHand
  <2> QED BY <2>1, <2>2, <2>3, <2>4 DEF InHand
<1>5. CASE m \notin 1..msgs
  <2>1. m = msgs' /\ msgs' = msgs + 1
    BY <1>3, <1>5, MsgsMove
  <2>2. \E k \in DOMAIN stream' : Begins(stream'[k], "PUBLISH") /\ stream'[k].pkt.msg = m
    BY <1>3, <2>1, MsgsMove
  <2> QED BY <2>2 DEF InHand, Queued
<1> QED BY <1>4, <1>5

(* A setting sent over an open session to a living client is not lost: it  *)
(* was handed to message_arrived(), or is being read and will be, or its   *)
(* bytes are still in the stream.  This is what SettingsDelivered adds     *)
(* fairness to.                                                            *)
THEOREM NothingLostAlways == Spec => []NothingLost
<1>1. Init => NothingLost
  BY DEF Init, NothingLost
<1>2. /\ PhaseInv /\ PacketInv /\ StreamInv /\ SyncInv /\ Exchanges /\ NothingLost
      /\ [Next]_vars
      => NothingLost'
  BY LossStep DEF Exchanges
<1> QED BY <1>1, <1>2, PhaseInvariant, StreamInvariant, SyncInvariant, ExchangesInvariant,
           PTL DEF Spec
=============================================================================
