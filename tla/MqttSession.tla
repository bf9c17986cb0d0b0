----------------------------- MODULE MqttSession -----------------------------
(***************************************************************************)
(* The MQTT client of the controller: MQTTClient.h as CommHandler uses it  *)
(* (connect, subscribe, publish with QoS 0, yield), over the byte stream   *)
(* of module IPStack.  The macro MQTTCLIENT_QOS2 has its default, 0.       *)
(*                                                                         *)
(* A packet is two bytes, head and length, and a body that arrives in one  *)
(* piece.  Deadlines are abstract: a deadline is in time, expired, or      *)
(* overdue by a millisecond or more, which is when left_ms() is negative.  *)
(* A failed set-up ends the behaviour: main starts anew with new objects.  *)
(* When the session is closed its handlers are gone, but main keeps        *)
(* calling yield() and never connects again.                               *)
(***************************************************************************)
EXTENDS Integers, Sequences, SequencesExt

CONSTANTS
  Ids,         \* packet identifiers the broker uses
  Worlds,      \* what the client may meet: the QoS at which settings are
               \* delivered, whether head and length of a packet always
               \* arrive together, and whether a deadline may be missed by
               \* a millisecond or more
  MaxMessages  \* bound: settings messages the broker sends

ASSUME SessionAssumption ==
  /\ Worlds \subseteq [qoses : SUBSET (0..2), wholeHeaders : BOOLEAN,
                       mayOverrun : BOOLEAN]
  /\ MaxMessages \in Nat

VARIABLES
  phase,      \* how far main is: connect, subscribe, loop, or failed
  pc,         \* where the client is
  op,         \* the operation that runs cycle()
  rc,         \* what the last cycle() returned
  result,     \* what the last yield() returned
  late,       \* the operation's deadline
  patient,    \* the present read() was called with a negative timeout
  cur,        \* the packet being read
  isconnected, handler,       \* handler: message_arrived is attached
  pingOut,                    \* ping_outstanding
  sentDue, recvDue, pingDue,  \* last_sent, last_received, ping_sent expired
  stream, arrived,  \* bytes sent by the broker and not read; how many are here
  uplink,           \* packets on their way to the broker
  delivered,        \* settings handed to message_arrived()
  cause,            \* history: why the session was closed
  alive, granted, flight, msgs, acked,  \* the broker
  world       \* the member of Worlds, which stays

timers == <<sentDue, recvDue, pingDue>>
session == <<isconnected, handler, pingOut, timers, delivered, cause>>
control == <<phase, pc, op, rc, result, late, patient, cur>>
input == <<stream, arrived>>
broker == <<alive, granted, flight, msgs, acked, world>>
vars == <<control, session, input, uplink, broker>>

(* cut: its length did not come in time, it is taken for an empty packet.  *)
Packet(type) == [type |-> type, qos |-> 0, id |-> 0, msg |-> 0, cut |-> FALSE]
NoPacket == Packet("none")

Init ==
  /\ phase = "connect" /\ pc = "main" /\ op = "none" /\ rc = "start"
  /\ result = "success" /\ late = "inTime" /\ patient = FALSE /\ cur = NoPacket
  /\ isconnected = FALSE /\ handler = FALSE /\ pingOut = FALSE
  /\ sentDue = FALSE /\ recvDue = FALSE /\ pingDue = FALSE
  /\ stream = <<>> /\ arrived = 0 /\ uplink = <<>>
  /\ delivered = <<>> /\ cause = "none"
  /\ alive = TRUE /\ granted = FALSE /\ msgs = 0 /\ acked = {}
  /\ flight = [i \in Ids |-> 0]
  /\ world \in Worlds

-----------------------------------------------------------------------------
(* Pieces of the client.                                                   *)
(* A write succeeds when the bytes are queued; a dead peer gets none.       *)
Write(p) == uplink' = IF alive THEN Append(uplink, p) ELSE uplink

SendPacket(type, id) ==
  /\ Write([Packet(type) EXCEPT !.id = id])
  /\ sentDue' = FALSE

CloseSession(why) ==
  /\ isconnected' = FALSE /\ pingOut' = FALSE /\ handler' = FALSE
  /\ cause' = IF isconnected THEN why ELSE cause

KeepSession == UNCHANGED <<isconnected, handler, pingOut, cause>>

Awaited == CASE op = "connect" -> "CONNACK"
             [] op = "subscribe" -> "SUBACK"
             [] OTHER -> "nothing"

Timely == late = "inTime" \/ patient

(* A read() takes the next byte or body; Timely says it still waits.       *)
NextIs(part) == arrived > 0 /\ Head(stream).part = part
Take == stream' = Tail(stream) /\ arrived' = arrived - 1
Read(from, to) == pc = from /\ pc' = to /\ patient' = (late = "overdue")

(* cycle() returns r without keepalive().                                  *)
CycleExit(r) == pc' = "cycle" /\ rc' = r

-----------------------------------------------------------------------------
(* Mutated forms of the definitions below, slips the properties must       *)
(* notice; no specification uses them.                                     *)
TimeOutHeadWaits == pc = "head" /\ arrived = 0 /\ FALSE

TimeOutBodyUnnoticed ==
  /\ pc = "body" /\ arrived = 0 /\ ~Timely
  /\ CycleExit("none")
  /\ UNCHANGED <<phase, op, result, late, patient, cur, session, input, uplink,
                 broker>>

DeliverInTime(p) ==
  delivered' = IF handler /\ ~p.cut /\ late = "inTime"
                 THEN Append(delivered, p.msg) ELSE delivered

PingMissingAgain ==
  /\ pc = "keepalive" /\ pingOut /\ pingDue
  /\ CycleExit(cur.type)
  /\ pingDue' = FALSE
  /\ SendPacket("PINGREQ", 0)
  /\ UNCHANGED <<phase, op, result, late, patient, cur, isconnected, handler,
                 pingOut, recvDue, delivered, cause, input, broker>>

HandleUnknownPing ==
  /\ pc = "handle" /\ cur.type \in {"PUBREL", "PINGRESP"}
  /\ CloseSession("packet")
  /\ CycleExit(cur.type)
  /\ UNCHANGED <<phase, op, result, late, patient, cur, timers, delivered, input,
                 uplink, broker>>

-----------------------------------------------------------------------------
(* Operations begin: CommHandler calls them in this order.                 *)
Begin(name) ==
  /\ op' = name /\ pc' = "cycle" /\ rc' = "start" /\ late' = "inTime"
  /\ cur' = NoPacket
  /\ UNCHANGED <<result, patient>>

Connect ==
  /\ pc = "main" /\ phase = "connect"
  /\ Begin("connect")
  /\ SendPacket("CONNECT", 0)
  /\ recvDue' = FALSE
  /\ UNCHANGED <<phase, isconnected, handler, pingOut, pingDue, delivered,
                 cause, input, broker>>

Subscribe ==
  /\ pc = "main" /\ phase = "subscribe"
  /\ Begin("subscribe")
  /\ SendPacket("SUBSCRIBE", 0)
  /\ UNCHANGED <<phase, isconnected, handler, pingOut, recvDue, pingDue,
                 delivered, cause, input, broker>>

Yield ==
  /\ pc = "main" /\ phase = "loop"
  /\ Begin("yield")
  /\ UNCHANGED <<phase, session, input, uplink, broker>>

(* CommHandler::publish(), a status with QoS 0: it concerns the session in *)
(* that something was sent.                                                *)
PublishQos0 == isconnected /\ sentDue /\ sentDue' = FALSE

Publish ==
  /\ pc = "main" /\ phase = "loop"
  /\ PublishQos0
  /\ UNCHANGED <<control, isconnected, handler, pingOut, recvDue, pingDue,
                 delivered, cause, input, uplink, broker>>

(* A packet of an operation cannot be written: it fails at once.           *)
WriteFails ==
  /\ pc = "main" /\ phase # "failed" /\ ~(phase = "loop" /\ ~isconnected)
  /\ phase' = IF phase = "loop" THEN "loop" ELSE "failed"
  /\ CloseSession("write")
  /\ UNCHANGED <<pc, op, rc, result, late, patient, cur, timers, delivered,
                 input, uplink, broker>>

-----------------------------------------------------------------------------
(* The loop round cycle() in yield() and waitfor().                        *)
Again ==
  /\ pc = "cycle" /\ late = "inTime" /\ rc \notin {"failure", Awaited}
  /\ pc' = "head" /\ patient' = FALSE /\ cur' = NoPacket
  /\ UNCHANGED <<phase, op, rc, result, late, session, input, uplink, broker>>

Return(newPhase) ==
  /\ pc' = "main" /\ op' = "none" /\ phase' = newPhase
  /\ UNCHANGED <<rc, late, patient, cur, timers, delivered, input, uplink, broker>>

YieldReturns ==
  /\ pc = "cycle" /\ op = "yield"
  /\ rc = "failure" \/ late # "inTime"
  /\ result' = IF rc = "failure" THEN "failure" ELSE "success"
  /\ Return("loop") /\ KeepSession

ConnectReturns ==
  /\ pc = "cycle" /\ op = "connect" /\ rc = "CONNACK"
  /\ isconnected' = TRUE /\ pingOut' = FALSE
  /\ Return("subscribe")
  /\ UNCHANGED <<handler, cause, result>>

SubscribeReturns ==
  /\ pc = "cycle" /\ op = "subscribe" /\ rc = "SUBACK"
  /\ handler' = TRUE
  /\ Return("loop")
  /\ UNCHANGED <<isconnected, pingOut, cause, result>>

WaitFails ==
  /\ pc = "cycle" /\ op \in {"connect", "subscribe"} /\ rc # Awaited
  /\ rc = "failure" \/ late # "inTime"
  /\ CloseSession("wait")
  /\ Return("failed")
  /\ UNCHANGED result

-----------------------------------------------------------------------------
(* readPacket().                                                           *)
ReadHead ==
  /\ Read("head", "length") /\ NextIs("head")
  /\ cur' = Head(stream).pkt
  /\ Take
  /\ UNCHANGED <<phase, op, rc, result, late, session, uplink, broker>>

TimeOutHead ==
  /\ pc = "head" /\ arrived = 0 /\ ~Timely
  /\ pc' = "keepalive"
  /\ UNCHANGED <<phase, op, rc, result, late, patient, cur, session, input,
                 uplink, broker>>

ReadLength ==
  /\ Read("length", IF cur.type = "PINGRESP" THEN "handle" ELSE "body")
  /\ NextIs("length")
  /\ Take
  /\ UNCHANGED <<phase, op, rc, result, late, cur, session, uplink, broker>>

(* decodePacket() failed, which is ignored: the packet counts as received, *)
(* and as empty.                                                           *)
TimeOutLength ==
  /\ pc = "length" /\ arrived = 0 /\ ~Timely
  /\ pc' = "handle" /\ cur' = [cur EXCEPT !.cut = TRUE]
  /\ recvDue' = FALSE
  /\ UNCHANGED <<phase, op, rc, result, late, patient, isconnected, handler,
                 pingOut, sentDue, pingDue, delivered, cause, input, uplink,
                 broker>>

ReadBody ==
  /\ Read("body", "handle") /\ NextIs("body")
  /\ Take
  /\ recvDue' = FALSE
  /\ UNCHANGED <<phase, op, rc, result, late, cur, isconnected, handler, pingOut,
                 sentDue, pingDue, delivered, cause, uplink, broker>>

(* readPacket() returns the 1 of its first read, which is no packet that a *)
(* client may receive.                                                     *)
TimeOutBody ==
  /\ pc = "body" /\ arrived = 0 /\ ~Timely
  /\ CycleExit("broken")
  /\ CloseSession("read")
  /\ UNCHANGED <<phase, op, result, late, patient, cur, timers, delivered, input,
                 uplink, broker>>

(* The stream is read from the middle of a packet on: its bytes are taken  *)
(* for a head and for what follows one, an unknown packet, one without     *)
(* effect, or a message for no handler that is acknowledged.               *)
ReadAstray ==
  /\ pc = "head" /\ arrived > 0 /\ ~NextIs("head")
  /\ \E n \in 1..arrived :
       stream' = SubSeq(stream, n + 1, Len(stream)) /\ arrived' = arrived - n
  /\ recvDue' = FALSE
  /\ \/ CycleExit("broken") /\ CloseSession("packet") /\ UNCHANGED <<uplink, sentDue>>
     \/ /\ pc' = "keepalive" /\ KeepSession /\ UNCHANGED rc
        /\ \/ UNCHANGED <<uplink, sentDue>>
           \/ \E i \in Ids : SendPacket("PUBACK", i)
  /\ UNCHANGED <<phase, op, result, late, patient, cur, pingDue, delivered, broker>>

-----------------------------------------------------------------------------
(* cycle(): the packet read, then keepalive().                             *)
(* An empty packet is still deserialized: its topic matches no handler,    *)
(* and its identifier is whatever msg.id held; one that is not in use      *)
(* would change nothing.                                                   *)
Deliver(p) ==
  delivered' = IF handler /\ ~p.cut THEN Append(delivered, p.msg) ELSE delivered

IdsRead(p) == IF p.cut THEN Ids ELSE {p.id}

HandlePublish ==
  /\ pc = "handle" /\ pc' = "keepalive" /\ cur.type = "PUBLISH"
  /\ Deliver(cur)
  /\ IF cur.qos = 0 THEN UNCHANGED <<uplink, sentDue>>
     ELSE \E i \in IdsRead(cur) :
            SendPacket(IF cur.qos = 1 THEN "PUBACK" ELSE "PUBREC", i)
  /\ KeepSession
  /\ UNCHANGED <<phase, op, rc, result, late, patient, cur, recvDue, pingDue,
                 input, broker>>

HandlePublishFails ==
  /\ pc = "handle" /\ cur.type = "PUBLISH" /\ cur.qos > 0
  /\ Deliver(cur)
  /\ CloseSession("write")
  /\ CycleExit("failure")
  /\ UNCHANGED <<phase, op, result, late, patient, cur, timers, input, uplink,
                 broker>>

HandleOther ==
  /\ pc = "handle" /\ pc' = "keepalive"
  /\ cur.type \in {"CONNACK", "SUBACK", "PINGRESP"}
  /\ pingOut' = (pingOut /\ cur.type # "PINGRESP")
  /\ recvDue' = FALSE
  /\ UNCHANGED <<phase, op, rc, result, late, patient, cur, isconnected, handler,
                 sentDue, pingDue, delivered, cause, input, uplink, broker>>

(* Without MQTTCLIENT_QOS2 a PUBREL takes the default branch.              *)
HandleUnknown ==
  /\ pc = "handle" /\ cur.type = "PUBREL"
  /\ CloseSession("packet")
  /\ CycleExit(cur.type)
  /\ UNCHANGED <<phase, op, result, late, patient, cur, timers, delivered, input,
                 uplink, broker>>

KeepaliveIdle ==
  /\ pc = "keepalive"
  /\ IF pingOut THEN ~pingDue ELSE ~sentDue /\ ~recvDue
  /\ CycleExit(cur.type)
  /\ UNCHANGED <<phase, op, result, late, patient, cur, session, input, uplink,
                 broker>>

SendPing ==
  /\ pc = "keepalive" /\ ~pingOut /\ (sentDue \/ recvDue)
  /\ CycleExit(cur.type)
  /\ SendPacket("PINGREQ", 0)
  /\ pingOut' = TRUE /\ pingDue' = FALSE
  /\ UNCHANGED <<phase, op, result, late, patient, cur, isconnected, handler,
                 recvDue, delivered, cause, input, broker>>

SendPingFails ==
  /\ pc = "keepalive" /\ ~pingOut /\ (sentDue \/ recvDue)
  /\ CycleExit("failure")
  /\ CloseSession("write")
  /\ UNCHANGED <<phase, op, result, late, patient, cur, timers, delivered, input,
                 uplink, broker>>

PingMissing ==
  /\ pc = "keepalive" /\ pingOut /\ pingDue
  /\ CycleExit("failure")
  /\ CloseSession("ping")
  /\ UNCHANGED <<phase, op, result, late, patient, cur, timers, delivered, input,
                 uplink, broker>>

-----------------------------------------------------------------------------
(* The network, the clock and the broker, which grants the subscription    *)
(* before it sends a message for it.                                       *)
Part(p, part) == [pkt |-> p, part |-> part]
Bytes(p) == IF p.type = "PINGRESP"
            THEN <<Part(p, "head"), Part(p, "length")>>
            ELSE <<Part(p, "head"), Part(p, "length"), Part(p, "body")>>

Answer(p) == stream' = stream \o Bytes(p) /\ UNCHANGED arrived

Arrive ==
  /\ alive /\ arrived < Len(stream)
  /\ arrived' = arrived +
       IF world.wholeHeaders /\ stream[arrived + 1].part = "head" THEN 2 ELSE 1
  /\ UNCHANGED <<control, session, stream, uplink, broker>>

Die ==
  /\ alive /\ alive' = FALSE
  /\ uplink' = <<>> /\ stream' = SubSeq(stream, 1, arrived)
  /\ UNCHANGED <<control, session, arrived, granted, flight, msgs, acked, world>>

BrokerPublishes(qos) ==
  /\ qos \in world.qoses /\ alive /\ granted /\ msgs < MaxMessages /\ msgs' = msgs + 1
  /\ \E i \in Ids :
       /\ qos = 0 \/ flight[i] = 0
       /\ flight' = IF qos = 0 THEN flight ELSE [flight EXCEPT ![i] = msgs']
       /\ Answer([type |-> "PUBLISH", qos |-> qos, id |-> i, msg |-> msgs',
                  cut |-> FALSE])
  /\ UNCHANGED <<control, session, uplink, alive, granted, acked, world>>

BrokerAnswers ==
  /\ alive /\ uplink # <<>> /\ uplink' = Tail(uplink)
  /\ LET p == Head(uplink) IN
     /\ CASE p.type = "CONNECT" -> Answer(Packet("CONNACK"))
          [] p.type = "SUBSCRIBE" -> Answer(Packet("SUBACK"))
          [] p.type = "PINGREQ" -> Answer(Packet("PINGRESP"))
          [] p.type = "PUBREC" -> Answer([Packet("PUBREL") EXCEPT !.id = p.id])
          [] OTHER -> UNCHANGED input
     /\ granted' = (granted \/ p.type = "SUBSCRIBE")
     /\ IF p.type = "PUBACK" /\ p.id \in {i \in Ids : flight[i] # 0}
        THEN flight' = [flight EXCEPT ![p.id] = 0] /\ acked' = acked \cup {flight[p.id]}
        ELSE UNCHANGED <<flight, acked>>
  /\ UNCHANGED <<control, session, alive, msgs, world>>

DeadlinePasses ==
  /\ pc # "main"
  /\ \/ late = "inTime" /\ late' = "expired"
     \/ world.mayOverrun /\ late = "expired" /\ late' = "overdue"
  /\ UNCHANGED <<phase, pc, op, rc, result, patient, cur, session, input, uplink,
                 broker>>

(* A timer runs out: sixty seconds since something was sent or received,   *)
(* or since the ping went out.  Bound: only while the session is open; the *)
(* pings of a closed one do nothing but come back.                         *)
Elapse ==
  /\ isconnected
  /\ UNCHANGED <<control, isconnected, handler, pingOut, delivered, cause, input,
                 uplink, broker>>

SentExpires == ~sentDue /\ sentDue' = TRUE /\ UNCHANGED <<recvDue, pingDue>> /\ Elapse
RecvExpires == ~recvDue /\ recvDue' = TRUE /\ UNCHANGED <<sentDue, pingDue>> /\ Elapse
PingExpires ==
  /\ pingOut /\ ~pingDue /\ pingDue' = TRUE
  /\ UNCHANGED <<sentDue, recvDue>>
  /\ Elapse

-----------------------------------------------------------------------------
ReadPacket == ReadHead \/ TimeOutHead \/ ReadLength \/ TimeOutLength \/ ReadBody
                \/ TimeOutBody \/ ReadAstray
Handle == HandlePublish \/ HandlePublishFails \/ HandleOther \/ HandleUnknown
Keepalive == KeepaliveIdle \/ SendPing \/ SendPingFails \/ PingMissing
Returns == YieldReturns \/ ConnectReturns \/ SubscribeReturns \/ WaitFails
Client == Again \/ Returns \/ ReadPacket \/ Handle \/ Keepalive

Main == Connect \/ Subscribe \/ Yield

Next ==
  \/ Main \/ Publish \/ WriteFails \/ Client
  \/ Arrive \/ Die \/ BrokerAnswers \/ DeadlinePasses
  \/ SentExpires \/ RecvExpires \/ PingExpires
  \/ \E q \in 0..2 : BrokerPublishes(q)

Spec == Init /\ [][Next]_vars

(* The client's thread runs, main's loop comes back to yield(), time       *)
(* passes, and a living network and broker do their part.  The 100 ms of   *)
(* yield() are not over again and again before its first cycle().          *)
FairSpec ==
  /\ Spec
  /\ WF_vars(Client) /\ WF_vars(Main) /\ SF_vars(Again)
  /\ WF_vars(DeadlinePasses)
  /\ WF_vars(SentExpires) /\ WF_vars(RecvExpires) /\ WF_vars(PingExpires)
  /\ WF_vars(Arrive) /\ WF_vars(BrokerAnswers)

-----------------------------------------------------------------------------
Types == {"none", "CONNACK", "SUBACK", "PUBLISH", "PUBREL", "PINGRESP"}

PacketsOf(types) ==
  [type : types, qos : 0..2, id : Ids \cup {0}, msg : 0..MaxMessages, cut : BOOLEAN]

TypeOK ==
  /\ phase \in {"connect", "subscribe", "loop", "failed"}
  /\ pc \in {"main", "cycle", "head", "length", "body", "handle", "keepalive"}
  /\ op \in {"none", "connect", "subscribe", "yield"}
  /\ rc \in Types \cup {"start", "failure", "broken"}
  /\ result \in {"success", "failure"}
  /\ late \in {"inTime", "expired", "overdue"}
  /\ {patient, isconnected, handler, pingOut, sentDue, recvDue, pingDue, alive, granted}
       \subseteq BOOLEAN
  /\ cur \in PacketsOf(Types)
  /\ stream \in Seq([pkt : PacketsOf(Types), part : {"head", "length", "body"}])
  /\ arrived \in 0..Len(stream)
  /\ uplink \in Seq(PacketsOf({"CONNECT", "SUBSCRIBE", "PINGREQ", "PUBACK", "PUBREC"}))
  /\ delivered \in Seq(0..MaxMessages) /\ acked \subseteq 0..MaxMessages
  /\ msgs \in 0..MaxMessages /\ flight \in [Ids -> 0..MaxMessages]
  /\ world \in Worlds

(* While the session is open the client begins to read at the first byte   *)
(* of a packet, unless a deadline fell between a head and its length.      *)
InStep ==
  world.wholeHeaders /\ isconnected /\ pc \in {"main", "cycle", "head"} /\ stream # <<>> =>
    Head(stream).part = "head"

(* While the session is open, a setting the client acknowledged was handed *)
(* to message_arrived(); settings are handed over in the order sent, none  *)
(* twice.  A packet cut after its head is acknowledged unread.             *)
AckedDelivered ==
  /\ world.wholeHeaders /\ isconnected => acked \subseteq ToSet(delivered)
  /\ \A a, b \in DOMAIN delivered : a < b => delivered[a] < delivered[b]

(* If any read of readPacket() fails the session is closed, so an open one *)
(* is read from the first byte of a packet.                                *)
ReadFailureCloses ==
  isconnected /\ pc \in {"main", "cycle", "head"} /\ stream # <<>> =>
    Head(stream).part = "head"

(* When yield() fails the client has disconnected.                         *)
FailureMeansClosed == result = "failure" => ~isconnected

(* An open session is closed only when a read, a write, an answer or a     *)
(* ping failed; the client is not built for settings at QoS 2.             *)
ClosedForCause ==
  world.wholeHeaders /\ 2 \notin world.qoses => cause \in {"none", "read", "write", "wait", "ping"}

(* A read() that was called with a negative left_ms() and has nothing to   *)
(* read: it takes the timeout for unsigned and waits for seven weeks.      *)
Overslept == patient /\ pc \in {"head", "length", "body"} /\ arrived = 0

(* connect(), subscribe() and yield() return, whatever the peer does,      *)
(* unless a read() oversleeps.  That is the one exception to "the max time *)
(* to wait for the packet read to complete" of readPacket().               *)
OperationsEnd == (pc # "main") ~> (pc = "main" \/ Overslept)

(* Each setting the broker sends reaches message_arrived(), or the session *)
(* is closed.                                                              *)
SettingsDelivered ==
  \A m \in 1..MaxMessages :
    (msgs >= m) ~> (m \in ToSet(delivered) \/ ~isconnected \/ ~alive)

(* When the broker falls silent, the client notices, unless it oversleeps. *)
DeadPeerNoticed == <>[](~alive => ~isconnected \/ Overslept)
=============================================================================
