------------------------------ MODULE MqttPacket ------------------------------
(***************************************************************************)
(* The packet codecs of MQTTPacket/src as operators: a packet is a record, *)
(* its wire form a sequence of bytes.  A serializer takes the length of    *)
(* the caller's buffer and returns the bytes, or Refused; a deserializer   *)
(* takes a packet as the reader left it in its buffer, and returns the     *)
(* record, or Bad, or Unfilled.  A string is the sequence of its bytes, whichever of    *)
(* the two forms of MQTTString holds it.                                   *)
(***************************************************************************)
EXTENDS Integers, Sequences, SequencesExt

CONNECT == 1      CONNACK == 2   PUBLISH == 3    PUBACK == 4
PUBREC == 5       PUBREL == 6    PUBCOMP == 7    SUBSCRIBE == 8
SUBACK == 9       UNSUBSCRIBE == 10              UNSUBACK == 11
PINGREQ == 12     PINGRESP == 13                 DISCONNECT == 14

Refused == <<>>                       \* MQTTPACKET_BUFFER_TOO_SHORT
Bad == [kind |-> "bad"]               \* a deserializer's rc other than 1
Unfilled == [kind |-> "unfilled"]     \* rc is 1, and the caller's variables are not all written
Absent == {}                          \* no will, no user name, no password;
Given(x) == {x}                       \* ... or one
The(option) == CHOOSE x \in option : TRUE

Bit(b) == IF b THEN 1 ELSE 0
Powers == <<1, 2, 4, 8, 16, 32, 64, 128>>
IsSet(byte, i) == (byte \div Powers[i + 1]) % 2 = 1

-----------------------------------------------------------------------------
(* MQTTPacket.c: the pieces packets are written with.                      *)
MAX_REMAINING == 128 * 128 * 128 * 128 - 1  \* what four bytes of the length can say
MAX_WORD == 256 * 256 - 1                   \* ... and two bytes of writeInt()

encode[n \in 0..MAX_REMAINING] ==
  IF n < 128 THEN <<n>> ELSE <<128 + (n % 128)>> \o encode[n \div 128]

MQTTPacket_len(rem) ==
  LET n == rem + 1
  IN  n + (CASE n < 128 -> 1
         [] n < 128 * 128 -> 2
         [] n < 128 * 128 * 128 - 1 -> 3   \* one less than what three bytes can say
         [] OTHER -> 4)

WriteInt(n) == <<(n \div 256) % 256, n % 256>>
WriteString(s) == WriteInt(Len(s)) \o s
WriteStrings(ss) == FlattenSeq([i \in DOMAIN ss |-> WriteString(ss[i])])

HeaderByte(type, dup, qos, retain) == 16 * type + 8 * Bit(dup) + 2 * qos + Bit(retain)

Frame(header, rem, body) == <<header>> \o encode[rem] \o body

(* The guard most serializers share: the length computed beforehand.       *)
Framed(buflen, header, rem, body) ==
  IF MQTTPacket_len(rem) > buflen THEN Refused ELSE Frame(header, rem, body)

StringsLength(ss, extra) ==
  LET sum[i \in 0..Len(ss)] == IF i = 0 THEN 0 ELSE sum[i - 1] + 2 + Len(ss[i]) + extra
  IN  sum[Len(ss)]

-----------------------------------------------------------------------------
(* ... and read with.  A length is read from position at on; used is 5     *)
(* when four bytes ask for more.                                           *)
decode(b, at) ==
  LET from[k \in 1..5] ==
        IF k = 5 THEN [used |-> 5, value |-> 0]
        ELSE IF b[at + k - 1] < 128 THEN [used |-> k, value |-> b[at + k - 1]]
        ELSE [used |-> from[k + 1].used,
              value |-> b[at + k - 1] - 128 + 128 * from[k + 1].value]
  IN  from[1]

Type(b) == b[1] \div 16
Dup(b) == IsSet(b[1], 3)
QoS(b) == (b[1] \div 2) % 4

(* A packet too short: rc still is what MQTTPacket_decodeBuf() returned,   *)
(* the number of bytes of the length, and one byte passes for success.     *)
Short(b) == IF decode(b, 2).used = 1 THEN Unfilled ELSE Bad

(* Where the body starts, and the position after its end.                  *)
BodyAt(b) == 2 + decode(b, 2).used
BodyEnd(b) == BodyAt(b) + decode(b, 2).value

ReadInt(b, at) == 256 * b[at] + b[at + 1]

(* readMQTTLenString(): ok only if the string ends before position end.    *)
ReadString(b, at, end) ==
  IF end - at > 1 /\ at + 2 + ReadInt(b, at) <= end
  THEN [ok |-> TRUE, s |-> SubSeq(b, at + 2, at + 1 + ReadInt(b, at)),
        next |-> at + 2 + ReadInt(b, at)]
  ELSE [ok |-> FALSE, s |-> <<>>, next |-> at]

(* Strings one after another, up to end, each with extra bytes behind it;  *)
(* each takes two bytes at least.                                          *)
ReadStrings(b, at, end, extra) ==
  LET read[i \in 0..Len(b)] ==
        IF i = 0 THEN [next |-> at, list |-> <<>>]
        ELSE LET last == read[i - 1]
                 r == ReadString(b, last.next, end)
             IN  IF last.next >= end THEN last
                 ELSE IF ~r.ok \/ r.next + extra > end
                 THEN [next |-> end, list |-> Append(last.list, Bad)]
                 ELSE [next |-> r.next + extra,
                       list |-> Append(last.list,
                                  [s |-> r.s, after |-> SubSeq(b, r.next, r.next + extra - 1)])]
  IN  read[Len(b)].list

-----------------------------------------------------------------------------
(* CONNECT.                                                                *)
ConnectOptions(version, clean, keepAlive, id, will, user, password) ==
  [kind |-> "connect", version |-> version, clean |-> clean, keepAlive |-> keepAlive,
   id |-> id, will |-> will, user |-> user, password |-> password]

OptionalLength(s) == IF s = Absent THEN 0 ELSE Len(The(s)) + 2
OptionalString(s) == IF s = Absent THEN <<>> ELSE WriteString(The(s))

MQTTSerialize_connectLength(p) ==
  (CASE p.version = 3 -> 12 [] p.version = 4 -> 10 [] OTHER -> 0)
    + Len(p.id) + 2
    + (IF p.will = Absent THEN 0
       ELSE Len(The(p.will).topic) + 2 + Len(The(p.will).message) + 2)
    + OptionalLength(p.user) + OptionalLength(p.password)

ConnectFlags(p) ==
  2 * Bit(p.clean)
    + (IF p.will = Absent THEN 0
       ELSE 4 + 8 * The(p.will).qos + 32 * Bit(The(p.will).retained))
    + 64 * Bit(p.password # Absent) + 128 * Bit(p.user # Absent)

MQTT == <<77, 81, 84, 84>>
MQIsdp == <<77, 81, 73, 115, 100, 112>>

MQTTSerialize_connect(p, buflen) ==
  Framed(buflen, HeaderByte(CONNECT, FALSE, 0, FALSE), MQTTSerialize_connectLength(p),
    (IF p.version = 4 THEN WriteString(MQTT) \o <<4>> ELSE WriteString(MQIsdp) \o <<3>>)
      \o <<ConnectFlags(p)>> \o WriteInt(p.keepAlive) \o WriteString(p.id)
      \o (IF p.will = Absent THEN <<>>
          ELSE WriteString(The(p.will).topic) \o WriteString(The(p.will).message))
      \o OptionalString(p.user) \o OptionalString(p.password))

(* Only as many characters as both have are compared.                      *)
MQTTPacket_checkVersion(protocol, version) ==
  \E name \in {<<MQIsdp, 3>>, <<MQTT, 4>>} :
    /\ version = name[2]
    /\ \A i \in DOMAIN protocol \cap DOMAIN name[1] : protocol[i] = name[1][i]

MQTTDeserialize_connect(b) ==
  LET end == Len(b) + 1
      string == [at \in Nat |-> ReadString(b, at, end)]
      protocol == string[BodyAt(b)]
      flagsAt == protocol.next + 1
      Flag(i) == IsSet(b[flagsAt], i)
      Field(used, at) == IF used THEN string[at]
                         ELSE [ok |-> TRUE, s |-> <<>>, next |-> at]
      Option(used, x) == IF used THEN Given(x) ELSE Absent
      id == string[flagsAt + 3]
      topic == Field(Flag(2), id.next)
      message == Field(Flag(2), topic.next)
      user == Field(Flag(7), message.next)
      password == Field(Flag(6), user.next)
  IN  IF \/ Type(b) # CONNECT
         \/ ~protocol.ok
         \/ ~MQTTPacket_checkVersion(protocol.s, b[protocol.next])
         \/ ~id.ok \/ ~topic.ok \/ ~message.ok
         \/ Flag(7) /\ (end - message.next < 3 \/ ~user.ok)
         \/ Flag(6) /\ (~Flag(7) \/ end - user.next < 3 \/ ~password.ok)
      THEN Bad
      ELSE ConnectOptions(b[protocol.next], Flag(1), ReadInt(b, flagsAt + 1), id.s,
             Option(Flag(2), [topic |-> topic.s, message |-> message.s,
                              qos |-> (b[flagsAt] \div 8) % 4, retained |-> Flag(5)]),
             Option(Flag(7), user.s), Option(Flag(6), password.s))

MQTTSerialize_connack(p, buflen) ==
  IF buflen < 2 THEN Refused
  ELSE Frame(HeaderByte(CONNACK, FALSE, 0, FALSE), 2, <<Bit(p.present), p.rc>>)

MQTTDeserialize_connack(b) ==
  IF Type(b) # CONNACK THEN Bad
  ELSE IF BodyEnd(b) - BodyAt(b) < 2 THEN Short(b)
  ELSE [kind |-> "connack", present |-> IsSet(b[BodyAt(b)], 0), rc |-> b[BodyAt(b) + 1]]

-----------------------------------------------------------------------------
(* Packets without a body: PINGREQ, DISCONNECT.                            *)
MQTTSerialize_zero(p, buflen) ==
  IF buflen < 2 THEN Refused ELSE Frame(HeaderByte(p.type, FALSE, 0, FALSE), 0, <<>>)

(* PUBLISH.                                                                *)
MQTTSerialize_publishLength(p) ==
  2 + Len(p.topic) + Len(p.payload) + (IF p.qos > 0 THEN 2 ELSE 0)

MQTTSerialize_publish(p, buflen) ==
  Framed(buflen, HeaderByte(PUBLISH, p.dup, p.qos, p.retained),
    MQTTSerialize_publishLength(p),
    WriteString(p.topic) \o (IF p.qos > 0 THEN WriteInt(p.id) ELSE <<>>) \o p.payload)

(* The caller's packet identifier keeps its value when QoS is 0.           *)
MQTTDeserialize_publish(b, idBefore) ==
  LET topic == ReadString(b, BodyAt(b), BodyEnd(b))
      payloadAt == topic.next + (IF QoS(b) > 0 THEN 2 ELSE 0)
  IN  IF Type(b) # PUBLISH THEN Bad
      ELSE IF ~topic.ok THEN Short(b)
      ELSE [kind |-> "publish", dup |-> Dup(b), qos |-> QoS(b),
            retained |-> IsSet(b[1], 0), topic |-> topic.s,
            id |-> IF QoS(b) > 0 THEN ReadInt(b, topic.next) ELSE idBefore,
            payload |-> SubSeq(b, payloadAt, BodyEnd(b) - 1)]

(* PUBACK, PUBREC, PUBREL, PUBCOMP.                                        *)
MQTTSerialize_ack(p, buflen) ==
  IF buflen < 4 THEN Refused
  ELSE Frame(HeaderByte(p.type, p.dup, IF p.type = PUBREL THEN 1 ELSE 0, FALSE), 2,
             WriteInt(p.id))

MQTTDeserialize_ack(b) ==
  IF BodyEnd(b) - BodyAt(b) < 2 THEN Short(b)
  ELSE [kind |-> "ack", type |-> Type(b), dup |-> Dup(b), id |-> ReadInt(b, BodyAt(b))]

-----------------------------------------------------------------------------
(* SUBSCRIBE and SUBACK; filters are records of filter and requested QoS.  *)
MQTTSerialize_subscribeLength(p) == 2 + StringsLength(p.filters, 1)

MQTTSerialize_subscribe(p, buflen) ==
  Framed(buflen, HeaderByte(SUBSCRIBE, p.dup, 1, FALSE), MQTTSerialize_subscribeLength(p),
    WriteInt(p.id)
      \o FlattenSeq([i \in DOMAIN p.filters |-> WriteString(p.filters[i]) \o <<p.qoss[i]>>]))

MQTTDeserialize_subscribe(b, maxcount) ==
  LET list == ReadStrings(b, BodyAt(b) + 2, BodyEnd(b), 1)
  IN  IF Type(b) # SUBSCRIBE \/ Len(list) > maxcount \/ Contains(list, Bad) THEN Bad
      ELSE [kind |-> "subscribe", dup |-> Dup(b), id |-> ReadInt(b, BodyAt(b)),
            filters |-> [i \in DOMAIN list |-> list[i].s],
            qoss |-> [i \in DOMAIN list |-> list[i].after[1]]]

MQTTSerialize_suback(p, buflen) ==
  IF buflen < 2 + Len(p.granted) THEN Refused
  ELSE Frame(HeaderByte(SUBACK, FALSE, 0, FALSE), 2 + Len(p.granted),
             WriteInt(p.id) \o p.granted)

(* One more than maxcount is let through, > in the code: it is written     *)
(* past the end of the caller's array, and counted as received.            *)
MQTTDeserialize_suback(b, maxcount) ==
  LET granted == SubSeq(b, BodyAt(b) + 2, BodyEnd(b) - 1)
  IN  IF Type(b) # SUBACK \/ Len(granted) > maxcount + 1 THEN Bad
      ELSE IF BodyEnd(b) - BodyAt(b) < 2 THEN Short(b)
      ELSE [kind |-> "suback", id |-> ReadInt(b, BodyAt(b)), granted |-> granted]

-----------------------------------------------------------------------------
(* UNSUBSCRIBE and UNSUBACK.                                               *)
MQTTSerialize_unsubscribeLength(p) == 2 + StringsLength(p.filters, 0)

MQTTSerialize_unsubscribe(p, buflen) ==
  Framed(buflen, HeaderByte(UNSUBSCRIBE, p.dup, 1, FALSE),
    MQTTSerialize_unsubscribeLength(p), WriteInt(p.id) \o WriteStrings(p.filters))

MQTTDeserialize_unsubscribe(b) ==
  LET list == ReadStrings(b, BodyAt(b) + 2, BodyEnd(b), 0)
  IN  IF Type(b) # UNSUBSCRIBE THEN Bad
      ELSE IF Contains(list, Bad) THEN Short(b)
      ELSE [kind |-> "unsubscribe", dup |-> Dup(b), id |-> ReadInt(b, BodyAt(b)),
            filters |-> [i \in DOMAIN list |-> list[i].s]]

MQTTSerialize_unsuback(p, buflen) ==
  IF buflen < 2 THEN Refused
  ELSE Frame(HeaderByte(UNSUBACK, FALSE, 0, FALSE), 2, WriteInt(p.id))

(* Any acknowledgement that can be read is accepted, and an UNSUBACK that  *)
(* cannot.                                                                 *)
MQTTDeserialize_unsuback(b) ==
  LET ack == MQTTDeserialize_ack(b)
  IN  IF ack.kind = "ack" THEN [kind |-> "unsuback", id |-> ack.id]
      ELSE IF Type(b) = UNSUBACK THEN Unfilled ELSE ack

-----------------------------------------------------------------------------
(* The serializer and the deserializer of each kind; maxcount is the size  *)
(* of the caller's arrays, idBefore what its identifier holds.             *)
Serialize(p, buflen) ==
  CASE p.kind = "connect" -> MQTTSerialize_connect(p, buflen)
    [] p.kind = "connack" -> MQTTSerialize_connack(p, buflen)
    [] p.kind = "zero" -> MQTTSerialize_zero(p, buflen)
    [] p.kind = "publish" -> MQTTSerialize_publish(p, buflen)
    [] p.kind = "ack" -> MQTTSerialize_ack(p, buflen)
    [] p.kind = "subscribe" -> MQTTSerialize_subscribe(p, buflen)
    [] p.kind = "suback" -> MQTTSerialize_suback(p, buflen)
    [] p.kind = "unsubscribe" -> MQTTSerialize_unsubscribe(p, buflen)
    [] p.kind = "unsuback" -> MQTTSerialize_unsuback(p, buflen)

Deserialize(b, maxcount, idBefore) ==
  CASE Type(b) = CONNECT -> MQTTDeserialize_connect(b)
    [] Type(b) = CONNACK -> MQTTDeserialize_connack(b)
    [] Type(b) = PUBLISH -> MQTTDeserialize_publish(b, idBefore)
    [] Type(b) = SUBSCRIBE -> MQTTDeserialize_subscribe(b, maxcount)
    [] Type(b) = SUBACK -> MQTTDeserialize_suback(b, maxcount)
    [] Type(b) = UNSUBSCRIBE -> MQTTDeserialize_unsubscribe(b)
    [] Type(b) = UNSUBACK -> MQTTDeserialize_unsuback(b)
    [] Type(b) \in {PINGREQ, PINGRESP, DISCONNECT} -> [kind |-> "zero", type |-> Type(b)]
    [] OTHER -> MQTTDeserialize_ack(b)
=============================================================================
