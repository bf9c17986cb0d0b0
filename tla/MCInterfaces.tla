----------------------------- MODULE MCInterfaces -----------------------------
(* What passes between the controller and the world outside: MQTT packets    *)
(* over a stream, topics against the filters of the handlers, Modbus frames, *)
(* the picture on the display, the set-up by the operator.  They share       *)
(* nothing that is modelled here; a behaviour is about one of them.          *)
EXTENDS PacketLink, MqttHandlers, ModbusFrame, FrameBuf, SetupMenu

VARIABLE subject
vars == <<subject, link, table, exchange, canvas, setup>>

Init ==
  /\ subject \in {"packets", "handlers", "registers", "drawing", "setup"}
  /\ LinkInit /\ TableInit /\ FrameInit /\ CanvasInit /\ SetupInit
  /\ subject # "packets" => stream = <<>>
  /\ subject # "registers" => count = 1
  /\ subject # "drawing" => window = {}
  /\ subject # "setup" => verified = {}

Next ==
  \/ subject = "packets" /\ LinkNext /\ UNCHANGED <<subject, table, exchange, canvas, setup>>
  \/ subject = "handlers" /\ TableNext /\ UNCHANGED <<subject, link, exchange, canvas, setup>>
  \/ subject = "registers" /\ FrameNext /\ UNCHANGED <<subject, link, table, canvas, setup>>
  \/ subject = "drawing" /\ CanvasNext /\ UNCHANGED <<subject, link, table, exchange, setup>>
  \/ subject = "setup" /\ SetupNext /\ UNCHANGED <<subject, link, table, exchange, canvas>>

Spec == Init /\ [][Next]_vars

-----------------------------------------------------------------------------
(* Packets: every kind with and without its optional parts; payloads for   *)
(* lengths of one byte and of two, up to the end of the buffer and past it.*)
Text(n) == [i \in 1..n |-> 96 + (i % 3)]
Texts == {Text(0), Text(1), Text(3)}
Will == Given([topic |-> Text(2), message |-> Text(1), qos |-> 1, retained |-> TRUE])
Publish(dup, qos, retained, topic, id, payload) ==
  [kind |-> "publish", dup |-> dup, qos |-> qos, retained |-> retained,
   topic |-> topic, id |-> IF qos = 0 THEN 0 ELSE id, payload |-> payload]
Unsubscribe(filters) == [kind |-> "unsubscribe", dup |-> FALSE, id |-> 7, filters |-> filters]
Subscribe(filters, qoss) ==
  [kind |-> "subscribe", dup |-> FALSE, id |-> 7, filters |-> filters, qoss |-> qoss]
Ping == [kind |-> "zero", type |-> PINGREQ]

MCPackets ==
  {ConnectOptions(v, c, 60, Text(2), w, Given(Text(1)), p) :
     v \in {3, 4}, c \in BOOLEAN, w \in {Absent, Will}, p \in {Absent, Given(Text(4))}}
  \cup {ConnectOptions(4, TRUE, 300, id, w, Absent, Absent) : id \in Texts, w \in {Absent, Will}}
  \cup [kind : {"connack"}, present : BOOLEAN, rc : {0, 5}]
  \cup [kind : {"zero"}, type : {PINGREQ, DISCONNECT}]
  \cup {Publish(FALSE, q, r, t, 258, y) :
          q \in 0..2, r \in BOOLEAN, t \in {Text(0), Text(3)}, y \in {Text(0), Text(2)}}
  \cup {Publish(TRUE, 1, FALSE, Text(4), 65535, Text(n)) : n \in 117..124}
  \cup [kind : {"ack"}, type : {PUBACK, PUBREC, PUBREL, PUBCOMP}, dup : BOOLEAN, id : {1, 256}]
  \cup {Subscribe(<<f>>, <<q>>) : f \in Texts, q \in 0..2}
  \cup {Subscribe(<<Text(2), f>>, <<2, q>>) : f \in Texts, q \in 0..2}
  \cup [kind : {"suback"}, id : {7}, granted : {<<0>>, <<128>>, <<1, 2>>}]
  \cup {Unsubscribe(<<Text(1)>>), Unsubscribe(<<Text(2), Text(1)>>)}
  \cup [kind : {"unsuback"}, id : {513}]

MCStreams ==
  {<<>>} \cup {<<p>> : p \in MCPackets}
    \cup {<<p, q>> : p \in MCPackets, q \in {Ping, Unsubscribe(<<Text(1)>>)}}

-----------------------------------------------------------------------------
(* Topics of one to three levels, filters with each wildcard at each place.*)
Names == {<<"a">>, <<"b">>, <<"a", "b">>}
MCTopics ==
  Names \cup {m \o <<"/">> \o n : m, n \in Names}
    \cup {<<"a", "/">> \o m \o <<"/">> \o n : m, n \in Names}
MCFilters ==
  {<<"a">>, <<"+">>, <<"#">>, <<"a", "b">>, <<"a", "/", "b">>, <<"a", "/", "+">>,
   <<"+", "/", "b">>, <<"+", "/", "+">>, <<"a", "/", "#">>, <<"+", "/", "#">>,
   <<"a", "/", "+", "/", "b">>}

-----------------------------------------------------------------------------
(* The first value read back begins with six characters that are a frame.  *)
MCData == {{0, 1, 4, 5, 8, 14, 16, 27, 29}, 0..31}
MCBursts == {{0}, {0, 3, 15}}
MCUnset == {[i \in 1..9 |-> {7}]}

-----------------------------------------------------------------------------
(* Letters with a lit pixel in every corner that matters and no symmetry.  *)
MCFont == [c \in 32..127 |-> [j \in 1..8 |->
  IF c = 65 THEN IF j = 1 THEN 0..6 ELSE IF j = 7 THEN {2} ELSE {0}
  ELSE IF c = 127 THEN {7} ELSE IF c = 32 THEN {} ELSE {(j + c) % 8}]]
MCSprite == [w |-> 5, h |-> 7, lit |-> {<<0, 0>>, <<1, 0>>, <<4, 6>>, <<2, 3>>, <<3, 3>>, <<0, 6>>}]
Plain == [c \in {0, 1} |-> c]
Negative == [c \in {0, 1} |-> 1 - c]
None == 65535
MCDrawings ==
  {[kind |-> "fill", color |-> 1]}
  \cup [kind : {"rect"}, x : {1}, y : {2, 7}, w : {8}, h : {1, 6}, color : {0, 1}, fill : BOOLEAN]
  \cup [kind : {"hline"}, x : {0}, y : {8}, w : {12}, color : {1}]
  \cup [kind : {"vline"}, x : {11}, y : {3}, h : {13}, color : {0, 1}]
  \cup {[kind |-> "line", x1 |-> p[1], y1 |-> p[2], x2 |-> q[1], y2 |-> q[2], color |-> 1] :
          p \in {<<0, 0>>, <<3, 14>>}, q \in {<<3, 14>>, <<11, 5>>, <<14, 15>>, <<0, 9>>}}
  \cup [kind : {"text"}, str : {<<65, 66>>, <<10, 32, 65>>}, x : {3, -5, -8}, y : {0, 5, 11}, color : {1}]
  \cup [kind : {"text"}, str : {<<65>>}, x : {2}, y : {3}, color : {0}]
  \cup [kind : {"blit"}, sprite : {MCSprite}, x : {-3, 4, 9}, y : {-2, 5, 12}, key : {None}, palette : {Plain}]
  \cup [kind : {"blit"}, sprite : {MCSprite}, x : {4, -5}, y : {6}, key : {0, 1}, palette : {Plain, Negative}]
  \cup [kind : {"scroll"}, xstep : {-3, 0, 2, 12}, ystep : {-9, 0, 1}]

-----------------------------------------------------------------------------
(* Tables of characters of which one is shorter; one turn of the knob takes  *)
(* the cursor below 0, or past the end of the digits.                        *)
MCLength == [t \in 0..3 |-> IF t = 3 THEN 1 ELSE 2]
MCTurns == {-1, 2}
MCShortPorts == -1..2
MCOldSettings == {[ssid |-> <<>>, pw |-> <<>>, hostname |-> << <<1, 1>> >>, port |-> 2]}
===============================================================================
