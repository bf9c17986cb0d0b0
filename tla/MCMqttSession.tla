---------------------------- MODULE MCMqttSession ----------------------------
(* The worlds of the runs: settings at the QoS the client is built for, with *)
(* deadlines overrun; settings at the QoS subscribed to, with packets cut    *)
(* after their head; and, for liveness, settings at QoS 1 with deadlines     *)
(* kept and with deadlines overrun.                                          *)
EXTENDS MqttSession

World(q, w, o) == [qoses |-> q, wholeHeaders |-> w, mayOverrun |-> o]
MCWorlds == {World({0, 1}, TRUE, TRUE), World({1, 2}, FALSE, FALSE)}
MCTimedWorlds == {World({1}, TRUE, FALSE), World({1}, TRUE, TRUE)}
MCCutWorlds == {World({1}, FALSE, FALSE)}
=============================================================================
