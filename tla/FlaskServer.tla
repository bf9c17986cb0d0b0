----------------------------- MODULE FlaskServer -----------------------------
(***************************************************************************)
(* The server of FlaskSrv/: app.py with ServerImports/dbImports.py,        *)
(* mqttImports.py and ventrilator.py.  Three kinds of thread share its     *)
(* state: the MQTT client's, which runs handle_message(), the start-up     *)
(* thread, and one thread per HTTP request.  HTTP calls are slots: a       *)
(* browser fills one, the server answers it, the browser empties it.       *)
(*                                                                         *)
(* A status is a number, in the order of publication, with the number of   *)
(* the settings message it reflects; its other fields travel along, except *)
(* the error flag, which the server answers as a constant.  The MQTT       *)
(* library and the database are external and modelled from how the code    *)
(* uses them: QoS 1 towards the broker (mqttImports.py:8), unacknowledged  *)
(* settings sent again after a reconnection, statuses (published with QoS  *)
(* 0) lost while disconnected.                                             *)
(***************************************************************************)
EXTENDS Integers, Sequences, SequencesExt

CONSTANTS
  Slots,   \* HTTP calls that can be under way at a time
  Worlds   \* bounds: how many statuses the controller publishes, how often
           \* the broker connection is lost, how many database operations
           \* raise or fetches fail, how often settings are applied

ASSUME ServerAssumption ==
  Worlds \subseteq [statuses : Nat, drops : Nat, failures : Nat, applies : Nat]

VARIABLES
  connected,   \* the MQTT client is connected and subscribed
  arriving,    \* statuses on their way to handle_message()
  handler,     \* handle_message(): where it is, and its message
  startup,     \* the start-up thread: where it is, and the reading it took
  vent,        \* ventrilatorStatus: the status each attribute comes from
  db,          \* the rows of the readings table
  outgoing,    \* settings published and not acknowledged by the broker
  transmitted, \* how many of them this connection has sent
  calls,       \* the HTTP calls
  inbox,       \* settings on their way to the controller
  ctrl,        \* the settings the controller has taken up last
  statuses, drops, failures, \* events so far
  published,   \* history: the settings ever handed to the MQTT client
  world        \* the member of Worlds, which stays

mqttVars == <<connected, arriving, outgoing, transmitted, published>>
threadVars == <<handler, startup, vent>>
ctrlVars == <<inbox, ctrl, statuses, world>>
serverVars == <<mqttVars, threadVars, db, calls, ctrlVars, drops, failures>>

FreeSlot == [op |-> "free", at |-> "none", nr |-> 0, body |-> <<>>]
ServerError == <<>>  \* the body of an answer with code 500
NoStatus == [nr |-> -1, cmd |-> 0]
OldReading == [nr |-> 0, cmd |-> 0]

(* The table may hold readings of an earlier run.                          *)
ServerInit ==
  /\ connected = FALSE /\ arriving = <<>>
  /\ handler = [at |-> "idle", msg |-> NoStatus]
  /\ startup = [at |-> "query", row |-> NoStatus]
  /\ vent = [auto |-> -1, valueTarget |-> -1]
  /\ db \in {<<>>, <<OldReading>>}
  /\ outgoing = <<>> /\ transmitted = 0
  /\ calls = [i \in Slots |-> FreeSlot]
  /\ inbox = <<>> /\ ctrl = 0
  /\ statuses = 0 /\ drops = 0 /\ failures = 0
  /\ published = {}
  /\ world \in Worlds

Fail == failures < world.failures /\ failures' = failures + 1

-----------------------------------------------------------------------------
(* handle_message(): setMode() assigns two attributes, then the reading is *)
(* stored; a failed commit is logged and the reading dropped.              *)
HandleMessage ==
  /\ handler.at = "idle" /\ arriving # <<>>
  /\ handler' = [at |-> "setAuto", msg |-> Head(arriving)]
  /\ arriving' = Tail(arriving)
  /\ UNCHANGED <<connected, startup, vent, db, outgoing, transmitted, calls,
                 ctrlVars, drops, failures, published>>

HandlerSetsMode ==
  /\ \/ /\ handler.at = "setAuto" /\ handler' = [handler EXCEPT !.at = "setTarget"]
        /\ vent' = [vent EXCEPT !.auto = handler.msg.nr]
     \/ /\ handler.at = "setTarget" /\ handler' = [handler EXCEPT !.at = "push"]
        /\ vent' = [vent EXCEPT !.valueTarget = handler.msg.nr]
  /\ UNCHANGED <<mqttVars, startup, db, calls, ctrlVars, drops, failures>>

PushReading ==
  /\ handler.at = "push" /\ handler' = [handler EXCEPT !.at = "idle"]
  /\ db' = Append(db, handler.msg)
  /\ UNCHANGED <<mqttVars, startup, vent, calls, ctrlVars, drops, failures>>

PushReadingFails ==
  /\ handler.at = "push" /\ handler' = [handler EXCEPT !.at = "idle"]
  /\ Fail
  /\ UNCHANGED <<mqttVars, startup, vent, db, calls, ctrlVars, drops>>

(* get_startup_values(): an empty table makes it raise, which is logged.   *)
StartupQuery ==
  /\ startup.at = "query"
  /\ startup' = IF db = <<>> THEN [startup EXCEPT !.at = "done"]
                             ELSE [at |-> "setAuto", row |-> Last(db)]
  /\ UNCHANGED <<mqttVars, handler, vent, db, calls, ctrlVars, drops, failures>>

StartupQueryFails ==
  /\ startup.at = "query" /\ startup' = [startup EXCEPT !.at = "done"]
  /\ Fail
  /\ UNCHANGED <<mqttVars, handler, vent, db, calls, ctrlVars, drops>>

StartupSetsMode ==
  /\ \/ /\ startup.at = "setAuto" /\ startup' = [startup EXCEPT !.at = "setTarget"]
        /\ vent' = [vent EXCEPT !.auto = startup.row.nr]
     \/ /\ startup.at = "setTarget" /\ startup' = [startup EXCEPT !.at = "done"]
        /\ vent' = [vent EXCEPT !.valueTarget = startup.row.nr]
  /\ UNCHANGED <<mqttVars, handler, db, calls, ctrlVars, drops, failures>>

-----------------------------------------------------------------------------
(* Mutated forms of the definitions below, slips the properties must       *)
(* notice; no specification uses them.                                     *)
FirstReading == IF db = <<>> THEN ServerError ELSE <<Head(db)>>

SetModeInBackground(i) ==
  /\ calls[i].op = "apply" /\ calls[i].at = "server"
  /\ connected
  /\ \/ /\ calls' = [calls EXCEPT ![i].at = "answered"]
        /\ outgoing' = Append(outgoing, calls[i].nr)
        /\ published' = published \cup {calls[i].nr}
     \/ /\ \E j \in Slots :
             /\ calls[j] = FreeSlot
             /\ calls' = [calls EXCEPT ![i].at = "answered", ![j] = calls[i]]
        /\ UNCHANGED <<outgoing, published>>
  /\ UNCHANGED <<connected, arriving, transmitted, threadVars, db, ctrlVars,
                 drops, failures>>

-----------------------------------------------------------------------------
(* The HTTP threads.                                                       *)
Answer(i, body) == calls' = [calls EXCEPT ![i].at = "answered", ![i].body = body]

LatestReading == IF db = <<>> THEN ServerError ELSE <<Last(db)>>

GetStatus(i) ==
  /\ calls[i].op = "status" /\ calls[i].at = "server"
  /\ Answer(i, LatestReading)
  /\ UNCHANGED <<mqttVars, threadVars, db, ctrlVars, drops, failures>>

AllReadings == Reverse(db)

GetAllReadings(i) ==
  /\ calls[i].op = "history" /\ calls[i].at = "server"
  /\ Answer(i, AllReadings)
  /\ UNCHANGED <<mqttVars, threadVars, db, ctrlVars, drops, failures>>

QueryFails(i) ==
  /\ calls[i].op \in {"status", "history"} /\ calls[i].at = "server"
  /\ Answer(i, ServerError)
  /\ Fail
  /\ UNCHANGED <<mqttVars, threadVars, db, ctrlVars, drops>>

(* set_mode(): the answer is OK whatever publishJSONtoMQTT() returns.      *)
SetMode(i) ==
  /\ calls[i].op = "apply" /\ calls[i].at = "server"
  /\ connected
  /\ calls' = [calls EXCEPT ![i].at = "answered"]
  /\ outgoing' = Append(outgoing, calls[i].nr)
  /\ published' = published \cup {calls[i].nr}
  /\ UNCHANGED <<connected, arriving, transmitted, threadVars, db, ctrlVars,
                 drops, failures>>

SetModeUnpublished(i) ==
  /\ calls[i].op = "apply" /\ calls[i].at = "server"
  /\ ~connected
  /\ calls' = [calls EXCEPT ![i].at = "answered"]
  /\ UNCHANGED <<mqttVars, threadVars, db, ctrlVars, drops, failures>>

-----------------------------------------------------------------------------
(* The MQTT client and the broker.                                         *)
Transmit ==
  /\ connected /\ transmitted < Len(outgoing)
  /\ inbox' = Append(inbox, outgoing[transmitted + 1])
  /\ transmitted' = transmitted + 1
  /\ UNCHANGED <<connected, arriving, outgoing, published, threadVars, db, calls,
                 ctrl, statuses, drops, failures, world>>

Acknowledge ==
  /\ connected /\ transmitted > 0
  /\ outgoing' = Tail(outgoing) /\ transmitted' = transmitted - 1
  /\ UNCHANGED <<connected, arriving, published, threadVars, db, calls, ctrlVars,
                 drops, failures>>

Drop ==
  /\ connected /\ connected' = FALSE
  /\ drops < world.drops /\ drops' = drops + 1
  /\ arriving' = <<>> /\ transmitted' = 0
  /\ UNCHANGED <<outgoing, published, threadVars, db, calls, ctrlVars, failures>>

(* handle_connect(): every connection subscribes to the topics again.      *)
HandleConnect ==
  /\ ~connected /\ connected' = TRUE
  /\ UNCHANGED <<arriving, outgoing, transmitted, published, threadVars, db,
                 calls, ctrlVars, drops, failures>>

(* The controller: module VentControl in two steps.                        *)
ControllerTakes ==
  /\ inbox # <<>>
  /\ ctrl' = Head(inbox) /\ inbox' = Tail(inbox)
  /\ UNCHANGED <<mqttVars, threadVars, db, calls, statuses, drops, failures, world>>

ControllerReports ==
  /\ statuses < world.statuses /\ statuses' = statuses + 1
  /\ arriving' = IF connected
                 THEN Append(arriving, [nr |-> statuses', cmd |-> ctrl])
                 ELSE arriving
  /\ UNCHANGED <<connected, outgoing, transmitted, published, threadVars, db,
                 calls, inbox, ctrl, drops, failures, world>>

-----------------------------------------------------------------------------
Handler == HandleMessage \/ HandlerSetsMode \/ PushReading \/ PushReadingFails
Startup == StartupQuery \/ StartupQueryFails \/ StartupSetsMode
Http(i) == GetStatus(i) \/ GetAllReadings(i) \/ QueryFails(i) \/ SetMode(i)
             \/ SetModeUnpublished(i)
Link == Transmit \/ Acknowledge \/ HandleConnect \/ ControllerTakes

ServerNext ==
  \/ Handler \/ Startup \/ Link \/ Drop \/ ControllerReports
  \/ \E i \in Slots : Http(i)
=============================================================================
