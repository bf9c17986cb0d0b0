----------------------------- MODULE MqttHandlers -----------------------------
(***************************************************************************)
(* The table of message handlers of MQTTClient.h: setMessageHandler() as   *)
(* subscribe() and unsubscribe() call it, deliverMessage() and the         *)
(* comparison of a topic with a filter.  Filters and topics are sequences  *)
(* of characters; "/" separates levels, "+" and "#" stand for levels.      *)
(***************************************************************************)
EXTENDS Integers, Sequences, SequencesExt, FiniteSets

CONSTANTS
  Filters,              \* filters subscribed to
  Topics,               \* topics of messages that arrive
  Callbacks,            \* message handlers
  NoCallback,           \* a slot with none attached
  MAX_MESSAGE_HANDLERS  \* size of the table

Wildcards == {"+", "#"}

(* "assume topic filter and name is in correct format; # can only be at    *)
(* end; + and # can only be next to separator"                             *)
IsFilter(filter) ==
  /\ filter \in Seq(STRING) /\ filter # <<>>
  /\ \A i \in 1..Len(filter) : filter[i] \in Wildcards =>
       /\ i > 1 => filter[i - 1] = "/"
       /\ i < Len(filter) => filter[i] = "+" /\ filter[i + 1] = "/"

(* A topic has no wildcard, and here no empty level.                       *)
IsTopic(name) ==
  /\ name \in Seq(STRING) /\ name # <<>>
  /\ \A i \in 1..Len(name) : /\ name[i] \notin Wildcards
                             /\ name[i] = "/" => i \in 2..(Len(name) - 1) /\ name[i - 1] # "/"

ASSUME HandlersAssumption ==
  /\ MAX_MESSAGE_HANDLERS \in Nat \ {0}
  /\ \A filter \in Filters : IsFilter(filter)
  /\ \A topic \in Topics : IsTopic(topic)
  /\ NoCallback \notin Callbacks

VARIABLES
  slots,   \* messageHandlers
  called   \* history: the handlers the last message was given to, and it

table == <<slots, called>>

Free == [filter |-> <<>>, fp |-> NoCallback]   \* topicFilter = 0
Slots == 1..MAX_MESSAGE_HANDLERS
Used == {i \in Slots : slots[i].filter # <<>>}
Nothing == [topic |-> <<>>, fps |-> {}]

TableInit == slots = [i \in Slots |-> Free] /\ called = Nothing

-----------------------------------------------------------------------------
(* Slips for the properties to notice; no specification uses them.         *)
LevelEndAtOnce(name, n) == n

(* The last position of the level that holds position n.                   *)
LevelEnd(name, n) ==
  CHOOSE e \in n..Len(name) :
    /\ \A i \in (n + 1)..e : name[i] # "/"
    /\ e < Len(name) => name[e + 1] = "/"

(* Where the name is after one more character c of the filter; 0 when the  *)
(* loop ends before it.                                                    *)
Matched(name, n, c) ==
  IF \/ n \notin 1..Len(name)
     \/ name[n] = "/" /\ c # "/"
     \/ c \notin Wildcards \cup {name[n]}
  THEN 0
  ELSE CASE c = "+" -> LevelEnd(name, n) + 1
         [] c = "#" -> Len(name) + 1
         [] c \notin Wildcards -> n + 1

isTopicMatched(filter, name) ==
  LET at[f \in 0..Len(filter)] == IF f = 0 THEN 1 ELSE Matched(name, at[f - 1], filter[f])
  IN  at[Len(filter)] = Len(name) + 1

SetMessageHandlerFirstFree(filter, fp) ==
  LET free == Slots \ Used IN
  /\ free # {}
  /\ slots' = [slots EXCEPT ![CHOOSE i \in free : \A j \in free : i <= j] =
                 [filter |-> filter, fp |-> fp]]
  /\ UNCHANGED called

-----------------------------------------------------------------------------
SlotsOf(filter) == {i \in Slots : slots[i].filter = filter}
First(set) == CHOOSE i \in set : \A j \in set : i <= j

(* subscribe() was granted: the slot of the filter, or else the first free *)
(* one.                                                                    *)
SetMessageHandler(filter, fp) ==
  LET room == IF SlotsOf(filter) # {} THEN SlotsOf(filter) ELSE Slots \ Used IN
  /\ room # {}
  /\ slots' = [slots EXCEPT ![First(room)] = [filter |-> filter, fp |-> fp]]
  /\ UNCHANGED called

(* The table is full: subscribe() fails and closes the session, which      *)
(* forgets every filter; the callbacks stay attached to their slots.       *)
SubscribeTooMany(filter) ==
  /\ SlotsOf(filter) = {} /\ Used = Slots
  /\ slots' = [i \in Slots |-> [slots[i] EXCEPT !.filter = <<>>]]
  /\ UNCHANGED called

(* unsubscribe() was acknowledged.                                         *)
RemoveMessageHandler(filter) ==
  /\ SlotsOf(filter) # {}
  /\ slots' = [slots EXCEPT ![First(SlotsOf(filter))] = Free]
  /\ UNCHANGED called

DeliverMessage(topic) ==
  /\ called' = [topic |-> topic,
                fps |-> {slots[i].fp : i \in
                  {j \in Used : /\ slots[j].fp # NoCallback
                                /\ \/ slots[j].filter = topic
                                   \/ isTopicMatched(slots[j].filter, topic)}}]
  /\ UNCHANGED slots

TableNext ==
  \/ \E filter \in Filters :
       \/ \E fp \in Callbacks : SetMessageHandler(filter, fp)
       \/ SubscribeTooMany(filter) \/ RemoveMessageHandler(filter)
  \/ \E topic \in Topics : DeliverMessage(topic)

TableSpec == TableInit /\ [][TableNext]_table

-----------------------------------------------------------------------------
(* Reference: a topic split into levels, matched level by level.           *)
Levels(s) ==
  LET split[i \in 0..Len(s)] ==
        IF i = 0 THEN << <<>> >>
        ELSE LET last == split[i - 1] IN
             IF s[i] = "/" THEN Append(last, <<>>)
             ELSE [last EXCEPT ![Len(last)] = Append(@, s[i])]
  IN  split[Len(s)]

LevelsMatch(fs, ts) ==
  /\ \A k \in DOMAIN fs : fs[k] # <<"#">> =>
       k \in DOMAIN ts /\ fs[k] \in {<<"+">>, ts[k]}
  /\ IF Last(fs) = <<"#">> THEN Len(ts) >= Len(fs) ELSE Len(ts) = Len(fs)

(* A message reaches exactly the handlers last set for the filters that    *)
(* match its topic by levels, and no other; the topics have no empty level *)
(* and "#" stands for at least one.                                        *)
RightHandlers ==
  [][\A t \in Topics : called'.topic = t /\ called' # called =>
       called'.fps = {slots[i].fp : i \in
                        {j \in Used : LevelsMatch(Levels(slots[j].filter), Levels(t))}}]_table

(* No filter has two slots, so a message is not handed twice to a handler  *)
(* that was replaced, and unsubscribing leaves none behind.                *)
OneSlotPerFilter ==
  \A i, j \in Used : slots[i].filter = slots[j].filter => i = j
=============================================================================
