---------------------------- MODULE InterfacesProofs ----------------------------
(***************************************************************************)
(* Proofs about the interfaces MCInterfaces checks side by side:           *)
(* MqttHandlers, for tables of any size and any filters, topics and        *)
(* callbacks; SetupMenu, for tables of characters and a cursor's start of  *)
(* any size, every limit of the text and the port, every set of buttons    *)
(* and turns and every bound on the environment; ModbusFrame, for every    *)
(* register, value, burst, cut and lost character; PacketLink, with the    *)
(* codecs of MqttPacket, for all packets, streams of them, pieces and      *)
(* broken connections; and FrameBuf, that it implements Canvas, for        *)
(* displays of any size, any font and any drawings.                        *)
(***************************************************************************)
EXTENDS MqttHandlers, ModbusFrame, PacketLink, SetupMenu, FrameBuf,
        SequenceTheorems, WellFoundedInduction, TLAPS

(* The table stays an array of slots with their two fields.                *)
TableInv ==
  /\ DOMAIN slots = Slots
  /\ \A i \in Slots : DOMAIN slots[i] = {"filter", "fp"}
  /\ OneSlotPerFilter

LEMMA LessIsWellFounded ==
  IsWellFoundedOn({p \in Nat \X Nat : p[1] < p[2]}, Nat)
<1>1. OpToRel(<, Nat) = {p \in Nat \X Nat : p[1] < p[2]}
  BY DEF OpToRel
<1> QED BY <1>1, NatLessThanWellFounded

(* The least slot of a set is one of the set.                              *)
LEMMA FirstIsIn ==
  ASSUME NEW set \in SUBSET Slots, set # {}
  PROVE  First(set) \in set /\ \A j \in set : First(set) <= j
<1>1. set \subseteq Nat
  BY HandlersAssumption DEF Slots
<1>2. PICK i \in set : \A j \in set : ~(<<j, i>> \in {p \in Nat \X Nat : p[1] < p[2]})
  BY <1>1, LessIsWellFounded, WFMin
<1>3. \A j \in set : <<j, i>> \in Nat \X Nat /\ <<j, i>>[1] = j /\ <<j, i>>[2] = i
  BY <1>1
<1>4. \A j \in set : ~(j < i)
  BY <1>2, <1>3
<1>5. \A j \in set : i <= j
  BY <1>1, <1>4
<1> QED BY <1>5 DEF First

-----------------------------------------------------------------------------
LEMMA HandlerSet ==
  ASSUME TableInv, NEW filter, NEW fp, SetMessageHandler(filter, fp)
  PROVE  TableInv'
<1> DEFINE room == IF SlotsOf(filter) # {} THEN SlotsOf(filter) ELSE Slots \ Used
<1>1. room \subseteq Slots /\ room # {}
  BY DEF SetMessageHandler, SlotsOf
<1>2. First(room) \in room
  BY <1>1, FirstIsIn
<1> DEFINE k == First(room)
<1>3. slots' = [slots EXCEPT ![k] = [filter |-> filter, fp |-> fp]]
  BY DEF SetMessageHandler
<1>4. k \in Slots /\ (k \in SlotsOf(filter) \/ SlotsOf(filter) = {})
  BY <1>1, <1>2
<1> HIDE DEF k, room
<1>5. DOMAIN slots' = Slots /\ \A i \in Slots : DOMAIN slots'[i] = {"filter", "fp"}
  BY <1>3, <1>4 DEF TableInv
<1>6. slots'[k].filter = filter /\ \A i \in Slots \ {k} : slots'[i] = slots[i]
  BY <1>3, <1>4 DEF TableInv
<1>7. ASSUME NEW i \in Used', NEW j \in Used', slots'[i].filter = slots'[j].filter
      PROVE  i = j
  <2>1. i \in Slots /\ j \in Slots /\ slots'[i].filter # <<>> /\ slots'[j].filter # <<>>
    BY DEF Used, Slots
  <2>2. CASE i # k /\ j # k
    BY <1>6, <1>7, <2>1, <2>2 DEF TableInv, OneSlotPerFilter, Used
  <2>3. ASSUME NEW n \in Slots, n # k, slots[n].filter = filter, filter # <<>>
        PROVE  FALSE
    <3>1. n \in SlotsOf(filter) /\ n \in Used
      BY <2>3 DEF SlotsOf, Used
    <3>2. k \in SlotsOf(filter)
      BY <1>4, <3>1
    <3>3. k \in Used /\ slots[k].filter = slots[n].filter
      BY <2>3, <3>2 DEF SlotsOf, Used
    <3> QED BY <2>3, <3>1, <3>3 DEF TableInv, OneSlotPerFilter
  <2>4. CASE i = k /\ j # k
    BY <1>6, <1>7, <2>1, <2>3, <2>4
  <2>5. CASE i # k /\ j = k
    BY <1>6, <1>7, <2>1, <2>3, <2>5
  <2> QED BY <2>2, <2>4, <2>5
<1> QED BY <1>5, <1>7 DEF TableInv, OneSlotPerFilter

LEMMA HandlerRemoved ==
  ASSUME TableInv, NEW filter, RemoveMessageHandler(filter)
  PROVE  TableInv'
<1>1. PICK k \in Slots : slots' = [slots EXCEPT ![k] = Free]
  <2>1. First(SlotsOf(filter)) \in SlotsOf(filter)
    BY FirstIsIn DEF RemoveMessageHandler, SlotsOf
  <2> QED BY <2>1 DEF RemoveMessageHandler, SlotsOf
<1>2. /\ DOMAIN slots' = Slots /\ slots'[k].filter = <<>>
      /\ DOMAIN slots'[k] = {"filter", "fp"}
      /\ \A i \in Slots \ {k} : slots'[i] = slots[i]
  BY <1>1 DEF TableInv, Free
<1> QED BY <1>2 DEF TableInv, OneSlotPerFilter, Used, Slots

(* The handlers are in slots of the table, each with the filter it was set *)
(* for, and no filter is in two.                                           *)
THEOREM TableInvariant == TableSpec => []TableInv
<1>1. TableInit => TableInv
  BY DEF TableInit, TableInv, OneSlotPerFilter, Used, Free, Slots
<1>2. TableInv /\ [TableNext]_table => TableInv'
  <2> SUFFICES ASSUME TableInv, [TableNext]_table PROVE TableInv'
    OBVIOUS
  <2>1. CASE \E filter \in Filters : \E fp \in Callbacks : SetMessageHandler(filter, fp)
    BY <2>1, HandlerSet
  <2>2. CASE \E filter \in Filters : SubscribeTooMany(filter)
    <3>1. /\ DOMAIN slots' = Slots
          /\ \A i \in Slots : DOMAIN slots'[i] = {"filter", "fp"} /\ slots'[i].filter = <<>>
      <4>1. slots' = [i \in Slots |-> [slots[i] EXCEPT !.filter = <<>>]]
        BY <2>2 DEF SubscribeTooMany
      <4> QED BY <4>1 DEF TableInv
    <3> QED BY <3>1 DEF TableInv, OneSlotPerFilter, Used, Slots
  <2>3. CASE \E filter \in Filters : RemoveMessageHandler(filter)
    BY <2>3, HandlerRemoved
  <2>4. CASE \E topic \in Topics : DeliverMessage(topic)
    BY <2>4 DEF DeliverMessage, TableInv, OneSlotPerFilter, Used, Slots
  <2>5. CASE UNCHANGED table
    BY <2>5 DEF table, TableInv, OneSlotPerFilter, Used, Slots
  <2> QED BY <2>1, <2>2, <2>3, <2>4, <2>5 DEF TableNext
<1> QED BY <1>1, <1>2, PTL DEF TableSpec

(* No filter has two slots, so a message is not handed twice to a handler  *)
(* that was replaced, and unsubscribing leaves none behind.                *)
THEOREM OneSlotPerFilterAlways == TableSpec => []OneSlotPerFilter
<1>1. TableInv => OneSlotPerFilter
  BY DEF TableInv
<1> QED BY <1>1, TableInvariant, PTL

-----------------------------------------------------------------------------
(* The set-up menu.                                                        *)

(* A press is served once, acted upon in main or taken by textInput(),     *)
(* which clears the flag before it acts: until then it is still owed.      *)
ServedInv ==
  /\ served \in Nat /\ presses \in Nat
  /\ served <= presses
  /\ pressed \/ pc = "act" => served + 1 <= presses
  /\ pressed /\ pc = "act" => served + 2 <= presses

FieldNames == {"ssid", "pw", "hostname", "port"}

Places ==
  {"top", "prevval", "text", "act", "pin7", "flag7", "pin12", "flag12", "pin9",
   "flag9", "connect", "running", "halted"} \cup FieldNames

LEMMA RangeOfFields == Range(Fields) = FieldNames
  BY DEF Range, Fields, FieldNames

(* The pages of the settings are stored one after the other, in the order  *)
(* of the fields.                                                          *)
LEMMA NextPageIs ==
  /\ NextPage("ssid") = "pw" /\ NextPage("pw") = "hostname"
  /\ NextPage("hostname") = "port" /\ NextPage("port") = "running"
<1>1. DOMAIN Fields = 1..4 /\ Fields[1] = "ssid" /\ Fields[2] = "pw"
        /\ Fields[3] = "hostname" /\ Fields[4] = "port"
  BY DEF Fields
<1>2. (CHOOSE k \in DOMAIN Fields : Fields[k] = "ssid") = 1
  BY <1>1
<1>3. (CHOOSE k \in DOMAIN Fields : Fields[k] = "pw") = 2
  BY <1>1
<1>4. (CHOOSE k \in DOMAIN Fields : Fields[k] = "hostname") = 3
  BY <1>1
<1> QED BY <1>1, <1>2, <1>3, <1>4 DEF NextPage

-----------------------------------------------------------------------------
(* A press still flagged, and one textInput() is about to act upon, are    *)
(* owed: so many fewer have been served than were pressed.                 *)
THEOREM ServedInvariant == SetupSpec => []ServedInv
<1>1. SetupInit => ServedInv
  BY DEF SetupInit, MainInit, ServedInv
<1>2. ServedInv /\ [SetupNext]_setup => ServedInv'
  <2> SUFFICES ASSUME ServedInv, [SetupNext]_setup PROVE ServedInv'
    OBVIOUS
  <2> USE DEF ServedInv, history
  <2>1. CASE ShowStartMenu
    BY <2>1 DEF ShowStartMenu, mailbox
  <2>2. CASE MoveCursor
    BY <2>2 DEF MoveCursor, mailbox
  <2>3. CASE KeepCount
    BY <2>3 DEF KeepCount, mailbox
  <2>4. CASE PrepareText
    BY <2>4 DEF PrepareText
  <2>5. CASE Act
    BY <2>5 DEF Act, mailbox
  <2>6. CASE Looks
    BY <2>6 DEF Looks, Look, NotPressed, mailbox
  <2>7. CASE Leave
    BY <2>7 DEF Leave, Serve
  <2>8. CASE Confirm
    BY <2>8 DEF Confirm, Serve
  <2>9. CASE Select
    BY <2>9 DEF Select, Serve
  <2>10. CASE AttemptFails
    BY <2>10 DEF Attempt, AttemptFails, mailbox
  <2>11. CASE AttemptSucceeds
    BY <2>11 DEF Attempt, AttemptSucceeds, mailbox, Fields
  <2>12. CASE WritePage
    <3>1. pc \in FieldNames
      BY <2>12, RangeOfFields DEF WritePage
    <3>2. pc' # "act"
      BY <2>12, <3>1, NextPageIs DEF WritePage, FieldNames
    <3> QED BY <2>12, <3>2 DEF WritePage, mailbox
  <2>13. CASE \E p \in Pins : Press(p)
    BY <2>13 DEF Press
  <2>14. CASE \E n \in Turns : Turn(n)
    BY <2>14 DEF Turn
  <2>15. CASE \E torn \in BOOLEAN : Reset(torn)
    BY <2>15 DEF Reset
  <2>16. CASE UNCHANGED setup
    BY <2>16 DEF setup, mailbox
  <2> QED BY <2>1, <2>2, <2>3, <2>4, <2>5, <2>6, <2>7, <2>8, <2>9, <2>10, <2>11,
             <2>12, <2>13, <2>14, <2>15, <2>16 DEF SetupNext
<1> QED BY <1>1, <1>2, PTL DEF SetupSpec

(* A key acts no more often than keys were pressed, wherever the interrupt *)
(* comes between the looks at flag and pin.                                *)
THEOREM NoMoreThanPressedAlways == SetupSpec => []NoMoreThanPressed
<1>1. ServedInv => NoMoreThanPressed
  BY DEF ServedInv, NoMoreThanPressed
<1> QED BY <1>1, ServedInvariant, PTL

-----------------------------------------------------------------------------
(* Pages are written only with settings a connection was made with, in the *)
(* order of Fields; nothing but Confirm and a reset changes settings, and  *)
(* neither happens between two pages.                                      *)
PagesVerified ==
  \A f \in FieldNames : pages[f].sealed => \E v \in verified : pages[f] \in Pages(f, v[f])

WrittenField(f) == pages[f] \in Pages(f, settings[f])

StoredInv ==
  /\ DOMAIN pages = FieldNames
  /\ PagesVerified
  /\ pc \in FieldNames => settings \in verified
  /\ pc \in {"hostname", "port"} => WrittenField("pw")
  /\ pc = "port" => WrittenField("hostname")
  /\ pc = "running" /\ use_wifi =>
       settings \in verified /\ WrittenField("pw") /\ WrittenField("hostname") /\ WrittenField("port")

(* Steps that leave the pages and the settings alone and do not begin to   *)
(* store.                                                                  *)
LEMMA PagesLeftAlone ==
  ASSUME StoredInv, pages' = pages, settings' = settings, verified' = verified,
         use_wifi' = use_wifi,
         pc' = pc \/ pc' \notin FieldNames \cup {"running"}
  PROVE  StoredInv'
<1>1. \A f \in FieldNames : WrittenField(f)' <=> WrittenField(f)
  BY DEF WrittenField
<1>2. PagesVerified'
  BY DEF StoredInv, PagesVerified
<1>3. CASE pc' = pc
  BY <1>1, <1>2, <1>3 DEF StoredInv, FieldNames
<1>4. CASE pc' \notin FieldNames \cup {"running"}
  BY <1>2, <1>4 DEF StoredInv, FieldNames
<1> QED BY <1>3, <1>4

(* Steps after which nothing is claimed of the settings.                   *)
LEMMA SettingsChanged ==
  ASSUME StoredInv, pages' = pages, verified' = verified,
         pc' \notin FieldNames, pc' # "running" \/ ~use_wifi'
  PROVE  StoredInv'
  BY DEF StoredInv, PagesVerified, FieldNames

LEMMA PageStep == ASSUME StoredInv, WritePage PROVE StoredInv'
<1> USE DEF StoredInv, FieldNames
<1>1. PICK page \in Pages(pc, settings[pc]) : pages' = [pages EXCEPT ![pc] = page]
  BY DEF WritePage
<1>2. /\ settings' = settings /\ verified' = verified
      /\ pc \in FieldNames /\ pc' = NextPage(pc)
  BY RangeOfFields DEF WritePage, entry, history
<1>3. PagesVerified'
  <2> SUFFICES ASSUME NEW f \in FieldNames, pages'[f].sealed
               PROVE  \E v \in verified : pages'[f] \in Pages(f, v[f])
    BY <1>2 DEF PagesVerified
  <2>1. CASE f = pc
    <3>1. pages'[f] \in Pages(f, settings[f])
      BY <1>1, <2>1
    <3> QED BY <1>2, <3>1
  <2>2. CASE f # pc
    BY <1>1, <2>2 DEF PagesVerified
  <2> QED BY <2>1, <2>2
<1>4. /\ pages'[pc] \in Pages(pc, settings[pc])
      /\ \A f \in FieldNames \ {pc} : pages'[f] = pages[f]
  BY <1>1, <1>2
<1>5. /\ pc = "ssid" => pc' = "pw"
      /\ pc = "pw" => pc' = "hostname"
      /\ pc = "hostname" => pc' = "port"
      /\ pc = "port" => pc' = "running"
  BY <1>2, NextPageIs
<1>6. \A f \in FieldNames : Pages(f, settings[f])' = Pages(f, settings[f])
  BY <1>2
<1> QED BY <1>1, <1>2, <1>3, <1>4, <1>5, <1>6 DEF WrittenField

(* What the pages hold and what the running program holds agree with what  *)
(* a connection was last made with.                                        *)
THEOREM StoredInvariant == SetupSpec => []StoredInv
<1>1. SetupInit => StoredInv
  <2> SUFFICES ASSUME SetupInit PROVE StoredInv
    OBVIOUS
  <2>1. pc = "top"
    BY DEF SetupInit
  <2>2. CASE pages = [f \in FieldNames |-> Torn]
    <3>1. PagesVerified /\ DOMAIN pages = FieldNames
      BY <2>2 DEF PagesVerified, Torn
    <3> QED BY <2>1, <3>1 DEF StoredInv, FieldNames
  <2>3. ASSUME NEW v \in OldSettings, NEW port \in Pages("port", v.port), verified = {v},
               pages = [f \in FieldNames |-> IF f = "port" THEN port ELSE Page(f, v[f])]
        PROVE  StoredInv
    <3>1. \A f \in FieldNames : pages[f] \in Pages(f, v[f])
      BY <2>3 DEF Pages
    <3>2. PagesVerified /\ DOMAIN pages = FieldNames
      BY <2>3, <3>1 DEF PagesVerified
    <3> QED BY <2>1, <3>2 DEF StoredInv, FieldNames
  <2> QED BY <2>2, <2>3, RangeOfFields DEF SetupInit
<1>2. StoredInv /\ [SetupNext]_setup => StoredInv'
  <2> SUFFICES ASSUME StoredInv, [SetupNext]_setup PROVE StoredInv'
    OBVIOUS
  <2> USE DEF entry, history, FieldNames
  <2>1. CASE ShowStartMenu
    BY <2>1, PagesLeftAlone DEF ShowStartMenu
  <2>2. CASE MoveCursor
    BY <2>2, PagesLeftAlone DEF MoveCursor
  <2>3. CASE KeepCount
    BY <2>3, PagesLeftAlone DEF KeepCount
  <2>4. CASE PrepareText
    BY <2>4, PagesLeftAlone DEF PrepareText
  <2>5. CASE Act
    BY <2>5, PagesLeftAlone DEF Act
  <2>6. CASE Looks
    BY <2>6, PagesLeftAlone DEF Looks, Look, NotPressed
  <2>7. CASE Leave
    BY <2>7, PagesLeftAlone DEF Leave, Serve
  <2>8. CASE Confirm
    BY <2>8, SettingsChanged DEF Confirm, Serve
  <2>9. CASE Select
    BY <2>9, SettingsChanged DEF Select, Serve
  <2>10. CASE AttemptFails
    BY <2>10, PagesLeftAlone DEF Attempt, AttemptFails
  <2>11. CASE AttemptSucceeds
    <3>1. /\ pc' = "ssid" /\ settings' = settings /\ pages' = pages
          /\ verified' = verified \cup {settings}
      BY <2>11 DEF Attempt, AttemptSucceeds, Fields
    <3> QED BY <3>1 DEF StoredInv, PagesVerified
  <2>12. CASE WritePage
    BY <2>12, PageStep
  <2>13. CASE \E p \in Pins : Press(p)
    BY <2>13, PagesLeftAlone DEF Press
  <2>14. CASE \E n \in Turns : Turn(n)
    BY <2>14, PagesLeftAlone DEF Turn
  <2>15. CASE \E torn \in BOOLEAN : Reset(torn)
    <3> PICK torn \in BOOLEAN : Reset(torn)
      BY <2>15
    <3>1. verified' = verified /\ pc' = "top"
      BY DEF Reset
    <3>2. CASE ~torn
      BY <3>1, <3>2, SettingsChanged DEF Reset
    <3>3. CASE torn
      <4>1. pages' = [pages EXCEPT ![pc] = Torn] /\ ~Torn.sealed
        BY <3>3 DEF Reset, Torn
      <4>2. \A f \in FieldNames : pages'[f].sealed => pages'[f] = pages[f]
        BY <4>1 DEF StoredInv
      <4>3. PagesVerified' /\ DOMAIN pages' = FieldNames
        BY <3>1, <4>1, <4>2 DEF StoredInv, PagesVerified
      <4> QED BY <3>1, <4>3 DEF StoredInv, FieldNames
    <3> QED BY <3>2, <3>3
  <2>16. CASE UNCHANGED setup
    BY <2>16, PagesLeftAlone DEF setup
  <2> QED BY <2>1, <2>2, <2>3, <2>4, <2>5, <2>6, <2>7, <2>8, <2>9, <2>10, <2>11,
             <2>12, <2>13, <2>14, <2>15, <2>16 DEF SetupNext
<1> QED BY <1>1, <1>2, PTL DEF SetupSpec

(* Whatever resets come in between or within a page write, what            *)
(* fetchCredentials() would accept was part of settings that a connection  *)
(* was made with, but for a port too long for portStr.                     *)
THEOREM AcceptedWasVerifiedAlways == SetupSpec => []AcceptedWasVerified
<1>1. StoredInv => AcceptedWasVerified
  <2> SUFFICES ASSUME StoredInv PROVE AcceptedWasVerified
    OBVIOUS
  <2>1. ASSUME NEW f \in {"ssid", "pw", "hostname"}, NEW value \in Fetched(f)
        PROVE  \E v \in verified : value = v[f]
    <3>1. pages[f].sealed /\ value = pages[f].value /\ f \in FieldNames
      BY <2>1 DEF Fetched, FieldNames
    <3>2. PICK v \in verified : pages[f] \in Pages(f, v[f])
      BY <3>1 DEF StoredInv, PagesVerified
    <3>3. pages[f] = Page(f, v[f])
      BY <3>2 DEF Pages
    <3> QED BY <3>1, <3>3 DEF Page
  <2>2. ASSUME NEW port \in Fetched("port")
        PROVE  \E v \in verified : port = v.port \/ (port = Garbled /\ v.port \notin ShortPorts)
    <3>1. pages["port"].sealed /\ port = pages["port"].value
      BY <2>2 DEF Fetched
    <3>2. PICK v \in verified : pages["port"] \in Pages("port", v.port)
      BY <3>1 DEF StoredInv, PagesVerified, FieldNames
    <3>3. CASE v.port \in ShortPorts
      <4>1. pages["port"] = Page("port", v.port)
        BY <3>2, <3>3 DEF Pages
      <4> QED BY <3>1, <4>1 DEF Page
    <3>4. CASE v.port \notin ShortPorts
      <4>1. pages["port"] \in [value : {v.port, Garbled}, sealed : BOOLEAN]
        BY <3>2, <3>4 DEF Pages
      <4>2. port = v.port \/ port = Garbled
        BY <3>1, <4>1
      <4> QED BY <3>4, <4>2
    <3> QED BY <3>3, <3>4
  <2> QED BY <2>1, <2>2 DEF AcceptedWasVerified
<1> QED BY <1>1, StoredInvariant, PTL

(* The set-up ends without the network, or connected with settings that    *)
(* fetchCredentials() would find, but for the SSID, a text as long as      *)
(* admitted and a port too long for portStr.                               *)
THEOREM LeavesStoredAlways == SetupSpec => []LeavesStored
<1>1. StoredInv => LeavesStored
  <2> SUFFICES ASSUME StoredInv, pc = "running", use_wifi PROVE LeavesStored
    BY DEF LeavesStored
  <2>1. settings \in verified /\ \A f \in {"pw", "hostname", "port"} : pages[f] \in Pages(f, settings[f])
    BY DEF StoredInv, WrittenField
  <2>2. ASSUME NEW f \in {"pw", "hostname", "port"},
               IF f = "port" THEN settings.port \in ShortPorts ELSE Len(settings[f]) < INPUT_SIZE
        PROVE  Fetched(f) = {settings[f]}
    <3>1. pages[f] = Page(f, settings[f])
      BY <2>1, <2>2 DEF Pages
    <3>2. Sealed(f, settings[f])
      BY <2>2 DEF Sealed
    <3> QED BY <3>1, <3>2 DEF Page, Fetched
  <2>3. \A f \in {"pw", "hostname"} : Len(settings[f]) < INPUT_SIZE => Fetched(f) = {settings[f]}
    BY <2>2
  <2>4. settings.port \in ShortPorts => Fetched("port") = {settings.port}
    BY <2>2
  <2> QED BY <2>1, <2>3, <2>4 DEF LeavesStored
<1> QED BY <1>1, StoredInvariant, PTL

-----------------------------------------------------------------------------
(* The cursor is inside the table in use when textInput() takes a          *)
(* character, or before it when the knob was turned far enough, and the    *)
(* table is the digits' one when the text is a port.                       *)
Chars == {<<t, i>> : t \in 0..3, i \in Int}
Below == {c \in Chars : c[2] < Length[c[1]]}
Inside == {c \in Below : c[2] >= 0}
Typed == IF turns > START THEN Below ELSE Inside
Digits == {c \in Typed : c[1] = 3}

(* How far the cursor went below its start, and one step further that it   *)
(* may still go for a turn already made, is no more than the turns.        *)
CursorInv ==
  /\ place \in Int /\ prevval \in Int /\ knob \in Int /\ turns \in Nat
  /\ knob # 0 => turns >= 1
  /\ START - place <= turns
  /\ pc # "prevval" /\ prevval # knob => START - place + 1 <= turns

TextInv ==
  /\ ssid_stage \in 0..4
  /\ current_Array \in 0..3 /\ place \in Int
  /\ input \in Seq(Typed)
  /\ DOMAIN settings = FieldNames
  /\ settings.ssid \in Seq(Typed) /\ settings.pw \in Seq(Typed)
  /\ settings.hostname \in Seq(Typed)
  /\ ssid_stage = 3 => input \in Seq(Digits)
  /\ pc = "act" => <<current_Array, pos>> \in Typed /\ (ssid_stage = 3 => current_Array = 3)

LEMMA Remainder ==
  ASSUME NEW n \in Int, NEW d \in Nat \ {0}
  PROVE  Rem(n, d) \in Int /\ Rem(n, d) < d /\ (Rem(n, d) < 0 => n < 0)
<1>1. \A m \in Nat : m % d \in 0..(d - 1)
  OBVIOUS
<1>2. CASE n < 0
  <2>1. -n \in Nat
    BY <1>2
  <2>2. (-n) % d \in 0..(d - 1)
    BY <1>1, <2>1
  <2>3. -((-n) % d) \in Int /\ -((-n) % d) < d
    BY <2>2
  <2> QED BY <1>2, <2>3 DEF Rem
<1>3. CASE ~(n < 0)
  <2>1. n \in Nat
    BY <1>3
  <2>2. n % d \in 0..(d - 1)
    BY <1>1, <2>1
  <2> QED BY <1>3, <2>2 DEF Rem
<1> QED BY <1>2, <1>3

LEMMA TypedKept == turns' = turns => Typed' = Typed /\ Digits' = Digits
  BY DEF Typed, Digits, Below, Inside, Chars

LEMMA FrontOf ==
  ASSUME NEW S, NEW s \in Seq(S), s # <<>>
  PROVE  Front(s) \in Seq(S)
  BY DEF Front

LEMMA ElementsOf ==
  ASSUME NEW S, NEW s \in Seq(S)
  PROVE  \A c \in Range(s) : c \in S
  BY DEF Range

(* What textInput() does with a key.                                       *)
LEMMA ActStep == ASSUME TextInv, Act PROVE TextInv'
<1> USE DEF TextInv
<1>1. /\ ssid_stage' = ssid_stage /\ settings' = settings /\ place' = place
      /\ pc' = "pin7" /\ Typed' = Typed /\ Digits' = Digits
  BY TypedKept DEF Act, menu
<1>2. current_Array' \in 0..3
  BY DEF Act
<1> DEFINE S == IF ssid_stage = 3 THEN Digits ELSE Typed
<1>3. input \in Seq(S) /\ <<current_Array, pos>> \in S
  BY DEF Act, Digits
<1> HIDE DEF S
<1>4. input' \in Seq(S)
  <2>1. \/ input' = Append(input, <<current_Array, pos>>)
        \/ input # <<>> /\ input' = Front(input)
        \/ input' = input
    BY DEF Act
  <2>2. CASE input' = Append(input, <<current_Array, pos>>)
    BY <1>3, <2>2
  <2>3. CASE input # <<>> /\ input' = Front(input)
    BY <1>3, <2>3, FrontOf
  <2> QED BY <1>3, <2>1, <2>2, <2>3
<1>5. input' \in Seq(Typed)
  BY <1>4 DEF S, Digits
<1>6. ssid_stage = 3 => input' \in Seq(Digits)
  BY <1>4 DEF S
<1> QED BY <1>1, <1>2, <1>5, <1>6

(* What pin 12 does with the text.                                         *)
LEMMA ConfirmStep == ASSUME TextInv, Confirm PROVE TextInv'
<1> USE DEF TextInv
<1>1. current_Array' = current_Array /\ place' = place /\ Typed' = Typed /\ Digits' = Digits
  BY TypedKept DEF Confirm, Serve
<1>2. pc' \in {"connect", "halted", "top"}
  BY DEF Confirm
<1>3. <<>> \in Seq(Typed) /\ <<>> \in Seq(Digits)
  OBVIOUS
<1>4. CASE ssid_stage' = ssid_stage /\ settings' = settings /\ input' \in {input, <<>>}
  BY <1>1, <1>2, <1>3, <1>4
<1>5. CASE /\ ssid_stage \in 0..3 /\ ssid_stage' = ssid_stage + 1 /\ input' = <<>>
           /\ settings' = [settings EXCEPT ![Fields[ssid_stage + 1]] =
                              IF ssid_stage = 3 THEN settings'.port ELSE input]
  <2>1. CASE ssid_stage = 0
    <3>1. settings' = [settings EXCEPT !["ssid"] = input]
      BY <1>5, <2>1 DEF Fields
    <3> QED BY <1>1, <1>2, <1>3, <1>5, <2>1, <3>1 DEF FieldNames
  <2>2. CASE ssid_stage = 1
    <3>1. settings' = [settings EXCEPT !["pw"] = input]
      BY <1>5, <2>2 DEF Fields
    <3> QED BY <1>1, <1>2, <1>3, <1>5, <2>2, <3>1 DEF FieldNames
  <2>3. CASE ssid_stage = 2
    <3>1. settings' = [settings EXCEPT !["hostname"] = input]
      BY <1>5, <2>3 DEF Fields
    <3> QED BY <1>1, <1>2, <1>3, <1>5, <2>3, <3>1 DEF FieldNames
  <2>4. CASE ssid_stage = 3
    <3>1. settings' = [settings EXCEPT !["port"] = settings'.port]
      BY <1>5, <2>4 DEF Fields
    <3> QED BY <1>1, <1>2, <1>3, <1>5, <2>4, <3>1 DEF FieldNames
  <2> QED BY <1>5, <2>1, <2>2, <2>3, <2>4
<1>6. \/ ssid_stage' = ssid_stage /\ settings' = settings /\ input' \in {input, <<>>}
      \/ /\ ssid_stage \in 0..3 /\ ssid_stage' = ssid_stage + 1 /\ input' = <<>>
         /\ settings' = [settings EXCEPT ![Fields[ssid_stage + 1]] =
                            IF ssid_stage = 3 THEN settings'.port ELSE input]
  <2>1. CASE ssid_stage' = ssid_stage + 1
    <3>0. ssid_stage \in 0..4 /\ ssid_stage' # ssid_stage
      BY <2>1
    <3>1. PICK value \in IF ssid_stage = 3 THEN Ports(input) ELSE {input} :
            /\ ssid_stage < 4 /\ input' = <<>>
            /\ settings' = [settings EXCEPT ![Fields[ssid_stage + 1]] = value]
      BY <3>0 DEF Confirm
    <3>2. CASE ssid_stage = 3
      <4>1. Fields[ssid_stage + 1] = "port"
        BY <3>2 DEF Fields
      <4>2. settings'.port = value
        BY <3>1, <4>1 DEF FieldNames
      <4>3. settings' = [settings EXCEPT ![Fields[ssid_stage + 1]] = settings'.port]
        BY <3>1, <4>2
      <4>4. ssid_stage \in 0..3 /\ input' = <<>>
        BY <3>1, <3>2
      <4> QED BY <2>1, <3>2, <4>3, <4>4
    <3>3. CASE ssid_stage # 3
      <4>1. value = input /\ ssid_stage \in 0..3
        BY <3>0, <3>1, <3>3
      <4> QED BY <2>1, <3>1, <3>3, <4>1
    <3> QED BY <3>2, <3>3
  <2>2. CASE ssid_stage' # ssid_stage + 1
    BY <2>2 DEF Confirm
  <2> QED BY <2>1, <2>2
<1> QED BY <1>4, <1>5, <1>6

LEMMA TextAtStart ==
  /\ Default.ssid \in Seq(Typed) /\ Default.pw \in Seq(Typed)
  /\ Default.hostname \in Seq(Typed) /\ DOMAIN Default = FieldNames
<1>1. \A t \in 0..3 : <<t, 0>> \in Inside
  BY SetupAssumption DEF Inside, Below, Chars
<1>2. <<0, 0>> \in Typed /\ <<3, 0>> \in Typed
  BY <1>1 DEF Typed, Inside
<1> QED BY <1>2 DEF Default, FieldNames

(* The cursor goes below 0 only after more than START turns.               *)
THEOREM CursorInvariant == SetupSpec => []CursorInv
<1>1. SetupInit => CursorInv
  BY SetupAssumption DEF SetupInit, MainInit, CursorInv
<1>2. CursorInv /\ [SetupNext]_setup => CursorInv'
  <2> SUFFICES ASSUME CursorInv, [SetupNext]_setup PROVE CursorInv'
    OBVIOUS
  <2> USE SetupAssumption DEF CursorInv, menu, mailbox, history
  <2>1. CASE ShowStartMenu
    BY <2>1 DEF ShowStartMenu
  <2>2. CASE MoveCursor
    BY <2>2 DEF MoveCursor
  <2>3. CASE KeepCount
    BY <2>3 DEF KeepCount
  <2>4. CASE PrepareText
    BY <2>4 DEF PrepareText
  <2>5. CASE Act
    BY <2>5 DEF Act
  <2>6. CASE Looks
    BY <2>6 DEF Looks, Look, NotPressed
  <2>7. CASE Leave
    BY <2>7 DEF Leave, Serve
  <2>8. CASE Confirm
    BY <2>8 DEF Confirm, Serve
  <2>9. CASE Select
    BY <2>9 DEF Select, Serve
  <2>10. CASE AttemptFails
    BY <2>10 DEF Attempt, AttemptFails, Restart
  <2>11. CASE AttemptSucceeds
    BY <2>11 DEF Attempt, AttemptSucceeds
  <2>12. CASE WritePage
    <3>1. pc # "prevval"
      BY <2>12, RangeOfFields DEF WritePage, FieldNames
    <3> QED BY <2>12, <3>1 DEF WritePage
  <2>13. CASE \E p \in Pins : Press(p)
    BY <2>13 DEF Press
  <2>14. CASE \E n \in Turns : Turn(n)
    BY <2>14 DEF Turn
  <2>15. CASE \E torn \in BOOLEAN : Reset(torn)
    BY <2>15 DEF Reset
  <2>16. CASE UNCHANGED setup
    BY <2>16 DEF setup
  <2> QED BY <2>1, <2>2, <2>3, <2>4, <2>5, <2>6, <2>7, <2>8, <2>9, <2>10, <2>11,
             <2>12, <2>13, <2>14, <2>15, <2>16 DEF SetupNext
<1> QED BY <1>1, <1>2, PTL DEF SetupSpec

(* The position on the panel is within the table shown, or before it, and  *)
(* the text holds characters taken so.                                     *)
THEOREM TextInvariant == SetupSpec => []TextInv
<1>0. <<>> \in Seq(Typed) /\ <<>> \in Seq(Digits)
  OBVIOUS
<1>1. SetupInit => TextInv
  <2> SUFFICES ASSUME SetupInit PROVE TextInv
    OBVIOUS
  <2>1. /\ ssid_stage = 0 /\ current_Array = 0 /\ place = START
        /\ input = <<>> /\ settings = Default /\ pc = "top"
    BY DEF SetupInit, MainInit
  <2> QED BY <1>0, <2>1, TextAtStart, SetupAssumption DEF TextInv
<1>2. TextInv /\ CursorInv /\ [SetupNext]_setup => TextInv'
  <2> SUFFICES ASSUME TextInv, CursorInv, [SetupNext]_setup PROVE TextInv'
    OBVIOUS
  <2> USE TypedKept DEF TextInv, entry, menu, history
  <2>1. CASE ShowStartMenu
    BY <2>1 DEF ShowStartMenu
  <2>2. CASE MoveCursor
    BY <2>2 DEF MoveCursor
  <2>3. CASE KeepCount
    BY <2>3 DEF KeepCount
  <2>4. CASE PrepareText
    <3>1. /\ current_Array' \in 0..3 /\ (ssid_stage = 3 => current_Array' = 3)
          /\ pos' = Rem(place, Length[current_Array'])
      BY <2>4 DEF PrepareText
    <3>2. Length[current_Array'] \in Nat \ {0} /\ place \in Int
      BY <3>1, SetupAssumption
    <3>3. /\ pos' \in Int /\ pos' < Length[current_Array'] /\ (pos' < 0 => place < 0)
      BY <3>1, <3>2, Remainder
    <3>4. place < 0 => turns > START
      BY SetupAssumption DEF CursorInv
    <3>5. <<current_Array', pos'>> \in Typed
      <4>1. <<current_Array', pos'>> \in Below
        BY <3>1, <3>3 DEF Below, Chars
      <4>2. CASE pos' < 0
        BY <3>3, <3>4, <4>1, <4>2 DEF Typed
      <4>3. CASE ~(pos' < 0)
        <5>1. <<current_Array', pos'>> \in Inside
          BY <3>3, <4>1, <4>3 DEF Inside
        <5> QED BY <4>1, <5>1 DEF Typed
      <4> QED BY <4>2, <4>3
    <3> QED BY <2>4, <3>1, <3>5 DEF PrepareText
  <2>5. CASE Act
    BY <2>5, ActStep
  <2>6. CASE Looks
    BY <2>6 DEF Looks, Look, NotPressed
  <2>7. CASE Leave
    BY <2>7, <1>0 DEF Leave, Serve
  <2>8. CASE Confirm
    BY <2>8, ConfirmStep
  <2>9. CASE Select
    BY <2>9 DEF Select, Serve
  <2>10. CASE AttemptFails
    BY <2>10, SetupAssumption DEF Attempt, AttemptFails, Restart
  <2>11. CASE AttemptSucceeds
    BY <2>11 DEF Attempt, AttemptSucceeds, Fields
  <2>12. CASE WritePage
    <3>1. pc' # "act"
      BY <2>12, RangeOfFields, NextPageIs DEF WritePage, FieldNames
    <3> QED BY <2>12, <3>1 DEF WritePage
  <2>13. CASE \E p \in Pins : Press(p)
    BY <2>13 DEF Press
  <2>14. CASE \E n \in Turns : Turn(n)
    <3>1. /\ turns' = turns + 1 /\ turns \in Nat
          /\ UNCHANGED <<pc, menu, entry>>
      BY <2>14 DEF Turn, CursorInv
    <3>2. Typed \subseteq Typed' /\ Digits \subseteq Digits'
      BY <3>1, SetupAssumption DEF Typed, Digits, Inside, Below, Chars
    <3>3. Seq(Typed) \subseteq Seq(Typed') /\ Seq(Digits) \subseteq Seq(Digits')
      BY <3>2
    <3> QED BY <3>1, <3>2, <3>3
  <2>15. CASE \E torn \in BOOLEAN : Reset(torn)
    <3>1. /\ ssid_stage' = 0 /\ current_Array' = 0 /\ place' = START
          /\ input' = <<>> /\ settings' = Default /\ pc' = "top" /\ turns' = turns
      BY <2>15 DEF Reset
    <3>2. settings'.ssid = Default.ssid /\ settings'.pw = Default.pw
            /\ settings'.hostname = Default.hostname
      BY <3>1
    <3>3. Typed' = Typed /\ Digits' = Digits /\ place' \in Int
      BY <3>1, TypedKept, SetupAssumption
    <3> QED BY <1>0, <3>1, <3>2, <3>3, TextAtStart
  <2>16. CASE UNCHANGED setup
    BY <2>16 DEF setup
  <2> QED BY <2>1, <2>2, <2>3, <2>4, <2>5, <2>6, <2>7, <2>8, <2>9, <2>10, <2>11,
             <2>12, <2>13, <2>14, <2>15, <2>16 DEF SetupNext
<1> QED BY <1>1, <1>2, CursorInvariant, PTL DEF SetupSpec

(* Every character typed and confirmed is in the table it was taken from,  *)
(* or before it after more than START turns, and a port is typed with the  *)
(* digits' table.                                                          *)
THEOREM WrittenInTableAlways == SetupSpec => []WrittenInTable
<1>1. TextInv => WrittenInTable
  <2> SUFFICES ASSUME TextInv PROVE WrittenInTable
    OBVIOUS
  <2> DEFINE all == input \o settings.ssid \o settings.pw \o settings.hostname
  <2>1. all \in Seq(Typed)
    BY DEF TextInv
  <2>2. \A c \in Range(all) : c \in Typed
    <3> HIDE DEF all
    <3> QED BY <2>1, ElementsOf
  <2>3. ssid_stage = 3 => \A c \in Range(input) : c \in Digits
    BY ElementsOf DEF TextInv
  <2>4. ASSUME NEW c \in Typed PROVE c[2] < Length[c[1]] /\ (c[2] < 0 => turns > START)
    <3>1. c \in Below /\ c[2] \in Int
      BY DEF Typed, Inside, Below, Chars
    <3>2. ~(turns > START) => ~(c[2] < 0)
      BY <3>1 DEF Typed, Inside
    <3> QED BY <3>1, <3>2 DEF Below
  <2>5. \A c \in Digits : c[1] = 3
    BY DEF Digits
  <2> QED BY <2>2, <2>3, <2>4, <2>5 DEF WrittenInTable
<1> QED BY <1>1, TextInvariant, PTL

-----------------------------------------------------------------------------
(* The Modbus frame.                                                       *)

(* Induction over the natural numbers, of a set of them.                   *)
LEMMA SetInduction ==
  ASSUME NEW set, 0 \in set, \A n \in Nat : n \in set => n + 1 \in set
  PROVE  Nat \subseteq set
<1> SUFFICES ASSUME Nat \ set # {} PROVE FALSE
  OBVIOUS
<1>1. PICK n \in Nat \ set : \A k \in Nat \ set : ~(<<k, n>> \in {p \in Nat \X Nat : p[1] < p[2]})
  BY LessIsWellFounded, WFMin
<1>2. \A k \in Nat \ set : <<k, n>> \in Nat \X Nat /\ <<k, n>>[1] = k /\ <<k, n>>[2] = n
  OBVIOUS
<1>3. \A k \in Nat \ set : ~(k < n)
  BY <1>1, <1>2
<1>4. n # 0 /\ n - 1 \in Nat /\ n - 1 < n /\ (n - 1) + 1 = n
  OBVIOUS
<1>5. n - 1 \in set
  BY <1>3, <1>4
<1> QED BY <1>4, <1>5

(* A recursion over 0..n whose steps are given by a function has a result. *)
Recursion(T, start, n, g) == start \in T /\ n \in Nat /\ g \in [(1..n) \X T -> T]
Recursed(h, T, start, n, g) ==
  h \in [0..n -> T] /\ h[0] = start /\ \A i \in 1..n : h[i] = g[<<i, h[i - 1]>>]

LEMMA RecursionExists ==
  ASSUME NEW T, NEW start, NEW n, NEW g, Recursion(T, start, n, g)
  PROVE  \E h : Recursed(h, T, start, n, g)
<1>0. start \in T /\ n \in Nat /\ g \in [(1..n) \X T -> T]
  BY DEF Recursion
<1> DEFINE Good(k) == \E h \in [0..k -> T] : h[0] = start /\ \A i \in 1..k : h[i] = g[<<i, h[i - 1]>>]
           S == {k \in Nat : k <= n => Good(k)}
<1>1. 0 \in S
  <2> DEFINE h == [i \in 0..0 |-> start]
  <2>1. h \in [0..0 -> T] /\ h[0] = start /\ \A i \in 1..0 : h[i] = g[<<i, h[i - 1]>>]
    BY <1>0
  <2>2. Good(0)
    BY <2>1
  <2> QED BY <2>2
<1>2. ASSUME NEW k \in Nat, k \in S PROVE k + 1 \in S
  <2> SUFFICES ASSUME k + 1 <= n PROVE Good(k + 1)
    OBVIOUS
  <2>1. PICK h \in [0..k -> T] : h[0] = start /\ \A i \in 1..k : h[i] = g[<<i, h[i - 1]>>]
    BY <1>0, <1>2
  <2> DEFINE f == [i \in 0..(k + 1) |-> IF i <= k THEN h[i] ELSE g[<<k + 1, h[k]>>]]
  <2>2. h[k] \in T /\ k + 1 \in 1..n
    BY <1>0
  <2>3. g[<<k + 1, h[k]>>] \in T
    BY <1>0, <2>2
  <2>4. f \in [0..(k + 1) -> T]
    BY <2>3
  <2>5. f[0] = start /\ \A i \in 0..k : f[i] = h[i]
    BY <2>1
  <2>6. f[k + 1] = g[<<k + 1, h[k]>>]
    OBVIOUS
  <2>7. ASSUME NEW i \in 1..(k + 1) PROVE f[i] = g[<<i, f[i - 1]>>]
    <3>1. i - 1 \in 0..k /\ f[i - 1] = h[i - 1]
      BY <2>5
    <3>2. CASE i = k + 1
      <4>1. i - 1 = k /\ f[k] = h[k]
        BY <3>2, <2>5
      <4> QED BY <3>2, <4>1, <2>6
    <3>3. CASE i \in 1..k
      BY <3>1, <3>3, <2>1, <2>5
    <3> QED BY <3>2, <3>3
  <2> HIDE DEF f
  <2> QED BY <2>4, <2>5, <2>7
<1> HIDE DEF S
<1>3. Nat \subseteq S
  BY <1>1, <1>2, SetInduction
<1>4. n \in S
  BY <1>0, <1>3
<1> QED BY <1>0, <1>4 DEF S, Recursed

-----------------------------------------------------------------------------
(* Words: sets of natural numbers under symmetric difference.              *)

Up(word, k) == {b + k : b \in word}
Step8(word) == Step(Step(Step(Step(Step(Step(Step(Step(word))))))))

LEMMA XorIn ==
  ASSUME NEW a, NEW b
  PROVE  /\ \A x : x \in Xor(a, b) <=> ~(x \in a <=> x \in b)
         /\ Xor(a, {}) = a /\ Xor({}, a) = a /\ Xor(a, a) = {}
         /\ Xor(a, b) = {} => a = b
         /\ Xor(a, b) = Xor(b, a)
  BY DEF Xor

LEMMA XorGroups ==
  ASSUME NEW a, NEW b, NEW c, NEW d
  PROVE  /\ Xor(Xor(a, b), c) = Xor(a, Xor(b, c))
         /\ Xor(Xor(a, b), Xor(c, d)) = Xor(Xor(a, c), Xor(b, d))
  BY DEF Xor

LEMMA XorTyped ==
  ASSUME NEW T, NEW a \in SUBSET T, NEW b \in SUBSET T
  PROVE  Xor(a, b) \in SUBSET T
  BY DEF Xor

LEMMA ShiftIn ==
  ASSUME NEW a \in SUBSET Nat
  PROVE  Shift(a) \in SUBSET Nat /\ \A x \in Nat : x \in Shift(a) <=> x + 1 \in a
<1>1. Shift(a) \in SUBSET Nat
  BY DEF Shift
<1>2. ASSUME NEW x \in Nat, x \in Shift(a) PROVE x + 1 \in a
  <2>1. PICK b \in a \ {0} : x = b - 1
    BY <1>2 DEF Shift
  <2>2. x + 1 = b
    BY <2>1
  <2> QED BY <2>2
<1>3. ASSUME NEW x \in Nat, x + 1 \in a PROVE x \in Shift(a)
  <2>1. x + 1 \in a \ {0} /\ x = (x + 1) - 1
    BY <1>3
  <2> QED BY <2>1 DEF Shift
<1> QED BY <1>1, <1>2, <1>3

LEMMA StepIn ==
  ASSUME NEW a \in SUBSET Nat
  PROVE  /\ Step(a) \in SUBSET Nat
         /\ \A x \in Nat : x \in Step(a) <=> ~(x + 1 \in a <=> 0 \in a /\ x \in Polynomial)
<1>1. Polynomial \in SUBSET Nat
  BY DEF Polynomial
<1>2. /\ Shift(a) \in SUBSET Nat /\ \A x \in Nat : x \in Shift(a) <=> x + 1 \in a
      /\ Xor(Shift(a), Polynomial) \in SUBSET Nat
      /\ \A x : x \in Xor(Shift(a), Polynomial) <=> ~(x \in Shift(a) <=> x \in Polynomial)
  BY <1>1, ShiftIn, XorIn DEF Xor
<1>3. CASE 0 \in a
  BY <1>2, <1>3 DEF Step
<1>4. CASE 0 \notin a
  BY <1>2, <1>4 DEF Step
<1> QED BY <1>3, <1>4

LEMMA StepLinear ==
  ASSUME NEW a \in SUBSET Nat, NEW b \in SUBSET Nat
  PROVE  Step(Xor(a, b)) = Xor(Step(a), Step(b))
<1>1. Xor(a, b) \in SUBSET Nat
  BY XorTyped
<1>2. Step(Xor(a, b)) \in SUBSET Nat /\ Xor(Step(a), Step(b)) \in SUBSET Nat
  BY <1>1, StepIn, XorTyped
<1>3. ASSUME NEW x \in Nat
      PROVE  x \in Step(Xor(a, b)) <=> x \in Xor(Step(a), Step(b))
  <2>1. x \in Step(Xor(a, b)) <=> ~(x + 1 \in Xor(a, b) <=> 0 \in Xor(a, b) /\ x \in Polynomial)
    BY <1>1, StepIn
  <2>2. x \in Step(a) <=> ~(x + 1 \in a <=> 0 \in a /\ x \in Polynomial)
    BY StepIn
  <2>3. x \in Step(b) <=> ~(x + 1 \in b <=> 0 \in b /\ x \in Polynomial)
    BY StepIn
  <2>4. /\ x + 1 \in Xor(a, b) <=> ~(x + 1 \in a <=> x + 1 \in b)
        /\ 0 \in Xor(a, b) <=> ~(0 \in a <=> 0 \in b)
        /\ x \in Xor(Step(a), Step(b)) <=> ~(x \in Step(a) <=> x \in Step(b))
    BY XorIn
  <2> QED BY <2>1, <2>2, <2>3, <2>4
<1> QED BY <1>2, <1>3

(* What is not below bit 0 yet is only shifted.                            *)
LEMMA StepUp ==
  ASSUME NEW a \in SUBSET Nat, NEW k \in Nat
  PROVE  Step(Up(a, k + 1)) = Up(a, k)
<1>1. Up(a, k + 1) \in SUBSET Nat /\ 0 \notin Up(a, k + 1)
  BY DEF Up
<1>2. Step(Up(a, k + 1)) = Shift(Up(a, k + 1))
  BY <1>1 DEF Step
<1>3. Up(a, k + 1) \ {0} = Up(a, k + 1)
  BY <1>1
<1>4. Shift(Up(a, k + 1)) = {b - 1 : b \in Up(a, k + 1)}
  BY <1>3 DEF Shift
<1>5. ASSUME NEW x PROVE x \in {b - 1 : b \in Up(a, k + 1)} <=> x \in Up(a, k)
  <2>1. \A b \in a : (b + (k + 1)) - 1 = b + k
    OBVIOUS
  <2>2. x \in {b - 1 : b \in Up(a, k + 1)} <=> \E b \in a : x = (b + (k + 1)) - 1
    BY DEF Up
  <2>3. x \in Up(a, k) <=> \E b \in a : x = b + k
    BY DEF Up
  <2> QED BY <2>1, <2>2, <2>3
<1> QED BY <1>2, <1>4, <1>5

(* A step loses nothing of a word of 16 bits.                              *)
LEMMA StepKeeps ==
  ASSUME NEW a \in SUBSET (0..15)
  PROVE  Step(a) \in SUBSET (0..15) /\ (a # {} => Step(a) # {})
<1>1. Step(a) \in SUBSET Nat /\ \A x \in Nat : x \in Step(a) <=> ~(x + 1 \in a <=> 0 \in a /\ x \in Polynomial)
  BY StepIn
<1>2. Polynomial \in SUBSET (0..15) /\ 15 \in Polynomial
  BY DEF Polynomial
<1>3. ASSUME NEW x \in Step(a) PROVE x \in 0..15
  <2>1. x \in Nat /\ (x + 1 \in a \/ x \in Polynomial)
    BY <1>1
  <2> QED BY <2>1, <1>2
<1>4. CASE 0 \in a
  <2>1. 15 \in Step(a)
    BY <1>1, <1>2, <1>4
  <2> QED BY <2>1, <1>3
<1>5. CASE 0 \notin a
  <2> SUFFICES ASSUME NEW x \in a PROVE Step(a) # {}
    BY <1>3
  <2>1. x - 1 \in Nat /\ (x - 1) + 1 = x
    BY <1>5
  <2>2. x - 1 \in Step(a)
    BY <1>1, <1>5, <2>1
  <2> QED BY <2>2
<1> QED BY <1>4, <1>5

LEMMA Step8Linear ==
  ASSUME NEW a \in SUBSET Nat, NEW b \in SUBSET Nat
  PROVE  Step8(a) \in SUBSET Nat /\ Step8(Xor(a, b)) = Xor(Step8(a), Step8(b))
<1> DEFINE a1 == Step(a)  a2 == Step(a1) a3 == Step(a2) a4 == Step(a3)
           a5 == Step(a4) a6 == Step(a5) a7 == Step(a6)
           b1 == Step(b)  b2 == Step(b1) b3 == Step(b2) b4 == Step(b3)
           b5 == Step(b4) b6 == Step(b5) b7 == Step(b6)
<1>1. a1 \in SUBSET Nat /\ b1 \in SUBSET Nat /\ Step(Xor(a, b)) = Xor(a1, b1)
  BY StepIn, StepLinear
<1> HIDE DEF a1, b1
<1>2. a2 \in SUBSET Nat /\ b2 \in SUBSET Nat /\ Step(Xor(a1, b1)) = Xor(a2, b2)
  BY <1>1, StepIn, StepLinear
<1> HIDE DEF a2, b2
<1>3. a3 \in SUBSET Nat /\ b3 \in SUBSET Nat /\ Step(Xor(a2, b2)) = Xor(a3, b3)
  BY <1>2, StepIn, StepLinear
<1> HIDE DEF a3, b3
<1>4. a4 \in SUBSET Nat /\ b4 \in SUBSET Nat /\ Step(Xor(a3, b3)) = Xor(a4, b4)
  BY <1>3, StepIn, StepLinear
<1> HIDE DEF a4, b4
<1>5. a5 \in SUBSET Nat /\ b5 \in SUBSET Nat /\ Step(Xor(a4, b4)) = Xor(a5, b5)
  BY <1>4, StepIn, StepLinear
<1> HIDE DEF a5, b5
<1>6. a6 \in SUBSET Nat /\ b6 \in SUBSET Nat /\ Step(Xor(a5, b5)) = Xor(a6, b6)
  BY <1>5, StepIn, StepLinear
<1> HIDE DEF a6, b6
<1>7. a7 \in SUBSET Nat /\ b7 \in SUBSET Nat /\ Step(Xor(a6, b6)) = Xor(a7, b7)
  BY <1>6, StepIn, StepLinear
<1> HIDE DEF a7, b7
<1>8. Step(a7) \in SUBSET Nat /\ Step(Xor(a7, b7)) = Xor(Step(a7), Step(b7))
  BY <1>7, StepIn, StepLinear
<1>9. Step8(a) = Step(a7) /\ Step8(b) = Step(b7)
  BY DEF Step8, a1, a2, a3, a4, a5, a6, a7, b1, b2, b3, b4, b5, b6, b7
<1>10. Step8(Xor(a, b)) = Step(Xor(a7, b7))
  BY <1>1, <1>2, <1>3, <1>4, <1>5, <1>6, <1>7 DEF Step8
<1> QED BY <1>8, <1>9, <1>10

LEMMA Step8Keeps ==
  ASSUME NEW a \in SUBSET (0..15)
  PROVE  Step8(a) \in SUBSET (0..15)
  BY StepKeeps DEF Step8

LEMMA Step8Up ==
  ASSUME NEW a \in SUBSET Nat
  PROVE  Step8(Up(a, 8)) = a
<1>1. /\ Step(Up(a, 7 + 1)) = Up(a, 7) /\ Step(Up(a, 6 + 1)) = Up(a, 6)
      /\ Step(Up(a, 5 + 1)) = Up(a, 5) /\ Step(Up(a, 4 + 1)) = Up(a, 4)
      /\ Step(Up(a, 3 + 1)) = Up(a, 3) /\ Step(Up(a, 2 + 1)) = Up(a, 2)
      /\ Step(Up(a, 1 + 1)) = Up(a, 1) /\ Step(Up(a, 0 + 1)) = Up(a, 0)
  BY StepUp
<1>2. /\ 7 + 1 = 8 /\ 6 + 1 = 7 /\ 5 + 1 = 6 /\ 4 + 1 = 5
      /\ 3 + 1 = 4 /\ 2 + 1 = 3 /\ 1 + 1 = 2 /\ 0 + 1 = 1
  OBVIOUS
<1>3. Up(a, 0) = a
  <2>1. \A b \in a : b + 0 = b
    OBVIOUS
  <2> QED BY <2>1 DEF Up
<1> QED BY <1>1, <1>2, <1>3 DEF Step8

LEMMA ByteSplit ==
  ASSUME NEW a \in SUBSET (0..15)
  PROVE  /\ Byte(a, 0) \in SUBSET (0..7) /\ Byte(a, 1) \in SUBSET (0..7)
         /\ a = Xor(Byte(a, 0), Up(Byte(a, 1), 8))
<1>1. Byte(a, 0) = a \cap (0..7) /\ Byte(a, 1) = {b - 8 : b \in a \cap (8..15)}
  BY DEF Byte
<1>2. Byte(a, 0) \in SUBSET (0..7) /\ Byte(a, 1) \in SUBSET (0..7)
  BY <1>1
<1>3. Up(Byte(a, 1), 8) = a \cap (8..15)
  <2>1. \A b \in a \cap (8..15) : (b - 8) + 8 = b
    OBVIOUS
  <2>2. Up(Byte(a, 1), 8) = {(b - 8) + 8 : b \in a \cap (8..15)}
    BY <1>1 DEF Up
  <2> QED BY <2>1, <2>2
<1>4. a = Xor(a \cap (0..7), a \cap (8..15))
  <2>1. \A x \in a : (x \in 0..7 \/ x \in 8..15) /\ ~(x \in 0..7 /\ x \in 8..15)
    OBVIOUS
  <2> QED BY <2>1 DEF Xor
<1> QED BY <1>1, <1>2, <1>3, <1>4

(* The byte-wise step of modbus_crc.h is eight steps of the division.      *)
LEMMA NextValIs ==
  ASSUME NEW val \in SUBSET (0..15), NEW byte \in SUBSET (0..7)
  PROVE  NextVal(val, byte) = Step8(Xor(val, byte)) /\ NextVal(val, byte) \in SUBSET (0..15)
<1> DEFINE lo == Byte(val, 0)  hi == Byte(val, 1)
<1>1. lo \in SUBSET (0..7) /\ hi \in SUBSET (0..7) /\ val = Xor(lo, Up(hi, 8))
  BY ByteSplit
<1>2. NextVal(val, byte) = Xor(hi, CrcTable[Xor(lo, byte)])
  BY DEF NextVal
<1> HIDE DEF lo, hi
<1>3. Xor(lo, byte) \in SUBSET (0..7) /\ Xor(lo, byte) \in SUBSET Nat
  BY <1>1 DEF Xor
<1>4. CrcTable[Xor(lo, byte)] = Step8(Xor(lo, byte))
  BY <1>3 DEF CrcTable, Step8
<1>5. Up(hi, 8) \in SUBSET Nat /\ hi \in SUBSET Nat
  BY <1>1 DEF Up
<1>6. Xor(val, byte) = Xor(Up(hi, 8), Xor(lo, byte))
  BY <1>1 DEF Xor
<1>7. Step8(Xor(val, byte)) = Xor(Step8(Up(hi, 8)), Step8(Xor(lo, byte)))
  BY <1>3, <1>5, <1>6, Step8Linear
<1>8. Step8(Up(hi, 8)) = hi
  BY <1>5, Step8Up
<1>9. NextVal(val, byte) = Step8(Xor(val, byte))
  BY <1>2, <1>4, <1>7, <1>8
<1>10. Xor(val, byte) \in SUBSET (0..15)
  BY DEF Xor
<1> QED BY <1>9, <1>10, Step8Keeps

-----------------------------------------------------------------------------
(* The CRC of a frame: the last of the values val that crc computes.       *)

Bytes == SUBSET (0..7)
Words == SUBSET (0..15)

Run(v, start, bytes) ==
  /\ v \in [0..Len(bytes) -> Words] /\ v[0] = start
  /\ \A i \in 1..Len(bytes) : v[i] = NextVal(v[i - 1], bytes[i])

LEMMA RunExists ==
  ASSUME NEW start \in Words, NEW bytes \in Seq(Bytes)
  PROVE  \E v : Run(v, start, bytes)
<1> DEFINE n == Len(bytes)
           g == [p \in (1..n) \X Words |-> NextVal(p[2], bytes[p[1]])]
<1>1. n \in Nat /\ \A i \in 1..n : bytes[i] \in Bytes
  OBVIOUS
<1>2. \A i \in 1..n, w \in Words : NextVal(w, bytes[i]) \in Words
  BY <1>1, NextValIs DEF Bytes, Words
<1>3. g \in [(1..n) \X Words -> Words]
  BY <1>2
<1>4. \A i \in 1..n, w \in Words : g[<<i, w>>] = NextVal(w, bytes[i])
  OBVIOUS
<1> HIDE DEF g, n
<1>5. PICK v \in [0..n -> Words] : v[0] = start /\ \A i \in 1..n : v[i] = g[<<i, v[i - 1]>>]
  <2>1. n \in Nat /\ start \in Words
    BY <1>1
  <2>2. Recursion(Words, start, n, g)
    BY <1>3, <2>1 DEF Recursion
  <2>3. \E v : Recursed(v, Words, start, n, g)
    BY <2>2, RecursionExists
  <2> QED BY <2>3 DEF Recursed
<1>6. ASSUME NEW i \in 1..n PROVE v[i] = NextVal(v[i - 1], bytes[i])
  <2>1. v[i - 1] \in Words
    BY <1>1
  <2> QED BY <1>4, <1>5, <2>1
<1> QED BY <1>5, <1>6 DEF Run, n

LEMMA RunUnique ==
  ASSUME NEW bytes \in Seq(Bytes), NEW start, NEW v, NEW u,
         Run(v, start, bytes), Run(u, start, bytes)
  PROVE  v[Len(bytes)] = u[Len(bytes)]
<1> DEFINE n == Len(bytes)
           S == {i \in Nat : i <= n => v[i] = u[i]}
<1>0. n \in Nat
  OBVIOUS
<1>1. 0 \in S
  BY DEF Run
<1>2. ASSUME NEW i \in Nat, i \in S PROVE i + 1 \in S
  <2> SUFFICES ASSUME i + 1 <= n PROVE v[i + 1] = u[i + 1]
    OBVIOUS
  <2>1. i + 1 \in 1..n /\ (i + 1) - 1 = i /\ v[i] = u[i]
    BY <1>0, <1>2
  <2> QED BY <2>1 DEF Run
<1> HIDE DEF S
<1>3. Nat \subseteq S
  BY <1>1, <1>2, SetInduction
<1> QED BY <1>0, <1>3 DEF S

LEMMA CrcIs ==
  ASSUME NEW bytes \in Seq(Bytes)
  PROVE  crc(bytes) \in Words /\ \A u : Run(u, 0..15, bytes) => crc(bytes) = u[Len(bytes)]
<1> DEFINE n == Len(bytes)
           f(v) == [i \in 0..n |-> IF i = 0 THEN 0..15 ELSE NextVal(v[i - 1], bytes[i])]
           val == CHOOSE v : v = f(v)
<1>0. n \in Nat
  OBVIOUS
<1>1. PICK u : Run(u, 0..15, bytes)
  BY RunExists DEF Words
<1>2. u = f(u)
  BY <1>0, <1>1 DEF Run
<1>3. val = f(val)
  BY <1>2
<1>4. crc(bytes) = val[n]
  BY DEF crc
<1> HIDE DEF val
<1>5. DOMAIN val = 0..n /\ val[0] = 0..15 /\ \A i \in 1..n : val[i] = NextVal(val[i - 1], bytes[i])
  <2>1. val = [i \in 0..n |-> IF i = 0 THEN 0..15 ELSE NextVal(val[i - 1], bytes[i])]
    BY <1>3
  <2>2. DOMAIN val = 0..n
    BY <2>1
  <2>3. \A i \in 0..n : val[i] = IF i = 0 THEN 0..15 ELSE NextVal(val[i - 1], bytes[i])
    BY <2>1
  <2>4. 0 \in 0..n /\ \A i \in 1..n : i \in 0..n /\ i # 0
    BY <1>0
  <2> QED BY <2>2, <2>3, <2>4
<1> DEFINE S == {i \in Nat : i <= n => val[i] \in Words}
<1>6. 0 \in S
  BY <1>5 DEF Words
<1>7. ASSUME NEW i \in Nat, i \in S PROVE i + 1 \in S
  <2> SUFFICES ASSUME i + 1 <= n PROVE val[i + 1] \in Words
    OBVIOUS
  <2>1. i + 1 \in 1..n /\ (i + 1) - 1 = i /\ val[i] \in Words /\ bytes[i + 1] \in Bytes
    BY <1>0, <1>7
  <2>2. NextVal(val[i], bytes[i + 1]) \in Words
    BY <2>1, NextValIs DEF Words, Bytes
  <2> QED BY <1>5, <2>1, <2>2
<1> HIDE DEF S
<1>8. Nat \subseteq S
  BY <1>6, <1>7, SetInduction
<1>9. \A i \in 0..n : val[i] \in Words
  BY <1>0, <1>8 DEF S
<1>10. val \in [0..n -> Words]
  <2>1. val = [i \in 0..n |-> val[i]]
    BY <1>3, <1>5
  <2> QED BY <1>9, <2>1
<1>11. Run(val, 0..15, bytes)
  BY <1>5, <1>10 DEF Run
<1>12. val[n] \in Words
  BY <1>0, <1>9
<1> QED BY <1>4, <1>11, <1>12, RunUnique

(* The CRC of the empty frame.                                             *)
LEMMA CrcEmpty == crc(<<>>) # {}
<1>0. <<>> \in Seq(Bytes) /\ 0..15 \in Words
  BY DEF Words
<1>1. PICK u : Run(u, 0..15, <<>>)
  BY <1>0, RunExists
<1>2. u[0] = 0..15 /\ Len(<<>>) = 0
  BY <1>1 DEF Run
<1>3. crc(<<>>) = u[0]
  BY <1>0, <1>1, <1>2, CrcIs
<1> QED BY <1>2, <1>3

(* A frame built with its CRC has a CRC of zero.                           *)
LEMMA CrcWithCrc ==
  ASSUME NEW bytes \in Seq(Bytes)
  PROVE  WithCrc(bytes) \in Seq(Bytes) /\ crc(WithCrc(bytes)) = {}
<1> DEFINE n == Len(bytes)  c == crc(bytes)  frame == WithCrc(bytes)
           lo == Byte(c, 0)  hi == Byte(c, 1)
<1>0. n \in Nat
  OBVIOUS
<1>1. c \in Words
  BY CrcIs
<1>2. lo \in Bytes /\ hi \in Bytes /\ c = Xor(lo, Up(hi, 8))
  BY <1>1, ByteSplit DEF Words, Bytes
<1>3. frame = bytes \o <<lo, hi>>
  BY DEF WithCrc
<1> HIDE DEF lo, hi, c, frame
<1>4. /\ frame \in Seq(Bytes) /\ Len(frame) = n + 2
      /\ \A i \in 1..n : frame[i] = bytes[i]
      /\ frame[n + 1] = lo /\ frame[n + 2] = hi
  BY <1>0, <1>2, <1>3
<1>5. PICK u : Run(u, 0..15, frame)
  BY <1>4, RunExists DEF Words
<1>6. Run([i \in 0..n |-> u[i]], 0..15, bytes)
  <2>1. /\ u \in [0..(n + 2) -> Words] /\ u[0] = 0..15
        /\ \A i \in 1..(n + 2) : u[i] = NextVal(u[i - 1], frame[i])
    BY <1>4, <1>5 DEF Run
  <2> DEFINE v == [i \in 0..n |-> u[i]]
  <2>2. \A i \in 0..n : i \in 0..(n + 2) /\ u[i] \in Words
    BY <1>0, <2>1
  <2>3. v \in [0..n -> Words] /\ v[0] = 0..15
    BY <1>0, <2>1, <2>2
  <2>4. \A i \in 1..n : v[i] = u[i] /\ v[i - 1] = u[i - 1] /\ i \in 1..(n + 2)
    BY <1>0
  <2> HIDE DEF v
  <2>5. \A i \in 1..n : v[i] = NextVal(v[i - 1], bytes[i])
    BY <1>4, <2>1, <2>4
  <2>6. Run(v, 0..15, bytes)
    BY <2>3, <2>5 DEF Run
  <2> QED BY <2>6 DEF v
<1>7. u[n] = c
  BY <1>0, <1>6, CrcIs DEF c
<1>8. n + 1 \in 1..(n + 2) /\ (n + 1) - 1 = n /\ n + 2 \in 1..(n + 2) /\ (n + 2) - 1 = n + 1
  BY <1>0
<1>9. u[n + 1] = NextVal(c, lo) /\ u[n + 2] = NextVal(u[n + 1], hi)
  BY <1>4, <1>5, <1>7, <1>8 DEF Run
<1>10. Up(hi, 8) \in SUBSET Nat /\ hi \in SUBSET Nat
  <2>1. \A k \in hi : k \in Nat /\ k + 8 \in Nat
    BY <1>2 DEF Bytes
  <2> QED BY ONLY <2>1 DEF Up
<1>11. Xor(c, lo) = Up(hi, 8)
  BY <1>2 DEF Xor
<1>12. u[n + 1] = hi
  BY <1>1, <1>2, <1>9, <1>10, <1>11, NextValIs, Step8Up DEF Words, Bytes
<1>13. Xor(hi, hi) = {} /\ Up({}, 8) = {} /\ hi \in Words /\ {} \in SUBSET Nat
  BY <1>2 DEF Xor, Up, Words, Bytes
<1>14. u[n + 2] = {}
  <2>1. NextVal(hi, hi) = Step8({})
    BY <1>2, <1>13, NextValIs DEF Words, Bytes
  <2>2. Step8(Up({}, 8)) = {}
    BY <1>13, Step8Up
  <2> QED BY <1>9, <1>12, <1>13, <2>1, <2>2
<1>15. crc(frame) = {}
  BY <1>4, <1>5, <1>14, CrcIs
<1> QED BY <1>4, <1>15 DEF frame

(* Flipping the bits e of the bytes flips in the CRC the remainder of e.   *)
LEMMA CrcLinear ==
  ASSUME NEW bytes \in Seq(Bytes), NEW e \in Seq(Bytes), Len(e) = Len(bytes),
         NEW d, Run(d, {}, e)
  PROVE  LET other == [i \in DOMAIN bytes |-> Xor(bytes[i], e[i])]
         IN  other \in Seq(Bytes) /\ crc(other) = Xor(crc(bytes), d[Len(bytes)])
<1> DEFINE n == Len(bytes)
           other == [i \in DOMAIN bytes |-> Xor(bytes[i], e[i])]
<1>1. n \in Nat /\ DOMAIN bytes = 1..n /\ \A i \in 1..n : bytes[i] \in Bytes /\ e[i] \in Bytes
  OBVIOUS
<1>2. \A i \in 1..n : Xor(bytes[i], e[i]) \in Bytes
  BY <1>1 DEF Xor, Bytes
<1>3. other \in Seq(Bytes) /\ Len(other) = n /\ \A i \in 1..n : other[i] = Xor(bytes[i], e[i])
  BY <1>1, <1>2
<1> HIDE DEF other
<1>4. PICK v : Run(v, 0..15, bytes)
  BY RunExists DEF Words
<1> DEFINE u == [i \in 0..n |-> Xor(v[i], d[i])]
<1>5. \A i \in 0..n : v[i] \in Words /\ d[i] \in Words
  BY <1>4 DEF Run
<1>6. u \in [0..n -> Words]
  BY <1>5 DEF Xor, Words
<1>7. v[0] = 0..15 /\ d[0] = {} /\ 0 \in 0..n
  BY <1>1, <1>4 DEF Run
<1>8. u[0] = 0..15
  BY <1>7 DEF Xor
<1>9. ASSUME NEW i \in 1..n PROVE u[i] = NextVal(u[i - 1], other[i])
  <2>1. i - 1 \in 0..n /\ i \in 0..n
    BY <1>1
  <2> DEFINE V == v[i - 1]  D == d[i - 1]  B == bytes[i]  E == e[i]
  <2>2. V \in Words /\ D \in Words /\ B \in Bytes /\ E \in Bytes
    BY <1>1, <1>5, <2>1
  <2>3. v[i] = NextVal(V, B) /\ d[i] = NextVal(D, E) /\ u[i] = Xor(v[i], d[i]) /\ u[i - 1] = Xor(V, D)
    BY <1>4, <2>1 DEF Run
  <2>4. other[i] = Xor(B, E)
    BY <1>3
  <2> HIDE DEF V, D, B, E, u
  <2>5. /\ Xor(V, B) \in SUBSET Nat /\ Xor(D, E) \in SUBSET Nat
        /\ Xor(V, D) \in SUBSET (0..15) /\ Xor(B, E) \in SUBSET (0..7)
    BY <2>2 DEF Xor, Words, Bytes
  <2>6. NextVal(V, B) = Step8(Xor(V, B)) /\ NextVal(D, E) = Step8(Xor(D, E))
    BY <2>2, NextValIs DEF Words, Bytes
  <2>7. NextVal(Xor(V, D), Xor(B, E)) = Step8(Xor(Xor(V, D), Xor(B, E)))
    BY <2>5, NextValIs
  <2>8. Xor(Xor(V, D), Xor(B, E)) = Xor(Xor(V, B), Xor(D, E))
    BY XorGroups
  <2>9. Step8(Xor(Xor(V, B), Xor(D, E))) = Xor(Step8(Xor(V, B)), Step8(Xor(D, E)))
    BY <2>5, Step8Linear
  <2> QED BY <2>3, <2>4, <2>6, <2>7, <2>8, <2>9
<1>10. Run(u, 0..15, other)
  BY <1>3, <1>6, <1>8, <1>9 DEF Run
<1>11. crc(other) = u[n] /\ crc(bytes) = v[n] /\ n \in 0..n
  BY <1>1, <1>3, <1>4, <1>10, CrcIs
<1>12. crc(other) = Xor(crc(bytes), d[n])
  BY <1>11
<1> QED BY <1>3, <1>12 DEF other

(* The division taken one bit at a time, of a word as long as the frame.   *)
LEMMA Division ==
  ASSUME NEW word \in SUBSET Nat, NEW n \in Nat
  PROVE  \E w : /\ w \in [0..n -> SUBSET Nat] /\ w[0] = word
                /\ \A i \in 1..n : w[i] = Step(w[i - 1])
<1> DEFINE g == [p \in (1..n) \X SUBSET Nat |-> Step(p[2])]
<1>1. g \in [(1..n) \X SUBSET Nat -> SUBSET Nat]
  BY StepIn
<1>2. \A i \in 1..n, w \in SUBSET Nat : g[<<i, w>>] = Step(w)
  OBVIOUS
<1> HIDE DEF g
<1>3. Recursion(SUBSET Nat, word, n, g)
  BY <1>1 DEF Recursion
<1>4. PICK w : Recursed(w, SUBSET Nat, word, n, g)
  BY <1>3, RecursionExists
<1>5. w \in [0..n -> SUBSET Nat] /\ w[0] = word /\ \A i \in 1..n : w[i] = g[<<i, w[i - 1]>>]
  BY <1>4 DEF Recursed
<1>6. \A i \in 1..n : i - 1 \in 0..n /\ w[i - 1] \in SUBSET Nat
  BY <1>5
<1>7. \A i \in 1..n : w[i] = Step(w[i - 1])
  BY <1>2, <1>5, <1>6
<1> QED BY <1>5, <1>7

(* A burst of at most 16 bits, of which the first is in the frame, leaves  *)
(* a remainder: the polynomial has the bits 0 and 15.                      *)
LEMMA BurstRemains ==
  ASSUME NEW n \in Nat, NEW first \in 0..(8 * n - 1),
         NEW burst \in SUBSET (0..15), 0 \in burst,
         NEW w, w \in [0..(8 * n) -> SUBSET Nat],
         w[0] = Up({b \in burst : first + b < 8 * n}, first),
         \A i \in 1..(8 * n) : w[i] = Step(w[i - 1])
  PROVE  w[8 * n] # {}
<1> DEFINE N == 8 * n
           G == {b \in burst : first + b < N}
           S == {t \in Nat : t <= first => w[t] = Up(G, first - t)}
           R == {t \in Nat : first + t <= N => w[first + t] \in Words /\ w[first + t] # {}}
<1>1. N \in Nat /\ first \in Nat /\ first < N /\ G \in SUBSET (0..15) /\ 0 \in G
  <2>1. N \in Nat /\ first \in Nat /\ first < N /\ first + 0 < N
    OBVIOUS
  <2>2. G \in SUBSET (0..15)
    OBVIOUS
  <2> HIDE DEF N
  <2> QED BY <2>1, <2>2
<1>2. w[0] = Up(G, first) /\ \A i \in 1..N : w[i] = Step(w[i - 1])
  OBVIOUS
<1> HIDE DEF N, G
<1>3. 0 \in S
  <2>1. first - 0 = first
    BY <1>1
  <2> QED BY <1>2, <2>1
<1>4. ASSUME NEW t \in Nat, t \in S PROVE t + 1 \in S
  <2> SUFFICES ASSUME t + 1 <= first PROVE w[t + 1] = Up(G, first - (t + 1))
    OBVIOUS
  <2> DEFINE k == first - (t + 1)
  <2>1. k \in Nat /\ first - t = k + 1 /\ t + 1 \in 1..N /\ (t + 1) - 1 = t /\ t <= first
    BY <1>1
  <2> HIDE DEF k
  <2>2. w[t] = Up(G, k + 1)
    BY <1>4, <2>1
  <2>3. Step(Up(G, k + 1)) = Up(G, k)
    BY <1>1, <2>1, StepUp
  <2>4. w[t + 1] = Up(G, k)
    BY <1>2, <2>1, <2>2, <2>3
  <2> QED BY <2>4 DEF k
<1> HIDE DEF S
<1>5. Nat \subseteq S
  BY <1>3, <1>4, SetInduction
<1>6. w[first] = Up(G, 0)
  <2>1. first \in S /\ first - first = 0
    BY <1>1, <1>5
  <2> QED BY <1>1, <2>1 DEF S
<1>7. Up(G, 0) = G
  <2>1. \A b \in G : b + 0 = b
    BY <1>1
  <2> QED BY <2>1 DEF Up
<1>8. 0 \in R
  <2>1. first + 0 = first
    BY <1>1
  <2> QED BY <1>1, <1>6, <1>7, <2>1 DEF Words
<1>9. ASSUME NEW t \in Nat, t \in R PROVE t + 1 \in R
  <2> SUFFICES ASSUME first + (t + 1) <= N
               PROVE  w[first + (t + 1)] \in Words /\ w[first + (t + 1)] # {}
    OBVIOUS
  <2>1. first + (t + 1) \in 1..N /\ (first + (t + 1)) - 1 = first + t /\ first + t <= N
    BY <1>1
  <2>2. w[first + t] \in Words /\ w[first + t] # {}
    BY <1>9, <2>1
  <2>3. w[first + (t + 1)] = Step(w[first + t])
    BY <1>2, <2>1
  <2> QED BY <2>2, <2>3, StepKeeps DEF Words
<1> HIDE DEF R
<1>10. Nat \subseteq R
  BY <1>8, <1>9, SetInduction
<1>11. N - first \in R /\ first + (N - first) = N
  BY <1>1, <1>10
<1>12. w[N] # {}
  BY <1>1, <1>11 DEF R
<1> QED BY <1>12 DEF N

LEMMA Step8Of ==
  ASSUME NEW n \in Nat, NEW w,
         \A i \in 1..(8 * n) : w[i] = Step(w[i - 1]),
         NEW i \in Nat, i < n
  PROVE  w[8 * (i + 1)] = Step8(w[8 * i])
<1> DEFINE k == 8 * i
<1>1. k \in Nat /\ k + 8 <= 8 * n /\ 8 * (i + 1) = k + 8
  OBVIOUS
<1> HIDE DEF k
<1>2. /\ w[k + 1] = Step(w[k]) /\ w[k + 2] = Step(w[k + 1]) /\ w[k + 3] = Step(w[k + 2])
      /\ w[k + 4] = Step(w[k + 3]) /\ w[k + 5] = Step(w[k + 4]) /\ w[k + 6] = Step(w[k + 5])
      /\ w[k + 7] = Step(w[k + 6]) /\ w[k + 8] = Step(w[k + 7])
  <2>1. /\ (k + 1) - 1 = k /\ (k + 2) - 1 = k + 1 /\ (k + 3) - 1 = k + 2 /\ (k + 4) - 1 = k + 3
        /\ (k + 5) - 1 = k + 4 /\ (k + 6) - 1 = k + 5 /\ (k + 7) - 1 = k + 6 /\ (k + 8) - 1 = k + 7
    BY <1>1
  <2>2. \A m \in {1, 2, 3, 4, 5, 6, 7, 8} : k + m \in 1..(8 * n) /\ w[k + m] = Step(w[(k + m) - 1])
    BY <1>1
  <2> QED BY <2>1, <2>2
<1>3. w[k + 8] = Step8(w[k])
  BY <1>2 DEF Step8
<1> QED BY <1>1, <1>3 DEF k

LEMMA LowOrHigh ==
  \A x : /\ x \in Nat <=> (x \in 0..7 \/ (x \in Nat /\ x >= 8))
         /\ ~(x \in 0..7 /\ x \in Nat /\ x >= 8)
<1> TAKE x
<1>1. CASE x \in Nat
  BY <1>1
<1>2. CASE x \notin Nat
  BY <1>2
<1> QED BY <1>1, <1>2

(* ... and so does the remainder crc computes a byte at a time.            *)
LEMMA BurstSeen ==
  ASSUME NEW n \in Nat, NEW first \in 0..(8 * n - 1),
         NEW burst \in SUBSET (0..15), 0 \in burst,
         NEW e \in Seq(Bytes), Len(e) = n,
         \A i \in 1..n : e[i] = Byte(Up(burst, first), i - 1),
         NEW d, Run(d, {}, e)
  PROVE  d[n] # {}
<1> DEFINE G == {b \in burst : first + b < 8 * n}
           F == Up(G, first)
           Rest(i) == {x \in Nat : x + 8 * i \in F}
<1>1. F \in SUBSET Nat /\ \A x \in F : x < 8 * n
  <2> SUFFICES ASSUME NEW x \in F PROVE x \in Nat /\ x < 8 * n
    OBVIOUS
  <2>1. PICK b \in G : x = b + first
    BY DEF Up
  <2>2. b \in Nat /\ first \in Nat /\ first + b < 8 * n
    OBVIOUS
  <2> QED BY <2>1, <2>2
<1>2. PICK w : /\ w \in [0..(8 * n) -> SUBSET Nat] /\ w[0] = F
               /\ \A i \in 1..(8 * n) : w[i] = Step(w[i - 1])
  <2>1. 8 * n \in Nat
    OBVIOUS
  <2> HIDE DEF F
  <2> QED BY <1>1, <2>1, Division
<1> DEFINE S == {i \in Nat : i <= n => w[8 * i] = Xor(d[i], Rest(i))}
<1>3. w[8 * n] # {}
  BY <1>2, BurstRemains
<1>4. ASSUME NEW i \in Nat, i < n
      PROVE  /\ Rest(i) = Xor(e[i + 1], Up(Rest(i + 1), 8))
             /\ e[i + 1] \in SUBSET (0..7)
  <2>1. i + 1 \in 1..n /\ (i + 1) - 1 = i
    BY <1>4
  <2>2. e[i + 1] = {x - 8 * i : x \in Up(burst, first) \cap ((8 * i)..(8 * i + 7))}
    BY <2>1 DEF Byte
  <2>3. ASSUME NEW x PROVE x \in e[i + 1] <=> x \in 0..7 /\ x + 8 * i \in F
    <3>1. ASSUME x \in e[i + 1] PROVE x \in 0..7 /\ x + 8 * i \in F
      <4>1. PICK y \in Up(burst, first) \cap ((8 * i)..(8 * i + 7)) : x = y - 8 * i
        BY <2>2, <3>1
      <4>2. PICK b \in burst : y = b + first
        BY <4>1 DEF Up
      <4>3. x \in 0..7 /\ x + 8 * i = b + first /\ first + b < 8 * n
        BY <1>4, <4>1, <4>2
      <4> QED BY <4>3 DEF Up
    <3>2. ASSUME x \in 0..7, x + 8 * i \in F PROVE x \in e[i + 1]
      <4>1. x + 8 * i \in Up(burst, first)
        BY <3>2 DEF Up
      <4>2. x + 8 * i \in (8 * i)..(8 * i + 7) /\ x = (x + 8 * i) - 8 * i
        BY <1>4, <3>2
      <4> QED BY <2>2, <4>1, <4>2
    <3> QED BY <3>1, <3>2
  <2>4. ASSUME NEW x PROVE x \in Up(Rest(i + 1), 8) <=> x \in Nat /\ x >= 8 /\ x + 8 * i \in F
    <3>1. ASSUME x \in Up(Rest(i + 1), 8) PROVE x \in Nat /\ x >= 8 /\ x + 8 * i \in F
      <4>1. PICK y \in Nat : y + 8 * (i + 1) \in F /\ x = y + 8
        BY <3>1 DEF Up
      <4>2. x \in Nat /\ x >= 8 /\ x + 8 * i = y + 8 * (i + 1)
        BY <4>1
      <4> QED BY <4>1, <4>2
    <3>2. ASSUME x \in Nat, x >= 8, x + 8 * i \in F PROVE x \in Up(Rest(i + 1), 8)
      <4>1. x - 8 \in Nat /\ (x - 8) + 8 * (i + 1) = x + 8 * i /\ x = (x - 8) + 8
        BY <3>2
      <4>2. x - 8 \in Rest(i + 1)
        BY <3>2, <4>1
      <4> HIDE DEF Rest
      <4> QED BY <4>1, <4>2 DEF Up
    <3> QED BY <3>1, <3>2
  <2>5. \A x : x \in Rest(i) <=> x \in Nat /\ x + 8 * i \in F
    OBVIOUS
  <2> HIDE DEF Rest, F
  <2>6. \A x : x \in Rest(i) <=> x \in Xor(e[i + 1], Up(Rest(i + 1), 8))
    <3> SUFFICES ASSUME NEW x PROVE x \in Rest(i) <=> x \in Xor(e[i + 1], Up(Rest(i + 1), 8))
      OBVIOUS
    <3>1. x \in Nat <=> (x \in 0..7 \/ (x \in Nat /\ x >= 8))
      BY LowOrHigh
    <3>2. ~(x \in 0..7 /\ x \in Nat /\ x >= 8)
      BY LowOrHigh
    <3> QED BY <2>3, <2>4, <2>5, <3>1, <3>2, XorIn
  <2>7. e[i + 1] \subseteq 0..7
    BY <2>3
  <2> QED BY <2>6, <2>7
<1>5. \A i \in 0..n : d[i] \in Words
  BY DEF Run
<1>6. 0 \in S
  <2>1. Rest(0) = F
    BY <1>1
  <2>2. d[0] = {} /\ 8 * 0 = 0
    BY DEF Run
  <2> HIDE DEF Rest, F
  <2>3. Xor({}, Rest(0)) = Rest(0)
    BY XorIn
  <2>4. w[8 * 0] = Xor(d[0], Rest(0))
    BY <1>2, <2>1, <2>2, <2>3
  <2> QED BY <2>4
<1>7. ASSUME NEW i \in Nat, i \in S PROVE i + 1 \in S
  <2> SUFFICES ASSUME i + 1 <= n PROVE w[8 * (i + 1)] = Xor(d[i + 1], Rest(i + 1))
    OBVIOUS
  <2>1. i < n /\ i \in 0..n /\ i + 1 \in 1..n /\ (i + 1) - 1 = i /\ w[8 * i] = Xor(d[i], Rest(i))
    BY <1>7
  <2> DEFINE E == e[i + 1]  D == d[i]  U == Rest(i + 1)
  <2>2. Rest(i) = Xor(E, Up(U, 8)) /\ E \in SUBSET (0..7)
    BY <1>4, <2>1
  <2>3. U \in SUBSET Nat
    OBVIOUS
  <2>4. D \in Words
    BY <1>5, <2>1
  <2>5. d[i + 1] = NextVal(D, E)
    BY <2>1 DEF Run
  <2>6. w[8 * (i + 1)] = Step8(w[8 * i])
    BY <1>2, <2>1, Step8Of
  <2> HIDE DEF E, D, U, Rest
  <2>7. w[8 * i] = Xor(Xor(D, E), Up(U, 8))
    BY <2>1, <2>2, XorGroups DEF D
  <2>8. Xor(D, E) \in SUBSET Nat /\ Up(U, 8) \in SUBSET Nat
    BY <2>2, <2>3, <2>4 DEF Xor, Up, Words
  <2>9. Step8(Xor(Xor(D, E), Up(U, 8))) = Xor(Step8(Xor(D, E)), Step8(Up(U, 8)))
    BY <2>8, Step8Linear
  <2>10. Step8(Up(U, 8)) = U
    BY <2>3, Step8Up
  <2>11. NextVal(D, E) = Step8(Xor(D, E))
    BY <2>2, <2>4, NextValIs DEF Words
  <2>12. w[8 * (i + 1)] = Xor(d[i + 1], U)
    BY <2>5, <2>6, <2>7, <2>9, <2>10, <2>11
  <2> QED BY <2>12 DEF U
<1> HIDE DEF S
<1>8. Nat \subseteq S
  BY <1>6, <1>7, SetInduction
<1>9. w[8 * n] = Xor(d[n], Rest(n))
  <2>1. n \in S
    BY <1>8
  <2> HIDE DEF Rest
  <2> QED BY <2>1 DEF S
<1>10. Rest(n) = {}
  <2> SUFFICES ASSUME NEW x \in Nat, x + 8 * n \in F PROVE FALSE
    OBVIOUS
  <2>1. x + 8 * n < 8 * n
    BY <1>1
  <2> QED BY <2>1
<1> HIDE DEF Rest
<1>11. w[8 * n] = d[n]
  BY <1>9, <1>10, XorIn
<1> QED BY <1>3, <1>11

(* A whole frame that the line damages has a false CRC.                    *)
LEMMA DamageSeen ==
  ASSUME NEW bytes \in Seq(Bytes), crc(bytes) = {}, NEW burst \in Bursts,
         NEW first \in 0..(8 * Len(bytes) - 1)
  PROVE  LET other == [i \in DOMAIN bytes |->
                         Xor(bytes[i], Byte({first + b : b \in burst}, i - 1))]
         IN  other \in Seq(Bytes) /\ Len(other) = Len(bytes) /\ crc(other) # {}
<1> DEFINE n == Len(bytes)
           e == [i \in 1..n |-> Byte(Up(burst, first), i - 1)]
           other == [i \in DOMAIN bytes |-> Xor(bytes[i], Byte({first + b : b \in burst}, i - 1))]
<1>1. n \in Nat /\ DOMAIN bytes = 1..n /\ first \in 0..(8 * n - 1)
  OBVIOUS
<1>2. burst \in SUBSET (0..15) /\ 0 \in burst
  BY FrameAssumption
<1>3. {first + b : b \in burst} = Up(burst, first)
  <2>1. \A b \in burst : first + b = b + first
    BY <1>1, <1>2
  <2> QED BY <2>1 DEF Up
<1>4. \A i \in 1..n : Byte(Up(burst, first), i - 1) \in Bytes
  <2> SUFFICES ASSUME NEW i \in 1..n, NEW x \in Byte(Up(burst, first), i - 1) PROVE x \in 0..7
    BY DEF Bytes
  <2>1. PICK y \in (8 * (i - 1))..(8 * (i - 1) + 7) : x = y - 8 * (i - 1)
    BY DEF Byte
  <2> QED BY <1>1, <2>1
<1>5. /\ e \in Seq(Bytes) /\ Len(e) = n
      /\ \A i \in 1..n : e[i] = Byte(Up(burst, first), i - 1)
  BY <1>1, <1>4
<1>6. other = [i \in DOMAIN bytes |-> Xor(bytes[i], e[i])]
  BY <1>1, <1>3
<1>7. Len(other) = n
  BY <1>1
<1> HIDE DEF e, other
<1>8. PICK d : Run(d, {}, e)
  BY <1>5, RunExists DEF Words
<1>9. d[n] # {}
  <2> HIDE DEF n
  <2> QED BY <1>1, <1>2, <1>5, <1>8, BurstSeen
<1>10. other \in Seq(Bytes) /\ crc(other) = Xor(crc(bytes), d[n])
  BY <1>5, <1>6, <1>8, CrcLinear
<1>11. Xor({}, d[n]) = d[n]
  BY XorIn
<1> QED BY <1>7, <1>9, <1>10, <1>11 DEF other

LEMMA FrameFields ==
  ASSUME NEW bytes \in Seq(Bytes)
  PROVE  /\ WithCrc(bytes) \in Seq(Bytes) /\ crc(WithCrc(bytes)) = {}
         /\ Len(WithCrc(bytes)) = Len(bytes) + 2
         /\ \A i \in 1..Len(bytes) : WithCrc(bytes)[i] = bytes[i]
<1>1. crc(bytes) \in Words
  BY CrcIs
<1>2. Byte(crc(bytes), 0) \in Bytes /\ Byte(crc(bytes), 1) \in Bytes
  BY <1>1, ByteSplit DEF Words, Bytes
<1>3. /\ Len(WithCrc(bytes)) = Len(bytes) + 2
      /\ \A i \in 1..Len(bytes) : WithCrc(bytes)[i] = bytes[i]
  BY <1>2 DEF WithCrc
<1> QED BY <1>3, CrcWithCrc

LEMMA Numbers ==
  /\ Number(1) = {0} /\ Number(2) = {1} /\ Number(3) = {0, 1}
  /\ Number(4) = {2} /\ Number(16) = {4}
<1>1. \A n : Number(n) = {b \in {0, 1, 2, 3, 4, 5, 6, 7} : (n \div Weight[b + 1]) % 2 = 1}
  <2>1. 0..7 = {0, 1, 2, 3, 4, 5, 6, 7}
    OBVIOUS
  <2> QED BY <2>1 DEF Number
<1>2. /\ Weight[0 + 1] = 1 /\ Weight[1 + 1] = 2 /\ Weight[2 + 1] = 4 /\ Weight[3 + 1] = 8
      /\ Weight[4 + 1] = 16 /\ Weight[5 + 1] = 32 /\ Weight[6 + 1] = 64 /\ Weight[7 + 1] = 128
  BY DEF Weight
<1>3. Number(1) = {0}
  BY <1>1, <1>2
<1>4. Number(2) = {1}
  BY <1>1, <1>2
<1>5. Number(3) = {0, 1}
  BY <1>1, <1>2
<1>6. Number(4) = {2}
  BY <1>1, <1>2
<1>7. Number(16) = {4}
  BY <1>1, <1>2
<1> QED BY <1>3, <1>4, <1>5, <1>6, <1>7

(* A register written from two bytes, and read from two.                   *)
LEMMA TwoBytes ==
  ASSUME NEW word \in SUBSET (0..31)
  PROVE  /\ \A i \in 0..3 : Byte(word, i) \in Bytes
         /\ AtByte(Byte(word, 1), 1) \cup Byte(word, 0) = word \cap (0..15)
         /\ AtByte(Byte(word, 1), 1) \cup AtByte(Byte(word, 0), 0) = word \cap (0..15)
         /\ AtByte(Byte(word, 3), 1) \cup Byte(word, 2) = {b - 16 : b \in word \cap (16..31)}
         /\ AtByte(Byte(word, 1), 3) \cup AtByte(Byte(word, 0), 2) = AtByte(word \cap (0..15), 2)
         /\ (word \cap (0..15)) \cup AtByte({b - 16 : b \in word \cap (16..31)}, 2) = word
<1>1. /\ \A i \in 0..3 : Byte(word, i) = {b - 8 * i : b \in word \cap ((8 * i)..(8 * i + 7))}
      /\ Byte(word, 0) = {b - 8 * 0 : b \in word \cap ((8 * 0)..(8 * 0 + 7))}
      /\ Byte(word, 1) = {b - 8 * 1 : b \in word \cap ((8 * 1)..(8 * 1 + 7))}
      /\ Byte(word, 2) = {b - 8 * 2 : b \in word \cap ((8 * 2)..(8 * 2 + 7))}
      /\ Byte(word, 3) = {b - 8 * 3 : b \in word \cap ((8 * 3)..(8 * 3 + 7))}
  BY DEF Byte
<1>2. Byte(word, 0) = word \cap (0..7)
  BY <1>1
<1>3. Byte(word, 1) = {b - 8 : b \in word \cap (8..15)}
  BY <1>1
<1>4. Byte(word, 2) = {b - 16 : b \in word \cap (16..23)}
  BY <1>1
<1>5. Byte(word, 3) = {b - 24 : b \in word \cap (24..31)}
  BY <1>1
<1>6. AtByte(Byte(word, 0), 0) = word \cap (0..7)
  BY <1>2 DEF AtByte
<1>7. AtByte(Byte(word, 1), 1) = word \cap (8..15)
  <2>1. AtByte(Byte(word, 1), 1) = {(b - 8) + 8 * 1 : b \in word \cap (8..15)}
    BY <1>3 DEF AtByte
  <2>2. \A b \in word \cap (8..15) : (b - 8) + 8 * 1 = b
    OBVIOUS
  <2> QED BY <2>1, <2>2
<1>8. AtByte(Byte(word, 3), 1) = {b - 16 : b \in word \cap (24..31)}
  BY <1>5 DEF AtByte
<1>9. AtByte(Byte(word, 1), 3) = {b + 16 : b \in word \cap (8..15)}
  BY <1>3 DEF AtByte
<1>10. AtByte(Byte(word, 0), 2) = {b + 16 : b \in word \cap (0..7)}
  BY <1>2 DEF AtByte
<1>11. AtByte(word \cap (0..15), 2) = {b + 16 : b \in word \cap (0..15)}
  BY DEF AtByte
<1>12. AtByte({b - 16 : b \in word \cap (16..31)}, 2) = word \cap (16..31)
  <2>1. AtByte({b - 16 : b \in word \cap (16..31)}, 2) = {(b - 16) + 8 * 2 : b \in word \cap (16..31)}
    BY DEF AtByte
  <2>2. \A b \in word \cap (16..31) : (b - 16) + 8 * 2 = b
    OBVIOUS
  <2> QED BY <2>1, <2>2
<1>13. \A i \in 0..3 : Byte(word, i) \in Bytes
  BY <1>1 DEF Bytes
<1>14. (word \cap (8..15)) \cup (word \cap (0..7)) = word \cap (0..15)
  OBVIOUS
<1>15. {b - 16 : b \in word \cap (24..31)} \cup {b - 16 : b \in word \cap (16..23)}
         = {b - 16 : b \in word \cap (16..31)}
  OBVIOUS
<1>16. {b + 16 : b \in word \cap (8..15)} \cup {b + 16 : b \in word \cap (0..7)}
         = {b + 16 : b \in word \cap (0..15)}
  OBVIOUS
<1>17. (word \cap (0..15)) \cup (word \cap (16..31)) = word
  <2>1. \A b \in word : b \in 0..15 \/ b \in 16..31
    OBVIOUS
  <2> QED BY <2>1
<1> QED BY <1>2, <1>4, <1>6, <1>7, <1>8, <1>9, <1>10, <1>11, <1>12, <1>13, <1>14, <1>15, <1>16, <1>17

-----------------------------------------------------------------------------
(* The requests: their bytes as the slave reads them.                      *)

LEMMA Appended ==
  ASSUME NEW s \in Seq(Bytes), NEW t \in Seq(Bytes), Len(s) = 6
  PROVE  /\ s \o t \in Seq(Bytes) /\ Len(s \o t) = 6 + Len(t)
         /\ \A i \in 1..6 : (s \o t)[i] = s[i]
         /\ \A i \in 1..Len(t) : (s \o t)[6 + i] = t[i]
<1>1. /\ s \o t \in Seq(Bytes) /\ Len(s \o t) = Len(s) + Len(t)
      /\ \A i \in 1..(Len(s) + Len(t)) :
           (s \o t)[i] = IF i <= Len(s) THEN s[i] ELSE t[i - Len(s)]
  BY ConcatProperties
<1>2. Len(t) \in Nat /\ \A i \in 1..Len(t) : 6 + i \in 1..(6 + Len(t)) /\ ~(6 + i <= 6) /\ (6 + i) - 6 = i
  OBVIOUS
<1>3. \A i \in 1..6 : i \in 1..(6 + Len(t)) /\ i <= 6
  BY <1>2
<1> QED BY <1>1, <1>2, <1>3

LEMMA HeaderIs ==
  ASSUME NEW func \in Bytes, count \in {1, 2}
  PROVE  /\ Header(func) \in Seq(Bytes) /\ Len(Header(func)) = 6
         /\ Header(func)[1] = DEVICE /\ Header(func)[2] = func
<1>1. Number(1) \in Bytes /\ Number(4) \in Bytes /\ {} \in Bytes /\ Number(count) \in Bytes
  BY DEF Bytes, Number
<1> QED BY <1>1 DEF Header, DEVICE

Functions == DEVICE \in Bytes /\ FUNC_READ \in Bytes /\ FUNC_WRITE \in Bytes /\ FUNC_READ # FUNC_WRITE

LEMMA FunctionsHold == Functions
  BY Numbers DEF Functions, DEVICE, FUNC_READ, FUNC_WRITE, Bytes

LEMMA ReadRequestIs ==
  ASSUME count \in {1, 2}
  PROVE  /\ ReadRequest \in Seq(Bytes) /\ crc(ReadRequest) = {}
         /\ ReadRequest[1] = DEVICE /\ ReadRequest[2] = FUNC_READ
<1>1. FUNC_READ \in Bytes
  BY FunctionsHold DEF Functions
<1> DEFINE h == Header(FUNC_READ)
<1>2. h \in Seq(Bytes) /\ Len(h) = 6 /\ h[1] = DEVICE /\ h[2] = FUNC_READ
  BY <1>1, HeaderIs
<1> HIDE DEF h
<1>3. WithCrc(h) \in Seq(Bytes) /\ crc(WithCrc(h)) = {} /\ \A i \in 1..Len(h) : WithCrc(h)[i] = h[i]
  BY <1>2, FrameFields
<1>4. 1 \in 1..Len(h) /\ 2 \in 1..Len(h)
  BY <1>2
<1>5. ReadRequest = WithCrc(h)
  BY DEF ReadRequest, h
<1> QED BY <1>2, <1>3, <1>4, <1>5

LEMMA Write16RequestIs ==
  ASSUME count \in {1, 2}, NEW data \in SUBSET (0..31)
  PROVE  LET frame == Write16Request(data)
         IN  /\ frame \in Seq(Bytes) /\ crc(frame) = {} /\ Len(frame) = 11
             /\ frame[1] = DEVICE /\ frame[2] = FUNC_WRITE /\ frame[7] = Number(2)
             /\ frame[8] = Byte(data, 1) /\ frame[9] = Byte(data, 0)
<1> DEFINE h == Header(FUNC_WRITE)  frame == Write16Request(data)
           b1 == Byte(data, 1)  b0 == Byte(data, 0)
<1>1. h \in Seq(Bytes) /\ Len(h) = 6 /\ h[1] = DEVICE /\ h[2] = FUNC_WRITE
  BY HeaderIs, FunctionsHold DEF Functions
<1>2. Number(2) \in Bytes /\ b1 \in Bytes /\ b0 \in Bytes
  <2>1. 0 \in 0..3 /\ 1 \in 0..3 /\ 2 \in 0..3 /\ 3 \in 0..3
    OBVIOUS
  <2>2. \A i \in 0..3 : Byte(data, i) \in Bytes
    BY TwoBytes
  <2> QED BY <2>1, <2>2, Numbers DEF Bytes
<1>3. frame = WithCrc(h \o <<Number(2), b1, b0>>)
  BY DEF Write16Request
<1> HIDE DEF h, frame, b1, b0
<1> DEFINE m == h \o <<Number(2), b1, b0>>
<1>4. /\ m \in Seq(Bytes) /\ Len(m) = 9 /\ m[1] = h[1] /\ m[2] = h[2]
      /\ m[7] = Number(2) /\ m[8] = b1 /\ m[9] = b0
  <2> DEFINE t == <<Number(2), b1, b0>>
  <2>1. t \in Seq(Bytes) /\ Len(t) = 3 /\ t[1] = Number(2) /\ t[2] = b1 /\ t[3] = b0
    BY <1>2
  <2> HIDE DEF t
  <2>2. m = h \o t
    BY DEF t
  <2>3. /\ m \in Seq(Bytes) /\ Len(m) = 9 /\ \A i \in 1..6 : m[i] = h[i]
        /\ \A i \in 1..3 : m[6 + i] = t[i]
    BY <1>1, <2>1, <2>2, Appended
  <2>4. m[6 + 1] = t[1] /\ m[6 + 2] = t[2] /\ m[6 + 3] = t[3]
    BY <2>3
  <2> QED BY <2>1, <2>3, <2>4
<1> HIDE DEF m
<1>5. frame = WithCrc(m)
  BY <1>3 DEF m
<1>6. frame \in Seq(Bytes) /\ crc(frame) = {} /\ Len(frame) = 11 /\ \A i \in 1..9 : frame[i] = m[i]
  <2>1. m \in Seq(Bytes) /\ Len(m) = 9
    BY <1>4
  <2>2. /\ frame \in Seq(Bytes) /\ crc(frame) = {} /\ Len(frame) = Len(m) + 2
        /\ \A i \in 1..Len(m) : frame[i] = m[i]
    BY <1>5, <2>1, FrameFields
  <2> QED BY <2>1, <2>2
<1> QED BY <1>1, <1>4, <1>6 DEF frame, b1, b0

LEMMA Write32RequestIs ==
  ASSUME count = 2, NEW data \in SUBSET (0..31)
  PROVE  LET frame == Write32Request(data)
         IN  /\ frame \in Seq(Bytes) /\ crc(frame) = {} /\ Len(frame) = 13
             /\ frame[1] = DEVICE /\ frame[2] = FUNC_WRITE /\ frame[7] = Number(4)
             /\ frame[8] = Byte(data, 1) /\ frame[9] = Byte(data, 0)
             /\ frame[10] = Byte(data, 3) /\ frame[11] = Byte(data, 2)
<1> DEFINE h == Header(FUNC_WRITE)  frame == Write32Request(data)
           b1 == Byte(data, 1)  b0 == Byte(data, 0)  b3 == Byte(data, 3)  b2 == Byte(data, 2)
<1>1. h \in Seq(Bytes) /\ Len(h) = 6 /\ h[1] = DEVICE /\ h[2] = FUNC_WRITE
  BY HeaderIs, FunctionsHold DEF Functions
<1>2. Number(4) \in Bytes /\ b1 \in Bytes /\ b0 \in Bytes /\ b3 \in Bytes /\ b2 \in Bytes
  <2>1. 0 \in 0..3 /\ 1 \in 0..3 /\ 2 \in 0..3 /\ 3 \in 0..3
    OBVIOUS
  <2>2. \A i \in 0..3 : Byte(data, i) \in Bytes
    BY TwoBytes
  <2> QED BY <2>1, <2>2, Numbers DEF Bytes
<1>3. frame = WithCrc(h \o <<Number(4), b1, b0, b3, b2>>)
  BY DEF Write32Request
<1> HIDE DEF h, frame, b1, b0, b3, b2
<1> DEFINE m == h \o <<Number(4), b1, b0, b3, b2>>
<1>4. /\ m \in Seq(Bytes) /\ Len(m) = 11 /\ m[1] = h[1] /\ m[2] = h[2]
      /\ m[7] = Number(4) /\ m[8] = b1 /\ m[9] = b0 /\ m[10] = b3 /\ m[11] = b2
  <2> DEFINE t == <<Number(4), b1, b0, b3, b2>>
  <2>1. t \in Seq(Bytes) /\ Len(t) = 5 /\ t[1] = Number(4) /\ t[2] = b1 /\ t[3] = b0 /\ t[4] = b3 /\ t[5] = b2
    BY <1>2
  <2> HIDE DEF t
  <2>2. m = h \o t
    BY DEF t
  <2>3. /\ m \in Seq(Bytes) /\ Len(m) = 11 /\ \A i \in 1..6 : m[i] = h[i]
        /\ \A i \in 1..5 : m[6 + i] = t[i]
    BY <1>1, <2>1, <2>2, Appended
  <2>4. m[6 + 1] = t[1] /\ m[6 + 2] = t[2] /\ m[6 + 3] = t[3] /\ m[6 + 4] = t[4] /\ m[6 + 5] = t[5]
    BY <2>3
  <2> QED BY <2>1, <2>3, <2>4
<1> HIDE DEF m
<1>5. frame = WithCrc(m)
  BY <1>3 DEF m
<1>6. frame \in Seq(Bytes) /\ crc(frame) = {} /\ Len(frame) = 13 /\ \A i \in 1..11 : frame[i] = m[i]
  <2>1. m \in Seq(Bytes) /\ Len(m) = 11
    BY <1>4
  <2>2. /\ frame \in Seq(Bytes) /\ crc(frame) = {} /\ Len(frame) = Len(m) + 2
        /\ \A i \in 1..Len(m) : frame[i] = m[i]
    BY <1>5, <2>1, FrameFields
  <2> QED BY <2>1, <2>2
<1> QED BY <1>1, <1>4, <1>6 DEF frame, b1, b0, b3, b2

-----------------------------------------------------------------------------
(* The exchange.                                                           *)

FrameTypes ==
  /\ op \in [kind : {"none", "read", "write16", "write32"}, data : SUBSET (0..31)]
  /\ count \in {1, 2} /\ memory \in [1..2 -> Words]
  /\ bus \in Seq(Bytes)
  /\ rxbuf \in [{"read", "write"} -> [1..9 -> Bytes]] /\ rx_len \in 0..9
  /\ whose \in {"master", "slave", "answer", "done"}
  /\ fault \in {"none", "burst", "cut", "lost"} /\ faults \in Nat

Request == CASE op.kind = "write16" -> Write16Request(op.data)
             [] op.kind = "write32" -> Write32Request(op.data)
             [] OTHER -> ReadRequest

(* An answer says what the slave holds; an exception says nothing.         *)
Right(frame) ==
  /\ op.kind = "read" =>
       /\ Len(frame) = READ_EXPECTED_CHARACTERS + 2 * count
       /\ frame[3] = Number(2 * count)
       /\ frame[4] = Byte(memory[1], 1) /\ frame[5] = Byte(memory[1], 0)
       /\ count = 2 => frame[6] = Byte(memory[2], 1) /\ frame[7] = Byte(memory[2], 0)
  /\ op.kind # "read" =>
       \/ Len(frame) = ERROR_PACKET_LEN
       \/ /\ Len(frame) = WRITE_EXPECTED_CHARACTERS
          /\ Held = (IF count = 1 THEN op.data \cap 0..15 ELSE op.data)
          /\ op.kind = "write16" => memory[1] = op.data

(* What was received, unless it misses a character within, begins an       *)
(* answer that says what the slave holds.                                  *)
AnswerBegun ==
  \/ fault = "lost" /\ (op.kind # "read" => rx_len < WRITE_EXPECTED_CHARACTERS)
  \/ \E frame \in Seq(Bytes) :
       /\ Right(frame) /\ rx_len <= Len(frame)
       /\ \A i \in 1..rx_len : rxbuf[Object][i] = frame[i]

FrameInv ==
  /\ FrameTypes
  /\ whose \in {"slave", "answer"} /\ fault = "none" => bus = <<>> \/ crc(bus) = {}
  /\ op.kind = "write16" => op.data \subseteq 0..15
  /\ whose = "slave" => op.kind # "none" /\ (crc(bus) # {} \/ bus = Request)
  /\ whose = "answer" => Len(bus) <= Asked /\ (crc(bus) # {} \/ Right(bus))
  /\ whose = "done" => crc(received) # {} \/ AnswerBegun

LEMMA FrameStart == FrameInit => FrameInv
<1> SUFFICES ASSUME FrameInit PROVE FrameInv
  OBVIOUS
<1>1. /\ op \in [kind : {"none", "read", "write16", "write32"}, data : SUBSET (0..31)]
      /\ op.kind = "none"
  BY DEF FrameInit
<1>2. count \in {1, 2}
  BY FrameAssumption DEF FrameInit
<1>3. memory \in [1..2 -> Words]
  BY DEF FrameInit, Words
<1>4. bus \in Seq(Bytes) /\ whose = "master"
  BY DEF FrameInit
<1>5. fault \in {"none", "burst", "cut", "lost"} /\ faults \in Nat /\ rx_len \in 0..9
  BY DEF FrameInit
<1>6. rxbuf \in [{"read", "write"} -> [1..9 -> Bytes]]
  BY FrameAssumption DEF FrameInit, Bytes
<1> QED BY <1>1, <1>2, <1>3, <1>4, <1>5, <1>6 DEF FrameInv, FrameTypes

(* A request of the master.                                                *)
LEMMA Started ==
  ASSUME FrameInv, NEW kind \in {"read", "write16", "write32"}, NEW data \in SUBSET (0..31),
         NEW request, Start(kind, data, request),
         kind = "write16" => data \subseteq 0..15,
         request \in Seq(Bytes), crc(request) = {}, request = Request'
  PROVE  FrameInv'
<1>1. /\ op' = [kind |-> kind, data |-> data] /\ bus' = request /\ rxbuf' = rxbuf
      /\ whose' = "slave" /\ count' = count /\ memory' = memory /\ fault' = "none"
      /\ faults' = faults /\ rx_len' = rx_len
  BY DEF Start
<1>2. /\ op' \in [kind : {"none", "read", "write16", "write32"}, data : SUBSET (0..31)]
      /\ op'.kind = kind /\ op'.data = data
  BY <1>1
<1>3. FrameTypes'
  BY <1>1, <1>2 DEF FrameInv, FrameTypes
<1> QED BY <1>1, <1>2, <1>3 DEF FrameInv

LEMMA MasterSteps ==
  ASSUME FrameInv, Read \/ \E data \in Data : Write16(data) \/ Write32(data)
  PROVE  FrameInv'
<1>1. count \in {1, 2}
  BY DEF FrameInv, FrameTypes
<1>2. CASE Read
  <2>1. op'.kind = "read" /\ count' = count
    BY <1>2 DEF Read, Start
  <2>2. Request' = ReadRequest
    BY <2>1 DEF Request, ReadRequest, Header
  <2>3. Start("read", {}, ReadRequest)
    BY <1>2 DEF Read
  <2> QED BY <1>1, <2>2, <2>3, Started, ReadRequestIs
<1>3. ASSUME NEW data \in Data, Write16(data) PROVE FrameInv'
  <2> DEFINE low == data \cap 0..15
  <2>1. data \in SUBSET (0..31) /\ low \in SUBSET (0..31) /\ low \subseteq 0..15
    BY FrameAssumption
  <2>2. op'.kind = "write16" /\ op'.data = low /\ count' = count
    BY <1>3 DEF Write16, Start
  <2>3. Byte(low, 0) = Byte(data, 0) /\ Byte(low, 1) = Byte(data, 1)
    BY DEF Byte
  <2>4. Request' = Write16Request(data)
    BY <2>2, <2>3 DEF Request, Write16Request, Header
  <2>5. Start("write16", low, Write16Request(data))
    BY <1>3 DEF Write16
  <2> HIDE DEF low
  <2>6. Write16Request(data) \in Seq(Bytes) /\ crc(Write16Request(data)) = {}
    BY <1>1, <2>1, Write16RequestIs
  <2> QED BY <2>1, <2>4, <2>5, <2>6, Started
<1>4. ASSUME NEW data \in Data, Write32(data) PROVE FrameInv'
  <2>1. data \in SUBSET (0..31)
    BY FrameAssumption
  <2>2. op'.kind = "write32" /\ op'.data = data /\ count' = count
    BY <1>4 DEF Write32, Start
  <2>3. Request' = Write32Request(data)
    BY <2>2 DEF Request, Write32Request, Write16Request, Header
  <2>4. Start("write32", data, Write32Request(data))
    BY <1>4 DEF Write32
  <2>5. Write32Request(data) \in Seq(Bytes) /\ crc(Write32Request(data)) = {}
    <3>1. CASE count = 1
      BY <1>1, <2>1, <3>1, Write16RequestIs DEF Write32Request
    <3>2. CASE count = 2
      BY <2>1, <3>2, Write32RequestIs
    <3> QED BY <1>1, <3>1, <3>2
  <2> QED BY <2>1, <2>3, <2>4, <2>5, Started
<1> QED BY <1>2, <1>3, <1>4

LEMMA DamageStep ==
  ASSUME FrameInv, NEW burst \in Bursts, NEW first \in 0..103, Damage(first, burst)
  PROVE  FrameInv'
<1>1. bus \in Seq(Bytes) /\ faults \in Nat /\ FrameTypes
  BY DEF FrameInv, FrameTypes
<1>2. /\ fault = "none" /\ fault' = "burst" /\ faults' = faults + 1
      /\ whose \in {"slave", "answer"} /\ UNCHANGED <<op, count, memory, whose, rxbuf, rx_len>>
  BY DEF Damage, Fails
<1>3. first \in 0..(8 * Len(bus) - 1)
  <2>1. first + 8 \in 8..(8 * Len(bus) + 7) /\ Len(bus) \in Nat
    BY <1>1 DEF Damage
  <2> QED BY <2>1
<1>4. bus # <<>>
  <2>1. Len(bus) # 0
    BY <1>1, <1>3
  <2>2. Len(<<>>) = 0
    OBVIOUS
  <2> QED BY <2>1, <2>2
<1>5. crc(bus) = {}
  BY <1>2, <1>4 DEF FrameInv
<1>6. bus' \in Seq(Bytes) /\ Len(bus') = Len(bus) /\ crc(bus') # {}
  BY <1>1, <1>3, <1>5, DamageSeen DEF Damage
<1>7. fault' # "none"
  BY <1>2
<1>8. FrameTypes'
  <2>1. fault' \in {"none", "burst", "cut", "lost"} /\ faults' \in Nat
    BY <1>1, <1>2
  <2> QED BY <1>1, <1>2, <1>6, <2>1 DEF FrameTypes
<1>9. Asked' = Asked
  BY <1>2 DEF Asked
<1>10. whose' = "slave" => op'.kind # "none"
  BY <1>2 DEF FrameInv
<1>11. whose' = "answer" => Len(bus') <= Asked'
  BY <1>2, <1>6, <1>9 DEF FrameInv
<1>12. (op'.kind = "write16" => op'.data \subseteq 0..15) /\ whose' # "done"
  BY <1>2 DEF FrameInv
<1> QED BY <1>6, <1>7, <1>8, <1>10, <1>11, <1>12 DEF FrameInv

(* The answer to a request to read.                                        *)
LEMMA ReadAnswered ==
  ASSUME FrameTypes,
         NEW frame, frame = WithCrc(<<DEVICE, FUNC_READ, Number(2 * count)>>
                       \o [i \in 1..2 * count |-> Byte(memory[(i + 1) \div 2], i % 2)])
  PROVE  /\ frame \in Seq(Bytes) /\ crc(frame) = {} /\ Len(frame) = 5 + 2 * count
         /\ frame[3] = Number(2 * count)
         /\ frame[4] = Byte(memory[1], 1) /\ frame[5] = Byte(memory[1], 0)
         /\ count = 2 => frame[6] = Byte(memory[2], 1) /\ frame[7] = Byte(memory[2], 0)
<1> DEFINE h == <<DEVICE, FUNC_READ, Number(2 * count)>>
           t == [i \in 1..2 * count |-> Byte(memory[(i + 1) \div 2], i % 2)]
           m == h \o t
<1>1. h \in Seq(Bytes) /\ Len(h) = 3 /\ h[3] = Number(2 * count)
  <2>1. Number(2 * count) \in Bytes
    BY DEF Number, Bytes
  <2> QED BY <2>1, FunctionsHold DEF Functions
<1>2. count \in {1, 2} /\ memory[1] \in Words /\ memory[2] \in Words
  BY DEF FrameTypes
<1>3. ASSUME NEW i \in 1..2 * count PROVE Byte(memory[(i + 1) \div 2], i % 2) \in Bytes
  <2>1. (i + 1) \div 2 \in {1, 2} /\ i % 2 \in {0, 1}
    BY <1>2
  <2>2. memory[(i + 1) \div 2] \in SUBSET (0..15)
    BY <1>2, <2>1 DEF Words
  <2> QED BY <2>1, <2>2, ByteSplit DEF Bytes
<1>4. t \in Seq(Bytes) /\ Len(t) = 2 * count
  BY <1>2, <1>3
<1>5. /\ t[1] = Byte(memory[1], 1) /\ t[2] = Byte(memory[1], 0)
      /\ count = 2 => t[3] = Byte(memory[2], 1) /\ t[4] = Byte(memory[2], 0)
  <2>1. /\ (1 + 1) \div 2 = 1 /\ 1 % 2 = 1 /\ (2 + 1) \div 2 = 1 /\ 2 % 2 = 0
        /\ (3 + 1) \div 2 = 2 /\ 3 % 2 = 1 /\ (4 + 1) \div 2 = 2 /\ 4 % 2 = 0
    OBVIOUS
  <2>2. 1 \in 1..2 * count /\ 2 \in 1..2 * count /\ (count = 2 => 3 \in 1..2 * count /\ 4 \in 1..2 * count)
    BY <1>2
  <2> QED BY <2>1, <2>2
<1> HIDE DEF h, t
<1>6. /\ m \in Seq(Bytes) /\ Len(m) = Len(h) + Len(t)
      /\ \A i \in 1..(Len(h) + Len(t)) : m[i] = IF i <= Len(h) THEN h[i] ELSE t[i - Len(h)]
  BY <1>1, <1>4, ConcatProperties
<1> HIDE DEF m
<1>7. Len(m) = 3 + 2 * count
  BY <1>1, <1>4, <1>6
<1>8. /\ m[3] = h[3] /\ m[4] = t[1] /\ m[5] = t[2]
      /\ count = 2 => m[6] = t[3] /\ m[7] = t[4]
  <2>1. \A i \in 1..(3 + 2 * count) : m[i] = IF i <= 3 THEN h[i] ELSE t[i - 3]
    BY <1>1, <1>4, <1>6
  <2>2. /\ 3 \in 1..(3 + 2 * count) /\ 4 \in 1..(3 + 2 * count) /\ 5 \in 1..(3 + 2 * count)
        /\ count = 2 => 6 \in 1..(3 + 2 * count) /\ 7 \in 1..(3 + 2 * count)
    BY <1>2
  <2>3. 4 - 3 = 1 /\ 5 - 3 = 2 /\ 6 - 3 = 3 /\ 7 - 3 = 4 /\ 3 <= 3 /\ ~(4 <= 3) /\ ~(5 <= 3) /\ ~(6 <= 3) /\ ~(7 <= 3)
    OBVIOUS
  <2> QED BY <2>1, <2>2, <2>3
<1>9. frame = WithCrc(m)
  BY DEF m, h, t
<1>10. frame \in Seq(Bytes) /\ crc(frame) = {} /\ Len(frame) = Len(m) + 2 /\ \A i \in 1..Len(m) : frame[i] = m[i]
  BY <1>6, <1>9, FrameFields
<1>11. Len(frame) = 5 + 2 * count
  BY <1>2, <1>7, <1>10
<1>12. /\ 3 \in 1..Len(m) /\ 4 \in 1..Len(m) /\ 5 \in 1..Len(m)
       /\ count = 2 => 6 \in 1..Len(m) /\ 7 \in 1..Len(m)
  BY <1>2, <1>7
<1> QED BY <1>1, <1>5, <1>8, <1>10, <1>11, <1>12

(* What the slave writes for a request that is whole.                      *)
LEMMA WholeWrite ==
  ASSUME FrameTypes, bus = Request, bus[2] = FUNC_WRITE, bus[7] = Number(2 * count)
  PROVE  /\ op.kind \in {"write16", "write32"} /\ Len(bus) >= 6
         /\ Written[1] = op.data \cap 0..15
         /\ count = 2 => Written[2] = {b - 16 : b \in op.data \cap 16..31}
         /\ count = 1 => Written[2] = memory[2]
         /\ op.kind = "write16" => count = 1
<1>1. count \in {1, 2} /\ op.kind \in {"none", "read", "write16", "write32"} /\ op.data \in SUBSET (0..31)
  BY DEF FrameTypes
<1>2. op.kind \in {"write16", "write32"}
  <2>1. ASSUME op.kind \notin {"write16", "write32"} PROVE FALSE
    <3>1. Request = ReadRequest
      BY <2>1 DEF Request
    <3> QED BY <1>1, <3>1, ReadRequestIs, FunctionsHold DEF Functions
  <2> QED BY <2>1
<1>3. /\ Number(2 * 1) = Number(2) /\ Number(2 * 2) = Number(4) /\ Number(2) # Number(4)
      /\ count = 1 => Number(2 * count) = Number(2)
      /\ count = 2 => Number(2 * count) = Number(4)
  <2>1. 2 * 1 = 2 /\ 2 * 2 = 4
    OBVIOUS
  <2> QED BY <2>1, Numbers
<1>4. /\ AtByte(Byte(op.data, 1), 1) \cup Byte(op.data, 0) = op.data \cap (0..15)
      /\ AtByte(Byte(op.data, 3), 1) \cup Byte(op.data, 2) = {b - 16 : b \in op.data \cap (16..31)}
  BY <1>1, TwoBytes
<1>5. /\ 6 + 2 * 1 = 8 /\ 7 + 2 * 1 = 9 /\ 6 + 2 * 2 = 10 /\ 7 + 2 * 2 = 11
      /\ 1 <= count /\ (count = 2 => 2 <= count) /\ (count = 1 => ~(2 <= count))
  BY <1>1
<1>6. /\ Written[1] = AtByte(bus[8], 1) \cup bus[9]
      /\ count = 2 => Written[2] = AtByte(bus[10], 1) \cup bus[11]
      /\ count = 1 => Written[2] = memory[2]
  <2>1. /\ Written[1] = IF 1 <= count THEN AtByte(bus[6 + 2 * 1], 1) \cup bus[7 + 2 * 1] ELSE memory[1]
        /\ Written[2] = IF 2 <= count THEN AtByte(bus[6 + 2 * 2], 1) \cup bus[7 + 2 * 2] ELSE memory[2]
    BY DEF Written
  <2> QED BY <1>1, <1>5, <2>1
<1>7. CASE bus = Write16Request(op.data) /\ (count = 1 \/ op.kind = "write16")
  <2>1. bus[7] = Number(2) /\ bus[8] = Byte(op.data, 1) /\ bus[9] = Byte(op.data, 0) /\ Len(bus) = 11
    BY <1>1, <1>7, Write16RequestIs
  <2>2. count = 1
    BY <1>1, <1>3, <2>1
  <2> QED BY <1>2, <1>4, <1>6, <2>1, <2>2
<1>8. CASE bus = Write32Request(op.data) /\ count = 2 /\ op.kind = "write32"
  <2>1. /\ bus[8] = Byte(op.data, 1) /\ bus[9] = Byte(op.data, 0) /\ Len(bus) = 13
        /\ bus[10] = Byte(op.data, 3) /\ bus[11] = Byte(op.data, 2)
    BY <1>1, <1>8, Write32RequestIs
  <2> QED BY <1>4, <1>6, <1>8, <2>1
<1> QED BY <1>1, <1>2, <1>7, <1>8 DEF Request, Write32Request

LEMMA WholeRead ==
  ASSUME FrameTypes, bus = Request, op.kind = "read"
  PROVE  bus[2] = FUNC_READ
<1>1. Request = ReadRequest
  BY DEF Request
<1> QED BY <1>1, ReadRequestIs DEF FrameTypes

LEMMA WholeWriteFunction ==
  ASSUME FrameTypes, bus = Request, op.kind \in {"write16", "write32"}
  PROVE  bus[2] = FUNC_WRITE
<1>1. count \in {1, 2} /\ op.data \in SUBSET (0..31)
  BY DEF FrameTypes
<1>2. Write16Request(op.data)[2] = FUNC_WRITE
  BY <1>1, Write16RequestIs
<1>3. Write32Request(op.data)[2] = FUNC_WRITE
  <2>1. CASE count = 1
    BY <1>2, <2>1 DEF Write32Request
  <2>2. CASE count = 2
    BY <1>1, <2>2, Write32RequestIs
  <2> QED BY <1>1, <2>1, <2>2
<1> QED BY <1>2, <1>3 DEF Request

LEMMA AnswerStep ==
  ASSUME FrameInv, SlaveAnswers
  PROVE  FrameInv'
<1>1. /\ FrameTypes /\ op.kind # "none" /\ bus = Request
      /\ whose' = "answer" /\ UNCHANGED <<op, count, fault, faults, rxbuf, rx_len>>
      /\ op.kind = "write16" => op.data \subseteq 0..15
  BY DEF FrameInv, SlaveAnswers, failures
<1>2. count \in {1, 2} /\ op.kind \in {"read", "write16", "write32"} /\ op.data \in SUBSET (0..31)
  BY <1>1 DEF FrameTypes
<1>3. Asked' = Asked
  BY <1>1 DEF Asked
<1>4. SUFFICES /\ memory' \in [1..2 -> Words] /\ bus' \in Seq(Bytes) /\ crc(bus') = {}
               /\ Len(bus') <= Asked /\ Right(bus)'
  <2>1. FrameTypes'
    BY <1>1, <1>4 DEF FrameTypes
  <2> QED BY <1>1, <1>3, <1>4, <2>1 DEF FrameInv
<1>5. CASE op.kind = "read"
  <2>1. bus[2] = FUNC_READ /\ FUNC_READ # FUNC_WRITE
    BY <1>1, <1>5, WholeRead, FunctionsHold DEF Functions
  <2>2. /\ bus' = WithCrc(<<DEVICE, FUNC_READ, Number(2 * count)>>
                        \o [i \in 1..2 * count |-> Byte(memory[(i + 1) \div 2], i % 2)])
        /\ memory' = memory
    BY <2>1 DEF SlaveAnswers
  <2>3. /\ bus' \in Seq(Bytes) /\ crc(bus') = {} /\ Len(bus') = 5 + 2 * count
        /\ bus'[3] = Number(2 * count)
        /\ bus'[4] = Byte(memory[1], 1) /\ bus'[5] = Byte(memory[1], 0)
        /\ count = 2 => bus'[6] = Byte(memory[2], 1) /\ bus'[7] = Byte(memory[2], 0)
    BY <1>1, <2>2, ReadAnswered
  <2>4. Right(bus)'
    BY <1>1, <1>5, <2>2, <2>3 DEF Right, READ_EXPECTED_CHARACTERS
  <2>5. Len(bus') <= Asked
    BY <1>2, <1>5, <2>3 DEF Asked, READ_EXPECTED_CHARACTERS
  <2> QED BY <1>1, <2>2, <2>3, <2>4, <2>5 DEF FrameTypes
<1>6. CASE op.kind \in {"write16", "write32"}
  <2>1. bus[2] = FUNC_WRITE /\ FUNC_READ # FUNC_WRITE
    BY <1>1, <1>6, WholeWriteFunction, FunctionsHold DEF Functions
  <2>2. Asked = 8
    BY <1>6 DEF Asked, WRITE_EXPECTED_CHARACTERS
  <2>3. CASE bus[7] = Number(2 * count)
    <3>1. memory' = Written /\ bus' = WithCrc(SubSeq(bus, 1, 6))
      BY <2>1, <2>3 DEF SlaveAnswers
    <3>2. /\ Len(bus) >= 6
          /\ Written[1] = op.data \cap 0..15
          /\ count = 2 => Written[2] = {b - 16 : b \in op.data \cap 16..31}
          /\ count = 1 => Written[2] = memory[2]
          /\ op.kind = "write16" => count = 1
      BY <1>1, <2>1, <2>3, WholeWrite
    <3>3. memory' \in [1..2 -> Words]
      <4>1. Written[1] \in Words
        BY <3>2 DEF Words
      <4>2. {b - 16 : b \in op.data \cap 16..31} \in Words
        BY DEF Words
      <4>3. Written[2] \in Words
        <5>1. memory[2] \in Words
          BY <1>1 DEF FrameTypes
        <5>2. CASE count = 1
          BY <3>2, <5>1, <5>2
        <5>3. CASE count = 2
          BY <3>2, <4>2, <5>3
        <5> QED BY <1>2, <5>2, <5>3
      <4>4. Written = [r \in 1..2 |-> Written[r]]
        BY DEF Written
      <4>5. \A r \in 1..2 : r = 1 \/ r = 2
        OBVIOUS
      <4> HIDE DEF Written
      <4> QED BY <3>1, <4>1, <4>3, <4>4, <4>5
    <3>4. SubSeq(bus, 1, 6) \in Seq(Bytes) /\ Len(SubSeq(bus, 1, 6)) = 6
      <4>1. bus \in Seq(Bytes) /\ Len(bus) >= 6
        BY <1>1, <3>2 DEF FrameTypes
      <4> QED BY <4>1
    <3>5. bus' \in Seq(Bytes) /\ crc(bus') = {} /\ Len(bus') = 8
      <4> DEFINE s == SubSeq(bus, 1, 6)
      <4>1. s \in Seq(Bytes) /\ Len(s) = 6 /\ bus' = WithCrc(s)
        BY <3>1, <3>4
      <4> HIDE DEF s
      <4>2. WithCrc(s) \in Seq(Bytes) /\ crc(WithCrc(s)) = {} /\ Len(WithCrc(s)) = Len(s) + 2
        BY <4>1, FrameFields
      <4> QED BY <4>1, <4>2
    <3>6. memory'[1] = op.data \cap 0..15 /\ (count = 2 => memory'[2] = {b - 16 : b \in op.data \cap 16..31})
      BY <3>1, <3>2
    <3>7. Held' = (IF count = 1 THEN op.data \cap 0..15 ELSE op.data)
      <4>1. count' = count
        BY <1>1
      <4>2. CASE count = 1
        BY <3>6, <4>1, <4>2 DEF Held
      <4>3. CASE count = 2
        <5>1. Held' = memory'[1] \cup AtByte(memory'[2], 2)
          BY <4>1, <4>3 DEF Held, AtByte
        <5>2. Held' = (op.data \cap 0..15) \cup AtByte({b - 16 : b \in op.data \cap 16..31}, 2)
          BY <3>6, <4>3, <5>1
        <5>3. (op.data \cap (0..15)) \cup AtByte({b - 16 : b \in op.data \cap (16..31)}, 2) = op.data
          BY <1>2, TwoBytes
        <5> QED BY <4>3, <5>2, <5>3
      <4> QED BY <1>2, <4>2, <4>3
    <3>8. op.kind = "write16" => memory'[1] = op.data
      BY <1>1, <3>6
    <3>9. op.kind # "read"
      BY <1>6
    <3>10. Right(bus)'
      BY <1>1, <3>5, <3>7, <3>8, <3>9 DEF Right, WRITE_EXPECTED_CHARACTERS
    <3> QED BY <2>2, <3>3, <3>5, <3>10
  <2>4. CASE bus[7] # Number(2 * count)
    <3>1. memory' = memory /\ bus' = Exception
      BY <2>1, <2>4 DEF SlaveAnswers
    <3>2. <<DEVICE, bus[2] \cup {7}, Number(3)>> \in Seq(Bytes)
      <4>1. bus[2] \cup {7} \in Bytes /\ Number(3) \in Bytes /\ DEVICE \in Bytes
        BY <2>1, FunctionsHold, Numbers DEF Bytes, Functions
      <4> QED BY <4>1
    <3>3. bus' \in Seq(Bytes) /\ crc(bus') = {} /\ Len(bus') = 5
      <4> DEFINE s == <<DEVICE, bus[2] \cup {7}, Number(3)>>
      <4>1. s \in Seq(Bytes) /\ Len(s) = 3 /\ bus' = WithCrc(s)
        BY <3>1, <3>2 DEF Exception
      <4> HIDE DEF s
      <4>2. WithCrc(s) \in Seq(Bytes) /\ crc(WithCrc(s)) = {} /\ Len(WithCrc(s)) = Len(s) + 2
        BY <4>1, FrameFields
      <4> QED BY <4>1, <4>2
    <3>4. op.kind # "read"
      BY <1>6
    <3>5. Right(bus)'
      BY <1>1, <3>3, <3>4 DEF Right, ERROR_PACKET_LEN
    <3> QED BY <1>1, <2>2, <3>1, <3>3, <3>5 DEF FrameTypes
  <2> QED BY <2>3, <2>4
<1> QED BY <1>2, <1>5, <1>6

(* What the receive DMA leaves of the characters that came.                *)
LEMMA Delivered ==
  ASSUME FrameTypes, NEW chars \in Seq(Bytes), Len(chars) <= Asked, Deliver(chars)
  PROVE  /\ whose = "answer" /\ whose' = "done" /\ UNCHANGED <<op, count, memory, bus>>
         /\ rx_len' = Len(chars) /\ rx_len' \in 0..9 /\ Object' = Object
         /\ rxbuf' \in [{"read", "write"} -> [1..9 -> Bytes]]
         /\ \A i \in 1..rx_len' : rxbuf'[Object][i] = chars[i]
         /\ received' = chars
<1> DEFINE n == IF Asked < Len(chars) THEN Asked ELSE Len(chars)
           kept == [i \in 1..9 |-> IF i <= n THEN chars[i] ELSE rxbuf[Object][i]]
<1>1. /\ whose = "answer" /\ whose' = "done" /\ UNCHANGED <<op, count, memory, bus>>
      /\ rx_len' = n /\ rxbuf' = [rxbuf EXCEPT ![Object] = kept]
  BY DEF Deliver
<1>2. Asked \in 0..9
  <2>1. count \in {1, 2}
    BY DEF FrameTypes
  <2> QED BY <2>1 DEF Asked, READ_EXPECTED_CHARACTERS, WRITE_EXPECTED_CHARACTERS
<1>3. Len(chars) \in Nat /\ n = Len(chars) /\ n \in 0..9
  <2>1. Len(chars) \in Nat /\ Len(chars) <= Asked
    OBVIOUS
  <2> DEFINE a == Asked  l == Len(chars)
  <2>2. a \in 0..9 /\ l \in Nat /\ l <= a
    BY <1>2, <2>1
  <2> HIDE DEF a, l
  <2>3. l \in 0..9 /\ l = IF a < l THEN a ELSE l
    BY ONLY <2>2
  <2> QED BY ONLY <2>1, <2>3 DEF a, l
<1> HIDE DEF n
<1>4. Object \in {"read", "write"} /\ Object' = Object
  BY <1>1 DEF Object
<1>5. rxbuf \in [{"read", "write"} -> [1..9 -> Bytes]]
  BY DEF FrameTypes
<1>6. kept \in [1..9 -> Bytes] /\ \A i \in 1..n : kept[i] = chars[i]
  <2>1. \A i \in 1..9 : rxbuf[Object][i] \in Bytes
    BY <1>4, <1>5
  <2>2. \A i \in 1..9 : i <= n => chars[i] \in Bytes
    BY <1>3
  <2>3. \A i \in 1..n : i \in 1..9 /\ i <= n
    BY <1>3
  <2> QED BY <2>1, <2>2, <2>3
<1> HIDE DEF kept
<1>7. rxbuf' \in [{"read", "write"} -> [1..9 -> Bytes]] /\ rxbuf'[Object] = kept
  BY <1>1, <1>4, <1>5, <1>6
<1>8. received' = chars
  <2>1. received' = SubSeq(kept, 1, n)
    BY <1>1, <1>4, <1>7 DEF received
  <2>2. SubSeq(kept, 1, n) = [i \in 1..n |-> kept[i]]
    <3>1. kept \in Seq(Bytes) /\ Len(kept) = 9
      <4>1. DOMAIN kept = 1..9 /\ \A i \in 1..9 : kept[i] \in Bytes
        BY <1>6
      <4>2. [1..9 -> Bytes] \in {[1..k -> Bytes] : k \in Nat}
        OBVIOUS
      <4>3. kept \in Seq(Bytes)
        BY <1>6, <4>2, SeqDef
      <4>4. DOMAIN kept = 1..Len(kept) /\ Len(kept) \in Nat
        BY <4>3, LenProperties
      <4>5. Len(kept) = 9
        BY <4>1, <4>4
      <4> QED BY <4>3, <4>5
    <3> QED BY <1>3, <3>1
  <2>3. [i \in 1..n |-> kept[i]] = [i \in 1..n |-> chars[i]]
    BY <1>6
  <2>4. chars = [i \in 1..n |-> chars[i]]
    BY <1>3
  <2> QED BY <2>1, <2>2, <2>3, <2>4
<1> QED BY <1>1, <1>3, <1>4, <1>6, <1>7, <1>8

LEMMA ReceiveStep ==
  ASSUME FrameInv, Receive \/ \E n \in 0..8 : ReceiveCut(n) \/ ReceiveLost(n)
  PROVE  FrameInv'
<1>1. /\ FrameTypes /\ bus \in Seq(Bytes) /\ Len(bus) \in Nat /\ faults \in Nat
      /\ Asked \in Nat
      /\ (op.kind = "write16" => op.data \subseteq 0..15)
  <2>1. FrameTypes /\ bus \in Seq(Bytes) /\ faults \in Nat /\ count \in {1, 2}
    BY DEF FrameInv, FrameTypes
  <2>2. op.kind = "write16" => op.data \subseteq 0..15
    BY DEF FrameInv
  <2> QED BY <2>1, <2>2 DEF Asked, READ_EXPECTED_CHARACTERS, WRITE_EXPECTED_CHARACTERS
<1>2. whose = "answer" => /\ Len(bus) <= Asked /\ (crc(bus) # {} \/ Right(bus))
                          /\ fault = "none" => bus = <<>> \/ crc(bus) = {}
  BY DEF FrameInv
<1>3. ASSUME NEW chars \in Seq(Bytes), Deliver(chars), Len(chars) <= Asked,
             fault' \in {"none", "burst", "cut", "lost"}, faults' \in Nat,
             whose = "answer" /\ Object' = Object =>
               \/ crc(chars) # {}
               \/ /\ Right(bus) /\ Len(chars) <= Len(bus)
                  /\ \A i \in 1..Len(chars) : chars[i] = bus[i]
               \/ fault' = "lost" /\ (op.kind # "read" => Len(chars) < WRITE_EXPECTED_CHARACTERS)
      PROVE  FrameInv'
  <2>1. /\ whose = "answer" /\ whose' = "done" /\ UNCHANGED <<op, count, memory, bus>>
        /\ rx_len' = Len(chars) /\ rx_len' \in 0..9 /\ Object' = Object
        /\ rxbuf' \in [{"read", "write"} -> [1..9 -> Bytes]]
        /\ \A i \in 1..rx_len' : rxbuf'[Object][i] = chars[i]
        /\ received' = chars
    BY <1>1, <1>3, Delivered
  <2>2. FrameTypes'
    BY <1>1, <1>3, <2>1 DEF FrameTypes
  <2>3. crc(received') # {} \/ AnswerBegun'
    <3>1. CASE crc(chars) # {}
      BY <2>1, <3>1
    <3>2. CASE /\ Right(bus) /\ Len(chars) <= Len(bus)
               /\ \A i \in 1..Len(chars) : chars[i] = bus[i]
      <4>1. Right(bus)' /\ bus' \in Seq(Bytes) /\ rx_len' <= Len(bus')
        BY <1>1, <2>1, <3>2 DEF Right, Held
      <4>2. \A i \in 1..rx_len' : rxbuf'[Object'][i] = bus'[i]
        BY <2>1, <3>2
      <4> QED BY <4>1, <4>2 DEF AnswerBegun
    <3>3. CASE fault' = "lost" /\ (op.kind # "read" => Len(chars) < WRITE_EXPECTED_CHARACTERS)
      BY <2>1, <3>3 DEF AnswerBegun
    <3> QED BY <1>3, <2>1, <3>1, <3>2, <3>3
  <2> QED BY <1>1, <2>1, <2>2, <2>3 DEF FrameInv
<1>4. CASE Receive
  <2>1. Deliver(bus) /\ fault' = fault /\ faults' = faults /\ whose = "answer"
    BY <1>4 DEF Receive, Deliver, failures
  <2>2. fault' \in {"none", "burst", "cut", "lost"}
    BY <1>1, <2>1 DEF FrameTypes
  <2> QED BY <1>1, <1>2, <1>3, <2>1, <2>2
<1>5. ASSUME NEW n \in 0..8, ReceiveCut(n) PROVE FrameInv'
  <2>1. /\ n \in 0..(Len(bus) - 1) /\ fault = "none" /\ fault' = "cut" /\ faults' = faults + 1
        /\ Deliver(SubSeq(bus, 1, n)) /\ whose = "answer"
    BY <1>5 DEF ReceiveCut, Fails, Deliver
  <2> DEFINE chars == SubSeq(bus, 1, n)
  <2>2. chars \in Seq(Bytes) /\ Len(chars) = n /\ \A i \in 1..n : chars[i] = bus[i]
    BY <1>1, <2>1
  <2>3. bus # <<>>
    BY <1>1, <2>1
  <2>4. Right(bus) /\ n <= Len(bus) /\ n <= Asked
    BY <1>1, <1>2, <2>1, <2>3
  <2> HIDE DEF chars
  <2>5. Deliver(chars) /\ Len(chars) <= Asked /\ Len(chars) <= Len(bus)
    BY <2>1, <2>2, <2>4 DEF chars
  <2>6. fault' \in {"none", "burst", "cut", "lost"} /\ faults' \in Nat
    BY <1>1, <2>1
  <2> QED BY <1>3, <2>2, <2>4, <2>5, <2>6
<1>6. ASSUME NEW n \in 0..8, ReceiveLost(n) PROVE FrameInv'
  <2> DEFINE chars == SubSeq(bus, 1, n - 1) \o SubSeq(bus, n + 1, Len(bus))
  <2>1. /\ n \in 1..(Len(bus) - 1) /\ fault' = "lost" /\ faults' = faults + 1
        /\ Deliver(chars) /\ whose = "answer"
    BY <1>6 DEF ReceiveLost, Fails, Deliver
  <2>2. chars \in Seq(Bytes) /\ Len(chars) = Len(bus) - 1
    <3>1. SubSeq(bus, 1, n - 1) \in Seq(Bytes) /\ Len(SubSeq(bus, 1, n - 1)) = n - 1
      BY <1>1, <2>1
    <3>2. /\ SubSeq(bus, n + 1, Len(bus)) \in Seq(Bytes)
          /\ Len(SubSeq(bus, n + 1, Len(bus))) = Len(bus) - n
      BY <1>1, <2>1
    <3> QED BY <1>1, <2>1, <3>1, <3>2
  <2> HIDE DEF chars
  <2>3. Len(chars) <= Asked
    BY <1>1, <1>2, <2>1, <2>2
  <2>4. op.kind # "read" => Len(chars) < WRITE_EXPECTED_CHARACTERS
    <3>1. op.kind # "read" => Asked = 8
      BY DEF Asked, WRITE_EXPECTED_CHARACTERS
    <3> QED BY <1>1, <1>2, <2>1, <2>2, <3>1 DEF WRITE_EXPECTED_CHARACTERS
  <2>5. fault' \in {"none", "burst", "cut", "lost"} /\ faults' \in Nat
    BY <1>1, <2>1
  <2> QED BY <1>3, <2>1, <2>2, <2>3, <2>4, <2>5
<1> QED BY <1>4, <1>5, <1>6

LEMMA OtherSteps ==
  ASSUME FrameInv, SlaveIgnores \/ Again \/ UNCHANGED exchange
  PROVE  FrameInv'
<1>1. CASE SlaveIgnores
  <2>1. /\ whose' = "answer" /\ bus' = <<>> /\ UNCHANGED <<op, count, memory, fault, faults, rxbuf, rx_len>>
    BY <1>1 DEF SlaveIgnores, failures
  <2>2. crc(bus') # {} /\ Len(bus') = 0 /\ bus' \in Seq(Bytes)
    BY <2>1, CrcEmpty
  <2>3. FrameTypes'
    BY <2>1, <2>2 DEF FrameInv, FrameTypes
  <2>4. Asked' = Asked /\ Asked \in Nat
    BY <2>1 DEF Asked, FrameInv, FrameTypes, READ_EXPECTED_CHARACTERS, WRITE_EXPECTED_CHARACTERS
  <2> QED BY <2>1, <2>2, <2>3, <2>4 DEF FrameInv
<1>2. CASE Again
  <2>1. whose' = "master" /\ bus' = <<>> /\ UNCHANGED <<op, count, memory, fault, faults, rxbuf, rx_len>>
    BY <1>2 DEF Again, failures
  <2>2. FrameTypes'
    BY <2>1 DEF FrameInv, FrameTypes
  <2> QED BY <2>1, <2>2 DEF FrameInv
<1>3. CASE UNCHANGED exchange
  <2>1. UNCHANGED <<op, count, memory, bus, whose, fault, faults, rxbuf, rx_len>>
    BY <1>3 DEF exchange, failures
  <2>2. received' = received /\ Asked' = Asked
    BY <2>1 DEF received, Object, Asked
  <2>3. \A frame : Right(frame)' <=> Right(frame)
    BY <2>1 DEF Right, Held
  <2>4. AnswerBegun' <=> AnswerBegun
    BY <2>1, <2>3 DEF AnswerBegun, Object
  <2>5. Request' = Request
    BY <2>1 DEF Request, ReadRequest, Write16Request, Write32Request, Header
  <2>6. Right(bus)' <=> Right(bus)
    BY <2>1 DEF Right, Held
  <2>7. FrameTypes' <=> FrameTypes
    BY <2>1 DEF FrameTypes
  <2> QED BY <2>1, <2>2, <2>4, <2>5, <2>6, <2>7 DEF FrameInv
<1> QED BY <1>1, <1>2, <1>3

(* What is on the line or received is the request and its answer, or has   *)
(* a false CRC.                                                            *)
THEOREM FrameInvariant == FrameSpec => []FrameInv
<1>1. FrameInv /\ [FrameNext]_exchange => FrameInv'
  <2> SUFFICES ASSUME FrameInv, [FrameNext]_exchange PROVE FrameInv'
    OBVIOUS
  <2> QED BY MasterSteps, DamageStep, AnswerStep, ReceiveStep, OtherSteps DEF FrameNext
<1> QED BY <1>1, FrameStart, PTL DEF FrameSpec

(* An answer is_ok() lets through says what the slave holds, whatever a    *)
(* burst of 16 bits did to the request or the answer, and wherever the     *)
(* answer ended, once the characters of the value came.                    *)
THEOREM AcceptedIsTrueAlways == FrameSpec => []AcceptedIsTrue
<1>1. FrameInv => AcceptedIsTrue
  <2> SUFFICES ASSUME FrameInv, whose = "done", crc(received) = {}
               PROVE  /\ op.kind = "read" /\ fault # "lost" /\ rx_len >= 3 + 2 * count => get32 = Held
                      /\ op.kind = "write16" /\ WriteIsOk => memory[1] = op.data
                      /\ op.kind = "write32" /\ WriteIsOk =>
                           Held = (IF count = 1 THEN op.data \cap 0..15 ELSE op.data)
    BY DEF AcceptedIsTrue, ReadIsOk, WriteIsOk
  <2>1. AnswerBegun /\ FrameTypes
    BY DEF FrameInv
  <2>2. ASSUME op.kind = "read", fault # "lost", rx_len >= 3 + 2 * count PROVE get32 = Held
    <3>0. PICK frame \in Seq(Bytes) :
            /\ Right(frame) /\ rx_len <= Len(frame)
            /\ \A i \in 1..rx_len : rxbuf.read[i] = frame[i]
      BY <2>1, <2>2 DEF AnswerBegun, Object
    <3> DEFINE m1 == memory[1]  m2 == memory[2]
    <3>1. /\ count \in {1, 2} /\ m1 \in SUBSET (0..31) /\ m2 \in SUBSET (0..31)
          /\ m1 \cap (0..15) = m1 /\ m2 \cap (0..15) = m2
      BY <2>1 DEF FrameTypes, Words
    <3>2. /\ rxbuf.read[3] = Number(2 * count)
          /\ rxbuf.read[4] = Byte(m1, 1) /\ rxbuf.read[5] = Byte(m1, 0)
          /\ count = 2 => rxbuf.read[6] = Byte(m2, 1) /\ rxbuf.read[7] = Byte(m2, 0)
      <4>1. /\ frame[3] = Number(2 * count)
            /\ frame[4] = Byte(m1, 1) /\ frame[5] = Byte(m1, 0)
            /\ count = 2 => frame[6] = Byte(m2, 1) /\ frame[7] = Byte(m2, 0)
        BY <2>2, <3>0 DEF Right
      <4>2. rx_len \in 0..9 /\ count \in {1, 2}
        BY <2>1 DEF FrameTypes
      <4>3. /\ 3 \in 1..rx_len /\ 4 \in 1..rx_len /\ 5 \in 1..rx_len
            /\ count = 2 => 6 \in 1..rx_len /\ 7 \in 1..rx_len
        BY ONLY <2>2, <4>2
      <4> QED BY <3>0, <4>1, <4>3
    <3>3. 2 * 1 = 2 /\ 2 * 2 = 4
      OBVIOUS
    <3>4. get16 = m1
      <4>1. AtByte(Byte(m1, 1), 1) \cup AtByte(Byte(m1, 0), 0) = m1 \cap (0..15)
        BY <3>1, TwoBytes
      <4> QED BY <3>1, <3>2, <4>1 DEF get16
    <3>5. CASE count = 1
      <4>1. rxbuf.read[3] = Number(2)
        BY <3>2, <3>3, <3>5
      <4> QED BY <3>4, <3>5, <4>1 DEF get32, Held
    <3>6. CASE count = 2
      <4>0. rxbuf.read[3] = Number(4)
        BY <3>2, <3>3, <3>6
      <4>1. rxbuf.read[3] # Number(2)
        BY <4>0, Numbers
      <4>2. AtByte(Byte(m2, 1), 3) \cup AtByte(Byte(m2, 0), 2) = AtByte(m2 \cap (0..15), 2)
        BY <3>1, TwoBytes
      <4>3. get32 = AtByte(Byte(m2, 1), 3) \cup AtByte(Byte(m2, 0), 2) \cup get16
        BY <3>2, <3>6, <4>1 DEF get32, get16
      <4>4. get32 = AtByte(m2, 2) \cup m1
        BY <3>1, <3>4, <4>2, <4>3
      <4> QED BY <3>6, <4>4 DEF Held
    <3> QED BY <3>1, <3>5, <3>6
  <2>3. op.kind # "read" /\ WriteIsOk =>
          /\ Held = (IF count = 1 THEN op.data \cap 0..15 ELSE op.data)
          /\ op.kind = "write16" => memory[1] = op.data
    <3> SUFFICES ASSUME op.kind # "read", WriteIsOk
                 PROVE  /\ Held = (IF count = 1 THEN op.data \cap 0..15 ELSE op.data)
                        /\ op.kind = "write16" => memory[1] = op.data
      OBVIOUS
    <3>1. rx_len >= 8 /\ rx_len \in 0..9
      BY <2>1 DEF WriteIsOk, WRITE_EXPECTED_CHARACTERS, FrameTypes
    <3>2. PICK frame \in Seq(Bytes) : Right(frame) /\ rx_len <= Len(frame)
      <4>1. ~(rx_len < WRITE_EXPECTED_CHARACTERS)
        BY ONLY <3>1 DEF WRITE_EXPECTED_CHARACTERS
      <4> QED BY <2>1, <4>1 DEF AnswerBegun
    <3>3. Len(frame) # ERROR_PACKET_LEN
      <4>1. Len(frame) \in Nat
        OBVIOUS
      <4>2. rx_len <= Len(frame)
        BY <3>2
      <4> DEFINE l == Len(frame)
      <4>3. l \in Nat /\ rx_len <= l
        BY <4>1, <4>2
      <4> HIDE DEF l
      <4>4. l # 5
        BY ONLY <3>1, <4>3
      <4> QED BY ONLY <4>4 DEF l, ERROR_PACKET_LEN
    <3> QED BY <3>2, <3>3 DEF Right
  <2> QED BY <2>2, <2>3
<1> QED BY <1>1, FrameInvariant, PTL

(* The registers of the slave change only by a request to write that       *)
(* reached it whole, and to the value it asks for.                         *)
THEOREM OnlyRequestedWrittenAlways == FrameSpec => OnlyRequestedWritten
<1> DEFINE Asked4 ==
      memory' # memory =>
        /\ op.kind \in {"write16", "write32"}
        /\ memory'[1] = op.data \cap 0..15
        /\ count = 2 => memory'[2] = {b - 16 : b \in op.data \cap 16..31}
<1>1. FrameInv /\ [FrameNext]_exchange => [Asked4]_exchange
  <2> SUFFICES ASSUME FrameInv, FrameNext, memory' # memory
               PROVE  /\ op.kind \in {"write16", "write32"}
                      /\ memory'[1] = op.data \cap 0..15
                      /\ count = 2 => memory'[2] = {b - 16 : b \in op.data \cap 16..31}
    OBVIOUS
  <2>1. SlaveAnswers
    BY DEF FrameNext, Read, Write16, Write32, Start, SlaveIgnores, Damage, Receive, ReceiveCut,
           ReceiveLost, Deliver, Again
  <2>2. FrameTypes /\ bus = Request
    BY <2>1 DEF FrameInv, SlaveAnswers
  <2>3. bus[2] = FUNC_WRITE /\ bus[7] = Number(2 * count) /\ memory' = Written
    BY <2>1 DEF SlaveAnswers
  <2> QED BY <2>2, <2>3, WholeWrite
<1> HIDE DEF Asked4
<1>2. FrameSpec => [][Asked4]_exchange
  BY <1>1, FrameInvariant, PTL DEF FrameSpec
<1> QED BY <1>2, PTL DEF Asked4, OnlyRequestedWritten
-----------------------------------------------------------------------------
(* Pieces of a sequence: b holds x from position at on.                    *)

Holds(b, at, x) ==
  /\ at \in Nat \ {0} /\ at + Len(x) <= Len(b) + 1
  /\ \A j \in 1..Len(x) : b[at + j - 1] = x[j]

LEMMA HoldsAll ==
  ASSUME NEW T, NEW b \in Seq(T)
  PROVE  Holds(b, 1, b)
<1>1. Len(b) \in Nat /\ 1 + Len(b) <= Len(b) + 1 /\ \A j \in 1..Len(b) : 1 + j - 1 = j
  OBVIOUS
<1> QED BY <1>1 DEF Holds

LEMMA HoldsParts ==
  ASSUME NEW T, NEW b \in Seq(T), NEW x \in Seq(T), NEW y \in Seq(T), NEW at,
         Holds(b, at, x \o y)
  PROVE  Holds(b, at, x) /\ Holds(b, at + Len(x), y)
<1>1. /\ x \o y \in Seq(T) /\ Len(x \o y) = Len(x) + Len(y)
      /\ \A i \in 1..(Len(x) + Len(y)) : (x \o y)[i] = IF i <= Len(x) THEN x[i] ELSE y[i - Len(x)]
  BY ConcatProperties
<1>2. Len(x) \in Nat /\ Len(y) \in Nat /\ Len(b) \in Nat
  OBVIOUS
<1> DEFINE m == Len(x)  n == Len(y)
<1>3. /\ at \in Nat \ {0} /\ at + (m + n) <= Len(b) + 1
      /\ \A j \in 1..(m + n) : b[at + j - 1] = (x \o y)[j]
  BY <1>1 DEF Holds
<1> HIDE DEF m, n
<1>4. m \in Nat /\ n \in Nat
  BY <1>2 DEF m, n
<1>5. at + m \in Nat \ {0} /\ at + m <= Len(b) + 1 /\ (at + m) + n <= Len(b) + 1
  BY <1>2, <1>3, <1>4
<1>6. ASSUME NEW j \in 1..m PROVE b[at + j - 1] = x[j]
  <2>1. j \in 1..(m + n) /\ j <= m
    BY <1>4
  <2> QED BY <1>1, <1>3, <2>1 DEF m, n
<1>7. ASSUME NEW j \in 1..n PROVE b[(at + m) + j - 1] = y[j]
  <2>1. m + j \in 1..(m + n) /\ ~(m + j <= m) /\ (m + j) - m = j
    BY <1>4
  <2>2. (at + m) + j - 1 = at + (m + j) - 1
    BY <1>3, <1>4
  <2>3. (x \o y)[m + j] = y[j]
    BY <1>1, <2>1 DEF m, n
  <2> QED BY <1>3, <2>1, <2>2, <2>3
<1>8. Holds(b, at, x)
  BY <1>3, <1>5, <1>6 DEF Holds, m
<1>9. Holds(b, at + m, y)
  BY <1>5, <1>7 DEF Holds, n
<1> QED BY <1>8, <1>9 DEF m

LEMMA HoldsSub ==
  ASSUME NEW T, NEW b \in Seq(T), NEW x \in Seq(T), NEW at, NEW last, Holds(b, at, x),
         last = at + Len(x) - 1
  PROVE  SubSeq(b, at, last) = x
<1>1. Len(x) \in Nat /\ Len(b) \in Nat /\ at \in Nat \ {0} /\ at + Len(x) <= Len(b) + 1
  BY DEF Holds
<1> DEFINE s == SubSeq(b, at, last)
<1>2. s = [i \in 1..Len(x) |-> b[at + i - 1]]
  <2>1. at \in Int /\ last \in Int /\ last - at + 1 = Len(x)
    BY <1>1
  <2>2. s = [i \in 1..(last - at + 1) |-> b[at + i - 1]]
    BY <1>1, <2>1
  <2> QED BY <2>1, <2>2
<1>3. x = [i \in 1..Len(x) |-> x[i]]
  OBVIOUS
<1> QED BY <1>2, <1>3 DEF Holds

-----------------------------------------------------------------------------
(* The remaining length.                                                   *)

Two == 128 * 128
Three == 128 * 128 * 128

LEMMA Sizes ==
  /\ Two \in Nat /\ Three \in Nat /\ Three = 128 * Two
  /\ MAX_REMAINING \in Nat /\ MAX_REMAINING = 128 * Three - 1
  /\ 128 < Two /\ Two < Three
<1>1. Two \in Nat /\ 128 < Two
  BY DEF Two
<1>2. Three = 128 * Two
  BY DEF Two, Three
<1>3. Three \in Nat
  BY <1>1, <1>2
<1>4. MAX_REMAINING = 128 * Three - 1
  <2>1. MAX_REMAINING = Three * 128 - 1
    BY DEF MAX_REMAINING, Three
  <2> QED BY <1>3, <2>1
<1> QED BY <1>1, <1>2, <1>3, <1>4

LEMMA AtTwo ==
  ASSUME NEW q \in Nat, NEW r \in 0..127
  PROVE  r + 128 * q >= Two <=> q >= 128
  BY DEF Two

LEMMA Divide ==
  ASSUME NEW n \in 0..MAX_REMAINING
  PROVE  /\ n \div 128 \in 0..MAX_REMAINING /\ n % 128 \in 0..127
         /\ n = (n % 128) + 128 * (n \div 128)
         /\ n >= 128 => n \div 128 >= 1
         /\ n < Two => n \div 128 < 128
         /\ n >= Two => n \div 128 >= 128
         /\ n < Three => n \div 128 < Two
         /\ n >= Three => n \div 128 >= Two
         /\ n \div 128 < Three
<1>1. n \in Nat /\ n < 128 * Three
  BY Sizes
<1>2. n \div 128 \in Nat /\ n % 128 \in 0..127 /\ n = (n % 128) + 128 * (n \div 128)
  BY <1>1
<1> DEFINE q == n \div 128  r == n % 128
<1>3. q \in Nat /\ r \in 0..127 /\ n = r + 128 * q
  BY <1>2
<1> HIDE DEF q, r
<1>4. n >= Two <=> q >= 128
  BY <1>3, AtTwo
<1>5. /\ q \in 0..MAX_REMAINING
      /\ n >= 128 => q >= 1
      /\ n < Two => q < 128
      /\ n >= Two => q >= 128
      /\ n < Three => q < Two
      /\ n >= Three => q >= Two
      /\ q < Three
  BY <1>1, <1>3, <1>4, Sizes
<1> QED BY <1>3, <1>5 DEF q, r

(* MQTTPacket_encode() writes seven bits, and goes on with what is left.   *)
LEMMA EncodeIs ==
  ASSUME NEW n \in 0..MAX_REMAINING
  PROVE  encode[n] = IF n < 128 THEN <<n>> ELSE <<128 + (n % 128)>> \o encode[n \div 128]
<1> DEFINE e1(m) == <<m>>
           e2(m) == <<128 + (m % 128)>> \o e1(m \div 128)
           e3(m) == <<128 + (m % 128)>> \o e2(m \div 128)
           e4(m) == <<128 + (m % 128)>> \o e3(m \div 128)
           e(m) == IF m < 128 THEN e1(m) ELSE IF m < Two THEN e2(m)
                   ELSE IF m < Three THEN e3(m) ELSE e4(m)
           F == [m \in 0..MAX_REMAINING |-> e(m)]
           G(f) == [m \in 0..MAX_REMAINING |->
                      IF m < 128 THEN <<m>> ELSE <<128 + (m % 128)>> \o f[m \div 128]]
<1>1. ASSUME NEW m \in 0..MAX_REMAINING
      PROVE  e(m) = IF m < 128 THEN <<m>> ELSE <<128 + (m % 128)>> \o F[m \div 128]
  <2>1. /\ m \div 128 \in 0..MAX_REMAINING
        /\ m < Two => m \div 128 < 128
        /\ m >= Two => m \div 128 >= 128
        /\ m < Three => m \div 128 < Two
        /\ m >= Three => m \div 128 >= Two
        /\ m \div 128 < Three
    BY Divide
  <2> DEFINE q == m \div 128
  <2>2. F[q] = e(q)
    BY <2>1
  <2>3. q \in Nat /\ m \in Nat /\ Two \in Nat /\ Three \in Nat /\ 128 < Two /\ Two < Three
    BY <2>1, Sizes
  <2> HIDE DEF q, F
  <2>4. CASE m < 128
    BY <2>4
  <2>5. CASE m >= 128 /\ m < Two
    <3>1. e(m) = <<128 + (m % 128)>> \o e1(q)
      BY <2>3, <2>5 DEF q
    <3>2. e(q) = e1(q)
      BY <2>1, <2>3, <2>5 DEF q
    <3>3. F[q] = e1(q)
      BY <2>2, <3>2
    <3>4. ~(m < 128) /\ q = m \div 128
      BY <2>3, <2>5 DEF q
    <3> HIDE DEF e, e1
    <3> QED BY <3>1, <3>3, <3>4
  <2>6. CASE m >= Two /\ m < Three
    <3>1. e(m) = <<128 + (m % 128)>> \o e2(q)
      BY <2>3, <2>6 DEF q
    <3>2. e(q) = e2(q)
      BY <2>1, <2>3, <2>6 DEF q
    <3> QED BY <2>2, <2>3, <2>6, <3>1, <3>2 DEF q
  <2>7. CASE m >= Three
    <3>1. e(m) = <<128 + (m % 128)>> \o e3(q)
      BY <2>3, <2>7 DEF q
    <3>2. e(q) = e3(q)
      BY <2>1, <2>3, <2>7 DEF q
    <3> QED BY <2>2, <2>3, <2>7, <3>1, <3>2 DEF q
  <2> QED BY <2>3, <2>4, <2>5, <2>6, <2>7
<1>2. F = G(F)
  <2>1. F = [m \in 0..MAX_REMAINING |-> e(m)]
    OBVIOUS
  <2> HIDE DEF F, e
  <2>2. [m \in 0..MAX_REMAINING |-> e(m)] = G(F)
    BY <1>1
  <2> QED BY <2>1, <2>2
<1>3. encode = CHOOSE f : f = G(f)
  BY DEF encode
<1> HIDE DEF F, G
<1>4. encode = G(encode)
  BY <1>2, <1>3
<1> QED BY <1>4 DEF G

LEMMA EncodeTyped ==
  ASSUME NEW n \in 0..MAX_REMAINING
  PROVE  /\ encode[n] \in Octets
         /\ Len(encode[n]) = IF n < 128 THEN 1 ELSE IF n < Two THEN 2
                             ELSE IF n < Three THEN 3 ELSE 4
<1> DEFINE IsOf(m, k) == encode[m] \in Octets /\ Len(encode[m]) = k
<1>1. ASSUME NEW m \in 0..MAX_REMAINING, m < 128 PROVE IsOf(m, 1)
  <2>1. encode[m] = IF m < 128 THEN <<m>> ELSE <<128 + (m % 128)>> \o encode[m \div 128]
    BY EncodeIs
  <2>2. encode[m] = <<m>> /\ m \in 0..255
    BY <1>1, <2>1
  <2> QED BY <2>2 DEF Octets
<1>2. ASSUME NEW m \in 0..MAX_REMAINING, m >= 128, NEW k \in Nat, IsOf(m \div 128, k)
      PROVE  IsOf(m, k + 1)
  <2> DEFINE tail == encode[m \div 128]  head == <<128 + (m % 128)>>
  <2>1. ~(m < 128) /\ 128 + (m % 128) \in 0..255
    BY <1>2, Divide
  <2>2. encode[m] = head \o tail
    BY <2>1, EncodeIs
  <2>3. head \in Seq(0..255) /\ Len(head) = 1
    BY <2>1
  <2>4. tail \in Seq(0..255) /\ Len(tail) = k
    BY <1>2 DEF Octets
  <2> HIDE DEF head, tail
  <2>5. head \o tail \in Seq(0..255) /\ Len(head \o tail) = 1 + k
    BY <2>3, <2>4, ConcatProperties, ZenonT(40)
  <2> QED BY <2>2, <2>5 DEF Octets
<1> HIDE DEF IsOf
<1>3. ASSUME NEW m \in 0..MAX_REMAINING, m >= 128, m < Two PROVE IsOf(m, 2)
  <2>1. m \div 128 \in 0..MAX_REMAINING /\ m \div 128 < 128 /\ 1 + 1 = 2
    BY <1>3, Divide
  <2>2. IsOf(m \div 128, 1)
    BY <1>1, <2>1
  <2> QED BY <1>2, <1>3, <2>1, <2>2
<1>4. ASSUME NEW m \in 0..MAX_REMAINING, m >= Two, m < Three PROVE IsOf(m, 3)
  <2>1. /\ m \div 128 \in 0..MAX_REMAINING /\ m \div 128 < Two /\ m \div 128 >= 128
        /\ 2 + 1 = 3 /\ m >= 128
    BY <1>4, Divide, Sizes
  <2>2. IsOf(m \div 128, 2)
    BY <1>3, <2>1
  <2> QED BY <1>2, <2>1, <2>2
<1>5. ASSUME NEW m \in 0..MAX_REMAINING, m >= Three PROVE IsOf(m, 4)
  <2>1. /\ m \div 128 \in 0..MAX_REMAINING /\ m \div 128 >= Two /\ m \div 128 < Three
        /\ 3 + 1 = 4 /\ m >= 128
    BY <1>5, Divide, Sizes
  <2>2. IsOf(m \div 128, 3)
    BY <1>4, <2>1
  <2> QED BY <1>2, <2>1, <2>2
<1>6. n \in Nat /\ Two \in Nat /\ Three \in Nat /\ 128 < Two /\ Two < Three
  BY Sizes
<1>7. CASE n < 128
  <2>1. IsOf(n, 1)
    BY <1>1, <1>7
  <2> QED BY <1>7, <2>1 DEF IsOf
<1>8. CASE n >= 128 /\ n < Two
  <2>1. IsOf(n, 2) /\ ~(n < 128)
    BY <1>3, <1>6, <1>8
  <2> QED BY <1>8, <2>1 DEF IsOf
<1>9. CASE n >= Two /\ n < Three
  <2>1. IsOf(n, 3) /\ ~(n < 128) /\ ~(n < Two)
    BY <1>4, <1>6, <1>9
  <2> QED BY <1>9, <2>1 DEF IsOf
<1>10. CASE n >= Three
  <2>1. IsOf(n, 4) /\ ~(n < 128) /\ ~(n < Two) /\ ~(n < Three)
    BY <1>5, <1>6, <1>10
  <2> QED BY <1>10, <2>1 DEF IsOf
<1> QED BY <1>6, <1>7, <1>8, <1>9, <1>10

(* MQTTPacket_decode() as the values it passes through, from the last.     *)
LengthStep(b, at, k, rest) ==
  IF b[at + k - 1] < 128 THEN [used |-> k, value |-> b[at + k - 1]]
  ELSE [used |-> rest.used, value |-> b[at + k - 1] - 128 + 128 * rest.value]
From4(b, at) == LengthStep(b, at, 4, [used |-> 5, value |-> 0])
From3(b, at) == LengthStep(b, at, 3, From4(b, at))
From2(b, at) == LengthStep(b, at, 2, From3(b, at))
From1(b, at) == LengthStep(b, at, 1, From2(b, at))

LEMMA DecodeIs ==
  ASSUME NEW b, NEW at
  PROVE  decode(b, at) = From1(b, at)
<1> DEFINE G(f) == [k \in 1..5 |->
                      IF k = 5 THEN [used |-> 5, value |-> 0]
                      ELSE IF b[at + k - 1] < 128 THEN [used |-> k, value |-> b[at + k - 1]]
                      ELSE [used |-> f[k + 1].used,
                            value |-> b[at + k - 1] - 128 + 128 * f[k + 1].value]]
           e(k) == IF k = 5 THEN [used |-> 5, value |-> 0]
                   ELSE IF k = 4 THEN From4(b, at)
                   ELSE IF k = 3 THEN From3(b, at)
                   ELSE IF k = 2 THEN From2(b, at) ELSE From1(b, at)
           H(f) == [k \in 1..5 |-> IF k = 5 THEN [used |-> 5, value |-> 0]
                                   ELSE LengthStep(b, at, k, f[k + 1])]
           F == [k \in 1..5 |-> e(k)]
           c == CHOOSE f : f = G(f)
<1>1. \A f : G(f) = H(f)
  BY DEF LengthStep
<1>2. ASSUME NEW k \in 1..4 PROVE e(k) = LengthStep(b, at, k, e(k + 1))
  <2>1. k = 1 \/ k = 2 \/ k = 3 \/ k = 4
    OBVIOUS
  <2> QED BY <2>1 DEF From1, From2, From3, From4
<1>3. F = H(F)
  <2>1. ASSUME NEW k \in 1..5
        PROVE  e(k) = IF k = 5 THEN [used |-> 5, value |-> 0] ELSE LengthStep(b, at, k, F[k + 1])
    <3>1. CASE k = 5
      BY <3>1
    <3>2. CASE k # 5
      <4>1. k \in 1..4 /\ k + 1 \in 1..5
        BY <3>2
      <4>2. F[k + 1] = e(k + 1)
        BY <4>1
      <4> HIDE DEF F, e
      <4> QED BY <1>2, <3>2, <4>1, <4>2
    <3> QED BY <3>1, <3>2
  <2>2. F = [k \in 1..5 |-> e(k)]
    OBVIOUS
  <2> HIDE DEF F, e
  <2> QED BY <2>1, <2>2
<1>4. F = G(F)
  <2> HIDE DEF F, G, H
  <2> QED BY <1>1, <1>3
<1>5. c = G(c)
  <2> HIDE DEF F, G
  <2> QED BY <1>4
<1>6. c = H(c)
  <2> HIDE DEF c, G, H
  <2> QED BY <1>1, <1>5
<1>7. c[1] = From1(b, at)
  <2> HIDE DEF c
  <2>1. c[5] = [used |-> 5, value |-> 0]
    BY <1>6
  <2>2. c[4] = LengthStep(b, at, 4, c[5]) /\ c[3] = LengthStep(b, at, 3, c[4])
        /\ c[2] = LengthStep(b, at, 2, c[3]) /\ c[1] = LengthStep(b, at, 1, c[2])
    BY <1>6
  <2> QED BY <2>1, <2>2 DEF From1, From2, From3, From4
<1>8. decode(b, at) = c[1]
  BY DEF decode
<1> QED BY <1>7, <1>8

(* From the k-th byte on the bytes of n give s.                            *)
Reads(b, at, k, s, n) ==
  Holds(b, at + k - 1, encode[n]) => s = [used |-> k - 1 + Len(encode[n]), value |-> n]

LEMMA StepOf ==
  ASSUME NEW b \in Octets, NEW at \in Nat \ {0}, NEW k \in 1..4, NEW n \in 0..MAX_REMAINING,
         NEW rest, n >= 128 => Reads(b, at, k + 1, rest, n \div 128)
  PROVE  Reads(b, at, k, LengthStep(b, at, k, rest), n)
<1> SUFFICES ASSUME Holds(b, at + k - 1, encode[n])
    PROVE  LengthStep(b, at, k, rest) = [used |-> k - 1 + Len(encode[n]), value |-> n]
  BY DEF Reads
<1>1. encode[n] = IF n < 128 THEN <<n>> ELSE <<128 + (n % 128)>> \o encode[n \div 128]
  BY EncodeIs
<1>2. n \in Nat /\ at + k - 1 \in Nat
  BY Sizes
<1> DEFINE p == at + k - 1
<1>3. CASE n < 128
  <2>1. encode[n] = <<n>>
    BY <1>1, <1>3
  <2>2. Holds(b, p, <<n>>)
    BY <2>1
  <2> HIDE DEF p
  <2>3. b[p] = n
    BY <1>2, <2>2 DEF Holds, p
  <2>4. Len(encode[n]) = 1
    BY <2>1
  <2> QED BY <1>2, <1>3, <2>3, <2>4 DEF LengthStep, p
<1>4. CASE n >= 128
  <2> DEFINE q == n \div 128  r == n % 128  head == <<128 + r>>  tail == encode[q]
  <2>1. q \in 0..MAX_REMAINING /\ q \in Nat /\ r \in 0..127 /\ n = r + 128 * q
    BY Divide, Sizes
  <2>2. head \in Seq(0..255) /\ Len(head) = 1 /\ head[1] = 128 + r
    BY <2>1
  <2>3. tail \in Seq(0..255) /\ Len(tail) \in Nat
    BY <2>1, EncodeTyped DEF Octets
  <2>4. ~(n < 128)
    BY <1>2, <1>4
  <2>5. encode[n] = head \o tail
    BY <1>1, <2>4
  <2>6. Reads(b, at, k + 1, rest, q)
    BY <1>4
  <2> HIDE DEF q, r, head, tail
  <2>7. Holds(b, p, head) /\ Holds(b, p + 1, tail)
    <3>1. Holds(b, p, head \o tail) /\ b \in Seq(0..255)
      BY <2>5 DEF Octets
    <3>2. Holds(b, p, head) /\ Holds(b, p + Len(head), tail)
      BY <2>2, <2>3, <3>1, HoldsParts
    <3> QED BY <2>2, <3>2
  <2>8. rest = [used |-> k + Len(tail), value |-> q]
    <3>1. p + 1 = at + (k + 1) - 1 /\ k + 1 - 1 = k
      OBVIOUS
    <3> QED BY <2>6, <2>7, <3>1 DEF Reads, tail
  <2> HIDE DEF p
  <2>9. b[p] = 128 + r
    BY <1>2, <2>2, <2>7 DEF Holds, p
  <2>10. Len(encode[n]) = 1 + Len(tail)
    <3>1. Len(head \o tail) = Len(head) + Len(tail)
      BY <2>2, <2>3, ConcatProperties, ZenonT(40)
    <3> QED BY <2>2, <2>5, <3>1
  <2>11. LengthStep(b, at, k, rest) = [used |-> rest.used, value |-> b[p] - 128 + 128 * rest.value]
    BY <2>1, <2>9 DEF LengthStep, p
  <2> QED BY <2>1, <2>3, <2>8, <2>9, <2>10, <2>11
<1> QED BY <1>2, <1>3, <1>4

(* What MQTTPacket_encode() wrote, MQTTPacket_decode() reads.              *)
LEMMA DecodeOf ==
  ASSUME NEW b \in Octets, NEW at \in Nat \ {0}, NEW n \in 0..MAX_REMAINING,
         Holds(b, at, encode[n])
  PROVE  decode(b, at) = [used |-> Len(encode[n]), value |-> n]
<1>1. 4 + 1 = 5 /\ 3 + 1 = 4 /\ 2 + 1 = 3 /\ 1 + 1 = 2
  OBVIOUS
<1>2. ASSUME NEW m \in 0..MAX_REMAINING, m < 128 PROVE Reads(b, at, 4, From4(b, at), m)
  <2>1. ~(m >= 128)
    BY <1>2, Sizes
  <2> QED BY StepOf, <2>1 DEF From4
<1>3. ASSUME NEW m \in 0..MAX_REMAINING, m < Two PROVE Reads(b, at, 3, From3(b, at), m)
  <2>1. m >= 128 => Reads(b, at, 4, From4(b, at), m \div 128)
    BY <1>2, <1>3, Divide
  <2>2. Reads(b, at, 3, LengthStep(b, at, 3, From4(b, at)), m)
    BY <1>1, <2>1, StepOf
  <2> QED BY <2>2 DEF From3
<1>4. ASSUME NEW m \in 0..MAX_REMAINING, m < Three PROVE Reads(b, at, 2, From2(b, at), m)
  <2>1. m >= 128 => Reads(b, at, 3, From3(b, at), m \div 128)
    BY <1>3, <1>4, Divide
  <2>2. Reads(b, at, 2, LengthStep(b, at, 2, From3(b, at)), m)
    BY <1>1, <2>1, StepOf
  <2> QED BY <2>2 DEF From2
<1>5. Reads(b, at, 1, From1(b, at), n)
  <2>1. n >= 128 => Reads(b, at, 2, From2(b, at), n \div 128)
    BY <1>4, Divide
  <2>2. Reads(b, at, 1, LengthStep(b, at, 1, From2(b, at)), n)
    BY <1>1, <2>1, StepOf
  <2> QED BY <2>2 DEF From1
<1>6. at + 1 - 1 = at /\ Len(encode[n]) \in Nat
  BY EncodeTyped DEF Octets
<1> QED BY <1>5, <1>6, DecodeIs DEF Reads

-----------------------------------------------------------------------------
(* Numbers, strings and frames: what was written is what is read.          *)

LEMMA WordIs ==
  MAX_WORD \in Nat /\ \A x \in Nat, y \in 0..255 : 256 * x + y <= MAX_WORD => x <= 255
BY DEF MAX_WORD

LEMMA IntWritten ==
  ASSUME NEW n \in 0..MAX_WORD
  PROVE  /\ WriteInt(n) \in Octets /\ Len(WriteInt(n)) = 2
         /\ 256 * WriteInt(n)[1] + WriteInt(n)[2] = n
<1> DEFINE q == n \div 256  r == n % 256
<1>1. n \in Nat /\ q \in 0..255 /\ r \in 0..255 /\ n = 256 * q + r /\ q % 256 = q
  <2>1. n \in Nat
    BY WordIs
  <2>2. q \in Nat /\ r \in 0..255 /\ n = 256 * q + r
    BY <2>1
  <2> HIDE DEF q, r
  <2>3. n <= MAX_WORD
    BY WordIs
  <2>4. \A x \in Nat, y \in 0..255 : 256 * x + y <= MAX_WORD => x <= 255
    BY WordIs
  <2>5. q \in 0..255
    BY <2>2, <2>3, <2>4
  <2> QED BY <2>1, <2>2, <2>5
<1>2. WriteInt(n) = <<q, r>>
  BY <1>1 DEF WriteInt
<1> HIDE DEF q, r
<1>3. /\ <<q, r>> \in Seq(0..255) /\ Len(<<q, r>>) = 2
      /\ <<q, r>>[1] = q /\ <<q, r>>[2] = r
  BY <1>1
<1> QED BY <1>1, <1>2, <1>3, ZenonT(40) DEF Octets

LEMMA IntRead ==
  ASSUME NEW b \in Octets, NEW at, NEW n \in 0..MAX_WORD, Holds(b, at, WriteInt(n))
  PROVE  ReadInt(b, at) = n
<1> DEFINE w == WriteInt(n)
<1>1. Len(w) = 2 /\ 256 * w[1] + w[2] = n
  BY IntWritten
<1> HIDE DEF w
<1>2. /\ at \in Nat /\ at + 1 - 1 = at /\ at + 2 - 1 = at + 1
      /\ \A j \in 1..2 : b[at + j - 1] = w[j]
  BY <1>1 DEF Holds, w
<1>3. b[at + 1 - 1] = w[1] /\ b[at + 2 - 1] = w[2]
  BY <1>2
<1>4. b[at] = w[1] /\ b[at + 1] = w[2]
  BY <1>2, <1>3
<1> QED BY <1>1, <1>4 DEF ReadInt

LEMMA StringTyped ==
  ASSUME NEW s \in Strings
  PROVE  s \in Octets /\ s \in Seq(0..255) /\ Len(s) \in Nat /\ Len(s) \in 0..MAX_WORD
<1>1. s \in Seq(0..255) /\ Len(s) <= MAX_WORD
  BY DEF Strings, Octets
<1>2. Len(s) \in Nat
  BY <1>1
<1>3. MAX_WORD \in Nat
  BY DEF MAX_WORD
<1> QED BY <1>1, <1>2, <1>3 DEF Octets

LEMMA StringWritten ==
  ASSUME NEW s \in Strings
  PROVE  WriteString(s) \in Octets /\ Len(WriteString(s)) = 2 + Len(s)
<1> DEFINE w == WriteInt(Len(s))
<1>1. s \in Seq(0..255) /\ Len(s) \in 0..MAX_WORD
  BY StringTyped
<1>2. w \in Seq(0..255) /\ Len(w) = 2
  BY <1>1, IntWritten DEF Octets
<1> HIDE DEF w
<1>3. w \o s \in Seq(0..255) /\ Len(w \o s) = Len(w) + Len(s)
  BY <1>1, <1>2, ConcatProperties, ZenonT(40)
<1> QED BY <1>2, <1>3 DEF WriteString, w, Octets

LEMMA StringRead ==
  ASSUME NEW b \in Octets, NEW at, NEW s \in Strings, Holds(b, at, WriteString(s)),
         NEW end \in Nat, at + 2 + Len(s) <= end
  PROVE  ReadString(b, at, end) = [ok |-> TRUE, s |-> s, next |-> at + 2 + Len(s)]
<1> DEFINE w == WriteInt(Len(s))
<1>1. s \in Seq(0..255) /\ Len(s) \in 0..MAX_WORD /\ Len(s) \in Nat
  BY StringTyped
<1>2. w \in Seq(0..255) /\ Len(w) = 2 /\ b \in Seq(0..255)
  BY <1>1, IntWritten DEF Octets
<1>3. Holds(b, at, w) /\ Holds(b, at + 2, s)
  <2> HIDE DEF w
  <2>1. Holds(b, at, w \o s)
    BY DEF WriteString, w
  <2>2. Holds(b, at, w) /\ Holds(b, at + Len(w), s)
    BY <1>1, <1>2, <2>1, HoldsParts
  <2> QED BY <1>2, <2>2
<1>4. ReadInt(b, at) = Len(s)
  BY <1>1, <1>3, IntRead
<1>5. at \in Nat
  BY <1>3 DEF Holds
<1>6. SubSeq(b, at + 2, at + 1 + Len(s)) = s
  <2>1. at + 1 + Len(s) = (at + 2) + Len(s) - 1
    BY <1>1, <1>5
  <2> QED BY <1>1, <1>2, <1>3, <2>1, HoldsSub
<1>7. end - at > 1
  BY <1>1, <1>5
<1>8. at + 2 + ReadInt(b, at) <= end
  BY <1>4
<1>9. ReadString(b, at, end)
        = [ok |-> TRUE, s |-> SubSeq(b, at + 2, at + 1 + ReadInt(b, at)),
           next |-> at + 2 + ReadInt(b, at)]
  BY <1>7, <1>8 DEF ReadString
<1> QED BY <1>4, <1>6, <1>9

(* b is the frame of a header and a body that fits into the buffers.       *)
Framing(b, header, body) ==
  /\ header \in 0..255 /\ body \in Octets /\ Len(body) \in 0..MAX_REMAINING
  /\ b = Frame(header, Len(body), body) /\ Len(b) <= BUFLEN

IsFrame(b) == \E header, body : Framing(b, header, body)

LEMMA FrameOf ==
  ASSUME NEW b, NEW header, NEW body, Framing(b, header, body)
  PROVE  /\ IsFrame(b) /\ b \in Octets /\ b # <<>> /\ b[1] = header /\ Len(body) \in Nat
         /\ BodyAt(b) \in Nat /\ BodyEnd(b) \in Nat
         /\ BodyEnd(b) = Len(b) + 1 /\ BodyEnd(b) = BodyAt(b) + Len(body)
         /\ Holds(b, BodyAt(b), body)
<1> DEFINE rem == Len(body)  e == encode[rem]  h == <<header>>
<1>1. /\ rem \in 0..MAX_REMAINING /\ rem \in Nat /\ body \in Seq(0..255)
      /\ h \in Seq(0..255) /\ Len(h) = 1 /\ h[1] = header
      /\ e \in Seq(0..255) /\ Len(e) \in Nat
  BY EncodeTyped, Sizes DEF Framing, Octets
<1>2. b = (h \o e) \o body
  BY DEF Framing, Frame
<1> HIDE DEF rem, e, h
<1>3. h \o e \in Seq(0..255) /\ Len(h \o e) = 1 + Len(e)
  BY <1>1, ConcatProperties, ZenonT(40)
<1>4. b \in Seq(0..255) /\ Len(b) = 1 + Len(e) + rem
  <2>1. b \in Seq(0..255) /\ Len(b) = Len(h \o e) + Len(body)
    BY <1>1, <1>2, <1>3, ConcatProperties, ZenonT(40)
  <2> QED BY <1>3, <2>1 DEF rem
<1>5. Holds(b, 1, h \o e) /\ Holds(b, 2 + Len(e), body)
  <2>1. Holds(b, 1, b)
    BY <1>4, HoldsAll
  <2>2. Holds(b, 1, h \o e) /\ Holds(b, 1 + Len(h \o e), body)
    BY <1>1, <1>2, <1>3, <1>4, <2>1, HoldsParts, ZenonT(40)
  <2>3. 1 + Len(h \o e) = 2 + Len(e)
    BY <1>1, <1>3
  <2> QED BY <2>2, <2>3
<1>6. Holds(b, 1, h) /\ Holds(b, 2, e)
  <2>1. Holds(b, 1, h) /\ Holds(b, 1 + Len(h), e)
    BY <1>1, <1>4, <1>5, HoldsParts
  <2> QED BY <1>1, <2>1
<1>7. b[1] = header
  BY <1>1, <1>6 DEF Holds
<1>8. decode(b, 2) = [used |-> Len(e), value |-> rem]
  BY <1>1, <1>4, <1>6, DecodeOf DEF Octets, e
<1>9. BodyAt(b) = 2 + Len(e) /\ BodyEnd(b) = BodyAt(b) + rem
  BY <1>8 DEF BodyAt, BodyEnd
<1>10. IsFrame(b)
  BY DEF IsFrame
<1> QED BY <1>1, <1>4, <1>5, <1>7, <1>9, <1>10 DEF Octets, rem

(* What the guard lets through is framed, and fits.                        *)
LEMMA FramedOf ==
  ASSUME NEW header \in 0..255, NEW rem \in Nat, NEW body \in Octets, Len(body) = rem,
         Framed(BUFLEN, header, rem, body) # Refused
  PROVE  Framing(Framed(BUFLEN, header, rem, body), header, body)
<1> DEFINE F == Framed(BUFLEN, header, rem, body)
<1>1. ~(MQTTPacket_len(rem) > BUFLEN) /\ F = Frame(header, rem, body)
  BY DEF Framed
<1>2. BUFLEN \in Nat /\ BUFLEN <= MAX_REMAINING /\ MAX_REMAINING \in Nat
  BY LinkAssumption, Sizes
<1> DEFINE n == rem + 1  more == CASE n < 128 -> 1 [] n < 128 * 128 -> 2
                                   [] n < 128 * 128 * 128 - 1 -> 3 [] OTHER -> 4
<1>3. MQTTPacket_len(rem) = n + more
  BY DEF MQTTPacket_len
<1>4. /\ more \in 1..4
      /\ rem >= 128 => more >= 2
      /\ rem >= Two => more >= 3
      /\ rem >= Three => more = 4
  BY DEF Two, Three
<1> HIDE DEF more
<1>5. n + more <= BUFLEN
  BY <1>1, <1>2, <1>3, <1>4
<1>6. rem \in 0..MAX_REMAINING
  BY <1>2, <1>4, <1>5
<1>7. Len(encode[rem]) <= more /\ Len(encode[rem]) \in Nat
  BY <1>4, <1>6, EncodeTyped, Sizes DEF Octets
<1>8. Len(Frame(header, rem, body)) = 1 + Len(encode[rem]) + rem
  <2> DEFINE h == <<header>>  e == encode[rem]
  <2>1. h \in Seq(0..255) /\ Len(h) = 1 /\ e \in Seq(0..255) /\ body \in Seq(0..255)
    BY <1>6, EncodeTyped DEF Octets
  <2> HIDE DEF h, e
  <2>2. h \o e \in Seq(0..255) /\ Len(h \o e) = 1 + Len(e)
    BY <2>1, ConcatProperties, SMTT(30)
  <2>3. Len((h \o e) \o body) = Len(h \o e) + Len(body)
    BY <2>1, <2>2, ConcatProperties, ZenonT(40)
  <2> QED BY <2>2, <2>3 DEF Frame, h, e
<1> QED BY <1>1, <1>2, <1>4, <1>5, <1>6, <1>7, <1>8 DEF Framing

-----------------------------------------------------------------------------
(* The header byte.                                                        *)

LEMMA BitIs ==
  ASSUME NEW byte
  PROVE  /\ IsSet(byte, 0) = ((byte \div 1) % 2 = 1) /\ IsSet(byte, 1) = ((byte \div 2) % 2 = 1)
         /\ IsSet(byte, 2) = ((byte \div 4) % 2 = 1) /\ IsSet(byte, 3) = ((byte \div 8) % 2 = 1)
         /\ IsSet(byte, 5) = ((byte \div 32) % 2 = 1) /\ IsSet(byte, 6) = ((byte \div 64) % 2 = 1)
         /\ IsSet(byte, 7) = ((byte \div 128) % 2 = 1)
<1>1. /\ Powers[1] = 1 /\ Powers[2] = 2 /\ Powers[3] = 4 /\ Powers[4] = 8
      /\ Powers[6] = 32 /\ Powers[7] = 64 /\ Powers[8] = 128
  BY DEF Powers
<1>2. 0 + 1 = 1 /\ 1 + 1 = 2 /\ 2 + 1 = 3 /\ 3 + 1 = 4 /\ 5 + 1 = 6 /\ 6 + 1 = 7 /\ 7 + 1 = 8
  OBVIOUS
<1> QED BY <1>1, <1>2 DEF IsSet

(* h is the header of a type, with a bit d for DUP and r for RETAIN.       *)
HeaderSays(h, type, d, qos, r) ==
  /\ type \in 1..14 /\ d \in 0..1 /\ qos \in 0..2 /\ r \in 0..1
  /\ h = 16 * type + 8 * d + 2 * qos + r

LEMMA HeaderByteIs ==
  ASSUME NEW type \in 1..14, NEW dup \in BOOLEAN, NEW qos \in 0..2, NEW retain \in BOOLEAN
  PROVE  HeaderSays(HeaderByte(type, dup, qos, retain), type, Bit(dup), qos, Bit(retain))
<1>1. Bit(dup) \in 0..1 /\ Bit(retain) \in 0..1
  BY DEF Bit
<1>2. HeaderByte(type, dup, qos, retain) = 16 * type + 8 * Bit(dup) + 2 * qos + Bit(retain)
  BY DEF HeaderByte
<1> QED BY <1>1, <1>2 DEF HeaderSays

LEMMA BitOf ==
  ASSUME NEW x \in BOOLEAN
  PROVE  Bit(x) \in 0..1 /\ (Bit(x) = 1 <=> x)
  BY DEF Bit

LEMMA HeaderRead ==
  ASSUME NEW h, NEW type, NEW d, NEW qos, NEW r, HeaderSays(h, type, d, qos, r)
  PROVE  /\ h \in 0..255
         /\ \A b : b[1] = h => /\ Type(b) = type /\ QoS(b) = qos
                              /\ Dup(b) \in BOOLEAN /\ (Dup(b) <=> d = 1)
                              /\ IsSet(b[1], 0) \in BOOLEAN /\ (IsSet(b[1], 0) <=> r = 1)
<1>1. /\ type \in 1..14 /\ d \in 0..1 /\ qos \in 0..2 /\ r \in 0..1
      /\ h = 16 * type + 8 * d + 2 * qos + r
  BY DEF HeaderSays
<1>2. /\ h \in 0..255 /\ h \div 16 = type /\ (h \div 2) % 4 = qos
      /\ (h \div 8) % 2 = d /\ (h \div 1) % 2 = r
  BY <1>1
<1>3. ASSUME NEW b, b[1] = h
      PROVE  /\ Type(b) = type /\ QoS(b) = qos
             /\ Dup(b) \in BOOLEAN /\ (Dup(b) <=> d = 1)
             /\ IsSet(b[1], 0) \in BOOLEAN /\ (IsSet(b[1], 0) <=> r = 1)
  <2>1. Type(b) = type /\ QoS(b) = qos
    BY <1>2, <1>3 DEF Type, QoS
  <2>2. Dup(b) <=> d = 1
    BY <1>2, <1>3, BitIs DEF Dup
  <2>3. IsSet(b[1], 0) <=> r = 1
    BY <1>2, <1>3, BitIs
  <2>4. Dup(b) \in BOOLEAN /\ IsSet(b[1], 0) \in BOOLEAN
    BY DEF Dup, IsSet
  <2> QED BY <2>1, <2>2, <2>3, <2>4
<1> QED BY <1>2, <1>3

(* The frame of a short body fits into every buffer.                       *)
LEMMA ShortFrame ==
  ASSUME NEW header \in 0..255, NEW body \in Octets, Len(body) \in 0..5
  PROVE  Framing(Frame(header, Len(body), body), header, body)
<1> DEFINE n == Len(body)  h == <<header>>  e == encode[n]
<1>1. n \in 0..5
  OBVIOUS
<1> HIDE DEF n
<1>2. n \in 0..MAX_REMAINING /\ n < 128 /\ n <= 5
  BY <1>1, Sizes
<1>3. h \in Seq(0..255) /\ Len(h) = 1 /\ body \in Seq(0..255)
      /\ e \in Seq(0..255) /\ Len(e) = 1
  <2>1. h \in Seq(0..255) /\ Len(h) = 1 /\ body \in Seq(0..255)
    BY DEF Octets
  <2> HIDE DEF h
  <2>2. e \in Octets /\ Len(e) = 1
    BY <1>2, EncodeTyped
  <2> QED BY <2>1, <2>2 DEF Octets
<1> HIDE DEF h, e
<1>4. h \o e \in Seq(0..255) /\ Len(h \o e) = 2
  BY <1>3, ConcatProperties
<1>5. Len((h \o e) \o body) = 2 + n
  BY <1>3, <1>4, ConcatProperties DEF n
<1>6. Len(Frame(header, n, body)) = 2 + n
  BY <1>5 DEF Frame, h, e
<1>7. 7 <= BUFLEN /\ BUFLEN \in Nat
  BY LinkAssumption, Sizes
<1>8. 2 + n <= BUFLEN
  BY <1>1, <1>7
<1> QED BY <1>2, <1>6, <1>8 DEF Framing, n

-----------------------------------------------------------------------------
(* Packet by packet: what a serializer lets through is a frame that fits,  *)
(* and the deserializer gives the packet back.                             *)
Travels(p) ==
  Serialize(p, BUFLEN) # Refused
    => /\ IsFrame(Serialize(p, BUFLEN))
       /\ Deserialize(Serialize(p, BUFLEN), MaxCount, 0) = p

LEMMA ZeroTravels ==
  ASSUME NEW type \in {PINGREQ, PINGRESP, DISCONNECT}, NEW p,
         p = [kind |-> "zero", type |-> type]
  PROVE  Travels(p)
<1> DEFINE h == HeaderByte(type, FALSE, 0, FALSE)  b == Frame(h, 0, <<>>)
<1>1. type \in 12..14 /\ type \in 1..14 /\ FALSE \in BOOLEAN /\ 0 \in 0..2
  BY DEF PINGREQ, PINGRESP, DISCONNECT
<1>2. Serialize(p, BUFLEN) = b
  <2>1. ~(BUFLEN < 2)
    BY LinkAssumption, Sizes
  <2> QED BY <2>1 DEF Serialize, MQTTSerialize_zero
<1>3. h \in 0..255 /\ \A x : x[1] = h => Type(x) = type
  <2>1. HeaderSays(h, type, Bit(FALSE), 0, Bit(FALSE))
    BY <1>1, HeaderByteIs
  <2> HIDE DEF h
  <2> QED BY <2>1, HeaderRead, ZenonT(40)
<1> HIDE DEF h
<1>4. Framing(b, h, <<>>)
  <2> DEFINE body == <<>>
  <2>1. body \in Octets /\ Len(body) = 0 /\ Len(body) \in 0..5
    BY DEF Octets
  <2> HIDE DEF body
  <2>2. Framing(Frame(h, Len(body), body), h, body)
    BY <1>3, <2>1, ShortFrame
  <2> QED BY <2>1, <2>2 DEF body
<1> HIDE DEF b
<1>5. b[1] = h /\ IsFrame(b)
  BY <1>4, FrameOf
<1>6. Type(b) = type
  BY <1>3, <1>5
<1>7. Deserialize(b, MaxCount, 0) = [kind |-> "zero", type |-> Type(b)]
  BY <1>1, <1>6 DEF Deserialize, CONNECT, CONNACK, PUBLISH, SUBSCRIBE, SUBACK, UNSUBSCRIBE,
    UNSUBACK, PINGREQ, PINGRESP, DISCONNECT
<1> QED BY <1>2, <1>5, <1>6, <1>7 DEF Travels

(* Short bodies, whose serializers check less than they write.             *)
LEMMA AckBody ==
  ASSUME NEW h, NEW type, NEW d, NEW qos, NEW r, HeaderSays(h, type, d, qos, r),
         NEW id \in 0..MAX_WORD, NEW b, b = Frame(h, 2, WriteInt(id))
  PROVE  /\ IsFrame(b) /\ Type(b) = type /\ Dup(b) \in BOOLEAN /\ (Dup(b) <=> d = 1)
         /\ BodyEnd(b) - BodyAt(b) = 2 /\ ReadInt(b, BodyAt(b)) = id
<1> DEFINE body == WriteInt(id)
<1>1. h \in 0..255
  BY HeaderRead
<1>2. body \in Octets /\ Len(body) = 2 /\ Len(body) \in 0..5
  BY IntWritten
<1> HIDE DEF body
<1>3. Framing(b, h, body)
  <2>1. Framing(Frame(h, Len(body), body), h, body)
    BY <1>1, <1>2, ShortFrame
  <2> QED BY <1>2, <2>1 DEF body
<1>4. /\ IsFrame(b) /\ b[1] = h /\ b \in Octets
      /\ BodyAt(b) \in Nat /\ BodyEnd(b) = BodyAt(b) + Len(body) /\ Holds(b, BodyAt(b), body)
  BY <1>3, FrameOf
<1>5. Type(b) = type /\ Dup(b) \in BOOLEAN /\ (Dup(b) <=> d = 1)
  BY <1>4, HeaderRead
<1>6. ReadInt(b, BodyAt(b)) = id
  BY <1>4, IntRead DEF body
<1>7. BodyEnd(b) - BodyAt(b) = 2
  <2>1. BodyEnd(b) = BodyAt(b) + 2 /\ BodyAt(b) \in Nat
    BY <1>2, <1>4
  <2> QED BY ONLY <2>1
<1> QED BY <1>4, <1>5, <1>6, <1>7

LEMMA AckTravels ==
  ASSUME NEW type \in {PUBACK, PUBREC, PUBREL, PUBCOMP}, NEW dup \in BOOLEAN,
         NEW id \in 0..MAX_WORD, NEW p,
         p = [kind |-> "ack", type |-> type, dup |-> dup, id |-> id]
  PROVE  Travels(p)
<1> DEFINE qos == IF type = PUBREL THEN 1 ELSE 0
           h == HeaderByte(type, dup, qos, FALSE)  b == Frame(h, 2, WriteInt(id))
<1>1. type \in 4..7 /\ type \in 1..14 /\ FALSE \in BOOLEAN
  BY DEF PUBACK, PUBREC, PUBREL, PUBCOMP
<1>2. Serialize(p, BUFLEN) = b
  <2>1. ~(BUFLEN < 4)
    BY LinkAssumption, Sizes
  <2> QED BY <2>1 DEF Serialize, MQTTSerialize_ack
<1>3. qos \in 0..2
  OBVIOUS
<1> HIDE DEF qos
<1>4. HeaderSays(h, type, Bit(dup), qos, Bit(FALSE))
  BY <1>1, <1>3, HeaderByteIs
<1> HIDE DEF h
<1>5. b = Frame(h, 2, WriteInt(id))
  OBVIOUS
<1> HIDE DEF b
<1>6. /\ IsFrame(b) /\ Type(b) = type /\ Dup(b) \in BOOLEAN /\ (Dup(b) <=> Bit(dup) = 1)
      /\ BodyEnd(b) - BodyAt(b) = 2 /\ ReadInt(b, BodyAt(b)) = id
  <2> DEFINE d == Bit(dup)  r == Bit(FALSE)
  <2>1. HeaderSays(h, type, d, qos, r)
    BY <1>4
  <2> HIDE DEF d, r
  <2>2. /\ IsFrame(b) /\ Type(b) = type /\ Dup(b) \in BOOLEAN /\ (Dup(b) <=> d = 1)
        /\ BodyEnd(b) - BodyAt(b) = 2 /\ ReadInt(b, BodyAt(b)) = id
    BY <1>5, <2>1, AckBody
  <2> QED BY <2>2 DEF d
<1>7. Dup(b) = dup
  <2>1. Bit(dup) = 1 <=> dup
    BY BitOf
  <2> QED BY <1>6, <2>1
<1>8. MQTTDeserialize_ack(b) = [kind |-> "ack", type |-> type, dup |-> dup, id |-> id]
  BY <1>6, <1>7 DEF MQTTDeserialize_ack
<1>9. Deserialize(b, MaxCount, 0) = MQTTDeserialize_ack(b)
  BY <1>1, <1>6 DEF Deserialize, CONNECT, CONNACK, PUBLISH, SUBSCRIBE, SUBACK, UNSUBSCRIBE,
    UNSUBACK, PINGREQ, PINGRESP, DISCONNECT
<1> QED BY <1>2, <1>6, <1>8, <1>9 DEF Travels

LEMMA UnsubackTravels ==
  ASSUME NEW id \in 0..MAX_WORD, NEW p, p = [kind |-> "unsuback", id |-> id]
  PROVE  Travels(p)
<1> DEFINE h == HeaderByte(UNSUBACK, FALSE, 0, FALSE)  b == Frame(h, 2, WriteInt(id))
<1>1. Serialize(p, BUFLEN) = b
  <2>1. ~(BUFLEN < 2)
    BY LinkAssumption, Sizes
  <2> QED BY <2>1 DEF Serialize, MQTTSerialize_unsuback
<1>2. UNSUBACK \in 1..14 /\ FALSE \in BOOLEAN /\ 0 \in 0..2
  BY DEF UNSUBACK
<1>3. HeaderSays(h, UNSUBACK, Bit(FALSE), 0, Bit(FALSE))
  BY <1>2, HeaderByteIs
<1> HIDE DEF h
<1>4. b = Frame(h, 2, WriteInt(id))
  OBVIOUS
<1> HIDE DEF b
<1>5. /\ IsFrame(b) /\ Type(b) = UNSUBACK
      /\ BodyEnd(b) - BodyAt(b) = 2 /\ ReadInt(b, BodyAt(b)) = id
  <2> DEFINE d == Bit(FALSE)
  <2>1. HeaderSays(h, UNSUBACK, d, 0, d)
    BY <1>3
  <2> HIDE DEF d
  <2> QED BY <1>4, <2>1, AckBody
<1>6. MQTTDeserialize_unsuback(b) = [kind |-> "unsuback", id |-> id]
  <2> DEFINE ack == MQTTDeserialize_ack(b)
  <2>1. ack = [kind |-> "ack", type |-> Type(b), dup |-> Dup(b), id |-> id]
    BY <1>5 DEF MQTTDeserialize_ack
  <2> HIDE DEF ack
  <2>2. ack.kind = "ack" /\ ack.id = id
    BY <2>1
  <2> QED BY <2>2 DEF MQTTDeserialize_unsuback, ack
<1>7. Deserialize(b, MaxCount, 0) = MQTTDeserialize_unsuback(b)
  BY <1>5 DEF Deserialize, CONNECT, CONNACK, PUBLISH, SUBSCRIBE, SUBACK, UNSUBSCRIBE,
    UNSUBACK, PINGREQ, PINGRESP, DISCONNECT
<1> QED BY <1>1, <1>5, <1>6, <1>7 DEF Travels

LEMMA ConnackTravels ==
  ASSUME NEW present \in BOOLEAN, NEW code \in 0..255, NEW p,
         p = [kind |-> "connack", present |-> present, rc |-> code]
  PROVE  Travels(p)
<1> DEFINE h == HeaderByte(CONNACK, FALSE, 0, FALSE)  d == Bit(present)
           body == <<d, code>>  b == Frame(h, 2, body)
<1>1. Serialize(p, BUFLEN) = b
  <2>1. ~(BUFLEN < 2)
    BY LinkAssumption, Sizes
  <2> QED BY <2>1 DEF Serialize, MQTTSerialize_connack
<1>2. CONNACK \in 1..14 /\ FALSE \in BOOLEAN /\ 0 \in 0..2
  BY DEF CONNACK
<1>3. d \in 0..1 /\ (d = 1 <=> present)
  BY BitOf
<1> HIDE DEF d
<1>4. body \in Octets /\ Len(body) = 2 /\ Len(body) \in 0..5 /\ body[1] = d /\ body[2] = code
  BY <1>3 DEF Octets
<1>5. HeaderSays(h, CONNACK, Bit(FALSE), 0, Bit(FALSE))
  BY <1>2, HeaderByteIs
<1> HIDE DEF body, h
<1>6. Framing(b, h, body)
  <2>1. Framing(Frame(h, Len(body), body), h, body)
    BY <1>4, <1>5, HeaderRead, ShortFrame
  <2> QED BY <1>4, <2>1
<1> HIDE DEF b
<1>7. /\ IsFrame(b) /\ b[1] = h /\ BodyAt(b) \in Nat
      /\ BodyEnd(b) = BodyAt(b) + Len(body) /\ Holds(b, BodyAt(b), body)
  BY <1>6, FrameOf
<1>8. Type(b) = CONNACK
  BY <1>5, <1>7, HeaderRead
<1>9. b[BodyAt(b)] = d /\ b[BodyAt(b) + 1] = code
  <2>1. b[BodyAt(b) + 1 - 1] = body[1] /\ b[BodyAt(b) + 2 - 1] = body[2]
    BY <1>4, <1>7 DEF Holds
  <2>2. BodyAt(b) + 1 - 1 = BodyAt(b) /\ BodyAt(b) + 2 - 1 = BodyAt(b) + 1
    BY <1>7
  <2> QED BY <1>4, <2>1, <2>2
<1>10. IsSet(d, 0) = present
  <2>1. IsSet(d, 0) = ((d \div 1) % 2 = 1)
    BY BitIs
  <2>2. (d \div 1) % 2 = 1 <=> d = 1
    BY <1>3
  <2>3. IsSet(d, 0) <=> present
    BY <1>3, <2>1, <2>2
  <2>4. IsSet(d, 0) \in BOOLEAN
    BY DEF IsSet
  <2> QED BY <2>3, <2>4
<1>11. MQTTDeserialize_connack(b) = [kind |-> "connack", present |-> present, rc |-> code]
  <2>1. BodyEnd(b) = BodyAt(b) + 2 /\ BodyAt(b) \in Nat
    BY <1>4, <1>7
  <2>2. ~(BodyEnd(b) - BodyAt(b) < 2)
    BY ONLY <2>1
  <2> QED BY <1>8, <1>9, <1>10, <2>2 DEF MQTTDeserialize_connack
<1>12. Deserialize(b, MaxCount, 0) = MQTTDeserialize_connack(b)
  BY <1>8 DEF Deserialize, CONNECT, CONNACK, PUBLISH, SUBSCRIBE, SUBACK, UNSUBSCRIBE,
    UNSUBACK, PINGREQ, PINGRESP, DISCONNECT
<1> QED BY <1>1, <1>7, <1>11, <1>12 DEF Travels

LEMMA SubackTravels ==
  ASSUME NEW n \in 0..MAX_WORD, NEW g \in Octets, NEW k \in 0..3, Len(g) = k, NEW p,
         p = [kind |-> "suback", id |-> n, granted |-> g]
  PROVE  Travels(p)
<1> DEFINE h == HeaderByte(SUBACK, FALSE, 0, FALSE)  id == WriteInt(n)
           body == id \o g  b == Frame(h, 2 + k, body)
<1>1. g \in Seq(0..255)
  BY DEF Octets
<1>2. Serialize(p, BUFLEN) = b
  <2>1. 7 <= BUFLEN /\ BUFLEN \in Nat
    BY LinkAssumption, Sizes
  <2>2. ~(BUFLEN < 2 + k)
    BY <2>1
  <2> QED BY <2>2 DEF Serialize, MQTTSerialize_suback
<1>3. SUBACK \in 1..14 /\ FALSE \in BOOLEAN /\ 0 \in 0..2
  BY DEF SUBACK
<1>4. HeaderSays(h, SUBACK, Bit(FALSE), 0, Bit(FALSE))
  BY <1>3, HeaderByteIs
<1>5. id \in Octets /\ id \in Seq(0..255) /\ Len(id) = 2
  BY IntWritten DEF Octets
<1> HIDE DEF h, id
<1>6. body \in Seq(0..255) /\ Len(body) = Len(id) + k
  BY <1>1, <1>5, ConcatProperties
<1> HIDE DEF body
<1>7. body \in Octets /\ Len(body) = 2 + k /\ Len(body) \in 0..5
  <2>1. Len(body) = 2 + k
    BY <1>5, <1>6
  <2>2. 2 + k \in 0..5
    OBVIOUS
  <2> QED BY <1>6, <2>1, <2>2 DEF Octets
<1>8. Framing(b, h, body)
  <2>1. Framing(Frame(h, Len(body), body), h, body)
    BY <1>4, <1>7, HeaderRead, ShortFrame
  <2> QED BY <1>7, <2>1
<1> HIDE DEF b
<1>9. /\ IsFrame(b) /\ b[1] = h /\ BodyAt(b) \in Nat /\ b \in Octets /\ b \in Seq(0..255)
      /\ BodyEnd(b) = BodyAt(b) + Len(body) /\ Holds(b, BodyAt(b), body)
  BY <1>8, FrameOf DEF Octets
<1>10. Type(b) = SUBACK
  BY <1>4, <1>9, HeaderRead
<1>11. Holds(b, BodyAt(b), id) /\ Holds(b, BodyAt(b) + 2, g)
  <2>1. Holds(b, BodyAt(b), id \o g)
    BY <1>9 DEF body
  <2>2. Holds(b, BodyAt(b), id) /\ Holds(b, BodyAt(b) + Len(id), g)
    BY <1>1, <1>5, <1>9, <2>1, HoldsParts
  <2> QED BY <1>5, <2>2
<1>12. ReadInt(b, BodyAt(b)) = n
  BY <1>9, <1>11, IntRead DEF id
<1>13. SubSeq(b, BodyAt(b) + 2, BodyEnd(b) - 1) = g
  <2>1. BodyEnd(b) - 1 = (BodyAt(b) + 2) + k - 1
    BY <1>1, <1>7, <1>9
  <2> DEFINE at == BodyAt(b) + 2  last == BodyEnd(b) - 1
  <2>2. last = at + Len(g) - 1 /\ Holds(b, at, g)
    BY <1>11, <2>1
  <2> HIDE DEF at, last
  <2>3. SubSeq(b, at, last) = g
    BY <1>1, <1>9, <2>2, HoldsSub
  <2> QED BY <2>3 DEF at, last
<1>14. MQTTDeserialize_suback(b, MaxCount) = [kind |-> "suback", id |-> n, granted |-> g]
  <2>1. ~(BodyEnd(b) - BodyAt(b) < 2)
    BY <1>1, <1>7, <1>9
  <2>2. ~(Len(g) > MaxCount + 1)
    BY DEF MaxCount
  <2> QED BY <1>10, <1>12, <1>13, <2>1, <2>2 DEF MQTTDeserialize_suback
<1>15. Deserialize(b, MaxCount, 0) = MQTTDeserialize_suback(b, MaxCount)
  BY <1>10 DEF Deserialize, CONNECT, CONNACK, PUBLISH, SUBSCRIBE, SUBACK, UNSUBSCRIBE,
    UNSUBACK, PINGREQ, PINGRESP, DISCONNECT
<1> QED BY <1>2, <1>9, <1>14, <1>15 DEF Travels

(* A publication: its identifier is there only above QoS 0, and whatever   *)
(* is left of the body is its payload.                                     *)
LEMMA PublishTravels ==
  ASSUME NEW dup \in BOOLEAN, NEW qos \in 0..2, NEW retained \in BOOLEAN,
         NEW topic \in Strings, NEW id \in 0..MAX_WORD, NEW payload \in Octets,
         qos = 0 => id = 0, NEW p,
         p = [kind |-> "publish", dup |-> dup, qos |-> qos, retained |-> retained,
              topic |-> topic, id |-> id, payload |-> payload]
  PROVE  Travels(p)
<1> DEFINE h == HeaderByte(PUBLISH, dup, qos, retained)
           w == IF qos > 0 THEN WriteInt(id) ELSE <<>>  m == IF qos > 0 THEN 2 ELSE 0
           t == WriteString(topic)  tn == Len(topic)  pn == Len(payload)
           rem == 2 + tn + pn + m  body == (t \o w) \o payload
           b == Framed(BUFLEN, h, rem, body)
<1>1. Serialize(p, BUFLEN) = b
  BY DEF Serialize, MQTTSerialize_publish, MQTTSerialize_publishLength
<1>2. /\ topic \in Seq(0..255) /\ tn \in Nat
      /\ t \in Seq(0..255) /\ Len(t) = 2 + tn
      /\ payload \in Seq(0..255) /\ pn \in Nat
  BY StringTyped, StringWritten DEF Octets
<1>3. w \in Seq(0..255) /\ Len(w) = m /\ m \in 0..2
  <2>1. CASE qos > 0
    <3>1. w = WriteInt(id) /\ m = 2
      BY <2>1
    <3> HIDE DEF w, m
    <3> QED BY <3>1, IntWritten DEF Octets
  <2>2. CASE ~(qos > 0)
    BY <2>2
  <2> QED BY <2>1, <2>2
<1>4. PUBLISH \in 1..14
  BY DEF PUBLISH
<1>5. HeaderSays(h, PUBLISH, Bit(dup), qos, Bit(retained))
  BY <1>4, HeaderByteIs
<1>6. Bit(dup) = 1 <=> dup
  BY BitOf
<1>7. Bit(retained) = 1 <=> retained
  BY BitOf
<1> HIDE DEF h, t, tn, w, m, pn
<1>8. t \o w \in Seq(0..255) /\ Len(t \o w) = 2 + tn + m
  BY <1>2, <1>3, ConcatProperties
<1>9. body \in Seq(0..255) /\ Len(body) = rem /\ rem \in Nat
  <2>1. body \in Seq(0..255) /\ Len(body) = Len(t \o w) + Len(payload)
    BY <1>2, <1>8, ConcatProperties
  <2> HIDE DEF body
  <2>2. Len(body) = (2 + tn + m) + pn
    BY <1>8, <2>1 DEF pn
  <2>3. (2 + tn + m) + pn = rem /\ rem \in Nat
    BY <1>2, <1>3
  <2> QED BY <2>1, <2>2, <2>3
<1>10. b = Framed(BUFLEN, h, rem, body)
  OBVIOUS
<1>11. body = (t \o w) \o payload /\ rem = 2 + tn + pn + m
  OBVIOUS
<1> HIDE DEF body, b, rem
<1> SUFFICES ASSUME b # Refused
    PROVE  IsFrame(b) /\ Deserialize(b, MaxCount, 0) = p
  BY <1>1 DEF Travels
<1>12. Framing(b, h, body)
  BY <1>5, <1>9, <1>10, FramedOf, HeaderRead DEF Octets
<1> DEFINE at == BodyAt(b)  end == BodyEnd(b)
<1>13. /\ IsFrame(b) /\ b[1] = h /\ at \in Nat /\ end \in Nat /\ b \in Octets
       /\ b \in Seq(0..255) /\ end = at + rem /\ Holds(b, at, body)
  BY <1>9, <1>12, FrameOf DEF Octets
<1>14. /\ Type(b) = PUBLISH /\ QoS(b) = qos
       /\ Dup(b) \in BOOLEAN /\ (Dup(b) <=> dup)
       /\ IsSet(b[1], 0) \in BOOLEAN /\ (IsSet(b[1], 0) <=> retained)
  <2> DEFINE d == Bit(dup)  r == Bit(retained)
  <2>1. HeaderSays(h, PUBLISH, d, qos, r) /\ (d = 1 <=> dup) /\ (r = 1 <=> retained)
    BY <1>5, <1>6, <1>7
  <2> HIDE DEF d, r
  <2> QED BY <1>13, <2>1, HeaderRead
<1>15. Dup(b) = dup /\ IsSet(b[1], 0) = retained
  BY <1>14
<1> HIDE DEF at, end
<1>16. /\ Holds(b, at, t) /\ Holds(b, at + (2 + tn), w)
       /\ Holds(b, at + (2 + tn + m), payload)
  <2>1. Holds(b, at, t \o w) /\ Holds(b, at + Len(t \o w), payload)
    BY <1>2, <1>8, <1>11, <1>13, HoldsParts
  <2>2. Holds(b, at, t) /\ Holds(b, at + Len(t), w)
    BY <1>2, <1>3, <1>13, <2>1, HoldsParts
  <2> QED BY <1>2, <1>8, <2>1, <2>2
<1>17. ReadString(b, at, end) = [ok |-> TRUE, s |-> topic, next |-> at + 2 + tn]
  <2>1. at + 2 + tn <= end
    BY <1>2, <1>3, <1>11, <1>13
  <2> QED BY <1>13, <1>16, <2>1, StringRead DEF t, tn
<1> DEFINE next == at + 2 + tn  from == next + m
<1>18. QoS(b) > 0 => ReadInt(b, next) = id
  <2> SUFFICES ASSUME qos > 0 PROVE ReadInt(b, next) = id
    BY <1>14
  <2>1. Holds(b, next, WriteInt(id))
    <3>1. w = WriteInt(id)
      BY DEF w
    <3>2. at + (2 + tn) = next
      BY <1>2, <1>13
    <3> QED BY <1>16, <3>1, <3>2
  <2> HIDE DEF next
  <2> QED BY <1>13, <2>1, IntRead
<1>19. SubSeq(b, from, end - 1) = payload
  <2> DEFINE last == end - 1
  <2>1. from = at + (2 + tn + m) /\ last = from + pn - 1
    BY <1>2, <1>3, <1>11, <1>13
  <2> HIDE DEF from, last
  <2>2. Holds(b, from, payload) /\ last = from + Len(payload) - 1
    BY <1>16, <2>1 DEF pn
  <2>3. SubSeq(b, from, last) = payload
    BY <1>2, <1>13, <2>2, HoldsSub
  <2> QED BY <2>3 DEF last
<1>20. (IF QoS(b) > 0 THEN 2 ELSE 0) = m
  BY <1>14 DEF m
<1>21. MQTTDeserialize_publish(b, 0)
        = [kind |-> "publish", dup |-> Dup(b), qos |-> QoS(b), retained |-> IsSet(b[1], 0),
           topic |-> topic, id |-> IF QoS(b) > 0 THEN ReadInt(b, next) ELSE 0,
           payload |-> SubSeq(b, from, end - 1)]
  <2>1. /\ ReadString(b, at, end).ok /\ ReadString(b, at, end).s = topic
        /\ ReadString(b, at, end).next = next
    BY <1>17
  <2> HIDE DEF next
  <2> QED BY <1>14, <1>20, <2>1 DEF MQTTDeserialize_publish, at, end
<1>22. (IF QoS(b) > 0 THEN ReadInt(b, next) ELSE 0) = id
  <2>1. ~(qos > 0) => qos = 0
    OBVIOUS
  <2> QED BY <1>14, <1>18, <2>1
<1>23. Deserialize(b, MaxCount, 0) = MQTTDeserialize_publish(b, 0)
  BY <1>14 DEF Deserialize, CONNECT, CONNACK, PUBLISH, SUBSCRIBE, SUBACK, UNSUBSCRIBE,
    UNSUBACK, PINGREQ, PINGRESP, DISCONNECT
<1>24. MQTTDeserialize_publish(b, 0) = p
  <2> HIDE DEF from, next
  <2> QED BY <1>14, <1>15, <1>19, <1>21, <1>22
<1> QED BY <1>13, <1>23, <1>24

-----------------------------------------------------------------------------
(* Lists of filters: no more than two, as many as the receiver has room    *)
(* for.                                                                    *)

LEMMA Flattened ==
  ASSUME NEW T, NEW xs \in Seq(T), NEW n \in 0..2, Len(xs) = n
  PROVE  FlattenSeq(xs) = IF n = 0 THEN <<>> ELSE IF n = 1 THEN xs[1] ELSE xs[1] \o xs[2]
<1> DEFINE e(i) == IF i = 1 THEN xs[1] ELSE xs[1] \o xs[2]
           F == [i \in 1..n |-> e(i)]
           G(f) == [i \in 1..n |-> IF i = 1 THEN xs[i] ELSE f[i - 1] \o xs[i]]
           c == CHOOSE f : f = G(f)
<1>1. CASE n = 0
  BY <1>1 DEF FlattenSeq
<1>2. CASE n \in 1..2
  <2>1. FlattenSeq(xs) = c[n]
    BY <1>2 DEF FlattenSeq
  <2>2. F = G(F)
    <3>1. ASSUME NEW i \in 1..n PROVE e(i) = IF i = 1 THEN xs[i] ELSE F[i - 1] \o xs[i]
      <4>1. i = 1 \/ (i = 2 /\ F[1] = xs[1])
        BY <1>2
      <4> QED BY <4>1
    <3>2. F = [i \in 1..n |-> e(i)]
      OBVIOUS
    <3> HIDE DEF F, e
    <3> QED BY <3>1, <3>2
  <2>3. c = G(c)
    <3> HIDE DEF F, G
    <3> QED BY <2>2
  <2> HIDE DEF c
  <2>4. c[1] = xs[1] /\ (n = 2 => c[2] = xs[1] \o xs[2])
    <3>1. c[1] = xs[1]
      BY <1>2, <2>3
    <3>2. ASSUME n = 2 PROVE c[2] = xs[1] \o xs[2]
      BY <2>3, <3>1, <3>2
    <3> QED BY <3>1, <3>2
  <2>5. n = 1 \/ n = 2
    BY <1>2
  <2> HIDE DEF F, G, e
  <2>6. CASE n = 1
    BY <2>1, <2>4, <2>6
  <2>7. CASE n = 2
    BY <2>1, <2>4, <2>7
  <2> QED BY <2>5, <2>6, <2>7
<1>3. n = 0 \/ n \in 1..2
  OBVIOUS
<1> QED BY <1>1, <1>2, <1>3

LEMMA StringsLengthIs ==
  ASSUME NEW ss, NEW extra \in 0..1, NEW n \in 0..2, Len(ss) = n,
         \A i \in 1..n : Len(ss[i]) \in Nat
  PROVE  StringsLength(ss, extra) = IF n = 0 THEN 0 ELSE IF n = 1 THEN 2 + Len(ss[1]) + extra
                                    ELSE (2 + Len(ss[1]) + extra) + (2 + Len(ss[2]) + extra)
<1> DEFINE one == 2 + Len(ss[1]) + extra  two == one + (2 + Len(ss[2]) + extra)
           e(i) == IF i = 0 THEN 0 ELSE IF i = 1 THEN one ELSE two
           F == [i \in 0..n |-> e(i)]
           G(f) == [i \in 0..n |-> IF i = 0 THEN 0 ELSE f[i - 1] + 2 + Len(ss[i]) + extra]
           c == CHOOSE f : f = G(f)
<1>1. StringsLength(ss, extra) = c[n]
  BY DEF StringsLength
<1>2. (n >= 1 => Len(ss[1]) \in Nat) /\ (n >= 2 => Len(ss[2]) \in Nat)
  OBVIOUS
<1>3. F = G(F)
  <2>1. ASSUME NEW i \in 0..n
        PROVE  e(i) = IF i = 0 THEN 0 ELSE F[i - 1] + 2 + Len(ss[i]) + extra
    <3>1. CASE i = 0
      BY <3>1
    <3>2. CASE i = 1
      <4>1. F[0] = 0 /\ Len(ss[1]) \in Nat
        BY <1>2, <3>2
      <4> QED BY <3>2, <4>1
    <3>3. CASE i = 2
      <4>1. F[1] = one /\ Len(ss[1]) \in Nat /\ Len(ss[2]) \in Nat
        BY <1>2, <3>3
      <4>2. one \in Nat
        BY <4>1
      <4> HIDE DEF one, F
      <4> QED BY <3>3, <4>1, <4>2
    <3> QED BY <3>1, <3>2, <3>3
  <2>2. F = [i \in 0..n |-> e(i)]
    OBVIOUS
  <2> HIDE DEF F, e
  <2> QED BY <2>1, <2>2
<1>4. c = G(c)
  <2> HIDE DEF F, G
  <2> QED BY <1>3
<1> HIDE DEF c
<1>5. c[0] = 0
  BY <1>4
<1>6. ASSUME n >= 1 PROVE c[1] = one
  <2>1. c[1] = c[0] + 2 + Len(ss[1]) + extra
    BY <1>4, <1>6
  <2> QED BY <1>2, <1>5, <1>6, <2>1
<1>7. ASSUME n = 2 PROVE c[2] = two
  <2>1. c[2] = c[1] + 2 + Len(ss[2]) + extra
    BY <1>4, <1>7
  <2>2. c[1] = one /\ one \in Nat /\ Len(ss[2]) \in Nat
    BY <1>2, <1>6, <1>7
  <2> DEFINE second == Len(ss[2])
  <2>3. second \in Nat /\ c[2] = one + 2 + second + extra
    BY <2>1, <2>2
  <2> HIDE DEF one, second
  <2>4. c[2] = one + (2 + second + extra)
    BY <2>2, <2>3
  <2> QED BY <2>4 DEF second
<1>8. n = 0 \/ n = 1 \/ n = 2
  OBVIOUS
<1> HIDE DEF one, two
<1>9. StringsLength(ss, extra) = IF n = 0 THEN 0 ELSE IF n = 1 THEN one ELSE two
  BY <1>1, <1>5, <1>6, <1>7, <1>8
<1> QED BY <1>9 DEF one, two

(* One string, and what follows it.                                        *)
Position(next, list) == [next |-> next, list |-> list]
Entry(f, e) == [s |-> f, after |-> e]

After(b, end, extra, last) ==
  IF last.next >= end THEN last
  ELSE IF \/ ~ReadString(b, last.next, end).ok
          \/ ReadString(b, last.next, end).next + extra > end
  THEN [next |-> end, list |-> Append(last.list, Bad)]
  ELSE [next |-> ReadString(b, last.next, end).next + extra,
        list |-> Append(last.list,
                   [s |-> ReadString(b, last.next, end).s,
                    after |-> SubSeq(b, ReadString(b, last.next, end).next,
                                     ReadString(b, last.next, end).next + extra - 1)])]

LEMMA ReadStringsIs ==
  ASSUME NEW b, NEW n \in Nat, n >= 2, Len(b) = n, NEW at, NEW end, NEW extra,
         NEW c1, c1 = After(b, end, extra, Position(at, <<>>)),
         NEW c2, c2 = After(b, end, extra, c1), c2 = After(b, end, extra, c2)
  PROVE  ReadStrings(b, at, end, extra) = c2.list
<1> DEFINE c0 == Position(at, <<>>)
           e(i) == IF i = 0 THEN c0 ELSE IF i = 1 THEN c1 ELSE c2
           F == [i \in 0..n |-> e(i)]
           G(f) == [i \in 0..n |-> IF i = 0 THEN c0 ELSE After(b, end, extra, f[i - 1])]
           c == CHOOSE f : f = G(f)
<1>1. c1 = After(b, end, extra, c0)
  OBVIOUS
<1>2. ReadStrings(b, at, end, extra) = c[n].list
  BY DEF ReadStrings, After, Position
<1> HIDE DEF c0
<1>3. F = G(F)
  <2>1. ASSUME NEW i \in 0..n
        PROVE  e(i) = IF i = 0 THEN c0 ELSE After(b, end, extra, F[i - 1])
    <3>1. CASE i = 0
      BY <3>1
    <3>2. CASE i # 0
      <4>1. F[i - 1] = e(i - 1)
        BY <3>2
      <4>2. i = 1 \/ i = 2 \/ (i > 2 /\ i - 1 # 0 /\ i - 1 # 1)
        BY <3>2
      <4> HIDE DEF F
      <4>3. e(i) = After(b, end, extra, e(i - 1))
        BY <1>1, <4>2
      <4> QED BY <3>2, <4>1, <4>3
    <3> QED BY <3>1, <3>2
  <2>2. F = [i \in 0..n |-> e(i)]
    OBVIOUS
  <2> HIDE DEF F, e
  <2> QED BY <2>1, <2>2
<1>4. c = G(c)
  <2> HIDE DEF F, G
  <2> QED BY <1>3
<1> HIDE DEF c
<1>5. c[0] = c0 /\ \A i \in 1..n : c[i] = After(b, end, extra, c[i - 1])
  <2>1. \A i \in 0..n : c[i] = IF i = 0 THEN c0 ELSE After(b, end, extra, c[i - 1])
    BY <1>4
  <2> QED BY <2>1
<1>6. c[1] = c1
  BY <1>1, <1>5
<1>7. c[2] = c2
  BY <1>5, <1>6
<1> DEFINE S == {k \in Nat : k + 2 <= n => c[k + 2] = c2}
<1>8. 0 \in S
  BY <1>7
<1>9. ASSUME NEW k \in Nat, k \in S PROVE k + 1 \in S
  <2> SUFFICES ASSUME (k + 1) + 2 <= n PROVE c[(k + 1) + 2] = c2
    OBVIOUS
  <2>1. (k + 1) + 2 \in 1..n /\ ((k + 1) + 2) - 1 = k + 2 /\ c[k + 2] = c2
    BY <1>9
  <2> QED BY <1>5, <2>1
<1> HIDE DEF S
<1>10. Nat \subseteq S
  BY <1>8, <1>9, SetInduction
<1>11. c[n] = c2
  <2>1. n - 2 \in Nat /\ (n - 2) + 2 = n
    OBVIOUS
  <2> QED BY <1>10, <2>1 DEF S
<1> QED BY <1>2, <1>11

(* A string from at on, what follows it, and where the next one starts.    *)
ItemAt(b, at, next, end, f, e, extra) ==
  /\ b \in Octets /\ at \in Nat /\ next \in Nat /\ end \in Nat /\ extra \in 0..1
  /\ f \in Strings /\ e \in Octets /\ Len(e) = extra
  /\ Holds(b, at, WriteString(f)) /\ Holds(b, at + 2 + Len(f), e)
  /\ next = at + 2 + Len(f) + extra /\ next <= end

LEMMA AfterOne ==
  ASSUME NEW b, NEW at, NEW next, NEW end, NEW f, NEW e, NEW extra,
         ItemAt(b, at, next, end, f, e, extra),
         NEW list
  PROVE  After(b, end, extra, Position(at, list)) = Position(next, Append(list, Entry(f, e)))
<1> DEFINE from == at + 2 + Len(f)  r == ReadString(b, at, end)  last == Position(at, list)
<1>1. /\ b \in Octets /\ at \in Nat /\ next \in Nat /\ end \in Nat /\ extra \in 0..1
      /\ f \in Strings /\ e \in Octets /\ Len(e) = extra
      /\ Holds(b, at, WriteString(f)) /\ Holds(b, from, e)
      /\ next = from + extra /\ next <= end
  BY DEF ItemAt
<1>2. Len(f) \in Nat /\ from \in Nat
  BY <1>1, StringTyped
<1>3. r = [ok |-> TRUE, s |-> f, next |-> from]
  <2>1. from <= end
    BY <1>1, <1>2
  <2> QED BY <1>1, <2>1, StringRead
<1>4. ~(at >= end) /\ ~(from + extra > end)
  BY <1>1, <1>2
<1>5. SubSeq(b, from, from + extra - 1) = e
  <2> DEFINE to == from + extra - 1
  <2>1. to = from + Len(e) - 1 /\ b \in Seq(0..255) /\ e \in Seq(0..255)
    BY <1>1, <1>2 DEF Octets
  <2> HIDE DEF to, from
  <2>2. SubSeq(b, from, to) = e
    BY <1>1, <2>1, HoldsSub
  <2> QED BY <2>2 DEF to
<1> HIDE DEF r, from
<1>6. r.ok /\ r.s = f /\ r.next = from
  BY <1>3
<1>7. last.next = at /\ last.list = list
  BY DEF Position
<1>8. After(b, end, extra, last)
        = [next |-> r.next + extra,
           list |-> Append(list, [s |-> r.s, after |-> SubSeq(b, r.next, r.next + extra - 1)])]
  BY <1>4, <1>6, <1>7 DEF After, r
<1> QED BY <1>1, <1>5, <1>6, <1>8 DEF Position, Entry

LEMMA AfterAll ==
  ASSUME NEW b, NEW end \in Nat, NEW extra, NEW list
  PROVE  After(b, end, extra, Position(end, list)) = Position(end, list)
  BY DEF After, Position

(* A filter as it is written, with the bytes that belong to it.            *)
Item(x, f, e, extra) ==
  f \in Strings /\ e \in Octets /\ Len(e) = extra /\ x = WriteString(f) \o e

LEMMA ItemTyped ==
  ASSUME NEW x, NEW f, NEW e, NEW extra \in 0..1, Item(x, f, e, extra)
  PROVE  x \in Seq(0..255) /\ Len(x) = 2 + Len(f) + extra /\ Len(x) \in Nat /\ Len(f) \in Nat
<1> DEFINE w == WriteString(f)
<1>1. f \in Strings /\ e \in Seq(0..255) /\ Len(e) = extra /\ x = w \o e
  BY DEF Item, Octets
<1>2. w \in Seq(0..255) /\ Len(w) = 2 + Len(f) /\ Len(f) \in Nat
  BY <1>1, StringTyped, StringWritten DEF Octets
<1> HIDE DEF w
<1>3. x \in Seq(0..255) /\ Len(x) = Len(w) + Len(e)
  BY <1>1, <1>2, ConcatProperties
<1>4. Len(x) \in Nat
  BY <1>3
<1> QED BY <1>1, <1>2, <1>3, <1>4

LEMMA ItemIsAt ==
  ASSUME NEW x, NEW f, NEW e, NEW extra \in 0..1, Item(x, f, e, extra),
         NEW b \in Octets, NEW at \in Nat, Holds(b, at, x), NEW end \in Nat,
         NEW next, next = at + Len(x), next <= end
  PROVE  ItemAt(b, at, next, end, f, e, extra)
<1> DEFINE w == WriteString(f)
<1>1. f \in Strings /\ e \in Octets /\ e \in Seq(0..255) /\ Len(e) = extra /\ x = w \o e
  BY DEF Item, Octets
<1>2. w \in Seq(0..255) /\ Len(w) = 2 + Len(f) /\ Len(f) \in Nat
  BY <1>1, StringTyped, StringWritten DEF Octets
<1> HIDE DEF w
<1>3. Holds(b, at, w) /\ Holds(b, at + 2 + Len(f), e)
  <2>1. Holds(b, at, w) /\ Holds(b, at + Len(w), e)
    BY <1>1, <1>2, HoldsParts DEF Octets
  <2>2. at + Len(w) = at + 2 + Len(f)
    BY <1>2
  <2> QED BY <2>1, <2>2
<1>4. next = at + 2 + Len(f) + extra
  <2>1. Len(x) = 2 + Len(f) + extra
    BY ItemTyped
  <2> QED BY <1>2, <2>1
<1>5. next \in Nat
  BY <1>2, <1>4
<1> QED BY <1>1, <1>3, <1>4, <1>5 DEF ItemAt, w

(* The list of n entries that a reader of strings gives.                   *)
IsList(list, n, fs, es) ==
  /\ DOMAIN list = 1..n /\ Len(list) = n
  /\ \A i \in 1..n : list[i] = Entry(fs[i], es[i])

LEMMA ListRead ==
  ASSUME NEW n \in 0..2, NEW fs, NEW es, NEW xs \in Seq(Seq(0..255)), Len(xs) = n,
         NEW extra \in 0..1, \A i \in 1..n : Item(xs[i], fs[i], es[i], extra),
         NEW b \in Octets, NEW total \in Nat, total >= 2, Len(b) = total, NEW at \in Nat,
         Holds(b, at, FlattenSeq(xs)), NEW end, end = at + Len(FlattenSeq(xs))
  PROVE  IsList(ReadStrings(b, at, end, extra), n, fs, es)
<1> DEFINE none == <<>>  c0 == Position(at, none)
           x == xs[1]  f == fs[1]  e == es[1]  i1 == Entry(f, e)
           y == xs[2]  f2 == fs[2]  e2 == es[2]  i2 == Entry(f2, e2)
           l1 == Append(none, i1)  l2 == Append(l1, i2)
<1>1. FlattenSeq(xs) = IF n = 0 THEN <<>> ELSE IF n = 1 THEN xs[1] ELSE xs[1] \o xs[2]
  BY Flattened
<1>2. c0 = Position(at, <<>>) /\ c0.list = <<>>
  BY DEF Position
<1>3. /\ Len(l1) = 1 /\ l1[1] = i1 /\ DOMAIN l1 = 1..1
      /\ Len(l2) = 2 /\ l2[1] = i1 /\ l2[2] = i2 /\ DOMAIN l2 = 1..2
  <2> DEFINE S == {i1, i2}
  <2>0. i1 \in S /\ i2 \in S
    OBVIOUS
  <2> HIDE DEF i1, i2, S
  <2>1. none \in Seq(S) /\ Len(none) = 0
    OBVIOUS
  <2> HIDE DEF none
  <2>2. l1 \in Seq(S) /\ Len(l1) = 1 /\ l1[1] = i1
    BY <2>0, <2>1, AppendProperties
  <2> HIDE DEF l1
  <2>3. l2 \in Seq(S) /\ Len(l2) = 2 /\ l2[1] = i1 /\ l2[2] = i2
    <3>1. /\ l2 \in Seq(S) /\ Len(l2) = Len(l1) + 1 /\ l2[Len(l1) + 1] = i2
          /\ \A i \in 1..Len(l1) : l2[i] = l1[i]
      <4>1. l2 = Append(l1, i2) /\ l1 \in Seq(S) /\ i2 \in S
        BY <2>0, <2>2
      <4> HIDE DEF l2
      <4> QED BY ONLY <4>1, AppendProperties
    <3>2. Len(l1) + 1 = 2 /\ 1 \in 1..Len(l1)
      BY <2>2
    <3> QED BY <2>2, <3>1, <3>2
  <2> HIDE DEF l2
  <2> QED BY <2>2, <2>3
<1>4. i1 = Entry(fs[1], es[1]) /\ i2 = Entry(fs[2], es[2])
  OBVIOUS
<1>5. l1 = Append(none, Entry(f, e)) /\ l2 = Append(l1, Entry(f2, e2)) /\ c0 = Position(at, none)
  OBVIOUS
<1> HIDE DEF none, c0, l1, l2, i1, i2
<1>6. CASE n = 0
  <2>1. end = at
    BY <1>1, <1>6
  <2>2. c0 = After(b, end, extra, c0)
    BY <1>5, <2>1, AfterAll
  <2>3. ReadStrings(b, at, end, extra) = <<>>
    BY <1>2, <2>2, ReadStringsIs
  <2> QED BY <1>6, <2>3 DEF IsList
<1>7. CASE n = 1
  <2> DEFINE c1 == Position(end, l1)
  <2>1. Item(x, f, e, extra) /\ FlattenSeq(xs) = x
    BY <1>1, <1>7
  <2> HIDE DEF x, f, e
  <2>2. Len(x) \in Nat
    BY <2>1, ItemTyped
  <2>3. end \in Nat /\ end = at + Len(x) /\ end <= end /\ Holds(b, at, x)
    BY <2>1, <2>2
  <2>4. ItemAt(b, at, end, end, f, e, extra)
    BY <2>1, <2>3, ItemIsAt
  <2>5. After(b, end, extra, c0) = c1
    BY <1>5, <2>4, AfterOne
  <2>6. c1 = After(b, end, extra, c1)
    BY <2>3, AfterAll
  <2>7. c1.list = l1
    BY DEF Position
  <2> HIDE DEF c1
  <2>8. ReadStrings(b, at, end, extra) = l1
    BY <1>2, <2>5, <2>6, <2>7, ReadStringsIs
  <2>9. \A i \in 1..n : i = 1
    BY <1>7
  <2> QED BY <1>3, <1>4, <1>7, <2>8, <2>9 DEF IsList
<1>8. CASE n = 2
  <2> DEFINE m == at + Len(x)  c1 == Position(m, l1)  c2 == Position(end, l2)
  <2>1. /\ Item(x, f, e, extra) /\ Item(y, f2, e2, extra)
        /\ FlattenSeq(xs) = x \o y
    BY <1>1, <1>8
  <2> HIDE DEF x, y, f, e, f2, e2
  <2>2. x \in Seq(0..255) /\ y \in Seq(0..255) /\ Len(x) \in Nat /\ Len(y) \in Nat
    BY <2>1, ItemTyped
  <2>3. Len(x \o y) = Len(x) + Len(y)
    BY <2>2, ConcatProperties
  <2>4. Holds(b, at, x) /\ Holds(b, m, y)
    <3>1. Holds(b, at, x \o y) /\ b \in Seq(0..255)
      BY <2>1 DEF Octets
    <3> QED BY ONLY <2>2, <3>1, HoldsParts
  <2>5. end \in Nat /\ m \in Nat /\ m <= end /\ end = m + Len(y) /\ end <= end
    BY <2>1, <2>2, <2>3
  <2>6. m = at + Len(x) /\ c1 = Position(m, l1) /\ c2.list = l2
    BY DEF Position
  <2> HIDE DEF m
  <2>7. ItemAt(b, at, m, end, f, e, extra)
    BY <2>1, <2>4, <2>5, <2>6, ItemIsAt
  <2>8. ItemAt(b, m, end, end, f2, e2, extra)
    BY <2>1, <2>4, <2>5, ItemIsAt
  <2>9. After(b, end, extra, c0) = c1
    BY <1>5, <2>7, AfterOne
  <2>10. After(b, end, extra, c1) = c2
    BY <1>5, <2>8, AfterOne
  <2>11. c2 = After(b, end, extra, c2)
    BY <2>5, AfterAll
  <2> HIDE DEF c1, c2
  <2>12. ReadStrings(b, at, end, extra) = l2
    BY <1>2, <2>6, <2>9, <2>10, <2>11, ReadStringsIs
  <2>13. \A i \in 1..n : i = 1 \/ i = 2
    BY <1>8
  <2> QED BY <1>3, <1>4, <1>8, <2>12, <2>13 DEF IsList
<1> QED BY <1>6, <1>7, <1>8

LEMMA ListWritten ==
  ASSUME NEW n \in 0..2, NEW fs, Len(fs) = n, NEW es, NEW xs \in Seq(Seq(0..255)), Len(xs) = n,
         NEW extra \in 0..1, \A i \in 1..n : Item(xs[i], fs[i], es[i], extra)
  PROVE  /\ FlattenSeq(xs) \in Seq(0..255) /\ Len(FlattenSeq(xs)) = StringsLength(fs, extra)
         /\ StringsLength(fs, extra) \in Nat
<1>1. FlattenSeq(xs) = IF n = 0 THEN <<>> ELSE IF n = 1 THEN xs[1] ELSE xs[1] \o xs[2]
  BY Flattened
<1>2. \A i \in 1..n : /\ xs[i] \in Seq(0..255) /\ Len(xs[i]) = 2 + Len(fs[i]) + extra
                      /\ Len(fs[i]) \in Nat
  BY ItemTyped
<1>3. StringsLength(fs, extra) = IF n = 0 THEN 0 ELSE IF n = 1 THEN 2 + Len(fs[1]) + extra
                                 ELSE (2 + Len(fs[1]) + extra) + (2 + Len(fs[2]) + extra)
  BY <1>2, StringsLengthIs
<1>4. CASE n = 0
  BY <1>1, <1>3, <1>4
<1>5. CASE n = 1
  BY <1>1, <1>2, <1>3, <1>5
<1>6. CASE n = 2
  <2> DEFINE x == xs[1]  y == xs[2]  k == Len(fs[1])  m == Len(fs[2])
  <2>1. /\ FlattenSeq(xs) = x \o y
        /\ StringsLength(fs, extra) = (2 + k + extra) + (2 + m + extra)
    BY <1>1, <1>3, <1>6
  <2>2. /\ x \in Seq(0..255) /\ Len(x) = 2 + k + extra /\ k \in Nat
        /\ y \in Seq(0..255) /\ Len(y) = 2 + m + extra /\ m \in Nat
    BY <1>2, <1>6
  <2> HIDE DEF x, y, k, m
  <2>3. x \o y \in Seq(0..255) /\ Len(x \o y) = Len(x) + Len(y)
    BY <2>2, ConcatProperties, ZenonT(40)
  <2>4. (2 + k + extra) + (2 + m + extra) \in Nat
    BY <2>2
  <2> QED BY <2>1, <2>2, <2>3, <2>4
<1> QED BY <1>4, <1>5, <1>6

(* SUBSCRIBE and UNSUBSCRIBE: an identifier and the list.                  *)
Listing(b, h, id, n, fs, es, xs, extra) ==
  /\ n \in 0..2 /\ Len(fs) = n /\ xs \in Seq(Seq(0..255)) /\ Len(xs) = n /\ extra \in 0..1
  /\ \A i \in 1..n : Item(xs[i], fs[i], es[i], extra)
  /\ h \in 0..255 /\ id \in 0..MAX_WORD
  /\ b = Framed(BUFLEN, h, 2 + StringsLength(fs, extra), WriteInt(id) \o FlattenSeq(xs))
  /\ b # Refused

LEMMA ListTravels ==
  ASSUME NEW n, NEW fs, NEW es, NEW xs, NEW extra, NEW h, NEW id, NEW b,
         Listing(b, h, id, n, fs, es, xs, extra)
  PROVE  /\ IsFrame(b) /\ b[1] = h /\ ReadInt(b, BodyAt(b)) = id
         /\ IsList(ReadStrings(b, BodyAt(b) + 2, BodyEnd(b), extra), n, fs, es)
<1> DEFINE flat == FlattenSeq(xs)  w == WriteInt(id)  body == w \o flat
           m == StringsLength(fs, extra)  rem == 2 + m
<1>1. /\ n \in 0..2 /\ Len(fs) = n /\ xs \in Seq(Seq(0..255)) /\ Len(xs) = n /\ extra \in 0..1
      /\ \A i \in 1..n : Item(xs[i], fs[i], es[i], extra)
      /\ h \in 0..255 /\ id \in 0..MAX_WORD /\ b # Refused
  BY DEF Listing
<1>2. flat \in Seq(0..255) /\ Len(flat) = m /\ m \in Nat
  BY <1>1, ListWritten
<1>3. w \in Seq(0..255) /\ Len(w) = 2
  BY <1>1, IntWritten DEF Octets
<1>4. b = Framed(BUFLEN, h, rem, body)
  BY DEF Listing
<1> HIDE DEF flat, w, m
<1>5. body \in Seq(0..255) /\ Len(body) = Len(w) + Len(flat)
  BY <1>2, <1>3, ConcatProperties
<1>6. body = w \o flat
  OBVIOUS
<1> HIDE DEF body
<1>7. body \in Octets /\ Len(body) = rem /\ rem \in Nat
  BY <1>2, <1>3, <1>5 DEF Octets
<1>8. Framing(b, h, body)
  <2> HIDE DEF rem
  <2> QED BY <1>1, <1>4, <1>7, FramedOf
<1> DEFINE at == BodyAt(b)  end == BodyEnd(b)
<1>9. /\ IsFrame(b) /\ b[1] = h /\ at \in Nat /\ b \in Octets /\ b \in Seq(0..255)
      /\ end = Len(b) + 1 /\ end = at + Len(body) /\ Holds(b, at, body)
  BY <1>8, FrameOf DEF Octets
<1> HIDE DEF at, end
<1>10. Holds(b, at, w) /\ Holds(b, at + 2, flat)
  <2>0. Holds(b, at, w \o flat)
    BY <1>6, <1>9
  <2>1. Holds(b, at, w) /\ Holds(b, at + Len(w), flat)
    <3>1. b \in Seq(0..255) /\ w \in Seq(0..255) /\ flat \in Seq(0..255)
      BY <1>2, <1>3, <1>9
    <3> QED BY ONLY <2>0, <3>1, HoldsParts
  <2> QED BY <1>3, <2>1
<1>11. ReadInt(b, at) = id
  BY <1>1, <1>9, <1>10, IntRead DEF w
<1>12. Len(b) \in Nat /\ Len(b) >= 2
  <2>1. at # 0
    BY <1>9 DEF Holds
  <2>2. Len(b) \in Nat
    BY <1>9
  <2> QED BY <1>2, <1>7, <1>9, <2>1, <2>2
<1>13. IsList(ReadStrings(b, at + 2, end, extra), n, fs, es)
  <2> DEFINE at2 == at + 2  total == Len(b)
  <2>0. at2 \in Nat /\ Holds(b, at2, flat)
    BY <1>9, <1>10
  <2>1. end = at2 + Len(flat)
    <3>1. end = at + (2 + m) /\ Len(flat) = m
      BY <1>2, <1>7, <1>9
    <3>2. at \in Nat /\ m \in Nat
      BY <1>2, <1>9
    <3> QED BY ONLY <3>1, <3>2
  <2>2. total \in Nat /\ total >= 2 /\ Len(b) = total
    BY <1>12
  <2> HIDE DEF at2, total
  <2>3. IsList(ReadStrings(b, at2, end, extra), n, fs, es)
    BY <1>1, <1>9, <2>0, <2>1, <2>2, ListRead DEF flat
  <2> QED BY <2>3 DEF at2
<1> QED BY <1>9, <1>11, <1>13 DEF at, end

LEMMA EntryIs ==
  ASSUME NEW f, NEW e
  PROVE  Entry(f, e).s = f /\ Entry(f, e).after = e /\ Entry(f, e) # Bad
<1>1. DOMAIN Entry(f, e) = {"s", "after"} /\ DOMAIN Bad = {"kind"}
  BY DEF Entry, Bad
<1>2. "s" # "kind"
  OBVIOUS
<1>3. Entry(f, e) # Bad
  BY <1>1, <1>2
<1> QED BY <1>3 DEF Entry

(* What the deserializers make of a list.                                  *)
LEMMA ListIs ==
  ASSUME NEW list, NEW n \in 0..2, NEW fs, NEW es, IsList(list, n, fs, es),
         NEW T, fs \in Seq(T), Len(fs) = n
  PROVE  /\ Len(list) = n /\ ~Contains(list, Bad) /\ DOMAIN list = 1..n
         /\ [i \in DOMAIN list |-> list[i].s] = fs
         /\ \A i \in 1..n : list[i].after = es[i]
<1>1. DOMAIN list = 1..n /\ Len(list) = n /\ \A i \in 1..n : list[i] = Entry(fs[i], es[i])
  BY DEF IsList
<1>2. \A i \in 1..n : list[i].s = fs[i] /\ list[i].after = es[i] /\ list[i] # Bad
  BY <1>1, EntryIs
<1>3. ~Contains(list, Bad)
  BY <1>1, <1>2 DEF Contains
<1>4. fs = [i \in 1..n |-> fs[i]]
  OBVIOUS
<1>5. [i \in DOMAIN list |-> list[i].s] = fs
  BY <1>1, <1>2, <1>4
<1> QED BY <1>1, <1>2, <1>3, <1>5

LEMMA SubscribeTravels ==
  ASSUME NEW dup \in BOOLEAN, NEW id \in 0..MAX_WORD, NEW n \in 0..2,
         NEW filters \in Seq(Strings), Len(filters) = n, NEW qoss \in Octets, Len(qoss) = n,
         NEW p, p = [kind |-> "subscribe", dup |-> dup, id |-> id, filters |-> filters,
                     qoss |-> qoss]
  PROVE  Travels(p)
<1> DEFINE h == HeaderByte(SUBSCRIBE, dup, 1, FALSE)
           xs == [i \in DOMAIN filters |-> WriteString(filters[i]) \o <<qoss[i]>>]
           es == [i \in 1..n |-> <<qoss[i]>>]
           b == Framed(BUFLEN, h, 2 + StringsLength(filters, 1), WriteInt(id) \o FlattenSeq(xs))
<1>1. Serialize(p, BUFLEN) = b
  BY DEF Serialize, MQTTSerialize_subscribe, MQTTSerialize_subscribeLength
<1>2. SUBSCRIBE \in 1..14 /\ FALSE \in BOOLEAN /\ 1 \in 0..2
  BY DEF SUBSCRIBE
<1>3. HeaderSays(h, SUBSCRIBE, Bit(dup), 1, Bit(FALSE))
  BY <1>2, HeaderByteIs
<1>4. h \in 0..255
  BY <1>3, HeaderRead
<1>5. Bit(dup) = 1 <=> dup
  BY BitOf
<1> HIDE DEF h
<1>6. /\ xs \in Seq(Seq(0..255)) /\ Len(xs) = n
      /\ \A i \in 1..n : Item(xs[i], filters[i], es[i], 1)
  <2>1. ASSUME NEW i \in 1..n
        PROVE  WriteString(filters[i]) \o <<qoss[i]>> \in Seq(0..255)
               /\ Item(WriteString(filters[i]) \o <<qoss[i]>>, filters[i], <<qoss[i]>>, 1)
    <3> DEFINE w == WriteString(filters[i])  q == <<qoss[i]>>
    <3>0. qoss \in Seq(0..255)
      BY DEF Octets
    <3>1. filters[i] \in Strings /\ qoss[i] \in 0..255
      <4>1. filters[i] \in Strings
        OBVIOUS
      <4>2. qoss[i] \in 0..255
        <5>1. i \in 1..Len(qoss)
          OBVIOUS
        <5> QED BY <3>0, <5>1, ElementOfSeq
      <4> QED BY <4>1, <4>2
    <3>2. w \in Seq(0..255)
      BY <3>1, StringWritten DEF Octets
    <3>3. q \in Seq(0..255) /\ Len(q) = 1
      BY <3>1
    <3> HIDE DEF w, q
    <3>4. w \o q \in Seq(0..255)
      BY <3>2, <3>3
    <3>5. Item(w \o q, filters[i], q, 1)
      BY <3>1, <3>3 DEF Item, Octets, w
    <3> QED BY <3>4, <3>5 DEF w, q
  <2>2. DOMAIN filters = 1..n
    OBVIOUS
  <2> DEFINE X(i) == WriteString(filters[i]) \o <<qoss[i]>>
  <2>3. xs = [i \in 1..n |-> X(i)] /\ \A i \in 1..n : X(i) \in Seq(0..255)
    BY <2>1, <2>2
  <2> HIDE DEF X, xs
  <2>4. xs \in Seq(Seq(0..255)) /\ Len(xs) = n
    BY <2>3
  <2> QED BY <2>1, <2>2, <2>4 DEF xs
<1>7. b = Framed(BUFLEN, h, 2 + StringsLength(filters, 1), WriteInt(id) \o FlattenSeq(xs))
  OBVIOUS
<1>8. \A i \in 1..n : es[i] = <<qoss[i]>>
  OBVIOUS
<1> HIDE DEF b, xs, es
<1> SUFFICES ASSUME b # Refused
    PROVE  IsFrame(b) /\ Deserialize(b, MaxCount, 0) = p
  BY <1>1 DEF Travels
<1> DEFINE list == ReadStrings(b, BodyAt(b) + 2, BodyEnd(b), 1)
<1>9. IsFrame(b) /\ b[1] = h /\ ReadInt(b, BodyAt(b)) = id /\ IsList(list, n, filters, es)
  <2> DEFINE one == 1
  <2>1. Listing(b, h, id, n, filters, es, xs, one)
    BY <1>4, <1>6, <1>7 DEF Listing
  <2> HIDE DEF one
  <2>2. /\ IsFrame(b) /\ b[1] = h /\ ReadInt(b, BodyAt(b)) = id
        /\ IsList(ReadStrings(b, BodyAt(b) + 2, BodyEnd(b), one), n, filters, es)
    BY <2>1, ListTravels
  <2> QED BY <2>2 DEF one
<1> HIDE DEF list
<1>10. /\ Type(b) = SUBSCRIBE /\ Dup(b) \in BOOLEAN /\ (Dup(b) <=> dup)
  <2> DEFINE d == Bit(dup)  r == Bit(FALSE)  q == 1
  <2>1. HeaderSays(h, SUBSCRIBE, d, q, r) /\ (d = 1 <=> dup)
    BY <1>3, <1>5
  <2> HIDE DEF d, r, q
  <2> QED BY <1>9, <2>1, HeaderRead
<1>11. /\ Len(list) = n /\ ~Contains(list, Bad) /\ DOMAIN list = 1..n
       /\ [i \in DOMAIN list |-> list[i].s] = filters
       /\ \A i \in 1..n : list[i].after = es[i]
  <2>1. ~Contains(list, Bad) /\ [i \in DOMAIN list |-> list[i].s] = filters
    BY <1>9, ListIs
  <2>2. /\ Len(list) = n /\ DOMAIN list = 1..n
        /\ \A i \in 1..n : list[i] = Entry(filters[i], es[i])
    BY <1>9 DEF IsList
  <2> QED BY <2>1, <2>2, EntryIs
<1>12. [i \in DOMAIN list |-> list[i].after[1]] = qoss
  <2>1. \A i \in 1..n : list[i].after[1] = qoss[i]
    BY <1>8, <1>11
  <2>2. qoss = [i \in 1..n |-> qoss[i]]
    BY DEF Octets
  <2> QED BY <1>11, <2>1, <2>2
<1>13. ~(Len(list) > MaxCount)
  BY <1>11 DEF MaxCount
<1>14. MQTTDeserialize_subscribe(b, MaxCount) = p
  <2>1. MQTTDeserialize_subscribe(b, MaxCount)
          = [kind |-> "subscribe", dup |-> Dup(b), id |-> ReadInt(b, BodyAt(b)),
             filters |-> [i \in DOMAIN list |-> list[i].s],
             qoss |-> [i \in DOMAIN list |-> list[i].after[1]]]
    BY <1>10, <1>11, <1>13 DEF MQTTDeserialize_subscribe, list
  <2>2. Dup(b) = dup
    BY <1>10
  <2> QED BY <1>9, <1>11, <1>12, <2>1, <2>2
<1>15. Deserialize(b, MaxCount, 0) = MQTTDeserialize_subscribe(b, MaxCount)
  BY <1>10 DEF Deserialize, CONNECT, CONNACK, PUBLISH, SUBSCRIBE, SUBACK, UNSUBSCRIBE,
    UNSUBACK, PINGREQ, PINGRESP, DISCONNECT
<1> QED BY <1>9, <1>14, <1>15

LEMMA UnsubscribeTravels ==
  ASSUME NEW dup \in BOOLEAN, NEW id \in 0..MAX_WORD, NEW n \in 0..2,
         NEW filters \in Seq(Strings), Len(filters) = n,
         NEW p, p = [kind |-> "unsubscribe", dup |-> dup, id |-> id, filters |-> filters]
  PROVE  Travels(p)
<1> DEFINE h == HeaderByte(UNSUBSCRIBE, dup, 1, FALSE)
           xs == [i \in DOMAIN filters |-> WriteString(filters[i])]
           es == [i \in 1..n |-> <<>>]
           b == Framed(BUFLEN, h, 2 + StringsLength(filters, 0), WriteInt(id) \o FlattenSeq(xs))
<1>1. Serialize(p, BUFLEN) = b
  BY DEF Serialize, MQTTSerialize_unsubscribe, MQTTSerialize_unsubscribeLength, WriteStrings
<1>2. UNSUBSCRIBE \in 1..14 /\ FALSE \in BOOLEAN /\ 1 \in 0..2
  BY DEF UNSUBSCRIBE
<1>3. HeaderSays(h, UNSUBSCRIBE, Bit(dup), 1, Bit(FALSE))
  BY <1>2, HeaderByteIs
<1>4. h \in 0..255
  BY <1>3, HeaderRead
<1>5. Bit(dup) = 1 <=> dup
  BY BitOf
<1> HIDE DEF h
<1>6. /\ xs \in Seq(Seq(0..255)) /\ Len(xs) = n
      /\ \A i \in 1..n : Item(xs[i], filters[i], es[i], 0)
  <2>1. ASSUME NEW i \in 1..n
        PROVE  WriteString(filters[i]) \in Seq(0..255)
               /\ Item(WriteString(filters[i]), filters[i], <<>>, 0)
    <3> DEFINE w == WriteString(filters[i])  q == <<>>
    <3>1. filters[i] \in Strings
      OBVIOUS
    <3>2. w \in Seq(0..255)
      BY <3>1, StringWritten DEF Octets
    <3> HIDE DEF w
    <3>3. w = w \o q /\ q \in Seq(0..255) /\ Len(q) = 0
      BY <3>2
    <3> HIDE DEF q
    <3>4. Item(w, filters[i], q, 0)
      BY <3>1, <3>3 DEF Item, Octets, w
    <3> QED BY <3>2, <3>4 DEF w, q
  <2>2. DOMAIN filters = 1..n
    OBVIOUS
  <2>3. xs \in Seq(Seq(0..255)) /\ Len(xs) = n
    BY <2>1, <2>2
  <2> QED BY <2>1, <2>2, <2>3
<1>7. b = Framed(BUFLEN, h, 2 + StringsLength(filters, 0), WriteInt(id) \o FlattenSeq(xs))
  OBVIOUS
<1> HIDE DEF b, xs, es
<1> SUFFICES ASSUME b # Refused
    PROVE  IsFrame(b) /\ Deserialize(b, MaxCount, 0) = p
  BY <1>1 DEF Travels
<1> DEFINE list == ReadStrings(b, BodyAt(b) + 2, BodyEnd(b), 0)
<1>8. IsFrame(b) /\ b[1] = h /\ ReadInt(b, BodyAt(b)) = id /\ IsList(list, n, filters, es)
  <2> DEFINE zero == 0
  <2>1. Listing(b, h, id, n, filters, es, xs, zero)
    BY <1>4, <1>6, <1>7 DEF Listing
  <2> HIDE DEF zero
  <2>2. /\ IsFrame(b) /\ b[1] = h /\ ReadInt(b, BodyAt(b)) = id
        /\ IsList(ReadStrings(b, BodyAt(b) + 2, BodyEnd(b), zero), n, filters, es)
    BY <2>1, ListTravels
  <2> QED BY <2>2 DEF zero
<1> HIDE DEF list
<1>9. /\ Type(b) = UNSUBSCRIBE /\ Dup(b) \in BOOLEAN /\ (Dup(b) <=> dup)
  <2> DEFINE d == Bit(dup)  r == Bit(FALSE)  q == 1
  <2>1. HeaderSays(h, UNSUBSCRIBE, d, q, r) /\ (d = 1 <=> dup)
    BY <1>3, <1>5
  <2> HIDE DEF d, r, q
  <2> QED BY <1>8, <2>1, HeaderRead
<1>10. ~Contains(list, Bad) /\ [i \in DOMAIN list |-> list[i].s] = filters
  BY <1>8, ListIs
<1>11. MQTTDeserialize_unsubscribe(b) = p
  <2>1. MQTTDeserialize_unsubscribe(b)
          = [kind |-> "unsubscribe", dup |-> Dup(b), id |-> ReadInt(b, BodyAt(b)),
             filters |-> [i \in DOMAIN list |-> list[i].s]]
    BY <1>9, <1>10 DEF MQTTDeserialize_unsubscribe, list
  <2>2. Dup(b) = dup
    BY <1>9
  <2> QED BY <1>8, <1>10, <2>1, <2>2
<1>12. Deserialize(b, MaxCount, 0) = MQTTDeserialize_unsubscribe(b)
  BY <1>9 DEF Deserialize, CONNECT, CONNACK, PUBLISH, SUBSCRIBE, SUBACK, UNSUBSCRIBE,
    UNSUBACK, PINGREQ, PINGRESP, DISCONNECT
<1> QED BY <1>8, <1>11, <1>12

-----------------------------------------------------------------------------
(* CONNECT.                                                                *)

Chain(x1, x2, x3, x4, x5, x6, x7, x8) ==
  x1 \o x2 \o x3 \o x4 \o x5 \o x6 \o x7 \o x8

Links(x1, x2, x3, x4, x5, x6, x7, x8) ==
  /\ x1 \in Seq(0..255) /\ x2 \in Seq(0..255) /\ x3 \in Seq(0..255) /\ x4 \in Seq(0..255)
  /\ x5 \in Seq(0..255) /\ x6 \in Seq(0..255) /\ x7 \in Seq(0..255) /\ x8 \in Seq(0..255)

LEMMA ChainLength ==
  ASSUME NEW x1, NEW x2, NEW x3, NEW x4, NEW x5, NEW x6, NEW x7, NEW x8,
         Links(x1, x2, x3, x4, x5, x6, x7, x8)
  PROVE  /\ Chain(x1, x2, x3, x4, x5, x6, x7, x8) \in Seq(0..255)
         /\ Len(Chain(x1, x2, x3, x4, x5, x6, x7, x8))
              = Len(x1) + Len(x2) + Len(x3) + Len(x4) + Len(x5) + Len(x6) + Len(x7) + Len(x8)
<1> DEFINE y2 == x1 \o x2  y3 == y2 \o x3  y4 == y3 \o x4  y5 == y4 \o x5  y6 == y5 \o x6
           y7 == y6 \o x7  y8 == y7 \o x8  T == 0..255
<1>1. /\ x1 \in Seq(T) /\ x2 \in Seq(T) /\ x3 \in Seq(T) /\ x4 \in Seq(T)
      /\ x5 \in Seq(T) /\ x6 \in Seq(T) /\ x7 \in Seq(T) /\ x8 \in Seq(T)
  BY DEF Links
<1>2. Chain(x1, x2, x3, x4, x5, x6, x7, x8) = y8
  BY DEF Chain
<1> HIDE DEF T
<1>3. y2 \in Seq(T) /\ Len(y2) = Len(x1) + Len(x2)
  BY <1>1, ConcatProperties
<1> HIDE DEF y2
<1>4. y3 \in Seq(T) /\ Len(y3) = Len(y2) + Len(x3)
  BY <1>1, <1>3, ConcatProperties
<1> HIDE DEF y3
<1>5. y4 \in Seq(T) /\ Len(y4) = Len(y3) + Len(x4)
  BY <1>1, <1>4, ConcatProperties
<1> HIDE DEF y4
<1>6. y5 \in Seq(T) /\ Len(y5) = Len(y4) + Len(x5)
  BY <1>1, <1>5, ConcatProperties
<1> HIDE DEF y5
<1>7. y6 \in Seq(T) /\ Len(y6) = Len(y5) + Len(x6)
  BY <1>1, <1>6, ConcatProperties
<1> HIDE DEF y6
<1>8. y7 \in Seq(T) /\ Len(y7) = Len(y6) + Len(x7)
  BY <1>1, <1>7, ConcatProperties
<1> HIDE DEF y7
<1>9. y8 \in Seq(T) /\ Len(y8) = Len(y7) + Len(x8)
  BY <1>1, <1>8, ConcatProperties
<1> HIDE DEF y8
<1> QED BY <1>2, <1>1, <1>3, <1>4, <1>5, <1>6, <1>7, <1>8, <1>9 DEF T

LEMMA ChainHeld ==
  ASSUME NEW x1, NEW x2, NEW x3, NEW x4, NEW x5, NEW x6, NEW x7, NEW x8,
         Links(x1, x2, x3, x4, x5, x6, x7, x8), NEW b \in Seq(0..255), NEW at, Holds(b, at, Chain(x1, x2, x3, x4, x5, x6, x7, x8))
  PROVE  /\ Holds(b, at, x1)
         /\ Holds(b, at + Len(x1), x2)
         /\ Holds(b, at + (Len(x1) + Len(x2)), x3)
         /\ Holds(b, at + (Len(x1) + Len(x2) + Len(x3)), x4)
         /\ Holds(b, at + (Len(x1) + Len(x2) + Len(x3) + Len(x4)), x5)
         /\ Holds(b, at + (Len(x1) + Len(x2) + Len(x3) + Len(x4) + Len(x5)), x6)
         /\ Holds(b, at + (Len(x1) + Len(x2) + Len(x3) + Len(x4) + Len(x5) + Len(x6)), x7)
         /\ Holds(b, at + (Len(x1) + Len(x2) + Len(x3) + Len(x4) + Len(x5) + Len(x6) + Len(x7)),
                  x8)
<1> DEFINE y2 == x1 \o x2  y3 == y2 \o x3  y4 == y3 \o x4  y5 == y4 \o x5  y6 == y5 \o x6
           y7 == y6 \o x7  y8 == y7 \o x8  T == 0..255
<1>1. /\ x1 \in Seq(T) /\ x2 \in Seq(T) /\ x3 \in Seq(T) /\ x4 \in Seq(T)
      /\ x5 \in Seq(T) /\ x6 \in Seq(T) /\ x7 \in Seq(T) /\ x8 \in Seq(T) /\ b \in Seq(T)
  BY DEF Links
<1>2. Holds(b, at, y8)
  BY DEF Chain
<1> HIDE DEF T
<1>3. y2 \in Seq(T) /\ Len(y2) = Len(x1) + Len(x2) /\ y2 = x1 \o x2
  BY <1>1, ConcatProperties
<1> HIDE DEF y2
<1>4. y3 \in Seq(T) /\ Len(y3) = Len(y2) + Len(x3) /\ y3 = y2 \o x3
  BY <1>1, <1>3, ConcatProperties
<1> HIDE DEF y3
<1>5. y4 \in Seq(T) /\ Len(y4) = Len(y3) + Len(x4) /\ y4 = y3 \o x4
  BY <1>1, <1>4, ConcatProperties
<1> HIDE DEF y4
<1>6. y5 \in Seq(T) /\ Len(y5) = Len(y4) + Len(x5) /\ y5 = y4 \o x5
  BY <1>1, <1>5, ConcatProperties
<1> HIDE DEF y5
<1>7. y6 \in Seq(T) /\ Len(y6) = Len(y5) + Len(x6) /\ y6 = y5 \o x6
  BY <1>1, <1>6, ConcatProperties
<1> HIDE DEF y6
<1>8. y7 \in Seq(T) /\ Len(y7) = Len(y6) + Len(x7) /\ y7 = y6 \o x7
  BY <1>1, <1>7, ConcatProperties
<1> HIDE DEF y7
<1>9. y8 = y7 \o x8
  OBVIOUS
<1> HIDE DEF y8
<1>10. Holds(b, at, y7) /\ Holds(b, at + Len(y7), x8)
  <2>1. Holds(b, at, y7 \o x8)
    BY <1>2, <1>9
  <2> QED BY <1>1, <1>8, <2>1, HoldsParts
<1>11. Holds(b, at, y6) /\ Holds(b, at + Len(y6), x7)
  <2>1. Holds(b, at, y6 \o x7)
    BY <1>8, <1>10
  <2> QED BY <1>1, <1>7, <2>1, HoldsParts
<1>12. Holds(b, at, y5) /\ Holds(b, at + Len(y5), x6)
  <2>1. Holds(b, at, y5 \o x6)
    BY <1>7, <1>11
  <2> QED BY <1>1, <1>6, <2>1, HoldsParts
<1>13. Holds(b, at, y4) /\ Holds(b, at + Len(y4), x5)
  <2>1. Holds(b, at, y4 \o x5)
    BY <1>6, <1>12
  <2> QED BY <1>1, <1>5, <2>1, HoldsParts
<1>14. Holds(b, at, y3) /\ Holds(b, at + Len(y3), x4)
  <2>1. Holds(b, at, y3 \o x4)
    BY <1>5, <1>13
  <2> QED BY <1>1, <1>4, <2>1, HoldsParts
<1>15. Holds(b, at, y2) /\ Holds(b, at + Len(y2), x3)
  <2>1. Holds(b, at, y2 \o x3)
    BY <1>4, <1>14
  <2> QED BY <1>1, <1>3, <2>1, HoldsParts
<1>16. Holds(b, at, x1) /\ Holds(b, at + Len(x1), x2)
  <2>1. Holds(b, at, x1 \o x2)
    BY <1>3, <1>15
  <2> QED BY <1>1, <2>1, HoldsParts
<1>17. /\ Len(y2) = Len(x1) + Len(x2)
       /\ Len(y3) = Len(x1) + Len(x2) + Len(x3)
       /\ Len(y4) = Len(x1) + Len(x2) + Len(x3) + Len(x4)
       /\ Len(y5) = Len(x1) + Len(x2) + Len(x3) + Len(x4) + Len(x5)
       /\ Len(y6) = Len(x1) + Len(x2) + Len(x3) + Len(x4) + Len(x5) + Len(x6)
       /\ Len(y7) = Len(x1) + Len(x2) + Len(x3) + Len(x4) + Len(x5) + Len(x6) + Len(x7)
  BY <1>1, <1>3, <1>4, <1>5, <1>6, <1>7, <1>8
<1> QED BY <1>10, <1>11, <1>12, <1>13, <1>14, <1>15, <1>16, <1>17

(* A string that may be missing.                                           *)
Piece(used, s) == IF used THEN WriteString(s) ELSE <<>>
PieceLength(used, s) == IF used THEN 2 + Len(s) ELSE 0

LEMMA PieceWritten ==
  ASSUME NEW used \in BOOLEAN, NEW s, used => s \in Strings
  PROVE  /\ Piece(used, s) \in Seq(0..255) /\ Len(Piece(used, s)) = PieceLength(used, s)
         /\ PieceLength(used, s) \in Nat
<1>1. CASE used
  BY <1>1, StringWritten, StringTyped DEF Piece, PieceLength, Octets
<1>2. CASE ~used
  BY <1>2 DEF Piece, PieceLength
<1> QED BY <1>1, <1>2

PieceAt(b, at, used, s, next, end) ==
  /\ b \in Octets /\ at \in Nat /\ end \in Nat /\ used \in BOOLEAN /\ (used => s \in Strings)
  /\ Holds(b, at, Piece(used, s)) /\ next = at + PieceLength(used, s) /\ next <= end

LEMMA PieceRead ==
  ASSUME NEW b, NEW at, NEW used, NEW s, NEW next, NEW end, PieceAt(b, at, used, s, next, end),
         NEW flag \in BOOLEAN, flag <=> used, NEW r,
         r = IF flag THEN ReadString(b, at, end) ELSE [ok |-> TRUE, s |-> <<>>, next |-> at]
  PROVE  r.ok /\ r.next = next /\ next \in Nat /\ (used => r.s = s)
<1>1. /\ b \in Octets /\ at \in Nat /\ end \in Nat /\ used \in BOOLEAN /\ (used => s \in Strings)
      /\ Holds(b, at, Piece(used, s)) /\ next = at + PieceLength(used, s) /\ next <= end
  BY DEF PieceAt
<1>2. CASE used
  <2>1. s \in Strings /\ Holds(b, at, WriteString(s)) /\ next = at + (2 + Len(s))
    BY <1>1, <1>2 DEF Piece, PieceLength
  <2>2. Len(s) \in Nat
    BY <2>1, StringTyped
  <2>3. next = at + 2 + Len(s) /\ at + 2 + Len(s) <= end /\ next \in Nat
    BY <1>1, <2>1, <2>2
  <2>4. ReadString(b, at, end) = [ok |-> TRUE, s |-> s, next |-> at + 2 + Len(s)]
    BY <1>1, <2>1, <2>3, StringRead
  <2>5. r = ReadString(b, at, end)
    BY <1>2
  <2> QED BY ONLY <2>3, <2>4, <2>5
<1>3. CASE ~used
  <2>1. next = at
    BY <1>1, <1>3 DEF PieceLength
  <2> QED BY <1>1, <1>3, <2>1
<1> QED BY <1>1, <1>2, <1>3

LEMMA OptionIs ==
  ASSUME NEW T, NEW o \in Option(T), o # Absent
  PROVE  The(o) \in T /\ o = Given(The(o))
<1>1. o \in SUBSET T /\ \A x, y \in o : x = y
  BY DEF Option
<1>2. PICK z \in o : TRUE
  BY DEF Absent
<1>3. The(o) \in o
  BY <1>2 DEF The
<1> QED BY <1>1, <1>3 DEF Given

LEMMA NamesTyped ==
  MQTT \in Strings /\ Len(MQTT) = 4 /\ MQIsdp \in Strings /\ Len(MQIsdp) = 6
<1>1. MQTT \in Seq(0..255) /\ Len(MQTT) = 4
  BY DEF MQTT
<1>2. MQIsdp \in Seq(0..255) /\ Len(MQIsdp) = 6
  BY DEF MQIsdp
<1>3. 6 <= MAX_WORD /\ 4 <= MAX_WORD
  BY DEF MAX_WORD
<1> QED BY <1>1, <1>2, <1>3 DEF Strings, Octets

(* The byte of flags.                                                      *)
LEMMA FlagsRead ==
  ASSUME NEW c \in 0..1, NEW w \in 0..1, NEW q \in 0..2, NEW r \in 0..1, NEW k \in 0..1,
         NEW u \in 0..1, NEW flags, flags = 2 * c + 4 * w + 8 * q + 32 * r + 64 * k + 128 * u
  PROVE  /\ flags \in 0..255 /\ (flags \div 8) % 4 = q
         /\ (IsSet(flags, 1) <=> c = 1) /\ (IsSet(flags, 2) <=> w = 1)
         /\ (IsSet(flags, 5) <=> r = 1) /\ (IsSet(flags, 6) <=> k = 1)
         /\ (IsSet(flags, 7) <=> u = 1)
<1>1. flags \in 0..255 /\ (flags \div 8) % 4 = q
  OBVIOUS
<1>2. (flags \div 2) % 2 = c /\ (flags \div 4) % 2 = w
  OBVIOUS
<1>3. (flags \div 32) % 2 = r /\ (flags \div 64) % 2 = k /\ (flags \div 128) % 2 = u
  OBVIOUS
<1>4. /\ (IsSet(flags, 1) <=> c = 1) /\ (IsSet(flags, 2) <=> w = 1)
      /\ (IsSet(flags, 5) <=> r = 1) /\ (IsSet(flags, 6) <=> k = 1)
      /\ (IsSet(flags, 7) <=> u = 1)
  <2>1. /\ IsSet(flags, 1) = ((flags \div 2) % 2 = 1) /\ IsSet(flags, 2) = ((flags \div 4) % 2 = 1)
        /\ IsSet(flags, 5) = ((flags \div 32) % 2 = 1) /\ IsSet(flags, 6) = ((flags \div 64) % 2 = 1)
        /\ IsSet(flags, 7) = ((flags \div 128) % 2 = 1)
    BY ONLY BitIs
  <2> QED BY ONLY <1>2, <1>3, <2>1
<1> QED BY <1>1, <1>4

LEMMA ConnectTravels ==
  ASSUME NEW version \in {3, 4}, NEW clean \in BOOLEAN, NEW keepAlive \in 0..MAX_WORD,
         NEW id \in Strings, NEW will \in Option(Wills), NEW user \in Option(Credentials),
         NEW password \in Option(Credentials), user = Absent => password = Absent, NEW p,
         p = [kind |-> "connect", version |-> version, clean |-> clean, keepAlive |-> keepAlive,
              id |-> id, will |-> will, user |-> user, password |-> password]
  PROVE  Travels(p)
<1> DEFINE W == will # Absent  topic == The(will).topic  message == The(will).message
           wq == The(will).qos  wr == The(will).retained
           U == user # Absent  us == The(user)  K == password # Absent  ks == The(password)
<1>1. /\ W => /\ topic \in Strings /\ message \in Strings /\ wq \in 0..2 /\ wr \in BOOLEAN
              /\ will = Given([topic |-> topic, message |-> message, qos |-> wq, retained |-> wr])
      /\ ~W => will = Absent
  <2> SUFFICES ASSUME W
      PROVE  /\ topic \in Strings /\ message \in Strings /\ wq \in 0..2 /\ wr \in BOOLEAN
             /\ will = Given([topic |-> topic, message |-> message, qos |-> wq, retained |-> wr])
    OBVIOUS
  <2>1. The(will) \in Wills /\ will = Given(The(will))
    BY OptionIs
  <2> QED BY <2>1 DEF Wills
<1>2. ASSUME NEW o \in Option(Credentials), o # Absent
      PROVE  The(o) \in Strings /\ Len(The(o)) >= 1 /\ o = Given(The(o))
  <2>1. The(o) \in Credentials /\ o = Given(The(o))
    BY <1>2, OptionIs
  <2>2. The(o) \in Strings /\ The(o) # <<>>
    BY <2>1 DEF Credentials
  <2>3. The(o) \in Seq(0..255) /\ Len(The(o)) \in Nat
    BY <2>2, StringTyped
  <2>4. Len(The(o)) # 0
    BY <2>2, <2>3
  <2> QED BY <2>1, <2>2, <2>3, <2>4
<1>3. /\ U => us \in Strings /\ Len(us) >= 1 /\ user = Given(us)
      /\ ~U => user = Absent
      /\ K => ks \in Strings /\ Len(ks) >= 1 /\ password = Given(ks)
      /\ ~K => password = Absent
      /\ K => U
  BY <1>2
<1> DEFINE name == IF version = 4 THEN MQTT ELSE MQIsdp  vn == IF version = 4 THEN 4 ELSE 6
<1>4. name \in Strings /\ Len(name) = vn /\ vn \in Nat
  BY NamesTyped
<1> DEFINE bw == Bit(W)  bq == IF W THEN wq ELSE 0  br == IF W THEN Bit(wr) ELSE 0
           bc == Bit(clean)  bk == Bit(K)  bu == Bit(U)
           flags == 2 * bc + 4 * bw + 8 * bq + 32 * br + 64 * bk + 128 * bu
<1>5. ConnectFlags(p) = flags
  <2>1. ConnectFlags(p) = 2 * Bit(clean) + (IF ~W THEN 0 ELSE 4 + 8 * wq + 32 * Bit(wr))
                            + 64 * Bit(K) + 128 * Bit(U)
    BY DEF ConnectFlags
  <2>2. CASE W
    <3>1. bw = 1 /\ bq = wq /\ br = Bit(wr)
      BY <2>2 DEF Bit
    <3>2. /\ bc \in Int /\ wq \in Int /\ Bit(wr) \in Int /\ bk \in Int /\ bu \in Int
      <4>1. wq \in Int
        BY <1>1, <2>2
      <4> QED BY <4>1 DEF Bit
    <3>3. ConnectFlags(p) = 2 * bc + (4 + 8 * wq + 32 * Bit(wr)) + 64 * bk + 128 * bu
      BY <2>1, <2>2
    <3> HIDE DEF bc, bw, bq, br, bk, bu
    <3> QED BY <3>1, <3>2, <3>3
  <2>3. CASE ~W
    <3>1. bw = 0 /\ bq = 0 /\ br = 0
      BY <2>3 DEF Bit
    <3>2. /\ bc \in Int /\ bk \in Int /\ bu \in Int
      BY DEF Bit
    <3>3. ConnectFlags(p) = 2 * bc + 0 + 64 * bk + 128 * bu
      BY <2>1, <2>3
    <3> HIDE DEF bc, bw, bq, br, bk, bu
    <3> QED BY <3>1, <3>2, <3>3
  <2> QED BY <2>2, <2>3
<1>6. /\ bc \in 0..1 /\ (bc = 1 <=> clean) /\ bw \in 0..1 /\ (bw = 1 <=> W)
      /\ bq \in 0..2 /\ br \in 0..1 /\ (W => bq = wq /\ (br = 1 <=> wr))
      /\ bk \in 0..1 /\ (bk = 1 <=> K) /\ bu \in 0..1 /\ (bu = 1 <=> U)
  <2>1. bc \in 0..1 /\ (bc = 1 <=> clean) /\ bw \in 0..1 /\ (bw = 1 <=> W)
    BY DEF Bit
  <2>2. bk \in 0..1 /\ (bk = 1 <=> K) /\ bu \in 0..1 /\ (bu = 1 <=> U)
    BY DEF Bit
  <2>3. Bit(wr) \in 0..1 /\ (Bit(wr) = 1 <=> wr)
    BY DEF Bit
  <2>4. bq \in 0..2 /\ (W => bq = wq)
    <3>1. CASE W
      BY <1>1, <3>1
    <3>2. CASE ~W
      BY <3>2
    <3> QED BY <3>1, <3>2
  <2>5. br \in 0..1 /\ (W => (br = 1 <=> wr))
    BY <2>3
  <2> QED BY <2>1, <2>2, <2>4, <2>5
<1> DEFINE lt == PieceLength(W, topic)  lm == PieceLength(W, message)
           lu == PieceLength(U, us)  lk == PieceLength(K, ks)  ln == Len(id)
           rem == (IF version = 3 THEN 12 ELSE 10) + ln + 2 + (lt + lm) + lu + lk
<1>7. MQTTSerialize_connectLength(p) = rem
  <2>1. MQTTSerialize_connectLength(p)
          = (IF version = 3 THEN 12 ELSE 10) + ln + 2
             + (IF will = Absent THEN 0 ELSE Len(topic) + 2 + Len(message) + 2)
             + OptionalLength(user) + OptionalLength(password)
    BY DEF MQTTSerialize_connectLength
  <2>2. (IF will = Absent THEN 0 ELSE Len(topic) + 2 + Len(message) + 2) = lt + lm
    <3>1. CASE W
      <4>1. Len(topic) \in Nat /\ Len(message) \in Nat /\ will # Absent
        BY <1>1, <3>1, StringTyped
      <4>2. lt = 2 + Len(topic) /\ lm = 2 + Len(message)
        BY <3>1 DEF PieceLength
      <4> HIDE DEF lt, lm, topic, message
      <4> QED BY <4>1, <4>2
    <3>2. CASE ~W
      BY <3>2 DEF PieceLength
    <3> QED BY <3>1, <3>2
  <2>3. OptionalLength(user) = lu /\ OptionalLength(password) = lk
    BY <1>3, StringTyped DEF PieceLength, OptionalLength
  <2> QED BY <2>1, <2>2, <2>3
<1> DEFINE x1 == WriteString(name)  x2 == <<version>>  x3 == <<flags>>  x4 == WriteInt(keepAlive)
           x5 == WriteString(id)  xt == Piece(W, topic)  xm == Piece(W, message)  x6 == xt \o xm
           x7 == Piece(U, us)  x8 == Piece(K, ks)
           body == Chain(x1, x2, x3, x4, x5, x6, x7, x8)
           h == HeaderByte(CONNECT, FALSE, 0, FALSE)
           b == Framed(BUFLEN, h, rem, body)
<1>8. Serialize(p, BUFLEN) = b
  <2>1. Serialize(p, BUFLEN)
          = Framed(BUFLEN, h, MQTTSerialize_connectLength(p),
              (IF version = 4 THEN WriteString(MQTT) \o <<4>> ELSE WriteString(MQIsdp) \o <<3>>)
                \o <<ConnectFlags(p)>> \o WriteInt(keepAlive) \o WriteString(id)
                \o (IF will = Absent THEN <<>> ELSE WriteString(topic) \o WriteString(message))
                \o OptionalString(user) \o OptionalString(password))
    BY DEF Serialize, MQTTSerialize_connect
  <2>2. (IF version = 4 THEN WriteString(MQTT) \o <<4>> ELSE WriteString(MQIsdp) \o <<3>>)
          = x1 \o x2
    OBVIOUS
  <2>3. (IF will = Absent THEN <<>> ELSE WriteString(topic) \o WriteString(message)) = x6
    BY DEF Piece
  <2>4. OptionalString(user) = x7 /\ OptionalString(password) = x8
    BY DEF Piece, OptionalString
  <2> HIDE DEF x1, x2, x6, x7, x8, h, rem, flags
  <2> QED BY <1>5, <1>7, <2>1, <2>2, <2>3, <2>4 DEF Chain
<1> HIDE DEF W, topic, message, wq, wr, U, us, K, ks, name, vn, bw, bq, br, bc, bk, bu
<1>9. flags \in 0..255 /\ flags \in Nat
  <2>1. flags = 2 * bc + 4 * bw + 8 * bq + 32 * br + 64 * bk + 128 * bu
    OBVIOUS
  <2> HIDE DEF flags
  <2>2. flags \in 0..255
    BY <1>6, <2>1, FlagsRead
  <2> QED BY <2>2
<1>10. \A fl : fl = flags
         => /\ (fl \div 8) % 4 = bq
            /\ (IsSet(fl, 1) <=> bc = 1) /\ (IsSet(fl, 2) <=> bw = 1)
            /\ (IsSet(fl, 5) <=> br = 1) /\ (IsSet(fl, 6) <=> bk = 1)
            /\ (IsSet(fl, 7) <=> bu = 1)
  <2>1. flags = 2 * bc + 4 * bw + 8 * bq + 32 * br + 64 * bk + 128 * bu
    OBVIOUS
  <2> HIDE DEF flags
  <2> QED BY <1>6, <2>1, FlagsRead
<1> HIDE DEF flags
<1>11. /\ x1 \in Seq(0..255) /\ Len(x1) = 2 + vn /\ x2 \in Seq(0..255) /\ Len(x2) = 1
       /\ x3 \in Seq(0..255) /\ Len(x3) = 1 /\ x4 \in Seq(0..255) /\ Len(x4) = 2
       /\ x5 \in Seq(0..255) /\ Len(x5) = 2 + ln
  <2>1. x1 \in Seq(0..255) /\ Len(x1) = 2 + vn
    BY <1>4, StringWritten DEF Octets
  <2>2. x2 \in Seq(0..255) /\ Len(x2) = 1 /\ x3 \in Seq(0..255) /\ Len(x3) = 1
    BY <1>9
  <2>3. x4 \in Seq(0..255) /\ Len(x4) = 2
    BY IntWritten DEF Octets
  <2>4. x5 \in Seq(0..255) /\ Len(x5) = 2 + ln
    BY StringWritten DEF Octets
  <2> QED BY <2>1, <2>2, <2>3, <2>4
<1>12. /\ xt \in Seq(0..255) /\ Len(xt) = lt /\ lt \in Nat
       /\ xm \in Seq(0..255) /\ Len(xm) = lm /\ lm \in Nat
       /\ x7 \in Seq(0..255) /\ Len(x7) = lu /\ lu \in Nat
       /\ x8 \in Seq(0..255) /\ Len(x8) = lk /\ lk \in Nat
       /\ ln \in Nat
  <2>1. W \in BOOLEAN /\ U \in BOOLEAN /\ K \in BOOLEAN
    BY DEF W, U, K
  <2>2. xt \in Seq(0..255) /\ Len(xt) = lt /\ lt \in Nat
    BY <1>1, <2>1, PieceWritten
  <2>3. xm \in Seq(0..255) /\ Len(xm) = lm /\ lm \in Nat
    BY <1>1, <2>1, PieceWritten
  <2>4. x7 \in Seq(0..255) /\ Len(x7) = lu /\ lu \in Nat
    BY <1>3, <2>1, PieceWritten
  <2>5. x8 \in Seq(0..255) /\ Len(x8) = lk /\ lk \in Nat
    BY <1>3, <2>1, PieceWritten
  <2> QED BY <2>2, <2>3, <2>4, <2>5, StringTyped
<1>13. /\ x1 = WriteString(name) /\ x2[1] = version /\ x3[1] = flags
       /\ x4 = WriteInt(keepAlive) /\ x5 = WriteString(id)
       /\ xt = Piece(W, topic) /\ xm = Piece(W, message) /\ x6 = xt \o xm
       /\ x7 = Piece(U, us) /\ x8 = Piece(K, ks)
  OBVIOUS
<1> HIDE DEF x1, x2, x3, x4, x5, xt, xm, x7, x8, h
<1>14. x6 \in Seq(0..255) /\ Len(x6) = lt + lm
  <2>1. x6 \in Seq(0..255) /\ Len(x6) = Len(xt) + Len(xm)
    BY <1>12, ConcatProperties, ZenonT(40)
  <2> QED BY <1>12, <2>1
<1> HIDE DEF x6
<1>15. body \in Seq(0..255) /\ Len(body) = rem /\ rem \in Nat
  <2>1. body \in Seq(0..255)
        /\ Len(body) = Len(x1) + Len(x2) + Len(x3) + Len(x4) + Len(x5) + Len(x6) + Len(x7) + Len(x8)
    <3>1. Links(x1, x2, x3, x4, x5, x6, x7, x8)
      BY <1>11, <1>12, <1>14 DEF Links
    <3> QED BY <3>1, ChainLength
  <2> HIDE DEF body, lt, lm, lu, lk, ln
  <2>2. Len(body) = (2 + vn) + 1 + 1 + 2 + (2 + ln) + (lt + lm) + lu + lk
    BY <1>11, <1>12, <1>14, <2>1
  <2>3. (IF version = 3 THEN 12 ELSE 10) = vn + 6 /\ vn \in Nat
    BY DEF vn
  <2>4. (2 + vn) + 1 + 1 + 2 + (2 + ln) + (lt + lm) + lu + lk = rem /\ rem \in Nat
    BY <1>12, <2>3
  <2> QED BY <2>1, <2>2, <2>4
<1>16. /\ rem = vn + 6 + ln + 2 + (lt + lm) + lu + lk
       /\ b = Framed(BUFLEN, h, rem, body) /\ body = Chain(x1, x2, x3, x4, x5, x6, x7, x8)
  BY DEF vn
<1>17. h \in 0..255 /\ \A x : x[1] = h => Type(x) = CONNECT
  <2>1. CONNECT \in 1..14 /\ FALSE \in BOOLEAN /\ 0 \in 0..2
    BY DEF CONNECT
  <2>2. HeaderSays(h, CONNECT, Bit(FALSE), 0, Bit(FALSE))
    BY <2>1, HeaderByteIs DEF h
  <2> QED BY <2>2, HeaderRead, ZenonT(40)
<1> HIDE DEF b, rem, body, lt, lm, lu, lk, ln
<1> SUFFICES ASSUME b # Refused
    PROVE  IsFrame(b) /\ Deserialize(b, MaxCount, 0) = p
  BY <1>8 DEF Travels
<1>18. Framing(b, h, body)
  BY <1>15, <1>16, <1>17, FramedOf DEF Octets
<1> DEFINE at == BodyAt(b)  end == Len(b) + 1
<1>19. /\ IsFrame(b) /\ b[1] = h /\ at \in Nat /\ end \in Nat /\ b \in Octets
       /\ b \in Seq(0..255) /\ end = at + rem /\ Holds(b, at, body)
  BY <1>15, <1>18, FrameOf DEF Octets
<1> HIDE DEF at, end
<1> DEFINE flagsAt == at + (2 + vn) + 1  a5 == flagsAt + 3  a6 == a5 + (2 + ln)  am == a6 + lt
           a7 == am + lm  a8 == a7 + lu
<1>20. /\ Holds(b, at, x1) /\ Holds(b, at + (2 + vn), x2) /\ Holds(b, flagsAt, x3)
       /\ Holds(b, flagsAt + 1, x4) /\ Holds(b, a5, x5) /\ Holds(b, a6, x6)
       /\ Holds(b, a7, x7) /\ Holds(b, a8, x8)
  <2>1. Holds(b, at, Chain(x1, x2, x3, x4, x5, x6, x7, x8))
    BY <1>16, <1>19
  <2>2. /\ Holds(b, at, x1)
        /\ Holds(b, at + Len(x1), x2)
        /\ Holds(b, at + (Len(x1) + Len(x2)), x3)
        /\ Holds(b, at + (Len(x1) + Len(x2) + Len(x3)), x4)
        /\ Holds(b, at + (Len(x1) + Len(x2) + Len(x3) + Len(x4)), x5)
        /\ Holds(b, at + (Len(x1) + Len(x2) + Len(x3) + Len(x4) + Len(x5)), x6)
        /\ Holds(b, at + (Len(x1) + Len(x2) + Len(x3) + Len(x4) + Len(x5) + Len(x6)), x7)
        /\ Holds(b, at + (Len(x1) + Len(x2) + Len(x3) + Len(x4) + Len(x5) + Len(x6) + Len(x7)),
                 x8)
    <3>1. Links(x1, x2, x3, x4, x5, x6, x7, x8)
      BY <1>11, <1>12, <1>14 DEF Links
    <3> QED BY <1>19, <2>1, <3>1, ChainHeld
  <2>3. /\ at + Len(x1) = at + (2 + vn)
        /\ at + (Len(x1) + Len(x2)) = flagsAt
        /\ at + (Len(x1) + Len(x2) + Len(x3)) = flagsAt + 1
        /\ at + (Len(x1) + Len(x2) + Len(x3) + Len(x4)) = a5
        /\ at + (Len(x1) + Len(x2) + Len(x3) + Len(x4) + Len(x5)) = a6
        /\ at + (Len(x1) + Len(x2) + Len(x3) + Len(x4) + Len(x5) + Len(x6)) = a7
        /\ at + (Len(x1) + Len(x2) + Len(x3) + Len(x4) + Len(x5) + Len(x6) + Len(x7)) = a8
    BY <1>4, <1>11, <1>12, <1>14, <1>19
  <2> HIDE DEF flagsAt, a5, a6, a7, a8
  <2> QED BY <2>2, <2>3
<1>21. Holds(b, a6, xt) /\ Holds(b, am, xm)
  <2>1. Holds(b, a6, xt \o xm)
    BY <1>13, <1>20
  <2> HIDE DEF a6
  <2>2. Holds(b, a6, xt) /\ Holds(b, a6 + Len(xt), xm)
    BY <1>12, <1>19, <2>1, HoldsParts
  <2> QED BY <1>12, <2>2
<1>22. /\ flagsAt \in Nat /\ a5 \in Nat /\ a6 \in Nat /\ am \in Nat /\ a7 \in Nat /\ a8 \in Nat
       /\ at + 2 + vn <= end /\ a5 + 2 + ln <= end /\ am <= end /\ a7 <= end /\ a8 <= end
       /\ end = a8 + lk /\ a8 = a7 + lu /\ a7 = am + lm /\ am = a6 + lt /\ a6 = a5 + 2 + ln
       /\ a5 = flagsAt + 3 /\ flagsAt = at + 2 + vn + 1
  BY <1>4, <1>12, <1>16, <1>19
<1> HIDE DEF flagsAt, a5, a6, am, a7, a8
<1>23. /\ ReadString(b, at, end) = [ok |-> TRUE, s |-> name, next |-> at + 2 + vn]
       /\ ReadString(b, a5, end) = [ok |-> TRUE, s |-> id, next |-> a6]
  <2>1. /\ Holds(b, at, WriteString(name)) /\ at + 2 + Len(name) <= end
        /\ at + 2 + Len(name) = at + 2 + vn
    BY <1>4, <1>13, <1>20, <1>22
  <2>2. Holds(b, a5, WriteString(id)) /\ a5 + 2 + Len(id) <= end /\ a5 + 2 + Len(id) = a6
    BY <1>13, <1>20, <1>22 DEF ln
  <2>3. ReadString(b, at, end) = [ok |-> TRUE, s |-> name, next |-> at + 2 + Len(name)]
    BY <1>4, <1>19, <2>1, StringRead
  <2>4. ReadString(b, a5, end) = [ok |-> TRUE, s |-> id, next |-> a5 + 2 + Len(id)]
    BY <1>19, <2>2, StringRead
  <2> QED BY <2>1, <2>2, <2>3, <2>4
<1>24. b[at + 2 + vn] = version /\ b[flagsAt] = flags /\ ReadInt(b, flagsAt + 1) = keepAlive
  <2>1. \A x, y : Holds(b, x, y) /\ Len(y) = 1 => b[x] = y[1]
    BY DEF Holds
  <2>2. at + (2 + vn) = at + 2 + vn
    BY <1>4, <1>19
  <2>3. b[at + 2 + vn] = version /\ b[flagsAt] = flags
    BY <1>11, <1>13, <1>20, <2>1, <2>2
  <2>4. Holds(b, flagsAt + 1, WriteInt(keepAlive))
    BY <1>13, <1>20
  <2>5. ReadInt(b, flagsAt + 1) = keepAlive
    BY <1>19, <2>4, IntRead
  <2> QED BY <2>3, <2>5
<1> DEFINE string == [x \in Nat |-> ReadString(b, x, end)]
           protocol == string[at]  fa == protocol.next + 1  Flag(i) == IsSet(b[fa], i)
           Field(used, x) == IF used THEN string[x] ELSE [ok |-> TRUE, s |-> <<>>, next |-> x]
           Opt(used, x) == IF used THEN Given(x) ELSE Absent
           rid == string[fa + 3]  rt == Field(Flag(2), rid.next)  rm == Field(Flag(2), rt.next)
           ru == Field(Flag(7), rm.next)  rk == Field(Flag(6), ru.next)
<1>25. MQTTDeserialize_connect(b)
         = IF \/ Type(b) # CONNECT
              \/ ~protocol.ok
              \/ ~MQTTPacket_checkVersion(protocol.s, b[protocol.next])
              \/ ~rid.ok \/ ~rt.ok \/ ~rm.ok
              \/ Flag(7) /\ (end - rm.next < 3 \/ ~ru.ok)
              \/ Flag(6) /\ (~Flag(7) \/ end - ru.next < 3 \/ ~rk.ok)
           THEN Bad
           ELSE ConnectOptions(b[protocol.next], Flag(1), ReadInt(b, fa + 1), rid.s,
                  Opt(Flag(2), [topic |-> rt.s, message |-> rm.s,
                                qos |-> (b[fa] \div 8) % 4, retained |-> Flag(5)]),
                  Opt(Flag(7), ru.s), Opt(Flag(6), rk.s))
  BY DEF MQTTDeserialize_connect, at, end
<1>26. \A x \in Nat : string[x] = ReadString(b, x, end)
  OBVIOUS
<1> HIDE DEF string
<1>27. /\ protocol.ok /\ protocol.s = name /\ protocol.next = at + 2 + vn
       /\ fa = flagsAt /\ rid.ok /\ rid.s = id /\ rid.next = a6
  <2>1. protocol = ReadString(b, at, end)
    BY <1>19, <1>26
  <2>2. protocol.ok /\ protocol.s = name /\ protocol.next = at + 2 + vn
    BY <1>23, <2>1
  <2>3. fa = flagsAt
    BY <1>22, <2>2
  <2>4. rid = ReadString(b, a5, end)
    BY <1>22, <1>26, <2>3
  <2>5. rid.ok /\ rid.s = id /\ rid.next = a6
    BY <1>23, <2>4
  <2> QED BY <2>2, <2>3, <2>5
<1> HIDE DEF protocol, rid
<1>28. /\ (b[fa] \div 8) % 4 = bq
       /\ (Flag(1) <=> clean) /\ (Flag(2) <=> W) /\ (Flag(5) <=> br = 1)
       /\ (Flag(6) <=> K) /\ (Flag(7) <=> U)
  <2>1. b[fa] = flags
    BY <1>24, <1>27
  <2> HIDE DEF fa
  <2> QED BY <1>6, <1>10, <2>1
<1>29. /\ Flag(1) \in BOOLEAN /\ Flag(2) \in BOOLEAN /\ Flag(5) \in BOOLEAN
       /\ Flag(6) \in BOOLEAN /\ Flag(7) \in BOOLEAN
  BY DEF IsSet
<1> HIDE DEF fa
<1>30. /\ W \in BOOLEAN /\ U \in BOOLEAN /\ K \in BOOLEAN
       /\ PieceAt(b, a6, W, topic, am, end) /\ PieceAt(b, am, W, message, a7, end)
       /\ PieceAt(b, a7, U, us, a8, end) /\ PieceAt(b, a8, K, ks, end, end)
  <2>1. W \in BOOLEAN /\ U \in BOOLEAN /\ K \in BOOLEAN
    BY DEF W, U, K
  <2>2. end <= end
    BY <1>19
  <2>3. PieceAt(b, a6, W, topic, am, end)
    BY <1>1, <1>13, <1>19, <1>21, <1>22, <2>1 DEF PieceAt, lt
  <2>4. PieceAt(b, am, W, message, a7, end)
    BY <1>1, <1>13, <1>19, <1>21, <1>22, <2>1 DEF PieceAt, lm
  <2>5. PieceAt(b, a7, U, us, a8, end)
    BY <1>3, <1>13, <1>19, <1>20, <1>22, <2>1 DEF PieceAt, lu
  <2>6. PieceAt(b, a8, K, ks, end, end)
    BY <1>3, <1>13, <1>19, <1>20, <1>22, <2>1, <2>2 DEF PieceAt, lk
  <2> QED BY <2>1, <2>3, <2>4, <2>5, <2>6
<1> DEFINE f2 == Flag(2)  f6 == Flag(6)  f7 == Flag(7)
<1>31. f2 \in BOOLEAN /\ (f2 <=> W) /\ f6 \in BOOLEAN /\ (f6 <=> K) /\ f7 \in BOOLEAN /\ (f7 <=> U)
  BY <1>28, <1>29
<1>32. /\ rt = Field(f2, a6) /\ rm = Field(f2, rt.next)
       /\ ru = Field(f7, rm.next) /\ rk = Field(f6, ru.next)
  BY <1>27
<1> HIDE DEF f2, f6, f7, rt, rm, ru, rk
<1>33. rt.ok /\ rt.next = am /\ (W => rt.s = topic)
  <2>1. rt = IF f2 THEN ReadString(b, a6, end) ELSE [ok |-> TRUE, s |-> <<>>, next |-> a6]
    BY <1>22, <1>26, <1>32
  <2> QED BY <1>30, <1>31, <2>1, PieceRead
<1>34. rm.ok /\ rm.next = a7 /\ (W => rm.s = message)
  <2>1. rm = IF f2 THEN ReadString(b, am, end) ELSE [ok |-> TRUE, s |-> <<>>, next |-> am]
    BY <1>22, <1>26, <1>32, <1>33
  <2> QED BY <1>30, <1>31, <2>1, PieceRead
<1>35. ru.ok /\ ru.next = a8 /\ (U => ru.s = us)
  <2>1. ru = IF f7 THEN ReadString(b, a7, end) ELSE [ok |-> TRUE, s |-> <<>>, next |-> a7]
    BY <1>22, <1>26, <1>32, <1>34
  <2> QED BY <1>30, <1>31, <2>1, PieceRead
<1>36. rk.ok /\ (K => rk.s = ks)
  <2>1. rk = IF f6 THEN ReadString(b, a8, end) ELSE [ok |-> TRUE, s |-> <<>>, next |-> a8]
    BY <1>22, <1>26, <1>32, <1>35
  <2> QED BY <1>30, <1>31, <2>1, PieceRead
<1>37. (U => ~(end - rm.next < 3)) /\ (K => ~(end - ru.next < 3))
  <2>1. ASSUME U PROVE lu >= 3
    <3>1. lu = 2 + Len(us) /\ us \in Strings /\ Len(us) >= 1
      BY <1>3, <2>1 DEF lu, PieceLength
    <3>2. Len(us) \in Nat
      BY <3>1, StringTyped
    <3> QED BY <3>1, <3>2
  <2>2. ASSUME K PROVE lk >= 3
    <3>1. lk = 2 + Len(ks) /\ ks \in Strings /\ Len(ks) >= 1
      BY <1>3, <2>2 DEF lk, PieceLength
    <3>2. Len(ks) \in Nat
      BY <3>1, StringTyped
    <3> QED BY <3>1, <3>2
  <2>3. ASSUME U PROVE ~(end - a7 < 3)
    <3>1. lu >= 3 /\ lu \in Nat /\ lk \in Nat /\ a7 \in Nat /\ a8 = a7 + lu /\ end = a8 + lk
      BY <1>12, <1>22, <2>1, <2>3
    <3> QED BY ONLY <3>1
  <2>4. ASSUME K PROVE ~(end - a8 < 3)
    <3>1. lk >= 3 /\ lk \in Nat /\ a8 \in Nat /\ end = a8 + lk
      BY <1>12, <1>22, <2>2, <2>4
    <3> QED BY ONLY <3>1
  <2> QED BY <1>34, <1>35, <2>3, <2>4
<1>38. MQTTPacket_checkVersion(name, version)
  <2>1. CASE version = 4
    <3>1. name = MQTT
      BY <2>1 DEF name
    <3> DEFINE pair == <<MQTT, 4>>
    <3>2. pair \in {<<MQIsdp, 3>>, pair} /\ pair[1] = MQTT /\ pair[2] = 4
      OBVIOUS
    <3> QED BY <2>1, <3>1, <3>2 DEF MQTTPacket_checkVersion
  <2>2. CASE version = 3
    <3>1. name = MQIsdp
      BY <2>2 DEF name
    <3> DEFINE pair == <<MQIsdp, 3>>
    <3>2. pair \in {pair, <<MQTT, 4>>} /\ pair[1] = MQIsdp /\ pair[2] = 3
      OBVIOUS
    <3> QED BY <2>2, <3>1, <3>2 DEF MQTTPacket_checkVersion
  <2> QED BY <2>1, <2>2
<1>39. /\ Type(b) = CONNECT /\ b[protocol.next] = version /\ ReadInt(b, fa + 1) = keepAlive
  BY <1>17, <1>19, <1>24, <1>27
<1>40. Opt(f2, [topic |-> rt.s, message |-> rm.s, qos |-> (b[fa] \div 8) % 4,
                retained |-> Flag(5)]) = will
  <2>1. CASE W
    <3>1. Flag(5) = wr
      BY <1>1, <1>6, <1>28, <1>29, <2>1
    <3>2. (b[fa] \div 8) % 4 = wq
      BY <1>6, <1>28, <2>1
    <3> QED BY <1>1, <1>31, <1>33, <1>34, <2>1, <3>1, <3>2
  <2>2. CASE ~W
    BY <1>1, <1>31, <2>2
  <2> QED BY <2>1, <2>2
<1>41. Opt(f7, ru.s) = user /\ Opt(f6, rk.s) = password
  BY <1>3, <1>31, <1>35, <1>36
<1>42. Flag(1) = clean
  BY <1>28, <1>29
<1>43. MQTTDeserialize_connect(b)
         = ConnectOptions(b[protocol.next], Flag(1), ReadInt(b, fa + 1), rid.s,
             Opt(f2, [topic |-> rt.s, message |-> rm.s,
                      qos |-> (b[fa] \div 8) % 4, retained |-> Flag(5)]),
             Opt(f7, ru.s), Opt(f6, rk.s))
  <2> DEFINE ok == ConnectOptions(b[protocol.next], Flag(1), ReadInt(b, fa + 1), rid.s,
                     Opt(f2, [topic |-> rt.s, message |-> rm.s,
                              qos |-> (b[fa] \div 8) % 4, retained |-> Flag(5)]),
                     Opt(f7, ru.s), Opt(f6, rk.s))
  <2>1. MQTTDeserialize_connect(b)
          = IF \/ Type(b) # CONNECT
               \/ ~protocol.ok
               \/ ~MQTTPacket_checkVersion(protocol.s, b[protocol.next])
               \/ ~rid.ok \/ ~rt.ok \/ ~rm.ok
               \/ f7 /\ (end - rm.next < 3 \/ ~ru.ok)
               \/ f6 /\ (~f7 \/ end - ru.next < 3 \/ ~rk.ok)
            THEN Bad ELSE ok
    BY <1>25 DEF f2, f6, f7, rt, rm, ru, rk, fa, protocol, rid
  <2> HIDE DEF ok
  <2>2. /\ protocol.ok /\ MQTTPacket_checkVersion(protocol.s, b[protocol.next])
        /\ rid.ok /\ rt.ok /\ rm.ok
    BY <1>27, <1>33, <1>34, <1>38, <1>39
  <2>3. ~(f7 /\ (end - rm.next < 3 \/ ~ru.ok))
    BY <1>31, <1>35, <1>37
  <2>4. ~(f6 /\ (~f7 \/ end - ru.next < 3 \/ ~rk.ok))
    BY <1>3, <1>31, <1>36, <1>37
  <2>5. MQTTDeserialize_connect(b) = ok
    BY <1>39, <2>1, <2>2, <2>3, <2>4
  <2> QED BY <2>5 DEF ok
<1>44. MQTTDeserialize_connect(b) = p
  <2>1. rid.s = id
    BY <1>27
  <2>2. MQTTDeserialize_connect(b)
          = ConnectOptions(version, clean, keepAlive, id, will, user, password)
    BY <1>39, <1>40, <1>41, <1>42, <1>43, <2>1
  <2> QED BY <2>2 DEF ConnectOptions
<1>45. Deserialize(b, MaxCount, 0) = MQTTDeserialize_connect(b)
  BY <1>39 DEF Deserialize, CONNECT, CONNACK, PUBLISH, SUBSCRIBE, SUBACK, UNSUBSCRIBE,
    UNSUBACK, PINGREQ, PINGRESP, DISCONNECT
<1> QED BY <1>19, <1>44, <1>45

-----------------------------------------------------------------------------
(* What the members of Packets are.                                        *)

LEMMA ZeroAndAcks ==
  /\ \A p \in [kind : {"connack"}, present : BOOLEAN, rc : 0..255] : Travels(p)
  /\ \A p \in [kind : {"zero"}, type : {PINGREQ, PINGRESP, DISCONNECT}] : Travels(p)
  /\ \A p \in [kind : {"ack"}, type : {PUBACK, PUBREC, PUBREL, PUBCOMP}, dup : BOOLEAN,
               id : 0..MAX_WORD] : Travels(p)
  /\ \A p \in [kind : {"unsuback"}, id : 0..MAX_WORD] : Travels(p)
<1>1. ASSUME NEW p \in [kind : {"connack"}, present : BOOLEAN, rc : 0..255] PROVE Travels(p)
  <2>1. p = [kind |-> "connack", present |-> p.present, rc |-> p.rc]
        /\ p.present \in BOOLEAN /\ p.rc \in 0..255
    OBVIOUS
  <2> DEFINE present == p.present  code == p.rc
  <2>2. present \in BOOLEAN /\ code \in 0..255
        /\ p = [kind |-> "connack", present |-> present, rc |-> code]
    BY <2>1
  <2> HIDE DEF present, code
  <2> QED BY ONLY <2>2, ConnackTravels
<1>2. ASSUME NEW p \in [kind : {"zero"}, type : {PINGREQ, PINGRESP, DISCONNECT}] PROVE Travels(p)
  <2> DEFINE type == p.type
  <2>1. type \in {PINGREQ, PINGRESP, DISCONNECT} /\ p = [kind |-> "zero", type |-> type]
    OBVIOUS
  <2> HIDE DEF type
  <2> QED BY ONLY <2>1, ZeroTravels
<1>3. ASSUME NEW p \in [kind : {"ack"}, type : {PUBACK, PUBREC, PUBREL, PUBCOMP}, dup : BOOLEAN,
                        id : 0..MAX_WORD] PROVE Travels(p)
  <2> DEFINE type == p.type  dup == p.dup  id == p.id
  <2>1. /\ type \in {PUBACK, PUBREC, PUBREL, PUBCOMP} /\ dup \in BOOLEAN /\ id \in 0..MAX_WORD
        /\ p = [kind |-> "ack", type |-> type, dup |-> dup, id |-> id]
    OBVIOUS
  <2> HIDE DEF type, dup, id
  <2> QED BY ONLY <2>1, AckTravels
<1>4. ASSUME NEW p \in [kind : {"unsuback"}, id : 0..MAX_WORD] PROVE Travels(p)
  <2> DEFINE id == p.id
  <2>1. id \in 0..MAX_WORD /\ p = [kind |-> "unsuback", id |-> id]
    OBVIOUS
  <2> HIDE DEF id
  <2> QED BY ONLY <2>1, UnsubackTravels
<1> QED BY <1>1, <1>2, <1>3, <1>4

LEMMA ConnectsTravel ==
  ASSUME NEW p \in [kind : {"connect"}, version : {3, 4}, clean : BOOLEAN,
                    keepAlive : 0..MAX_WORD, id : Strings, will : Option(Wills),
                    user : Option(Credentials), password : Option(Credentials)],
         p.user = Absent => p.password = Absent
  PROVE  Travels(p)
<1> DEFINE version == p.version  clean == p.clean  keepAlive == p.keepAlive  id == p.id
           will == p.will  user == p.user  password == p.password
<1>1. /\ version \in {3, 4} /\ clean \in BOOLEAN /\ keepAlive \in 0..MAX_WORD /\ id \in Strings
      /\ will \in Option(Wills) /\ user \in Option(Credentials)
      /\ password \in Option(Credentials) /\ (user = Absent => password = Absent)
  OBVIOUS
<1>2. p = [kind |-> "connect", version |-> version, clean |-> clean, keepAlive |-> keepAlive,
           id |-> id, will |-> will, user |-> user, password |-> password]
  OBVIOUS
<1> HIDE DEF version, clean, keepAlive, id, will, user, password
<1> QED BY ONLY <1>1, <1>2, ConnectTravels

LEMMA PublishesTravel ==
  ASSUME NEW p \in [kind : {"publish"}, dup : BOOLEAN, qos : 0..2, retained : BOOLEAN,
                    topic : Strings, id : 0..MAX_WORD, payload : Octets],
         p.qos = 0 => p.id = 0
  PROVE  Travels(p)
<1> DEFINE dup == p.dup  qos == p.qos  retained == p.retained  topic == p.topic  id == p.id
           payload == p.payload
<1>1. /\ dup \in BOOLEAN /\ qos \in 0..2 /\ retained \in BOOLEAN /\ topic \in Strings
      /\ id \in 0..MAX_WORD /\ payload \in Octets /\ (qos = 0 => id = 0)
  OBVIOUS
<1>2. p = [kind |-> "publish", dup |-> dup, qos |-> qos, retained |-> retained,
           topic |-> topic, id |-> id, payload |-> payload]
  OBVIOUS
<1> HIDE DEF dup, qos, retained, topic, id, payload
<1> QED BY ONLY <1>1, <1>2, PublishTravels

LEMMA SubscribesTravel ==
  ASSUME NEW p \in [kind : {"subscribe"}, dup : BOOLEAN, id : 0..MAX_WORD,
                    filters : Seq(Strings), qoss : Octets],
         Len(p.filters) = Len(p.qoss) /\ Len(p.filters) <= MaxCount
  PROVE  Travels(p)
<1> DEFINE dup == p.dup  id == p.id  filters == p.filters  qoss == p.qoss  n == Len(filters)
<1>1. /\ dup \in BOOLEAN /\ id \in 0..MAX_WORD /\ filters \in Seq(Strings)
      /\ qoss \in Octets /\ Len(qoss) = n
  OBVIOUS
<1>2. p = [kind |-> "subscribe", dup |-> dup, id |-> id, filters |-> filters, qoss |-> qoss]
  OBVIOUS
<1>3. n \in 0..2
  <2>1. n \in Nat /\ n <= MaxCount
    BY <1>1
  <2> HIDE DEF n
  <2> QED BY ONLY <2>1 DEF MaxCount
<1>4. Len(filters) = n
  OBVIOUS
<1> HIDE DEF dup, id, filters, qoss, n
<1> QED BY ONLY <1>1, <1>2, <1>3, <1>4, SubscribeTravels

LEMMA UnsubscribesTravel ==
  ASSUME NEW p \in [kind : {"unsubscribe"}, dup : BOOLEAN, id : 0..MAX_WORD,
                    filters : Seq(Strings)],
         Len(p.filters) <= MaxCount
  PROVE  Travels(p)
<1> DEFINE dup == p.dup  id == p.id  filters == p.filters  n == Len(filters)
<1>1. dup \in BOOLEAN /\ id \in 0..MAX_WORD /\ filters \in Seq(Strings)
  OBVIOUS
<1>2. p = [kind |-> "unsubscribe", dup |-> dup, id |-> id, filters |-> filters]
  OBVIOUS
<1>3. n \in 0..2
  <2>1. n \in Nat /\ n <= MaxCount
    BY <1>1
  <2> HIDE DEF n
  <2> QED BY ONLY <2>1 DEF MaxCount
<1>4. Len(filters) = n
  OBVIOUS
<1> HIDE DEF dup, id, filters, n
<1> QED BY ONLY <1>1, <1>2, <1>3, <1>4, UnsubscribeTravels

LEMMA SubacksTravel ==
  ASSUME NEW p \in [kind : {"suback"}, id : 0..MAX_WORD, granted : Octets],
         Len(p.granted) <= MaxCount + 1
  PROVE  Travels(p)
<1> DEFINE id == p.id  granted == p.granted  k == Len(granted)
<1>1. id \in 0..MAX_WORD /\ granted \in Octets
  OBVIOUS
<1>2. p = [kind |-> "suback", id |-> id, granted |-> granted]
  OBVIOUS
<1>3. k \in 0..3
  <2>1. k \in Nat /\ k <= MaxCount + 1
    BY <1>1 DEF Octets
  <2> HIDE DEF k
  <2> QED BY ONLY <2>1 DEF MaxCount
<1>4. Len(granted) = k
  OBVIOUS
<1> HIDE DEF id, granted, k
<1> QED BY ONLY <1>1, <1>2, <1>3, <1>4, SubackTravels

(* Whatever packet is sent, what MQTTSerialize_* puts into the buffer is   *)
(* what its deserializer takes apart again.                                *)
THEOREM PacketsTravel ==
  ASSUME NEW p \in Packets
  PROVE  Travels(p)
<1> QED BY ZeroAndAcks, ConnectsTravel, PublishesTravel, SubscribesTravel, UnsubscribesTravel,
      SubacksTravel DEF Packets

-----------------------------------------------------------------------------
(* The stream of bytes.                                                    *)

LEMMA FrontAndRest ==
  ASSUME NEW T, NEW x \in Seq(T), NEW y \in Seq(T), NEW k, k = Len(x), NEW last,
         last = Len(x \o y), NEW from, from = k + 1
  PROVE  SubSeq(x \o y, 1, k) = x /\ SubSeq(x \o y, from, last) = y
<1> DEFINE b == x \o y  one == 1
<1>1. b \in Seq(T) /\ Len(b) = Len(x) + Len(y) /\ Holds(b, 1, b)
  BY ConcatProperties, HoldsAll
<1>2. Holds(b, 1, x) /\ Holds(b, 1 + Len(x), y)
  <2>1. Holds(b, 1, x \o y)
    BY <1>1
  <2> HIDE DEF b
  <2> QED BY <1>1, <2>1, HoldsParts
<1>3. k = one + Len(x) - 1 /\ from = 1 + Len(x) /\ last = from + Len(y) - 1
  BY <1>1
<1>4. Holds(b, one, x) /\ Holds(b, from, y)
  BY <1>2, <1>3
<1> HIDE DEF b, one
<1>5. b \in Seq(T) /\ x \in Seq(T) /\ y \in Seq(T)
  BY <1>1
<1>6. SubSeq(b, one, k) = x
  <2>1. b \in Seq(T) /\ x \in Seq(T) /\ Holds(b, one, x) /\ k = one + Len(x) - 1
    BY <1>3, <1>4, <1>5
  <2> QED BY ONLY <2>1, HoldsSub
<1>7. SubSeq(b, from, last) = y
  <2>1. b \in Seq(T) /\ y \in Seq(T) /\ Holds(b, from, y) /\ last = from + Len(y) - 1
    BY <1>3, <1>4, <1>5
  <2> QED BY ONLY <2>1, HoldsSub
<1> QED BY <1>6, <1>7 DEF b, one

Parted(x, n) ==
  \E y, z \in Seq(0..255) : x = y \o z /\ Len(y) = n /\ Len(z) = Len(x) - n

LEMMA Cut ==
  ASSUME NEW x \in Seq(0..255), NEW n \in 0..Len(x)
  PROVE  Parted(x, n)
<1> DEFINE y == SubSeq(x, 1, n)  z == SubSeq(x, n + 1, Len(x))
<1>1. y \in Seq(0..255) /\ z \in Seq(0..255) /\ Len(y) = n /\ Len(z) = Len(x) - n
  <2> DEFINE T == 0..255
  <2>1. x \in Seq(T) /\ n \in 0..Len(x)
    OBVIOUS
  <2> HIDE DEF T
  <2>2. y \in Seq(T) /\ z \in Seq(T) /\ Len(y) = n /\ Len(z) = Len(x) - n
    BY ONLY <2>1
  <2> QED BY <2>2 DEF T
<1>2. x = y \o z
  <2> DEFINE one == 1  m == Len(x)
  <2>1. one \in 1..(m + 1) /\ n \in (one - 1)..m /\ m \in n..m /\ m = Len(x)
    OBVIOUS
  <2> HIDE DEF one, m
  <2>2. SubSeq(x, one, n) \o SubSeq(x, n + 1, m) = SubSeq(x, one, m)
    BY <2>1, ConcatAdjacentSubSeq
  <2>3. SubSeq(x, 1, Len(x)) = x
    BY SubSeqFull
  <2> QED BY <2>2, <2>3 DEF one, m
<1> QED BY <1>1, <1>2 DEF Parted

(* The bytes of the k-th packet of t.  Of the packets after g, as far as   *)
(* s, the bytes w are on the way, one frame behind the other: q[k] is what *)
(* comes after the k-th.                                                   *)
WrittenOut(t, k) == Serialize(t[k], BUFLEN)

Queue(t, q, g, s) ==
  /\ g \in Nat /\ s \in Nat /\ g <= s
  /\ q \in [g..s -> Octets] /\ q[s] = <<>>
  /\ \A k \in (g + 1)..s : /\ IsFrame(WrittenOut(t, k)) /\ t[k] = Deserialize(WrittenOut(t, k), MaxCount, 0)
                           /\ q[k - 1] = WrittenOut(t, k) \o q[k]

Behind(t, w, g, s) == \E q : Queue(t, q, g, s) /\ w = q[g]

LEMMA FrameTyped ==
  ASSUME NEW b, IsFrame(b)
  PROVE  b \in Octets /\ b # <<>> /\ b \in Seq(0..255)
<1>1. PICK header, body : Framing(b, header, body)
  BY DEF IsFrame
<1> QED BY <1>1, FrameOf DEF Octets

LEMMA BehindNone ==
  ASSUME NEW t, NEW g \in Nat
  PROVE  Behind(t, <<>>, g, g)
<1> DEFINE q == [k \in g..g |-> <<>>]
<1>1. q \in [g..g -> Octets] /\ q[g] = <<>>
  BY DEF Octets
<1>2. \A k \in (g + 1)..g : FALSE
  OBVIOUS
<1>3. g <= g
  OBVIOUS
<1> HIDE DEF q
<1>4. Queue(t, q, g, g)
  BY <1>1, <1>2, <1>3 DEF Queue
<1> QED BY <1>1, <1>4 DEF Behind

LEMMA BehindTyped ==
  ASSUME NEW t, NEW w, NEW g, NEW s, Behind(t, w, g, s)
  PROVE  w \in Octets /\ w \in Seq(0..255) /\ g \in Nat /\ s \in Nat /\ g <= s
<1>1. PICK q : Queue(t, q, g, s) /\ w = q[g]
  BY DEF Behind
<1>2. g \in g..s /\ q \in [g..s -> Octets] /\ g \in Nat /\ s \in Nat /\ g <= s
  BY <1>1 DEF Queue
<1>3. w \in Octets
  BY <1>1, <1>2
<1> QED BY <1>2, <1>3 DEF Octets

LEMMA BehindEnd ==
  ASSUME NEW t, NEW w, NEW g, Behind(t, w, g, g)
  PROVE  w = <<>>
BY DEF Behind, Queue

LEMMA BehindNext ==
  ASSUME NEW t, NEW w, NEW g, NEW s, Behind(t, w, g, s), g # s, NEW f, f = g + 1
  PROVE  \E v : /\ Behind(t, v, f, s) /\ w = WrittenOut(t, f) \o v
                /\ IsFrame(WrittenOut(t, f)) /\ t[f] = Deserialize(WrittenOut(t, f), MaxCount, 0)
<1>1. PICK q : Queue(t, q, g, s) /\ w = q[g]
  BY DEF Behind
<1> DEFINE p == [k \in f..s |-> q[k]]
<1>2. /\ g \in Nat /\ s \in Nat /\ g <= s /\ q \in [g..s -> Octets] /\ q[s] = <<>>
      /\ \A k \in (g + 1)..s : /\ IsFrame(WrittenOut(t, k))
                               /\ t[k] = Deserialize(WrittenOut(t, k), MaxCount, 0)
                               /\ q[k - 1] = WrittenOut(t, k) \o q[k]
  BY <1>1 DEF Queue
<1>3. f \in Nat /\ f <= s /\ f \in (g + 1)..s /\ f - 1 = g /\ s \in f..s /\ f \in f..s
  BY <1>2
<1>4. p \in [f..s -> Octets] /\ p[s] = <<>> /\ p[f] = q[f]
  <2>1. \A k \in f..s : k \in g..s
    BY <1>2, <1>3
  <2> QED BY <1>2, <1>3, <2>1
<1>5. ASSUME NEW k \in (f + 1)..s
      PROVE  /\ IsFrame(WrittenOut(t, k)) /\ t[k] = Deserialize(WrittenOut(t, k), MaxCount, 0)
             /\ p[k - 1] = WrittenOut(t, k) \o p[k]
  <2>1. k \in (g + 1)..s /\ k \in f..s /\ k - 1 \in f..s
    BY <1>2, <1>3
  <2>2. p[k - 1] = q[k - 1] /\ p[k] = q[k]
    BY <2>1
  <2> QED BY <1>2, <2>1, <2>2
<1> HIDE DEF p
<1>6. Queue(t, p, f, s)
  BY <1>2, <1>3, <1>4, <1>5 DEF Queue
<1>7. Behind(t, p[f], f, s)
  BY <1>6 DEF Behind
<1>8. w = WrittenOut(t, f) \o p[f]
  BY <1>1, <1>2, <1>3, <1>4
<1> QED BY <1>2, <1>3, <1>7, <1>8

LEMMA BehindSent ==
  ASSUME NEW t, NEW w, NEW g, NEW s, Behind(t, w, g, s), NEW f, f = s + 1,
         IsFrame(WrittenOut(t, f)), t[f] = Deserialize(WrittenOut(t, f), MaxCount, 0)
  PROVE  Behind(t, w \o WrittenOut(t, f), g, f)
<1>1. PICK q : Queue(t, q, g, s) /\ w = q[g]
  BY DEF Behind
<1> DEFINE b == WrittenOut(t, f)  p == [k \in g..f |-> IF k = f THEN <<>> ELSE q[k] \o b]
<1>2. /\ g \in Nat /\ s \in Nat /\ g <= s /\ q \in [g..s -> Octets] /\ q[s] = <<>>
      /\ \A k \in (g + 1)..s : /\ IsFrame(WrittenOut(t, k))
                               /\ t[k] = Deserialize(WrittenOut(t, k), MaxCount, 0)
                               /\ q[k - 1] = WrittenOut(t, k) \o q[k]
  BY <1>1 DEF Queue
<1>3. b \in Seq(0..255) /\ \A k \in g..s : q[k] \in Seq(0..255) /\ k # f /\ k \in g..f
  BY <1>2, FrameTyped DEF Octets
<1>4. f \in Nat /\ g <= f /\ f \in g..f /\ f - 1 = s /\ f # g /\ s \in g..f /\ s # f /\ g \in g..f
  BY <1>2
<1>5. p \in [g..f -> Octets] /\ p[f] = <<>>
  <2> DEFINE e(k) == IF k = f THEN <<>> ELSE q[k] \o b
  <2>1. ASSUME NEW k \in g..f PROVE e(k) \in Octets
    <3>1. CASE k = f
      BY <3>1 DEF Octets
    <3>2. CASE k # f
      <4>1. k \in g..s
        BY <1>2, <3>2
      <4>2. q[k] \o b \in Seq(0..255)
        BY <1>3, <4>1
      <4> QED BY <3>2, <4>2 DEF Octets
    <3> QED BY <3>1, <3>2
  <2>2. p = [k \in g..f |-> e(k)] /\ e(f) = <<>>
    OBVIOUS
  <2> HIDE DEF e, p
  <2> QED BY <1>4, <2>1, <2>2
<1>6. \A k \in g..s : p[k] = q[k] \o b
  BY <1>3
<1>7. ASSUME NEW k \in (g + 1)..f
      PROVE  /\ IsFrame(WrittenOut(t, k)) /\ t[k] = Deserialize(WrittenOut(t, k), MaxCount, 0)
             /\ p[k - 1] = WrittenOut(t, k) \o p[k]
  <2>1. CASE k = f
    <3>1. s \in g..s
      BY <1>2
    <3>2. p[k - 1] = <<>> \o b
      BY <1>2, <1>4, <1>6, <2>1, <3>1
    <3> HIDE DEF b, p
    <3>3. p[k - 1] = b \o <<>>
      BY <1>3, <3>2
    <3> QED BY <1>5, <2>1, <3>3 DEF b
  <2>2. CASE k # f
    <3>1. k \in (g + 1)..s /\ k \in g..s /\ k - 1 \in g..s
      BY <1>2, <2>2
    <3> DEFINE x == WrittenOut(t, k)  y == q[k]
    <3>2. p[k - 1] = (x \o y) \o b /\ p[k] = y \o b /\ IsFrame(x)
      BY <1>2, <1>6, <3>1
    <3>3. x \in Seq(0..255) /\ y \in Seq(0..255)
      BY <1>3, <3>1, <3>2, FrameTyped
    <3> HIDE DEF b, p, x, y
    <3>4. (x \o y) \o b = x \o (y \o b)
      BY <1>3, <3>3, ConcatAssociative
    <3> QED BY <1>2, <3>1, <3>2, <3>4 DEF x
  <2> QED BY <2>1, <2>2
<1> HIDE DEF p
<1>8. Queue(t, p, g, f)
  BY <1>2, <1>4, <1>5, <1>7 DEF Queue
<1>9. w \o b = p[g]
  <2>1. g \in g..s
    BY <1>2
  <2> QED BY <1>1, <1>6, <2>1
<1> QED BY <1>8, <1>9 DEF Behind

-----------------------------------------------------------------------------
(* The length, byte by byte: len of its bytes are read, n is what is left  *)
(* of the length r.                                                        *)
Left(len, rem, multiplier, n, r) ==
  /\ rem \in Nat /\ multiplier \in Nat /\ n \in 0..MAX_REMAINING
  /\ \/ len = 0 /\ n = r
     \/ /\ rem + multiplier * n = r
        /\ \/ len = 1 /\ n < Three
           \/ len = 2 /\ n < Two
           \/ len = 3 /\ n < 128

LEMMA LengthByte ==
  ASSUME NEW len, NEW rem, NEW multiplier, NEW n, NEW r, Left(len, rem, multiplier, n, r),
         NEW m, m = IF len = 0 THEN 1 ELSE multiplier,
         NEW sum, sum = (IF len = 0 THEN 0 ELSE rem) + (n % 128) * m,
         NEW more, more = 128 * m, NEW next, next = len + 1
  PROVE  /\ len \in 0..3 /\ n \in 0..MAX_REMAINING /\ r \in Int
         /\ sum \in Nat /\ more \in Nat
         /\ n < 128 => sum = r
         /\ n >= 128 => next <= 3 /\ Left(next, sum, more, n \div 128, r)
<1>1. /\ rem \in Nat /\ multiplier \in Nat /\ n \in 0..MAX_REMAINING
      /\ \/ len = 0 /\ n = r
         \/ /\ rem + multiplier * n = r
            /\ \/ len = 1 /\ n < Three
               \/ len = 2 /\ n < Two
               \/ len = 3 /\ n < 128
  BY DEF Left
<1>2. n \in Nat /\ len \in 0..3
  BY <1>1, Sizes
<1> DEFINE q == n \div 128  d == n % 128  start == IF len = 0 THEN 0 ELSE rem
<1>3. /\ q \in 0..MAX_REMAINING /\ d \in 0..127 /\ n = d + 128 * q
      /\ n < Two => q < 128
      /\ n < Three => q < Two
      /\ q < Three
  BY <1>1, Divide
<1>4. q \in Nat
  BY <1>3, Sizes
<1>5. m \in Nat /\ start \in Nat /\ start + m * n = r
  <2>1. CASE len = 0
    <3>1. m = 1 /\ start = 0 /\ n = r
      BY <1>1, <2>1
    <3> HIDE DEF start
    <3> QED BY <1>2, <3>1
  <2>2. CASE len # 0
    BY <1>1, <2>2
  <2> QED BY <2>1, <2>2
<1>6. sum = start + d * m /\ n % 128 = d
  OBVIOUS
<1> HIDE DEF q, d, start
<1>7. start + m * (d + 128 * q) = r
  BY <1>3, <1>5
<1>8. d * m \in Nat /\ m * q \in Nat /\ more \in Nat
  BY <1>3, <1>4, <1>5
<1>9. m * (d + 128 * q) = d * m + more * q
  <2>1. \A a, x, y \in Nat : a * (x + 128 * y) = x * a + (128 * a) * y
    OBVIOUS
  <2>2. m \in Nat /\ d \in Nat /\ q \in Nat
    BY <1>3, <1>4, <1>5
  <2> QED BY <2>1, <2>2
<1>10. sum \in Nat /\ more * q \in Nat
  BY <1>4, <1>5, <1>6, <1>8
<1>11. sum + more * q = r /\ r \in Int
  <2>1. start + (d * m + more * q) = r
    BY <1>7, <1>9
  <2> DEFINE x == d * m  y == more * q
  <2>2. x \in Nat /\ y \in Nat /\ start + (x + y) = r /\ sum = start + x
    BY <1>6, <1>8, <1>10, <2>1
  <2> HIDE DEF x, y
  <2>3. sum + y = r /\ r \in Int
    BY <1>5, <2>2
  <2> QED BY <2>3 DEF y
<1>12. ASSUME n < 128 PROVE sum = r
  <2>1. q = 0
    BY <1>3, <1>4, <1>12
  <2> QED BY <1>8, <1>10, <1>11, <2>1
<1>13. ASSUME n >= 128 PROVE next <= 3 /\ Left(next, sum, more, q, r)
  <2>1. len # 3
    BY <1>1, <1>2, <1>13
  <2>2. \/ next = 1 /\ q < Three
        \/ next = 2 /\ q < Two
        \/ next = 3 /\ q < 128
    BY <1>1, <1>2, <1>3, <2>1
  <2> QED BY <1>3, <1>8, <1>10, <1>11, <2>2 DEF Left
<1> QED BY <1>1, <1>2, <1>8, <1>10, <1>11, <1>12, <1>13 DEF q

(* The next byte of what is on the way.                                    *)
LEMMA NextByte ==
  ASSUME NEW c \in 0..255, NEW z \in Seq(0..255), NEW w, w = <<c>> \o z
  PROVE  Head(w) = c /\ SubSeq(w, 1 + 1, Len(w)) = z /\ w # <<>> /\ w \in Seq(0..255)
<1> DEFINE x == <<c>>  last == Len(w)  from == 1 + 1  k == 1
<1>1. x \in Seq(0..255) /\ k = Len(x) /\ x[1] = c /\ from = k + 1
  OBVIOUS
<1> HIDE DEF x, k, from
<1>2. w \in Seq(0..255) /\ Len(w) = Len(x) + Len(z) /\ w = x \o z
  BY <1>1, ConcatProperties DEF x
<1>3. w[1] = c
  <2>1. 1 \in 1..(Len(x) + Len(z)) /\ 1 <= Len(x)
    <3>1. Len(x) = 1 /\ Len(z) \in Nat
      BY <1>1 DEF k
    <3> QED BY ONLY <3>1
  <2>2. w[1] = x[1]
    BY <1>1, <1>2, <2>1, ConcatProperties
  <2> QED BY <1>1, <2>2
<1>4. SubSeq(x \o z, from, last) = z
  <2>1. last = Len(x \o z) /\ z \in Seq(0..255)
    BY <1>2
  <2> HIDE DEF last
  <2> QED BY ONLY <1>1, <2>1, FrontAndRest
<1>5. w # <<>>
  <2>1. Len(w) # 0
    BY <1>1, <1>2 DEF k
  <2> QED BY <2>1
<1> QED BY <1>2, <1>3, <1>4, <1>5 DEF from, last

-----------------------------------------------------------------------------
(* The receiver, and what it has of packet f of t, which it is reading     *)
(* while the bytes w are on the way, as far as packet s.  It has the       *)
(* header and of the length all but the bytes of n; or it has all but the  *)
(* last bytes x of the frame.                                              *)
Coming(t, f) == IsFrame(WrittenOut(t, f)) /\ t[f] = Deserialize(WrittenOut(t, f), MaxCount, 0)

LengthAhead(t, f, s, w, b, tr) ==
  \E h, body, n, v :
    /\ Coming(t, f) /\ Framing(WrittenOut(t, f), h, body) /\ Behind(t, v, f, s)
    /\ b = <<h>> /\ w = (encode[n] \o body) \o v
    /\ Left(tr.len, tr.rem, tr.multiplier, n, Len(body))

BodyAhead(t, f, s, w, b, tr) ==
  \E x, v :
    /\ Coming(t, f) /\ Behind(t, v, f, s)
    /\ x \in Octets /\ Len(x) = tr.rem /\ tr.rem # 0
    /\ b \in Octets /\ w = x \o v /\ b \o x = WrittenOut(t, f)

(* What it received is what was sent; behind it, behind the rest of a      *)
(* length and a body, or behind the rest of a body, are whole frames.      *)
LinkInv ==
  /\ stream \in Seq(Packets) /\ sent \in 0..Len(stream)
  /\ trp \in [state : 0..2, len : Nat, multiplier : Nat, rem : Nat]
  /\ got \in Seq(Packets) /\ \A i \in 1..Len(got) : i <= Len(stream) /\ got[i] = stream[i]
  /\ rc # "error"
  /\ trp.state = 0 => Behind(stream, wire, Len(got), sent)
  /\ trp.state = 1 => LengthAhead(stream, Len(got) + 1, sent, wire, buf, trp)
  /\ trp.state = 2 => BodyAhead(stream, Len(got) + 1, sent, wire, buf, trp)

LEMMA LinkInitInv == LinkInit => LinkInv
<1> SUFFICES ASSUME LinkInit PROVE LinkInv
  OBVIOUS
<1>1. stream \in Seq(Packets)
  BY LinkAssumption DEF LinkInit
<1>2. sent \in 0..Len(stream)
  BY <1>1 DEF LinkInit
<1>3. trp \in [state : 0..2, len : Nat, multiplier : Nat, rem : Nat] /\ trp.state = 0
  BY DEF LinkInit
<1>4. got \in Seq(Packets) /\ Len(got) = 0 /\ \A i \in 1..Len(got) : FALSE
  BY DEF LinkInit
<1>5. rc # "error"
  BY DEF LinkInit
<1>6. Behind(stream, wire, Len(got), sent)
  <2> DEFINE zero == 0
  <2>1. zero \in Nat /\ Len(got) = zero /\ sent = zero /\ wire = <<>>
    BY <1>4 DEF LinkInit
  <2> HIDE DEF zero
  <2> QED BY <2>1, BehindNone
<1> QED BY <1>1, <1>2, <1>3, <1>4, <1>5, <1>6 DEF LinkInv

(* One packet more is complete.                                            *)
LEMMA OneMore ==
  ASSUME NEW t \in Seq(Packets), NEW gs \in Seq(Packets), NEW s \in 0..Len(t),
         \A i \in 1..Len(gs) : i <= Len(t) /\ gs[i] = t[i],
         NEW f, f = Len(gs) + 1, f <= s, NEW hs, hs = Append(gs, t[f])
  PROVE  /\ hs \in Seq(Packets) /\ Len(hs) = f
         /\ \A i \in 1..Len(hs) : i <= Len(t) /\ hs[i] = t[i]
<1>1. f \in 1..Len(t) /\ Len(gs) \in Nat
  OBVIOUS
<1>2. t[f] \in Packets
  BY <1>1
<1> DEFINE p == t[f]
<1>3. /\ hs \in Seq(Packets) /\ Len(hs) = Len(gs) + 1 /\ hs[Len(gs) + 1] = p
      /\ \A i \in 1..Len(gs) : hs[i] = gs[i]
  <2>1. p \in Packets /\ hs = Append(gs, p)
    BY <1>2
  <2> HIDE DEF p
  <2> QED BY <2>1, AppendProperties
<1>4. Len(hs) = f
  BY <1>3
<1>5. ASSUME NEW i \in 1..f PROVE i <= Len(t) /\ hs[i] = t[i]
  <2>1. CASE i = f
    BY <1>1, <1>3, <2>1
  <2>2. CASE i # f
    <3>1. i \in 1..Len(gs)
      BY <1>1, <2>2
    <3> QED BY <1>3, <3>1
  <2> QED BY <2>1, <2>2
<1> QED BY <1>3, <1>4, <1>5

LEMMA SendInv == LinkInv /\ Send => LinkInv'
<1> SUFFICES ASSUME LinkInv, Send PROVE LinkInv'
  OBVIOUS
<1> DEFINE f == sent + 1  b == WrittenOut(stream, f)  g == Len(got)
<1>1. /\ stream \in Seq(Packets) /\ sent \in 0..Len(stream)
      /\ trp \in [state : 0..2, len : Nat, multiplier : Nat, rem : Nat]
      /\ got \in Seq(Packets) /\ \A i \in 1..Len(got) : i <= Len(stream) /\ got[i] = stream[i]
      /\ rc # "error"
  BY DEF LinkInv
<1>2. /\ sent' = f /\ f <= Len(stream) /\ b # Refused /\ wire' = wire \o b
      /\ UNCHANGED <<stream, trp, buf, got, rc>>
  BY <1>1 DEF Send, WrittenOut
<1>3. sent' \in 0..Len(stream) /\ stream[f] \in Packets
  <2>1. f \in 1..Len(stream)
    BY <1>1, <1>2
  <2> QED BY <1>1, <1>2, <2>1
<1>4. IsFrame(b) /\ stream[f] = Deserialize(b, MaxCount, 0) /\ b \in Seq(0..255)
  <2>1. Travels(stream[f])
    BY <1>3, PacketsTravel
  <2>2. IsFrame(b) /\ stream[f] = Deserialize(b, MaxCount, 0)
    BY <1>2, <2>1 DEF Travels, WrittenOut
  <2> QED BY <2>2, FrameTyped
<1>5. \A v, k : Behind(stream, v, k, sent) => Behind(stream, v \o b, k, f)
  BY <1>4, BehindSent
<1>6. \A v, k : Behind(stream, v, k, sent) => v \in Seq(0..255)
  BY BehindTyped
<1> HIDE DEF b, f
<1>7. ASSUME trp.state = 0 PROVE Behind(stream, wire', g, f)
  BY <1>2, <1>5, <1>7 DEF LinkInv
<1>8. ASSUME trp.state = 1 PROVE LengthAhead(stream, g + 1, f, wire', buf, trp)
  <2>1. LengthAhead(stream, g + 1, sent, wire, buf, trp)
    BY <1>8 DEF LinkInv
  <2> DEFINE e == g + 1
  <2>2. LengthAhead(stream, e, sent, wire, buf, trp)
    BY <2>1
  <2> HIDE DEF e
  <2>3. PICK h, body, n, v :
          /\ Coming(stream, e) /\ Framing(WrittenOut(stream, e), h, body) /\ Behind(stream, v, e, sent)
          /\ buf = <<h>> /\ wire = (encode[n] \o body) \o v
          /\ Left(trp.len, trp.rem, trp.multiplier, n, Len(body))
    BY <2>2 DEF LengthAhead
  <2> DEFINE x == encode[n] \o body
  <2>4. x \in Seq(0..255)
    <3>1. encode[n] \in Seq(0..255)
      BY <2>3, EncodeTyped DEF Left, Octets
    <3>2. body \in Seq(0..255)
      BY <2>3 DEF Framing, Octets
    <3> QED BY <3>1, <3>2, ConcatProperties
  <2>5. wire = x \o v /\ v \in Seq(0..255) /\ Behind(stream, v \o b, e, f)
    BY <1>5, <1>6, <2>3
  <2> HIDE DEF x
  <2>6. wire' = x \o (v \o b)
    BY <1>2, <1>4, <2>4, <2>5, ConcatAssociative, SMTT(30)
  <2>7. LengthAhead(stream, e, f, wire', buf, trp)
    BY <2>3, <2>5, <2>6 DEF LengthAhead, x
  <2> QED BY <2>7 DEF e
<1>9. ASSUME trp.state = 2 PROVE BodyAhead(stream, g + 1, f, wire', buf, trp)
  <2> DEFINE e == g + 1
  <2>1. BodyAhead(stream, e, sent, wire, buf, trp)
    BY <1>9 DEF LinkInv
  <2> HIDE DEF e
  <2>2. PICK x, v :
          /\ Coming(stream, e) /\ Behind(stream, v, e, sent)
          /\ x \in Octets /\ Len(x) = trp.rem /\ trp.rem # 0
          /\ buf \in Octets /\ wire = x \o v /\ buf \o x = WrittenOut(stream, e)
    BY <2>1 DEF BodyAhead
  <2>3. v \in Seq(0..255) /\ Behind(stream, v \o b, e, f) /\ x \in Seq(0..255)
    BY <1>5, <1>6, <2>2 DEF Octets
  <2>4. wire' = x \o (v \o b)
    <3>1. wire' = (x \o v) \o b
      BY <1>2, <2>2
    <3>2. (x \o v) \o b = x \o (v \o b)
      BY ONLY <1>4, <2>3, ConcatAssociative, SMTT(30)
    <3> QED BY <3>1, <3>2
  <2>5. BodyAhead(stream, e, f, wire', buf, trp)
    BY <2>2, <2>3, <2>4 DEF BodyAhead
  <2> QED BY <2>5 DEF e
<1>10. /\ trp' = trp /\ stream' = stream /\ got' = got /\ rc' = rc /\ buf' = buf
  BY <1>2
<1> QED BY <1>1, <1>2, <1>3, <1>7, <1>8, <1>9, <1>10 DEF LinkInv

(* What the next byte is, and what comes after it.                         *)
FrameAhead(t, f, s, w, h, body, v) ==
  /\ Coming(t, f) /\ Framing(WrittenOut(t, f), h, body) /\ Behind(t, v, f, s)
  /\ w = <<h>> \o ((encode[Len(body)] \o body) \o v)
  /\ (encode[Len(body)] \o body) \o v \in Seq(0..255)
  /\ WrittenOut(t, f) = <<h>> \o (encode[Len(body)] \o body) /\ w = WrittenOut(t, f) \o v

LEMMA AheadAtHeader ==
  ASSUME NEW t, NEW w, NEW g, NEW s, Behind(t, w, g, s), w # <<>>, NEW f, f = g + 1
  PROVE  f <= s /\ \E h, body, v : FrameAhead(t, f, s, w, h, body, v)
<1>1. g # s
  BY BehindEnd
<1>2. PICK v : Behind(t, v, f, s) /\ w = WrittenOut(t, f) \o v /\ Coming(t, f)
  BY <1>1, BehindNext DEF Coming
<1>3. PICK h, body : Framing(WrittenOut(t, f), h, body)
  BY <1>2 DEF Coming, IsFrame
<1> DEFINE x == <<h>>  e == encode[Len(body)]
<1>4. x \in Seq(0..255) /\ e \in Seq(0..255) /\ body \in Seq(0..255) /\ v \in Seq(0..255)
  <2>1. x \in Seq(0..255) /\ body \in Seq(0..255)
    BY <1>3 DEF Framing, Octets
  <2>2. e \in Seq(0..255)
    BY <1>3, EncodeTyped DEF Framing, Octets
  <2> QED BY <1>2, <2>1, <2>2, BehindTyped
<1>5. WrittenOut(t, f) = (x \o e) \o body
  BY <1>3 DEF Framing, Frame
<1> HIDE DEF x, e
<1> DEFINE y == e \o body
<1>6. y \in Seq(0..255) /\ (x \o e) \o body = x \o y
  BY <1>4, ConcatProperties, ConcatAssociative
<1> HIDE DEF y
<1>7. (x \o y) \o v = x \o (y \o v) /\ y \o v \in Seq(0..255)
  BY <1>4, <1>6, ConcatProperties, ConcatAssociative, SMTT(30)
<1>8. w = x \o (y \o v) /\ WrittenOut(t, f) = x \o y
  BY <1>2, <1>5, <1>6, <1>7
<1>9. f <= s
  BY <1>2, BehindTyped
<1>10. FrameAhead(t, f, s, w, h, body, v)
  BY <1>2, <1>3, <1>7, <1>8 DEF x, e, y, FrameAhead
<1> QED BY <1>9, <1>10

LEMMA ReadHeaderInv == LinkInv /\ ReadHeader => LinkInv'
<1> SUFFICES ASSUME LinkInv, ReadHeader PROVE LinkInv'
  OBVIOUS
<1> DEFINE f == Len(got) + 1
<1>1. /\ stream \in Seq(Packets) /\ sent \in 0..Len(stream)
      /\ trp \in [state : 0..2, len : Nat, multiplier : Nat, rem : Nat]
      /\ got \in Seq(Packets) /\ \A i \in 1..Len(got) : i <= Len(stream) /\ got[i] = stream[i]
      /\ rc # "error"
  BY DEF LinkInv
<1>2. /\ trp.state = 0 /\ wire # <<>> /\ wire' = SubSeq(wire, 1 + 1, Len(wire))
      /\ buf' = <<Head(wire)>> /\ trp' = [trp EXCEPT !.state = 1, !.len = 0]
      /\ UNCHANGED <<stream, sent, got, rc>>
  BY DEF ReadHeader, Getfn
<1>3. Behind(stream, wire, Len(got), sent)
  BY <1>2 DEF LinkInv
<1> DEFINE g == Len(got)
<1>4. Behind(stream, wire, g, sent) /\ f = g + 1
  BY <1>3
<1> HIDE DEF f, g
<1>5. PICK h, body, v : FrameAhead(stream, f, sent, wire, h, body, v)
  BY <1>2, <1>4, AheadAtHeader
<1> DEFINE z == (encode[Len(body)] \o body) \o v
<1>6. h \in 0..255 /\ z \in Seq(0..255) /\ wire = <<h>> \o z
  BY <1>5 DEF Framing, FrameAhead
<1>7. z = (encode[Len(body)] \o body) \o v
  OBVIOUS
<1> HIDE DEF z
<1>8. Head(wire) = h /\ SubSeq(wire, 1 + 1, Len(wire)) = z
  BY <1>6, NextByte
<1>9. /\ trp' \in [state : 0..2, len : Nat, multiplier : Nat, rem : Nat] /\ trp'.state = 1
      /\ trp'.len = 0 /\ trp'.rem \in Nat /\ trp'.multiplier \in Nat
  <2>1. trp.len \in Nat /\ trp.rem \in Nat /\ trp.multiplier \in Nat
    BY <1>1
  <2>2. trp' = [state |-> 1, len |-> 0, multiplier |-> trp.multiplier, rem |-> trp.rem]
    BY <1>1, <1>2
  <2>3. 1 \in 0..2 /\ 0 \in Nat
    OBVIOUS
  <2> QED BY ONLY <2>1, <2>2, <2>3
<1>10. Left(trp'.len, trp'.rem, trp'.multiplier, Len(body), Len(body))
  BY <1>5, <1>9 DEF Left, Framing, FrameAhead
<1>11. LengthAhead(stream, f, sent, wire', buf', trp')
  BY <1>2, <1>5, <1>7, <1>8, <1>10 DEF LengthAhead, FrameAhead
<1>12. /\ stream' = stream /\ sent' = sent /\ got' = got /\ rc' = rc
       /\ trp'.state # 0 /\ trp'.state # 2
  BY <1>2, <1>9
<1> QED BY <1>1, <1>9, <1>11, <1>12 DEF LinkInv, f

LEMMA BreakInv == LinkInv /\ Break => LinkInv'
<1> SUFFICES ASSUME LinkInv, Break PROVE LinkInv'
  OBVIOUS
<1>1. /\ stream \in Seq(Packets)
      /\ trp \in [state : 0..2, len : Nat, multiplier : Nat, rem : Nat]
  BY DEF LinkInv
<1>2. /\ trp' = [trp EXCEPT !.state = 0] /\ rc' = "none" /\ wire' = <<>> /\ sent' = 0
      /\ got' = <<>> /\ stream' = stream
  BY DEF Break
<1>3. sent' \in 0..Len(stream')
  BY <1>1, <1>2
<1>4. trp' \in [state : 0..2, len : Nat, multiplier : Nat, rem : Nat] /\ trp'.state = 0
  BY <1>1, <1>2
<1>5. got' \in Seq(Packets) /\ Len(got') = 0 /\ \A i \in 1..Len(got') : FALSE
  BY <1>2
<1>6. rc' # "error"
  BY <1>2
<1>7. Behind(stream', wire', Len(got'), sent')
  <2> DEFINE zero == 0
  <2>1. zero \in Nat /\ Len(got') = zero /\ sent' = zero /\ wire' = <<>>
    BY <1>2, <1>5
  <2> HIDE DEF zero
  <2> QED BY <2>1, BehindNone
<1>8. stream' \in Seq(Packets)
  BY <1>1, <1>2
<1> QED BY <1>3, <1>4, <1>5, <1>6, <1>7, <1>8 DEF LinkInv

LEMMA Joined ==
  ASSUME NEW x \in Seq(0..255), NEW y \in Seq(0..255), NEW z \in Seq(0..255)
  PROVE  x \o y \in Seq(0..255) /\ (x \o y) \o z = x \o (y \o z)
<1>1. x \o y \in Seq(0..255)
  BY ConcatProperties
<1>2. (x \o y) \o z = x \o (y \o z)
  <2> DEFINE T == 0..255
  <2>1. x \in Seq(T) /\ y \in Seq(T) /\ z \in Seq(T)
    OBVIOUS
  <2> HIDE DEF T
  <2> QED BY ONLY <2>1, ConcatAssociative
<1> QED BY <1>1, <1>2

LEMMA NothingJoined ==
  ASSUME NEW x \in Seq(0..255), NEW y \in Seq(0..255), x \o y = <<>>
  PROVE  x = <<>>
<1>1. Len(x \o y) = Len(x) + Len(y) /\ Len(x \o y) = 0
  BY ONLY x \o y = <<>>, x \in Seq(0..255), y \in Seq(0..255), ConcatProperties
<1>2. Len(x) \in Nat /\ Len(y) \in Nat
  OBVIOUS
<1>3. Len(x) = 0
  BY ONLY <1>1, <1>2
<1> QED BY ONLY <1>3, x \in Seq(0..255)

LengthIn(w, n, body, v) ==
  /\ n \in 0..MAX_REMAINING /\ body \in Seq(0..255) /\ v \in Seq(0..255)
  /\ w = (encode[n] \o body) \o v

LEMMA LengthSplit ==
  ASSUME NEW n, NEW body, NEW v, NEW w, LengthIn(w, n, body, v)
  PROVE  /\ n < 128 => /\ Head(w) = n /\ w # <<>> /\ SubSeq(w, 1 + 1, Len(w)) = body \o v
         /\ n >= 128 => /\ Head(w) = 128 + (n % 128) /\ w # <<>>
                        /\ SubSeq(w, 1 + 1, Len(w)) = (encode[n \div 128] \o body) \o v
<1>1. /\ n \in 0..MAX_REMAINING /\ body \in Seq(0..255) /\ v \in Seq(0..255)
      /\ w = (encode[n] \o body) \o v
  BY DEF LengthIn
<1>2. ASSUME NEW c \in 0..255, NEW e \in Seq(0..255), encode[n] = <<c>> \o e
      PROVE  Head(w) = c /\ w # <<>> /\ SubSeq(w, 1 + 1, Len(w)) = (e \o body) \o v
  <2> DEFINE x == <<c>>  y == e \o body  z == y \o v
  <2>1. /\ x \in Seq(0..255) /\ e \in Seq(0..255) /\ body \in Seq(0..255)
        /\ v \in Seq(0..255) /\ y \in Seq(0..255)
    BY <1>1, ConcatProperties
  <2>2. w = ((x \o e) \o body) \o v
    BY <1>1, <1>2
  <2> HIDE DEF x
  <2>3. (x \o e) \o body = x \o y
    BY ONLY <2>1, Joined, SMTT(30)
  <2> HIDE DEF y
  <2>4. z \in Seq(0..255) /\ (x \o y) \o v = x \o z
    BY ONLY <2>1, Joined, SMTT(30)
  <2> HIDE DEF z
  <2>5. w = <<c>> \o z
    BY <2>2, <2>3, <2>4 DEF x
  <2>6. Head(w) = c /\ w # <<>> /\ SubSeq(w, 1 + 1, Len(w)) = z
    BY <2>4, <2>5, NextByte, ZenonT(40)
  <2> QED BY <2>6 DEF z, y
<1>3. n \in Nat /\ encode[n] = IF n < 128 THEN <<n>> ELSE <<128 + (n % 128)>> \o encode[n \div 128]
  <2>1. n \in Nat
    BY <1>1, Sizes
  <2> QED BY ONLY <1>1, <2>1, EncodeIs
<1>4. ASSUME n < 128 PROVE Head(w) = n /\ w # <<>> /\ SubSeq(w, 1 + 1, Len(w)) = body \o v
  <2> DEFINE e == <<>>
  <2>1. n \in 0..255 /\ e \in Seq(0..255) /\ encode[n] = <<n>> /\ <<n>> \in Seq(0..255)
    BY <1>3, <1>4
  <2>2. e \o body = body /\ <<n>> \o e = <<n>>
    BY <1>1, <2>1, ConcatEmptySeq
  <2> HIDE DEF e
  <2>3. encode[n] = <<n>> \o e
    BY <2>1, <2>2
  <2> QED BY <1>2, <2>1, <2>2, <2>3
<1>5. ASSUME n >= 128
      PROVE  /\ Head(w) = 128 + (n % 128) /\ w # <<>>
             /\ SubSeq(w, 1 + 1, Len(w)) = (encode[n \div 128] \o body) \o v
  <2> DEFINE c == 128 + (n % 128)  q == n \div 128  e == encode[q]
  <2>1. c \in 0..255 /\ q \in 0..MAX_REMAINING
    BY <1>1, Divide
  <2>2. encode[n] = <<c>> \o e
    BY <1>3, <1>5
  <2> HIDE DEF c, q
  <2>3. e \in Seq(0..255)
    BY <2>1, EncodeTyped DEF Octets
  <2> HIDE DEF e
  <2>4. Head(w) = c /\ w # <<>> /\ SubSeq(w, 1 + 1, Len(w)) = (e \o body) \o v
    BY <1>2, <2>1, <2>2, <2>3
  <2> QED BY <2>4 DEF c, q, e
<1> QED BY <1>4, <1>5

LEMMA ReadLengthInv == LinkInv /\ ReadLength => LinkInv'
<1> SUFFICES ASSUME LinkInv, ReadLength PROVE LinkInv'
  OBVIOUS
<1> DEFINE g == Len(got)  f == g + 1
<1>1. /\ stream \in Seq(Packets) /\ sent \in 0..Len(stream)
      /\ trp \in [state : 0..2, len : Nat, multiplier : Nat, rem : Nat]
      /\ got \in Seq(Packets) /\ \A i \in 1..Len(got) : i <= Len(stream) /\ got[i] = stream[i]
      /\ rc # "error"
  BY DEF LinkInv
<1> DEFINE m == IF trp.len = 0 THEN 1 ELSE trp.multiplier
           sum == (IF trp.len = 0 THEN 0 ELSE trp.rem) + (Head(wire) % 128) * m
           frame == buf \o encode[sum]
           next == [trp EXCEPT !.rem = sum, !.multiplier = 128 * m]
<1>2. /\ trp.state = 1 /\ wire' = SubSeq(wire, 1 + 1, Len(wire))
      /\ UNCHANGED <<stream, sent>>
      /\ CASE Head(wire) >= 128 ->
                trp' = [next EXCEPT !.len = @ + 1] /\ UNCHANGED <<buf, got, rc>>
           [] Head(wire) < 128 /\ sum + Len(frame) > BUFLEN ->
                /\ trp' = [next EXCEPT !.state = 0, !.len = Len(frame)]
                /\ rc' = "error" /\ UNCHANGED <<buf, got>>
           [] Head(wire) < 128 /\ sum + Len(frame) <= BUFLEN /\ sum > 0 ->
                /\ trp' = [next EXCEPT !.state = 2, !.len = Len(frame)]
                /\ buf' = frame /\ UNCHANGED <<got, rc>>
           [] OTHER ->
                /\ trp' = [next EXCEPT !.state = 0, !.len = Len(frame)]
                /\ buf' = frame /\ Complete(frame)
  BY DEF ReadLength, Getfn
<1>3. LengthAhead(stream, f, sent, wire, buf, trp) /\ f = Len(got) + 1
  BY <1>2 DEF LinkInv
<1> HIDE DEF f, g
<1>4. PICK h, body, n, v :
        /\ Coming(stream, f) /\ Framing(WrittenOut(stream, f), h, body)
        /\ Behind(stream, v, f, sent)
        /\ buf = <<h>> /\ wire = (encode[n] \o body) \o v
        /\ Left(trp.len, trp.rem, trp.multiplier, n, Len(body))
  BY <1>3 DEF LengthAhead
<1> DEFINE r == Len(body)
<1>5. /\ h \in 0..255 /\ body \in Seq(0..255) /\ r \in 0..MAX_REMAINING /\ n \in 0..MAX_REMAINING
      /\ WrittenOut(stream, f) = Frame(h, r, body) /\ Len(WrittenOut(stream, f)) <= BUFLEN
      /\ v \in Seq(0..255) /\ n \in Nat
  BY <1>4, BehindTyped, Sizes DEF Framing, Left, Octets
<1>6. LengthIn(wire, n, body, v)
  BY <1>4, <1>5 DEF LengthIn
<1>7. Head(wire) % 128 = n % 128
  <2>1. n < 128 => Head(wire) = n
    BY <1>6, LengthSplit
  <2>2. n >= 128 => Head(wire) = 128 + (n % 128)
    BY <1>6, LengthSplit
  <2> DEFINE hd == Head(wire)
  <2>3. (n < 128 => hd = n) /\ (n >= 128 => hd = 128 + (n % 128))
    BY <2>1, <2>2
  <2> HIDE DEF hd
  <2>4. hd % 128 = n % 128
    BY ONLY <1>5, <2>3
  <2> QED BY <2>4 DEF hd
<1>8. /\ sum \in Nat /\ 128 * m \in Nat
      /\ n < 128 => sum = r
      /\ n >= 128 => Left(trp.len + 1, sum, 128 * m, n \div 128, r)
  <2> DEFINE more == 128 * m  nxt == trp.len + 1  len == trp.len
  <2>1. /\ m = (IF len = 0 THEN 1 ELSE trp.multiplier) /\ more = 128 * m /\ nxt = len + 1
        /\ sum = (IF len = 0 THEN 0 ELSE trp.rem) + (n % 128) * m
        /\ Left(len, trp.rem, trp.multiplier, n, r)
    BY <1>4, <1>7
  <2> HIDE DEF more, nxt, m, sum, r, len
  <2>2. sum \in Nat /\ more \in Nat /\ (n < 128 => sum = r)
        /\ (n >= 128 => Left(nxt, sum, more, n \div 128, r))
    BY <2>1, LengthByte
  <2> QED BY <2>2 DEF more, nxt, len
<1>9. CASE n >= 128
  <2> DEFINE q == n \div 128
  <2>1. /\ Head(wire) = 128 + (n % 128)
        /\ SubSeq(wire, 1 + 1, Len(wire)) = (encode[q] \o body) \o v
    BY <1>6, <1>9, LengthSplit
  <2>2. Head(wire) >= 128
    BY <1>5, <2>1
  <2>3. trp' = [next EXCEPT !.len = @ + 1] /\ UNCHANGED <<buf, got, rc>>
    <3>1. ~(Head(wire) < 128)
      BY <1>5, <2>1
    <3> HIDE DEF next, sum, frame
    <3> QED BY <1>2, <2>2, <3>1
  <2>4. trp' = [state |-> 1, len |-> trp.len + 1, multiplier |-> 128 * m, rem |-> sum]
    <3> HIDE DEF sum, m
    <3> QED BY <1>1, <1>2, <2>3
  <2> HIDE DEF q, next, frame, sum, m, r
  <2>5. /\ trp' \in [state : 0..2, len : Nat, multiplier : Nat, rem : Nat] /\ trp'.state = 1
        /\ trp'.len = trp.len + 1 /\ trp'.rem = sum /\ trp'.multiplier = 128 * m
    <3>1. trp.len \in Nat /\ 1 \in 0..2
      BY <1>1
    <3>2. trp.len + 1 \in Nat
      BY <3>1
    <3> QED BY ONLY <1>8, <2>4, <3>1, <3>2
  <2>6. LengthAhead(stream, f, sent, wire', buf, trp')
    <3>1. Left(trp'.len, trp'.rem, trp'.multiplier, q, Len(body))
      BY <1>8, <1>9, <2>5 DEF q, r
    <3>2. wire' = (encode[q] \o body) \o v
      BY <1>2, <2>1
    <3> QED BY <1>4, <3>1, <3>2 DEF LengthAhead
  <2>7. /\ stream' = stream /\ sent' = sent /\ got' = got /\ rc' = rc /\ buf' = buf
        /\ trp'.state # 0 /\ trp'.state # 2 /\ f = Len(got') + 1
    BY <1>2, <1>3, <2>3, <2>5
  <2> QED BY <1>1, <2>5, <2>6, <2>7 DEF LinkInv
<1>10. CASE n < 128
  <2>1. /\ Head(wire) = n /\ SubSeq(wire, 1 + 1, Len(wire)) = body \o v
    BY <1>6, <1>10, LengthSplit
  <2>2. sum = r /\ Head(wire) < 128 /\ ~(Head(wire) >= 128)
    BY <1>5, <1>8, <1>10, <2>1
  <2> HIDE DEF sum
  <2> DEFINE e == encode[r]  x == <<h>>
  <2>3. frame = x \o e /\ x \in Seq(0..255) /\ e \in Seq(0..255) /\ Len(x) = 1
    BY <1>4, <1>5, <2>2, EncodeTyped DEF Octets
  <2>4. WrittenOut(stream, f) = (x \o e) \o body
    BY <1>5 DEF Frame
  <2> HIDE DEF x, e, frame
  <2>5. frame \in Seq(0..255) /\ frame \o body = WrittenOut(stream, f)
    BY <2>3, <2>4, ConcatProperties
  <2>6. Len(frame) \in Nat /\ Len(WrittenOut(stream, f)) = Len(frame) + r
    <3>1. Len(frame \o body) = Len(frame) + Len(body)
      BY <1>5, <2>5, ConcatProperties
    <3> QED BY <2>5, <3>1
  <2>7. sum + Len(frame) <= BUFLEN /\ ~(sum + Len(frame) > BUFLEN)
    <3>1. BUFLEN \in Nat
      BY LinkAssumption, Sizes
    <3>2. r \in Nat
      BY <1>5, Sizes
    <3> HIDE DEF r
    <3> QED BY <1>5, <2>2, <2>6, <3>1, <3>2
  <2>8. wire' = body \o v
    BY <1>2, <2>1
  <2>9. CASE sum > 0
    <3>1. /\ trp' = [next EXCEPT !.state = 2, !.len = Len(frame)]
          /\ buf' = frame /\ UNCHANGED <<got, rc>>
      <4> HIDE DEF next
      <4> QED BY <1>2, <2>2, <2>7, <2>9
    <3>2. trp' = [state |-> 2, len |-> Len(frame), multiplier |-> 128 * m, rem |-> sum]
      <4> HIDE DEF m
      <4> QED BY <1>1, <3>1
    <3> HIDE DEF next, m, r
    <3>3. /\ trp' \in [state : 0..2, len : Nat, multiplier : Nat, rem : Nat] /\ trp'.state = 2
          /\ trp'.rem = sum
      <4>1. 2 \in 0..2
        OBVIOUS
      <4> QED BY ONLY <1>8, <2>6, <3>2, <4>1
    <3>4. BodyAhead(stream, f, sent, wire', buf', trp')
      <4>1. body \in Octets /\ frame \in Octets /\ Len(body) = trp'.rem /\ trp'.rem # 0
        BY <1>5, <1>8, <2>2, <2>5, <2>9, <3>3 DEF Octets, r
      <4> QED BY <1>4, <2>5, <2>8, <3>1, <4>1 DEF BodyAhead
    <3>5. /\ stream' = stream /\ sent' = sent /\ got' = got /\ rc' = rc
          /\ trp'.state # 0 /\ trp'.state # 1 /\ f = Len(got') + 1
      BY <1>2, <1>3, <3>1, <3>3
    <3> QED BY <1>1, <3>3, <3>4, <3>5 DEF LinkInv
  <2>10. CASE ~(sum > 0)
    <3>1. /\ trp' = [next EXCEPT !.state = 0, !.len = Len(frame)]
          /\ buf' = frame /\ Complete(frame)
      <4> HIDE DEF next
      <4> QED BY <1>2, <2>2, <2>7, <2>10
    <3>2. trp' = [state |-> 0, len |-> Len(frame), multiplier |-> 128 * m, rem |-> sum]
      <4> HIDE DEF m
      <4> QED BY <1>1, <3>1
    <3> HIDE DEF next, m, r
    <3>3. /\ trp' \in [state : 0..2, len : Nat, multiplier : Nat, rem : Nat] /\ trp'.state = 0
      <4>1. 0 \in 0..2
        OBVIOUS
      <4> QED BY ONLY <1>8, <2>6, <3>2, <4>1
    <3>4. body = <<>> /\ body \o v = v
      <4>1. Len(body) = 0
        BY <1>8, <2>2, <2>10 DEF r
      <4>2. body = <<>>
        BY <1>5, <4>1
      <4> QED BY <1>5, <4>2, ConcatEmptySeq
    <3>5. frame = WrittenOut(stream, f)
      BY <2>5, <3>4, ConcatEmptySeq
    <3>6. got' = Append(got, stream[f]) /\ rc' # "error"
      BY <1>4, <3>1, <3>5 DEF Complete, Coming
    <3>7. f <= sent
      BY <1>4, BehindTyped
    <3>8. /\ got' \in Seq(Packets) /\ Len(got') = f
          /\ \A i \in 1..Len(got') : i <= Len(stream) /\ got'[i] = stream[i]
      BY <1>1, <1>3, <3>6, <3>7, OneMore
    <3>9. Behind(stream, wire', Len(got'), sent)
      BY <1>4, <2>8, <3>4, <3>8
    <3>10. stream' = stream /\ sent' = sent
      BY <1>2
    <3> QED BY <1>1, <3>3, <3>6, <3>8, <3>9, <3>10 DEF LinkInv
  <2> QED BY <2>9, <2>10
<1> QED BY <1>5, <1>9, <1>10

LEMMA ReadBodyInv ==
  ASSUME LinkInv, NEW n \in Chunks \cup {trp.rem}, ReadBody(n)
  PROVE  LinkInv'
<1> DEFINE g == Len(got)  f == g + 1
<1>1. /\ stream \in Seq(Packets) /\ sent \in 0..Len(stream)
      /\ trp \in [state : 0..2, len : Nat, multiplier : Nat, rem : Nat]
      /\ got \in Seq(Packets) /\ \A i \in 1..Len(got) : i <= Len(stream) /\ got[i] = stream[i]
      /\ rc # "error"
  BY DEF LinkInv
<1> DEFINE frame == buf \o SubSeq(wire, 1, n)
<1>2. /\ trp.state = 2 /\ n <= trp.rem /\ n \in 1..Len(wire)
      /\ wire' = SubSeq(wire, n + 1, Len(wire)) /\ buf' = frame
      /\ IF n = trp.rem
         THEN trp' = [trp EXCEPT !.state = 0, !.rem = 0, !.len = @ + n] /\ Complete(frame)
         ELSE trp' = [trp EXCEPT !.rem = @ - n, !.len = @ + n] /\ UNCHANGED <<got, rc>>
      /\ UNCHANGED <<stream, sent>>
  BY DEF ReadBody, Getfn
<1>3. BodyAhead(stream, f, sent, wire, buf, trp) /\ f = Len(got) + 1
  BY <1>2 DEF LinkInv
<1> HIDE DEF f, g
<1>4. PICK x, v :
        /\ Coming(stream, f) /\ Behind(stream, v, f, sent)
        /\ x \in Octets /\ Len(x) = trp.rem /\ trp.rem # 0
        /\ buf \in Octets /\ wire = x \o v /\ buf \o x = WrittenOut(stream, f)
  BY <1>3 DEF BodyAhead
<1>5. x \in Seq(0..255) /\ buf \in Seq(0..255) /\ v \in Seq(0..255)
  BY <1>4, BehindTyped DEF Octets
<1>6. trp.rem \in Nat /\ trp.len \in Nat /\ trp.multiplier \in Nat /\ n \in 0..trp.rem
      /\ n \in Nat /\ n >= 1
  <2>1. trp.rem \in Nat /\ trp.len \in Nat /\ trp.multiplier \in Nat
    BY <1>1
  <2> HIDE DEF frame
  <2>2. n \in Nat /\ n >= 1 /\ n <= trp.rem
    <3>1. n \in 1..Len(wire) /\ n <= trp.rem
      BY <1>2
    <3>2. wire \in Seq(0..255)
      BY <1>4, <1>5, ConcatProperties
    <3> QED BY ONLY <3>1, <3>2
  <2> QED BY <2>1, <2>2
<1>7. PICK y, z \in Seq(0..255) : x = y \o z /\ Len(y) = n /\ Len(z) = trp.rem - n
  <2>1. n \in 0..Len(x)
    BY <1>4, <1>6
  <2>2. x \in Seq(0..255)
    BY <1>5
  <2>3. Parted(x, n)
    BY ONLY <2>1, <2>2, Cut
  <2> QED BY <1>4, <2>3 DEF Parted
<1> DEFINE rest == z \o v
<1>8. wire = y \o rest /\ rest \in Seq(0..255)
  <2>1. (y \o z) \o v = y \o (z \o v) /\ z \o v \in Seq(0..255)
    BY ONLY <1>5, y \in Seq(0..255), z \in Seq(0..255), Joined
  <2> QED BY <1>4, <1>7, <2>1
<1>9. SubSeq(wire, 1, n) = y /\ wire' = rest
  <2> DEFINE last == Len(wire)  from == n + 1
  <2>1. /\ last = Len(y \o rest) /\ from = n + 1 /\ n = Len(y)
        /\ y \in Seq(0..255) /\ rest \in Seq(0..255)
    BY <1>7, <1>8
  <2> HIDE DEF last, from, rest
  <2>2. SubSeq(y \o rest, 1, n) = y /\ SubSeq(y \o rest, from, last) = rest
    BY ONLY <2>1, FrontAndRest
  <2> QED BY <1>2, <1>8, <2>2 DEF from, last
<1>10. frame = buf \o y /\ frame \in Seq(0..255) /\ frame \o z = WrittenOut(stream, f)
  <2>1. buf \o y \in Seq(0..255) /\ (buf \o y) \o z = buf \o (y \o z)
    BY ONLY <1>5, y \in Seq(0..255), z \in Seq(0..255), Joined, SMTT(30)
  <2> QED BY <1>4, <1>7, <1>9, <2>1
<1> HIDE DEF frame, rest
<1>11. CASE n = trp.rem
  <2>1. trp' = [trp EXCEPT !.state = 0, !.rem = 0, !.len = @ + n] /\ Complete(frame)
    BY <1>2, <1>11
  <2>2. trp' = [state |-> 0, len |-> trp.len + n, multiplier |-> trp.multiplier, rem |-> 0]
    BY <1>1, <2>1
  <2>3. trp' \in [state : 0..2, len : Nat, multiplier : Nat, rem : Nat] /\ trp'.state = 0
    <3>1. trp.len + n \in Nat /\ 0 \in 0..2 /\ 0 \in Nat
      BY <1>6
    <3> QED BY ONLY <1>6, <2>2, <3>1
  <2>4. z = <<>> /\ rest = v /\ frame = WrittenOut(stream, f)
    <3>1. z = <<>>
      <4>1. Len(z) = 0
        BY <1>6, <1>7, <1>11
      <4> QED BY <4>1
    <3> QED BY <1>5, <1>10, <3>1, ConcatEmptySeq DEF rest
  <2>5. got' = Append(got, stream[f]) /\ rc' # "error"
    BY <1>4, <2>1, <2>4 DEF Complete, Coming
  <2>6. f <= sent
    BY <1>4, BehindTyped
  <2>7. /\ got' \in Seq(Packets) /\ Len(got') = f
        /\ \A i \in 1..Len(got') : i <= Len(stream) /\ got'[i] = stream[i]
    BY <1>1, <1>3, <2>5, <2>6, OneMore
  <2>8. Behind(stream, wire', Len(got'), sent)
    BY <1>4, <1>9, <2>4, <2>7
  <2>9. stream' = stream /\ sent' = sent
    BY <1>2
  <2> QED BY <1>1, <2>3, <2>5, <2>7, <2>8, <2>9 DEF LinkInv
<1>12. CASE n # trp.rem
  <2>1. trp' = [trp EXCEPT !.rem = @ - n, !.len = @ + n] /\ UNCHANGED <<got, rc>>
    BY <1>2, <1>12
  <2>2. trp' = [state |-> 2, len |-> trp.len + n, multiplier |-> trp.multiplier,
                rem |-> trp.rem - n]
    BY <1>1, <1>2, <2>1
  <2>3. /\ trp' \in [state : 0..2, len : Nat, multiplier : Nat, rem : Nat] /\ trp'.state = 2
        /\ trp'.rem = trp.rem - n /\ trp'.rem # 0
    <3>1. trp.len + n \in Nat /\ trp.rem - n \in Nat /\ trp.rem - n # 0 /\ 2 \in 0..2
      BY <1>6, <1>12
    <3> QED BY ONLY <1>6, <2>2, <3>1
  <2>4. BodyAhead(stream, f, sent, wire', buf', trp')
    <3>1. z \in Octets /\ frame \in Octets /\ Len(z) = trp'.rem
      BY <1>7, <1>10, <2>3 DEF Octets
    <3> QED BY <1>2, <1>4, <1>9, <1>10, <2>3, <3>1 DEF BodyAhead, rest
  <2>5. /\ stream' = stream /\ sent' = sent /\ got' = got /\ rc' = rc
        /\ trp'.state # 0 /\ trp'.state # 1 /\ f = Len(got') + 1
    BY <1>2, <1>3, <2>1, <2>3
  <2> QED BY <1>1, <2>3, <2>4, <2>5 DEF LinkInv
<1> QED BY <1>11, <1>12

LEMMA ReadAllInv == LinkInv /\ MQTTPacket_read => LinkInv'
<1> SUFFICES ASSUME LinkInv, MQTTPacket_read PROVE LinkInv'
  OBVIOUS
<1> DEFINE g == Len(got)  f == g + 1
<1>1. /\ stream \in Seq(Packets) /\ sent \in 0..Len(stream)
      /\ trp \in [state : 0..2, len : Nat, multiplier : Nat, rem : Nat]
      /\ got \in Seq(Packets) /\ \A i \in 1..Len(got) : i <= Len(stream) /\ got[i] = stream[i]
      /\ rc # "error"
  BY DEF LinkInv
<1> DEFINE used == decode(wire, 2).used  value == decode(wire, 2).value
           frame == <<Head(wire)>> \o encode[value] \o SubSeq(wire, 2 + used, 1 + used + value)
<1>2. /\ trp.state = 0 /\ wire # <<>>
      /\ wire' = SubSeq(wire, (1 + used + value) + 1, Len(wire)) /\ Complete(frame)
      /\ UNCHANGED <<stream, sent, trp>>
  BY DEF MQTTPacket_read, Getfn
<1>3. Behind(stream, wire, g, sent) /\ f = g + 1 /\ f = Len(got) + 1
  BY <1>2 DEF LinkInv
<1> HIDE DEF f, g
<1>4. f <= sent
  BY <1>2, <1>3, AheadAtHeader
<1>5. PICK h, body, v : FrameAhead(stream, f, sent, wire, h, body, v)
  BY <1>2, <1>3, AheadAtHeader
<1> DEFINE r == Len(body)  e == encode[r]  x == <<h>>  all == WrittenOut(stream, f)
<1>6. /\ Coming(stream, f) /\ Framing(all, h, body) /\ Behind(stream, v, f, sent)
      /\ wire = x \o ((e \o body) \o v) /\ (e \o body) \o v \in Seq(0..255)
      /\ all = x \o (e \o body) /\ wire = all \o v
  BY <1>5 DEF FrameAhead
<1>7. /\ h \in 0..255 /\ x \in Seq(0..255) /\ Len(x) = 1 /\ r \in 0..MAX_REMAINING /\ r \in Nat
      /\ body \in Seq(0..255) /\ v \in Seq(0..255)
  BY <1>6, BehindTyped, Sizes DEF Framing, Octets
<1>8. e \in Octets /\ e \in Seq(0..255) /\ Len(e) \in Nat
  BY <1>7, EncodeTyped DEF Octets
<1> HIDE DEF e, x, all
<1>9. /\ e \o body \in Seq(0..255) /\ all \in Seq(0..255) /\ Len(all) = 1 + Len(e) + r
      /\ wire \in Seq(0..255)
  <2>1. e \o body \in Seq(0..255) /\ Len(e \o body) = Len(e) + Len(body)
    BY <1>7, <1>8, ConcatProperties
  <2>2. all \in Seq(0..255) /\ Len(all) = Len(x) + Len(e \o body)
    BY <1>6, <1>7, <2>1, ConcatProperties, ZenonT(40)
  <2>3. wire \in Seq(0..255)
    BY <1>6, <1>7, <2>2, ConcatProperties
  <2>4. Len(all) = 1 + (Len(e) + r)
    BY <1>7, <2>1, <2>2
  <2> QED BY <1>7, <1>8, <2>1, <2>2, <2>3, <2>4
<1>10. Holds(wire, 2, e) /\ Holds(wire, 2 + Len(e), body)
  <2>1. Holds(wire, 1, all)
    <3>1. Holds(wire, 1, all \o v)
      BY <1>6, <1>9, HoldsAll
    <3> QED BY ONLY <1>7, <1>9, <3>1, HoldsParts
  <2>2. Holds(wire, 1 + Len(x), e \o body)
    <3>1. Holds(wire, 1, x \o (e \o body))
      BY <1>6, <2>1
    <3> QED BY ONLY <1>7, <1>9, <3>1, HoldsParts
  <2>3. Holds(wire, 2, e \o body)
    BY <1>7, <2>2
  <2> QED BY ONLY <1>7, <1>8, <1>9, <2>3, HoldsParts
<1>11. used = Len(e) /\ value = r
  <2>1. wire \in Octets /\ 2 \in Nat \ {0}
    BY <1>9 DEF Octets
  <2>2. Holds(wire, 2, encode[r])
    BY <1>10 DEF e
  <2>3. decode(wire, 2) = [used |-> Len(encode[r]), value |-> r]
    BY ONLY <1>7, <2>1, <2>2, DecodeOf
  <2> QED BY <2>3 DEF e
<1>12. SubSeq(wire, 2 + used, 1 + used + value) = body
  <2> DEFINE from == 2 + Len(e)  last == 1 + used + value
  <2>1. Holds(wire, from, body) /\ last = from + Len(body) - 1
    <3>1. Holds(wire, from, body)
      BY <1>10
    <3>2. /\ from = 2 + Len(e) /\ last = 1 + used + value /\ used = Len(e) /\ value = r
          /\ Len(e) \in Nat /\ r \in Nat /\ r = Len(body)
      BY <1>6, <1>7, <1>8, <1>11
    <3>3. last = from + Len(body) - 1
      <4> HIDE DEF from, last, used, value, e
      <4> QED BY ONLY <3>2
    <3> QED BY <3>1, <3>3
  <2>2. from = 2 + used
    BY <1>11
  <2> HIDE DEF from, last
  <2>3. SubSeq(wire, from, last) = body
    BY ONLY <1>7, <1>9, <2>1, HoldsSub
  <2> QED BY <2>2, <2>3 DEF last
<1>13. Head(wire) = h
  <2> DEFINE z == (e \o body) \o v
  <2>1. z \in Seq(0..255) /\ wire = <<h>> \o z
    BY <1>6 DEF x
  <2> HIDE DEF z
  <2> QED BY <1>7, <2>1, NextByte
<1>14. frame = all
  <2>1. frame = (x \o e) \o body
    BY <1>11, <1>12, <1>13 DEF x, e
  <2>2. (x \o e) \o body = x \o (e \o body)
    <3>1. x \in Seq(0..255) /\ e \in Seq(0..255) /\ body \in Seq(0..255)
      BY <1>7, <1>8
    <3> QED BY ONLY <3>1, Joined
  <2> QED BY <1>6, <2>1, <2>2
<1>15. wire' = v
  <2> DEFINE k == 1 + used + value  from == k + 1  last == Len(wire)
  <2>1. k = Len(all) /\ from = k + 1 /\ last = Len(all \o v)
    BY <1>6, <1>9, <1>11
  <2>2. wire' = SubSeq(all \o v, from, last)
    BY <1>2, <1>6
  <2> HIDE DEF k, from, last
  <2>3. SubSeq(all \o v, from, last) = v
    BY ONLY <1>7, <1>9, <2>1, FrontAndRest
  <2> QED BY <2>2, <2>3
<1> HIDE DEF frame, used, value
<1>16. got' = Append(got, stream[f]) /\ rc' # "error"
  BY <1>2, <1>6, <1>14 DEF Complete, Coming, all
<1>17. /\ got' \in Seq(Packets) /\ Len(got') = f
       /\ \A i \in 1..Len(got') : i <= Len(stream) /\ got'[i] = stream[i]
  BY <1>1, <1>3, <1>4, <1>16, OneMore
<1>18. Behind(stream, wire', Len(got'), sent)
  BY <1>6, <1>15, <1>17
<1>19. stream' = stream /\ sent' = sent /\ trp' = trp
  BY <1>2
<1> QED BY <1>1, <1>2, <1>16, <1>17, <1>18, <1>19 DEF LinkInv

(* From LinkInv to what the run checks.                                    *)
LEMMA LinkSafe == LinkInv => ReceivedAsSent
<1> SUFFICES ASSUME LinkInv PROVE ReceivedAsSent
  OBVIOUS
<1> DEFINE g == Len(got)
<1>1. /\ stream \in Seq(Packets) /\ sent \in 0..Len(stream)
      /\ trp.state \in 0..2 /\ got \in Seq(Packets) /\ rc # "error"
      /\ \A i \in 1..Len(got) : i <= Len(stream) /\ got[i] = stream[i]
      /\ trp.state = 0 => Behind(stream, wire, g, sent)
      /\ trp.state = 1 => LengthAhead(stream, g + 1, sent, wire, buf, trp)
      /\ trp.state = 2 => BodyAhead(stream, g + 1, sent, wire, buf, trp)
  BY DEF LinkInv
<1>2. got = SubSeq(stream, 1, g)
  <2>1. g \in Nat /\ (g = 0 \/ g \in 1..Len(stream))
    <3>1. g \in Nat
      BY <1>1
    <3>2. g # 0 => g <= Len(stream)
      BY <1>1, <3>1
    <3> QED BY <3>1, <3>2, <1>1
  <2>2. SubSeq(stream, 1, g) = [i \in 1..g |-> stream[i]]
    <3>1. \A i \in 1..g : 1 + i - 1 = i
      BY <2>1
    <3>2. g - 1 + 1 = g
      BY <2>1
    <3> HIDE DEF g
    <3> QED BY <1>1, <2>1, <3>1, <3>2
  <2>3. got = [i \in 1..g |-> got[i]]
    BY <1>1
  <2> QED BY <1>1, <2>2, <2>3
<1>3. ASSUME wire = <<>> PROVE trp.state = 0 /\ g = sent
  <2>1. CASE trp.state = 0
    <3> DEFINE f == g + 1
    <3>1. Behind(stream, wire, g, sent) /\ f = g + 1
      BY <1>1, <2>1
    <3> HIDE DEF f
    <3>2. ASSUME g # sent PROVE FALSE
      <4>1. PICK v : Behind(stream, v, f, sent) /\ wire = WrittenOut(stream, f) \o v
                     /\ IsFrame(WrittenOut(stream, f))
        BY <3>1, <3>2, BehindNext
      <4>2. WrittenOut(stream, f) \in Seq(0..255) /\ WrittenOut(stream, f) # <<>> /\ v \in Seq(0..255)
        BY <4>1, FrameTyped, BehindTyped
      <4>3. WrittenOut(stream, f) \o v = <<>>
        BY <1>3, <4>1
      <4> DEFINE x == WrittenOut(stream, f)
      <4>4. x = <<>>
        <5>1. x \in Seq(0..255) /\ v \in Seq(0..255) /\ x \o v = <<>>
          BY <4>2, <4>3
        <5> HIDE DEF x
        <5> QED BY ONLY <5>1, NothingJoined
      <4> QED BY <4>2, <4>4
    <3> QED BY <2>1, <3>2
  <2>2. CASE trp.state = 1
    <3>1. PICK n, body, v : /\ Left(trp.len, trp.rem, trp.multiplier, n, Len(body))
                            /\ wire = (encode[n] \o body) \o v
                            /\ v \in Seq(0..255) /\ body \in Seq(0..255)
      BY <1>1, <2>2, BehindTyped, ZenonT(40) DEF LengthAhead, Framing, Octets
    <3>2. LengthIn(wire, n, body, v)
      BY <3>1 DEF LengthIn, Left
    <3>3. n \in Nat
      BY <3>2, Sizes DEF LengthIn
    <3>4. n < 128 \/ n >= 128
      BY <3>3
    <3> QED BY <1>3, <3>2, <3>4, LengthSplit
  <2>3. CASE trp.state = 2
    <3>1. PICK x, v : /\ x \in Seq(0..255) /\ Len(x) # 0 /\ v \in Seq(0..255)
                      /\ wire = x \o v
      BY <1>1, <2>3, BehindTyped DEF BodyAhead, Octets
    <3>2. x = <<>>
      <4>1. x \in Seq(0..255) /\ v \in Seq(0..255) /\ x \o v = <<>>
        BY <1>3, <3>1
      <4> QED BY ONLY <4>1, NothingJoined
    <3> QED BY <3>1, <3>2
  <2> QED BY <1>1, <2>1, <2>2, <2>3
<1> QED BY <1>1, <1>2, <1>3 DEF ReceivedAsSent

(* Whatever pieces MQTTPacket_readnb() is given and wherever a connection  *)
(* breaks, and for MQTTPacket_read() in their place, the packets received  *)
(* are the first of those the serializers wrote, and nothing is left of    *)
(* one when the stream is used up.                                         *)
THEOREM ReceivedAsSentAlways == LinkSpec => []ReceivedAsSent
<1>1. LinkInit => LinkInv
  BY LinkInitInv
<1>2. LinkInv /\ [LinkNext]_link => LinkInv'
  <2> SUFFICES ASSUME LinkInv, [LinkNext]_link PROVE LinkInv'
    OBVIOUS
  <2>1. CASE LinkNext
    <3>1. CASE \E n \in Chunks \cup {trp.rem} : ReadBody(n)
      BY <3>1, ReadBodyInv
    <3> QED BY <2>1, <3>1, SendInv, ReadHeaderInv, ReadLengthInv, ReadAllInv, BreakInv
          DEF LinkNext
  <2>2. CASE UNCHANGED link
    <3>1. /\ stream' = stream /\ sent' = sent /\ wire' = wire /\ trp' = trp /\ buf' = buf
          /\ got' = got /\ rc' = rc
      BY <2>2 DEF link
    <3> QED BY <3>1 DEF LinkInv
  <2> QED BY <2>1, <2>2
<1>3. LinkInv => ReceivedAsSent
  BY LinkSafe
<1> QED BY <1>1, <1>2, <1>3, PTL DEF LinkSpec

-----------------------------------------------------------------------------
(* Topics and filters by levels.                                           *)

(* The levels begun after some characters, and after c too.                *)
Split == {x \in Seq(Seq(STRING)) : Len(x) >= 1}
Begun(x, c) == IF c = "/" THEN Append(x, <<>>) ELSE [x EXCEPT ![Len(x)] = Append(@, c)]

Longer(z, u, c) ==
  Len(z) = Len(u) + 1 /\ z[Len(u) + 1] = c /\ \A j \in 1..Len(u) : z[j] = u[j]

LEMMA BegunIs ==
  ASSUME NEW x \in Split, NEW c \in STRING
  PROVE  /\ Begun(x, c) \in Split
         /\ c = "/" => /\ Len(Begun(x, c)) = Len(x) + 1 /\ Begun(x, c)[Len(x) + 1] = <<>>
                       /\ \A k \in 1..Len(x) : Begun(x, c)[k] = x[k]
         /\ c # "/" => /\ Len(Begun(x, c)) = Len(x)
                       /\ \A k \in 1..(Len(x) - 1) : Begun(x, c)[k] = x[k]
                       /\ Longer(Begun(x, c)[Len(x)], x[Len(x)], c)
<1> DEFINE C == Seq(STRING)  n == Len(x)
<1>1. x \in Seq(C) /\ n \in Nat /\ n >= 1 /\ <<>> \in C
  BY DEF Split
<1>2. x[n] \in C
  BY <1>1
<1> DEFINE last == Append(x[n], c)
<1>3. last \in C /\ Longer(last, x[n], c)
  <2> DEFINE z == x[n]  T == STRING
  <2>1. z \in Seq(T) /\ c \in T
    BY <1>2
  <2> HIDE DEF z, T
  <2>2. /\ Append(z, c) \in Seq(T) /\ Len(Append(z, c)) = Len(z) + 1
        /\ Append(z, c)[Len(z) + 1] = c /\ \A j \in 1..Len(z) : Append(z, c)[j] = z[j]
    <3>1. Append(z, c) \in Seq(T) /\ Len(Append(z, c)) = Len(z) + 1
      BY ONLY <2>1, AppendProperties
    <3>2. Append(z, c)[Len(z) + 1] = c
      BY ONLY <2>1, AppendProperties
    <3>3. \A j \in 1..Len(z) : Append(z, c)[j] = z[j]
      BY ONLY <2>1, AppendProperties
    <3> QED BY <3>1, <3>2, <3>3
  <2> QED BY <2>2 DEF z, T, Longer
<1> HIDE DEF C, last
<1>4. CASE c = "/"
  BY <1>1, <1>4 DEF Begun, Split, C
<1>5. CASE c # "/"
  <2> DEFINE y == [x EXCEPT ![n] = last]
  <2>1. y \in Seq(C) /\ Len(y) = n /\ y[n] = last /\ \A k \in 1..(n - 1) : y[k] = x[k]
    <3>1. n \in 1..Len(x) /\ last \in C /\ x \in Seq(C)
      BY <1>1, <1>3
    <3> HIDE DEF n
    <3>2. /\ [x EXCEPT ![n] = last] \in Seq(C) /\ Len([x EXCEPT ![n] = last]) = Len(x)
          /\ \A k \in 1..Len(x) : [x EXCEPT ![n] = last][k] = IF k = n THEN last ELSE x[k]
      BY ONLY <3>1, ExceptSeq
    <3>3. y \in Seq(C) /\ Len(y) = Len(x) /\ \A k \in 1..Len(x) : y[k] = IF k = n THEN last ELSE x[k]
      BY <3>2
    <3> HIDE DEF y
    <3> QED BY <1>1, <3>3 DEF n
  <2>3. Begun(x, c) = y
    BY <1>5 DEF Begun, last
  <2> QED BY <1>1, <1>3, <1>5, <2>1, <2>3 DEF Split, C
<1> QED BY <1>4, <1>5

(* The levels of x, the last not complete, are levels of L.                *)
Within(x, L) ==
  /\ Len(x) <= Len(L) /\ \A k \in 1..(Len(x) - 1) : L[k] = x[k]
  /\ Len(x[Len(x)]) <= Len(L[Len(x)])
  /\ \A j \in 1..Len(x[Len(x)]) : L[Len(x)][j] = x[Len(x)][j]

LEMMA WithinBefore ==
  ASSUME NEW x \in Split, NEW c \in STRING, NEW L \in Split, NEW y, y = Begun(x, c), Within(y, L)
  PROVE  /\ Within(x, L)
         /\ c = "/" => Len(L[Len(x)]) = Len(x[Len(x)])
         /\ c # "/" => L[Len(x)][Len(x[Len(x)]) + 1] = c
<1> DEFINE n == Len(x)
<1>1. n \in Nat /\ n >= 1 /\ x[n] \in Seq(STRING)
  BY DEF Split
<1>2. y \in Split /\ Len(y) <= Len(L) /\ \A k \in 1..(Len(y) - 1) : L[k] = y[k]
  BY BegunIs DEF Within
<1>3. CASE c = "/"
  <2>1. Len(y) = n + 1 /\ \A k \in 1..n : y[k] = x[k]
    BY <1>3, BegunIs
  <2>2. \A k \in 1..n : L[k] = x[k]
    <3>1. 1..n = 1..(Len(y) - 1)
      BY <1>1, <2>1
    <3> QED BY ONLY <1>2, <2>1, <3>1
  <2>3. n <= Len(L) /\ n \in 1..n /\ Len(L) \in Nat
    BY <1>1, <1>2, <2>1 DEF Split
  <2> QED BY <1>1, <1>3, <2>2, <2>3 DEF Within
<1>4. CASE c # "/"
  <2> DEFINE u == x[n]  z == y[n]  m == L[n]
  <2>1. Len(y) = n /\ Longer(z, u, c) /\ \A k \in 1..(n - 1) : y[k] = x[k]
    BY <1>4, BegunIs
  <2>2. Len(z) <= Len(m) /\ \A j \in 1..Len(z) : m[j] = z[j]
    BY <2>1 DEF Within
  <2>3. n <= Len(L) /\ n \in 1..Len(L) /\ Len(L) \in Nat
    BY <1>1, <1>2, <2>1 DEF Split
  <2>4. Len(m) \in Nat /\ Len(u) \in Nat
    BY <1>1, <2>3 DEF Split
  <2>5. \A k \in 1..(n - 1) : L[k] = x[k]
    <3>1. \A k \in 1..(n - 1) : L[k] = y[k]
      BY <1>2, <2>1
    <3> QED BY <2>1, <3>1
  <2> HIDE DEF u, z, m
  <2>6. Len(u) <= Len(m) /\ m[Len(u) + 1] = c /\ \A j \in 1..Len(u) : m[j] = u[j]
    <3>1. Len(z) = Len(u) + 1 /\ z[Len(u) + 1] = c /\ \A j \in 1..Len(u) : z[j] = u[j]
      BY <2>1 DEF Longer
    <3> DEFINE k == Len(u) + 1
    <3>2. k \in 1..Len(z) /\ Len(u) <= Len(m) /\ \A j \in 1..Len(u) : j \in 1..Len(z)
      BY ONLY <2>2, <2>4, <3>1
    <3>3. m[k] = c
      <4> HIDE DEF k
      <4>1. m[k] = z[k]
        BY ONLY <2>2, <3>2
      <4> QED BY <3>1, <4>1 DEF k
    <3>4. \A j \in 1..Len(u) : m[j] = u[j]
      BY ONLY <2>2, <3>1, <3>2
    <3> QED BY <3>2, <3>3, <3>4
  <2> QED BY <1>4, <2>3, <2>5, <2>6 DEF Within, u, m
<1> QED BY <1>3, <1>4

(* Of the characters of s the first i begin num[i] of its levels L, and    *)
(* are off[i] characters into the last of these.                           *)
LevelPlaces(s, num, off, L) ==
  /\ s \in Seq(STRING) /\ L \in Seq(Seq(STRING))
  /\ num \in [0..Len(s) -> Nat] /\ off \in [0..Len(s) -> Nat]
  /\ num[0] = 1 /\ off[0] = 0
  /\ \A i \in 0..Len(s) : num[i] \in 1..Len(L) /\ off[i] <= Len(L[num[i]])
  /\ num[Len(s)] = Len(L) /\ off[Len(s)] = Len(L[Len(L)])
  /\ \A i \in 1..Len(s) :
       /\ s[i] = "/" => /\ num[i] = num[i - 1] + 1 /\ off[i] = 0
                        /\ off[i - 1] = Len(L[num[i - 1]])
       /\ s[i] # "/" => /\ num[i] = num[i - 1] /\ off[i] = off[i - 1] + 1
                        /\ L[num[i]][off[i]] = s[i]

LEMMA LevelPlacesExist ==
  ASSUME NEW s \in Seq(STRING)
  PROVE  \E num, off : LevelPlaces(s, num, off, Levels(s))
<1> DEFINE n == Len(s)
           step == [p \in (1..n) \X Split |-> Begun(p[2], s[p[1]])]
           G(f) == [i \in 0..n |->
                      IF i = 0 THEN << <<>> >>
                      ELSE IF s[i] = "/" THEN Append(f[i - 1], <<>>)
                           ELSE [f[i - 1] EXCEPT ![Len(f[i - 1])] = Append(@, s[i])]]
           c == CHOOSE f : f = G(f)
<1>1. Levels(s) = c[n]
  BY DEF Levels
<1>2. n \in Nat /\ << <<>> >> \in Split /\ \A i \in 1..n : s[i] \in STRING
  BY DEF Split
<1>3. Recursion(Split, << <<>> >>, n, step)
  <2>1. \A p \in (1..n) \X Split : Begun(p[2], s[p[1]]) \in Split
    BY <1>2, BegunIs
  <2> QED BY <1>2, <2>1 DEF Recursion
<1>4. PICK h : Recursed(h, Split, << <<>> >>, n, step)
  BY <1>3, RecursionExists
<1>5. h = G(h)
  <2>1. /\ h \in [0..n -> Split] /\ h[0] = << <<>> >>
        /\ \A i \in 1..n : h[i] = step[<<i, h[i - 1]>>]
    BY <1>4 DEF Recursed
  <2>2. ASSUME NEW i \in 1..n PROVE h[i] = Begun(h[i - 1], s[i])
    <3> DEFINE x == h[i - 1]  p == <<i, x>>
    <3>1. x \in Split
      BY <1>2, <2>1
    <3>2. p \in (1..n) \X Split /\ p[1] = i /\ p[2] = x
      BY <3>1
    <3>3. step[p] = Begun(x, s[i])
      BY <3>2
    <3> QED BY <2>1, <3>3
  <2>3. ASSUME NEW i \in 0..n
        PROVE  h[i] = IF i = 0 THEN << <<>> >>
                      ELSE IF s[i] = "/" THEN Append(h[i - 1], <<>>)
                           ELSE [h[i - 1] EXCEPT ![Len(h[i - 1])] = Append(@, s[i])]
    <3>1. CASE i = 0
      BY <2>1, <3>1
    <3>2. CASE i # 0
      <4>1. i \in 1..n
        BY <1>2, <3>2
      <4> QED BY <2>2, <3>2, <4>1 DEF Begun
    <3> QED BY <3>1, <3>2
  <2>4. h = [i \in 0..n |-> h[i]]
    BY <2>1
  <2> QED BY <2>3, <2>4
<1>6. c = G(c)
  <2> HIDE DEF G
  <2> QED BY <1>5
<1> HIDE DEF c, step
<1>7. c[0] = << <<>> >> /\ \A i \in 1..n : c[i] = Begun(c[i - 1], s[i])
  <2>1. c[0] = << <<>> >>
    BY <1>2, <1>6
  <2>2. ASSUME NEW i \in 1..n PROVE c[i] = Begun(c[i - 1], s[i])
    <3>1. i \in 0..n /\ i # 0
      BY <1>2
    <3> QED BY <1>6, <3>1 DEF Begun
  <2> QED BY <2>1, <2>2
<1> HIDE DEF n
<1>8. \A i \in 0..n : c[i] \in Split
  <2> DEFINE set == {i \in Nat : i <= n => c[i] \in Split}
  <2>1. 0 \in set
    BY <1>2, <1>7
  <2>2. ASSUME NEW i \in Nat, i \in set PROVE i + 1 \in set
    <3> SUFFICES ASSUME i + 1 <= n PROVE c[i + 1] \in Split
      OBVIOUS
    <3> DEFINE k == i + 1
    <3>1. k \in 1..n /\ k - 1 = i /\ c[i] \in Split
      BY <1>2, <2>2
    <3> HIDE DEF k
    <3>2. c[k] = Begun(c[i], s[k]) /\ s[k] \in STRING
      BY <1>2, <1>7, <3>1
    <3> QED BY <3>1, <3>2, BegunIs DEF k
  <2> HIDE DEF set
  <2>3. Nat \subseteq set
    BY <2>1, <2>2, SetInduction
  <2> QED BY <1>2, <2>3 DEF set
<1> DEFINE L == c[n]
<1>9. L \in Split
  BY <1>2, <1>8
<1>10. \A i \in 0..n : Within(c[i], L)
  <2> DEFINE set == {d \in Nat : d <= n => Within(c[n - d], L)}
  <2>1. 0 \in set
    <3>1. n - 0 = n /\ Len(L) \in Nat /\ Len(L) >= 1 /\ L[Len(L)] \in Seq(STRING)
      BY <1>2, <1>9 DEF Split
    <3>2. Len(L[Len(L)]) \in Nat
      BY <3>1
    <3>3. Within(L, L)
      BY ONLY <3>1, <3>2 DEF Within
    <3> QED BY <3>1, <3>3
  <2>2. ASSUME NEW d \in Nat, d \in set PROVE d + 1 \in set
    <3> SUFFICES ASSUME d + 1 <= n PROVE Within(c[n - (d + 1)], L)
      OBVIOUS
    <3> DEFINE k == n - d  j == n - (d + 1)
    <3>1. k \in 1..n /\ k - 1 = j /\ Within(c[k], L) /\ j \in 0..n
      BY <1>2, <2>2
    <3> HIDE DEF k, j
    <3>2. c[k] = Begun(c[j], s[k]) /\ s[k] \in STRING /\ c[j] \in Split
      BY <1>2, <1>7, <1>8, <3>1
    <3> DEFINE x == c[j]  y == c[k]  z == s[k]
    <3>3. x \in Split /\ z \in STRING /\ L \in Split /\ y = Begun(x, z) /\ Within(y, L)
      BY <1>9, <3>1, <3>2
    <3> HIDE DEF x, y, z, L
    <3>4. Within(x, L)
      BY <3>3, WithinBefore
    <3> QED BY <3>4 DEF x, j
  <2> HIDE DEF set, L
  <2>3. Nat \subseteq set
    BY <2>1, <2>2, SetInduction
  <2>4. ASSUME NEW i \in 0..n PROVE Within(c[i], L)
    <3>1. n - i \in Nat /\ n - i <= n /\ n - (n - i) = i
      BY <1>2
    <3> QED BY <2>3, <3>1 DEF set
  <2> QED BY <2>4
<1> DEFINE num == [i \in 0..n |-> Len(c[i])]
           off == [i \in 0..n |-> Len(c[i][Len(c[i])])]
<1>11. \A i \in 0..n : /\ num[i] = Len(c[i]) /\ num[i] \in Nat /\ num[i] >= 1
                       /\ off[i] = Len(c[i][num[i]]) /\ off[i] \in Nat
  <2>1. ASSUME NEW i \in 0..n
        PROVE  /\ Len(c[i]) \in Nat /\ Len(c[i]) >= 1 /\ Len(c[i][Len(c[i])]) \in Nat
    BY <1>8 DEF Split
  <2> QED BY <2>1
<1>12. num \in [0..n -> Nat] /\ off \in [0..n -> Nat]
  BY <1>11
<1> HIDE DEF num, off
<1>13. \A i \in 0..n : num[i] \in 1..Len(L) /\ off[i] <= Len(L[num[i]])
  <2>1. Len(L) \in Nat
    BY <1>9 DEF Split
  <2> HIDE DEF L
  <2>2. \A i \in 0..n : num[i] <= Len(L) /\ off[i] <= Len(L[num[i]])
    BY <1>10, <1>11 DEF Within
  <2> QED BY <1>11, <2>1, <2>2
<1>14. num[0] = 1 /\ off[0] = 0
  <2>1. 0 \in 0..n /\ Len(<< <<>> >>) = 1 /\ << <<>> >>[1] = <<>> /\ Len(<<>>) = 0
    BY <1>2
  <2> QED BY <1>7, <1>11, <2>1
<1>15. num[n] = Len(L) /\ off[n] = Len(L[Len(L)])
  BY <1>2, <1>11
<1>16. ASSUME NEW i \in 1..n
       PROVE  /\ s[i] = "/" => /\ num[i] = num[i - 1] + 1 /\ off[i] = 0
                               /\ off[i - 1] = Len(L[num[i - 1]])
              /\ s[i] # "/" => /\ num[i] = num[i - 1] /\ off[i] = off[i - 1] + 1
                               /\ L[num[i]][off[i]] = s[i]
  <2> DEFINE j == i - 1
  <2>1. j \in 0..n /\ i \in 0..n /\ j = i - 1
    BY <1>2
  <2> HIDE DEF j
  <2> DEFINE x == c[j]  y == c[i]  z == s[i]
  <2>2. /\ x \in Split /\ z \in STRING /\ L \in Split /\ y = Begun(x, z) /\ Within(y, L)
    BY <1>2, <1>7, <1>8, <1>9, <1>10, <2>1
  <2>3. num[j] = Len(x) /\ off[j] = Len(x[Len(x)]) /\ num[i] = Len(y) /\ off[i] = Len(y[Len(y)])
        /\ off[j] \in Nat
    BY <1>11, <2>1
  <2> HIDE DEF x, y, L
  <2>4. x[Len(x)] \in Seq(STRING)
    BY <2>2 DEF Split
  <2>5. CASE z = "/"
    <3>1. Len(y) = Len(x) + 1 /\ y[Len(x) + 1] = <<>> /\ Len(L[Len(x)]) = Len(x[Len(x)])
      BY <2>2, <2>5, BegunIs, WithinBefore
    <3> QED BY <2>1, <2>3, <2>5, <3>1
  <2>6. CASE z # "/"
    <3>1. Len(y) = Len(x) /\ L[Len(x)][Len(x[Len(x)]) + 1] = z
      BY <2>2, <2>6, BegunIs, WithinBefore
    <3>2. Longer(y[Len(x)], x[Len(x)], z)
      BY <2>2, <2>6, BegunIs
    <3>3. Len(y[Len(y)]) = Len(x[Len(x)]) + 1
      BY <3>1, <3>2 DEF Longer
    <3> QED BY <2>1, <2>3, <2>6, <3>1, <3>3
  <2> QED BY <2>5, <2>6
<1>17. LevelPlaces(s, num, off, L)
  <2>1. L \in Seq(Seq(STRING))
    BY <1>9 DEF Split
  <2> HIDE DEF L
  <2> QED BY <1>12, <1>13, <1>14, <1>15, <1>16, <2>1 DEF LevelPlaces, n
<1> QED BY <1>1, <1>17
(* Where i stands in s, and what comes next.                               *)
Stands(s, num, off, L, i) ==
  /\ i \in 0..Len(s) /\ Len(s) \in Nat
  /\ num[i] \in 1..Len(L) /\ off[i] \in Nat /\ Len(L) \in Nat
  /\ Len(L[num[i]]) \in Nat /\ off[i] <= Len(L[num[i]])
  /\ off[i] = 0 => i = 0 \/ s[i] = "/"
  /\ i = Len(s) => num[i] = Len(L) /\ off[i] = Len(L[num[i]])
  /\ i < Len(s) /\ s[i + 1] = "/" =>
       /\ num[i + 1] = num[i] + 1 /\ off[i + 1] = 0
       /\ off[i] = Len(L[num[i]]) /\ num[i] < Len(L)
  /\ i < Len(s) /\ s[i + 1] # "/" =>
       /\ num[i + 1] = num[i] /\ off[i + 1] = off[i] + 1
       /\ off[i] < Len(L[num[i]]) /\ L[num[i]][off[i] + 1] = s[i + 1]

LEMMA PlaceStands ==
  ASSUME NEW s, NEW num, NEW off, NEW L, LevelPlaces(s, num, off, L), NEW i \in 0..Len(s)
  PROVE  Stands(s, num, off, L, i)
<1> DEFINE n == Len(s)
<1>1. /\ n \in Nat /\ L \in Seq(Seq(STRING)) /\ Len(L) \in Nat
      /\ num \in [0..n -> Nat] /\ off \in [0..n -> Nat]
      /\ num[0] = 1 /\ off[0] = 0
      /\ \A k \in 0..n : num[k] \in 1..Len(L) /\ off[k] <= Len(L[num[k]])
      /\ num[n] = Len(L) /\ off[n] = Len(L[Len(L)])
  <2>1. s \in Seq(STRING) /\ L \in Seq(Seq(STRING))
    BY DEF LevelPlaces
  <2>2. n \in Nat /\ Len(L) \in Nat
    BY <2>1
  <2>3. /\ num \in [0..n -> Nat] /\ off \in [0..n -> Nat]
        /\ num[0] = 1 /\ off[0] = 0
    BY ZenonT(40) DEF LevelPlaces
  <2>4. \A k \in 0..n : num[k] \in 1..Len(L) /\ off[k] <= Len(L[num[k]])
    BY ZenonT(40) DEF LevelPlaces
  <2>5. num[n] = Len(L) /\ off[n] = Len(L[Len(L)])
    BY ZenonT(40) DEF LevelPlaces
  <2> HIDE DEF n
  <2> QED BY ONLY <2>1, <2>2, <2>3, <2>4, <2>5
<1>2. ASSUME NEW k \in 1..n
      PROVE  /\ s[k] = "/" => /\ num[k] = num[k - 1] + 1 /\ off[k] = 0
                              /\ off[k - 1] = Len(L[num[k - 1]])
             /\ s[k] # "/" => /\ num[k] = num[k - 1] /\ off[k] = off[k - 1] + 1
                              /\ L[num[k]][off[k]] = s[k]
  BY DEF LevelPlaces
<1> HIDE DEF n
<1>3. i \in 0..n /\ i \in Nat
  BY <1>1 DEF n
<1>4. /\ num[i] \in 1..Len(L) /\ off[i] \in Nat /\ off[i] <= Len(L[num[i]])
  BY <1>1, <1>3
<1>5. Len(L[num[i]]) \in Nat
  BY <1>1, <1>4
<1>6. off[i] = 0 => i = 0 \/ s[i] = "/"
  <2> SUFFICES ASSUME i # 0, s[i] # "/" PROVE off[i] # 0
    OBVIOUS
  <2>1. i \in 1..n /\ i - 1 \in 0..n
    BY <1>1, <1>3
  <2>2. off[i] = off[i - 1] + 1
    BY <1>2, <2>1
  <2>3. off[i - 1] \in Nat
    BY <1>1, <2>1
  <2> QED BY <2>2, <2>3
<1>7. i = n => num[i] = Len(L) /\ off[i] = Len(L[num[i]])
  BY <1>1
<1>8. ASSUME i < n, s[i + 1] = "/"
      PROVE  /\ num[i + 1] = num[i] + 1 /\ off[i + 1] = 0
             /\ off[i] = Len(L[num[i]]) /\ num[i] < Len(L)
  <2> DEFINE k == i + 1
  <2>1. k \in 1..n /\ k - 1 = i /\ k \in 0..n /\ s[k] = "/"
    BY <1>1, <1>3, <1>8
  <2> HIDE DEF k
  <2>2. num[k] = num[i] + 1 /\ off[k] = 0 /\ off[i] = Len(L[num[i]]) /\ num[k] \in 1..Len(L)
    BY <1>1, <1>2, <2>1
  <2> QED BY <1>1, <1>4, <2>2 DEF k
<1>9. ASSUME i < n, s[i + 1] # "/"
      PROVE  /\ num[i + 1] = num[i] /\ off[i + 1] = off[i] + 1
             /\ off[i] < Len(L[num[i]]) /\ L[num[i]][off[i] + 1] = s[i + 1]
  <2> DEFINE k == i + 1
  <2>1. k \in 1..n /\ k - 1 = i /\ k \in 0..n /\ s[k] # "/"
    BY <1>1, <1>3, <1>9
  <2> HIDE DEF k
  <2>2. num[k] = num[i] /\ off[k] = off[i] + 1 /\ L[num[k]][off[k]] = s[k]
        /\ off[k] <= Len(L[num[k]])
    BY <1>1, <1>2, <2>1
  <2> QED BY <1>4, <1>5, <2>2 DEF k
<1> QED BY <1>1, <1>3, <1>4, <1>5, <1>6, <1>7, <1>8, <1>9 DEF Stands, n

-----------------------------------------------------------------------------
(* The end of the level that holds a place.                                *)
LEMMA LevelEndIs ==
  ASSUME NEW name \in Seq(STRING), NEW n \in 1..Len(name)
  PROVE  /\ LevelEnd(name, n) \in n..Len(name)
         /\ \A i \in (n + 1)..LevelEnd(name, n) : name[i] # "/"
         /\ LevelEnd(name, n) < Len(name) => name[LevelEnd(name, n) + 1] = "/"
<1> DEFINE ends == {e \in n..Len(name) : e < Len(name) => name[e + 1] = "/"}
<1>1. Len(name) \in ends /\ ends \subseteq Nat /\ Len(name) \in Nat /\ n \in Nat
  OBVIOUS
<1>2. PICK e \in ends : \A k \in ends : ~(<<k, e>> \in {p \in Nat \X Nat : p[1] < p[2]})
  <2> HIDE DEF ends
  <2> QED BY <1>1, LessIsWellFounded, WFMin
<1>3. \A k \in ends : <<k, e>> \in Nat \X Nat /\ <<k, e>>[1] = k /\ <<k, e>>[2] = e
  BY <1>1
<1>4. \A k \in ends : ~(k < e)
  BY <1>2, <1>3
<1>5. \A i \in (n + 1)..e : name[i] # "/"
  <2> SUFFICES ASSUME NEW i \in (n + 1)..e, name[i] = "/" PROVE FALSE
    OBVIOUS
  <2> DEFINE k == i - 1
  <2>1. k \in n..Len(name) /\ k < e /\ k + 1 = i
    BY <1>1
  <2>2. k \in ends
    BY <2>1
  <2> HIDE DEF k, ends
  <2> QED BY <1>4, <2>1, <2>2
<1>6. e \in n..Len(name) /\ (e < Len(name) => name[e + 1] = "/")
  OBVIOUS
<1> HIDE DEF ends
<1>7. \E x \in n..Len(name) : /\ \A i \in (n + 1)..x : name[i] # "/"
                              /\ x < Len(name) => name[x + 1] = "/"
  BY <1>5, <1>6
<1> DEFINE found == CHOOSE x \in n..Len(name) : /\ \A i \in (n + 1)..x : name[i] # "/"
                                                /\ x < Len(name) => name[x + 1] = "/"
<1>8. /\ found \in n..Len(name) /\ \A i \in (n + 1)..found : name[i] # "/"
      /\ found < Len(name) => name[found + 1] = "/"
  BY <1>7
<1> QED BY <1>8 DEF LevelEnd

LEMMA SameLevel ==
  ASSUME NEW s, NEW num, NEW off, NEW L, LevelPlaces(s, num, off, L),
         NEW n \in 0..Len(s), NEW e \in n..Len(s), \A i \in (n + 1)..e : s[i] # "/"
  PROVE  num[e] = num[n]
<1> DEFINE set == {d \in Nat : n + d <= e => num[n + d] = num[n]}
<1>1. Len(s) \in Nat /\ n \in Nat /\ e \in Nat
  BY DEF LevelPlaces
<1>2. 0 \in set
  BY <1>1
<1>3. ASSUME NEW d \in Nat, d \in set PROVE d + 1 \in set
  <2> SUFFICES ASSUME n + (d + 1) <= e PROVE num[n + (d + 1)] = num[n]
    OBVIOUS
  <2> DEFINE i == n + d
  <2>1. i \in 0..Len(s) /\ i < Len(s) /\ i + 1 \in (n + 1)..e /\ n + (d + 1) = i + 1
        /\ num[i] = num[n]
    BY <1>1, <1>3
  <2>2. s[i + 1] # "/"
    BY <2>1
  <2> HIDE DEF i
  <2>3. Stands(s, num, off, L, i)
    BY <2>1, PlaceStands
  <2> QED BY <2>1, <2>2, <2>3 DEF Stands
<1> HIDE DEF set
<1>4. Nat \subseteq set
  BY <1>2, <1>3, SetInduction
<1>5. e - n \in Nat /\ n + (e - n) = e
  BY <1>1
<1> QED BY <1>4, <1>5 DEF set
-----------------------------------------------------------------------------
(* A filter and a topic, and the levels of both.                           *)
Plus == <<"+">>
Hash == <<"#">>

Sorted(filter, name, nf, of, F, nt, ot, T) ==
  /\ IsFilter(filter) /\ IsTopic(name)
  /\ LevelPlaces(filter, nf, of, F) /\ LevelPlaces(name, nt, ot, T)

(* f characters of the filter were taken for n of the name: at the same    *)
(* place of a level of the same text so far, after a "+" and at the end of *)
(* a level, or after "#" and at the end.                                   *)
AtSame(filter, nf, of, F, nt, ot, T, f, n) ==
  /\ nf[f] = nt[n] /\ of[f] = ot[n]
  /\ \A j \in 1..of[f] : F[nf[f]][j] = T[nf[f]][j]
  /\ f > 0 => filter[f] \notin Wildcards

AtPlus(filter, name, nf, F, nt, f, n) ==
  /\ nf[f] = nt[n] /\ f > 0 /\ filter[f] = "+" /\ F[nf[f]] = Plus
  /\ n < Len(name) => name[n + 1] = "/"

AtHash(filter, name, nf, F, T, f, n) ==
  /\ f > 0 /\ filter[f] = "#" /\ f = Len(filter) /\ n = Len(name)
  /\ nf[f] = Len(F) /\ F[nf[f]] = Hash /\ Len(T) >= Len(F)

Halfway(filter, name, nf, of, F, nt, ot, T, f, n) ==
  /\ f \in 0..Len(filter) /\ n \in 0..Len(name)
  /\ \A k \in 1..(nf[f] - 1) : F[k] = Plus \/ F[k] = T[k]
  /\ \/ AtSame(filter, nf, of, F, nt, ot, T, f, n)
     \/ AtPlus(filter, name, nf, F, nt, f, n)
     \/ AtHash(filter, name, nf, F, T, f, n)

(* A level whose text was the same until both ended is the same.           *)
LEMMA LevelsEqual ==
  ASSUME NEW filter, NEW name, NEW nf, NEW of, NEW F, NEW nt, NEW ot, NEW T,
         Sorted(filter, name, nf, of, F, nt, ot, T), NEW f \in 0..Len(filter), NEW n \in 0..Len(name),
         AtSame(filter, nf, of, F, nt, ot, T, f, n),
         of[f] = Len(F[nf[f]]), ot[n] = Len(T[nt[n]])
  PROVE  F[nf[f]] = T[nf[f]]
<1>1. Stands(filter, nf, of, F, f) /\ Stands(name, nt, ot, T, n)
  BY PlaceStands DEF Sorted
<1>2. nf[f] = nt[n] /\ of[f] = ot[n] /\ \A j \in 1..of[f] : F[nf[f]][j] = T[nf[f]][j]
  BY DEF AtSame
<1>3. F \in Seq(Seq(STRING)) /\ T \in Seq(Seq(STRING))
  BY DEF Sorted, LevelPlaces
<1> DEFINE x == F[nf[f]]  y == T[nf[f]]  S == STRING
<1>4. x \in Seq(S) /\ y \in Seq(S) /\ Len(x) = Len(y) /\ \A j \in 1..Len(x) : x[j] = y[j]
  BY <1>1, <1>2, <1>3, SMTT(40) DEF Stands
<1> HIDE DEF x, y, S
<1>5. x = y
  BY ONLY <1>4, SeqEqual
<1> QED BY <1>5 DEF x, y

(* A wildcard begins its level of the filter, and is all of it.            *)
LEMMA WildcardLevel ==
  ASSUME NEW filter, NEW nf, NEW of, NEW F, IsFilter(filter), LevelPlaces(filter, nf, of, F),
         NEW f \in 0..Len(filter), f < Len(filter), filter[f + 1] \in Wildcards
  PROVE  /\ of[f] = 0 /\ nf[f + 1] = nf[f] /\ F[nf[f]] = <<filter[f + 1]>>
         /\ f > 0 => filter[f] = "/"
         /\ filter[f + 1] = "#" => f + 1 = Len(filter)
<1> DEFINE g == f + 1  c == filter[g]
<1> HIDE DEF c
<1>1. f \in Nat /\ Len(filter) \in Nat /\ g \in 0..Len(filter) /\ g \in 1..Len(filter)
      /\ g - 1 = f /\ filter[g] = c /\ c \in Wildcards
  BY DEF IsFilter, c
<1>2. Stands(filter, nf, of, F, f)
  BY PlaceStands
<1>3. Stands(filter, nf, of, F, g)
  <2> HIDE DEF g
  <2> QED BY <1>1, PlaceStands
<1>4. c # "/"
  BY <1>1 DEF Wildcards
<1>5. /\ g > 1 => filter[g - 1] = "/"
      /\ g < Len(filter) => c = "+" /\ filter[g + 1] = "/"
  <2> HIDE DEF g
  <2> QED BY <1>1 DEF IsFilter
<1>6. f > 0 => filter[f] = "/"
  BY <1>1, <1>5
<1>7. of[f] = 0
  <2>1. CASE f = 0
    BY <2>1 DEF LevelPlaces
  <2>2. CASE f > 0
    <3>1. f \in 1..Len(filter) /\ filter[f] = "/"
      BY <1>1, <1>6, <2>2
    <3> QED BY <3>1 DEF LevelPlaces
  <2> QED BY <1>1, <2>1, <2>2
<1>8. nf[g] = nf[f] /\ of[g] = 1 /\ F[nf[f]][1] = c
  BY <1>1, <1>2, <1>4, <1>7 DEF Stands
<1>9. Len(F[nf[f]]) = 1
  <2>1. of[g] = Len(F[nf[g]])
    <3>1. CASE g = Len(filter)
      BY <1>3, <3>1 DEF Stands
    <3>2. CASE g < Len(filter)
      BY <1>3, <1>5, <3>2 DEF Stands
    <3> QED BY <1>1, <3>1, <3>2
  <2> QED BY <1>8, <2>1
<1>10. F[nf[f]] = <<c>>
  <2>1. F[nf[f]] \in Seq(STRING)
    BY <1>2 DEF Stands, LevelPlaces
  <2> DEFINE x == F[nf[f]]
  <2>2. x \in Seq(STRING) /\ Len(x) = 1 /\ x[1] = c
    BY <1>8, <1>9, <2>1
  <2> HIDE DEF x
  <2>3. x = <<c>>
    BY <2>2
  <2> QED BY <2>3 DEF x
<1>11. c = "#" => g = Len(filter)
  BY <1>1, <1>5
<1> QED BY <1>6, <1>7, <1>8, <1>10, <1>11 DEF c

(* One step of the loop that does not end it.                              *)
LEMMA TopicStep ==
  ASSUME NEW filter, NEW name, NEW nf, NEW of, NEW F, NEW nt, NEW ot, NEW T,
         Sorted(filter, name, nf, of, F, nt, ot, T), NEW f, NEW n,
         Halfway(filter, name, nf, of, F, nt, ot, T, f, n), f < Len(filter),
         NEW c, c = filter[f + 1], NEW m, m = Matched(name, n + 1, c), m # 0
  PROVE  m - 1 \in 0..Len(name) /\ Halfway(filter, name, nf, of, F, nt, ot, T, f + 1, m - 1)
<1> DEFINE g == f + 1  p == n + 1
<1>1. /\ IsFilter(filter) /\ IsTopic(name)
      /\ LevelPlaces(filter, nf, of, F) /\ LevelPlaces(name, nt, ot, T)
      /\ filter \in Seq(STRING) /\ name \in Seq(STRING) /\ Len(name) \in Nat /\ Len(filter) \in Nat
  BY DEF Sorted, IsFilter, IsTopic
<1>2. f \in 0..Len(filter) /\ n \in 0..Len(name)
  BY DEF Halfway
<1>3. /\ f \in Nat /\ n \in Nat /\ g \in 0..Len(filter) /\ g \in 1..Len(filter) /\ g > 0
      /\ g - 1 = f /\ p - 1 = n /\ p \in Nat
  BY <1>1, <1>2
<1>4. Stands(filter, nf, of, F, f) /\ Stands(name, nt, ot, T, n)
  BY <1>1, <1>2, PlaceStands
<1>5. p \in 1..Len(name) /\ n < Len(name)
  <2>1. p \in 1..Len(name)
    BY DEF Matched
  <2> QED BY <1>1, <1>3, <2>1
<1>6. ~(name[p] = "/" /\ c # "/") /\ c \in Wildcards \cup {name[p]}
  BY <1>5 DEF Matched
<1>7. ~AtHash(filter, name, nf, F, T, f, n)
  BY DEF AtHash
<1>8. \/ AtSame(filter, nf, of, F, nt, ot, T, f, n)
      \/ AtPlus(filter, name, nf, F, nt, f, n)
  BY <1>7 DEF Halfway
<1>9. \A k \in 1..(nf[f] - 1) : F[k] = Plus \/ F[k] = T[k]
  BY DEF Halfway
<1>10. nf[f] \in Nat /\ nf[f] >= 1 /\ nf[f] = nt[n]
  BY <1>4, <1>8 DEF Stands, AtSame, AtPlus
<1>11. CASE c = "/"
  <2>1. m = p + 1 /\ name[p] = "/"
    BY <1>5, <1>6, <1>11 DEF Matched, Wildcards
  <2>2. /\ nf[g] = nf[f] + 1 /\ of[g] = 0 /\ of[f] = Len(F[nf[f]])
        /\ nt[p] = nt[n] + 1 /\ ot[p] = 0 /\ ot[n] = Len(T[nt[n]])
    BY <1>4, <1>5, <1>11, <2>1 DEF Stands
  <2>3. F[nf[f]] = Plus \/ F[nf[f]] = T[nf[f]]
    <3>1. CASE AtSame(filter, nf, of, F, nt, ot, T, f, n)
      BY <1>2, <2>2, <3>1, LevelsEqual
    <3>2. CASE AtPlus(filter, name, nf, F, nt, f, n)
      BY <3>2 DEF AtPlus
    <3> QED BY <1>8, <3>1, <3>2
  <2>4. \A k \in 1..(nf[g] - 1) : F[k] = Plus \/ F[k] = T[k]
    <3>1. \A k \in 1..nf[f] : k = nf[f] \/ k \in 1..(nf[f] - 1)
      BY <1>10
    <3>2. nf[g] - 1 = nf[f]
      BY <1>10, <2>2
    <3> QED BY <1>9, <2>3, <3>1, <3>2
  <2>5. AtSame(filter, nf, of, F, nt, ot, T, g, p)
    BY <1>10, <1>11, <2>2 DEF AtSame, Wildcards
  <2>6. m - 1 = p /\ p \in 0..Len(name)
    BY <1>3, <1>5, <2>1
  <2> HIDE DEF g, p
  <2>7. Halfway(filter, name, nf, of, F, nt, ot, T, g, p)
    BY <1>3, <2>4, <2>5, <2>6 DEF Halfway
  <2> QED BY <2>6, <2>7 DEF g
<1>12. CASE c \in Wildcards
  <2>1. /\ of[f] = 0 /\ nf[g] = nf[f] /\ F[nf[f]] = <<c>>
        /\ c = "#" => g = Len(filter)
    <3>1. filter[f + 1] \in Wildcards /\ f < Len(filter)
      BY <1>12
    <3>2. /\ of[f] = 0 /\ nf[f + 1] = nf[f] /\ F[nf[f]] = <<filter[f + 1]>>
          /\ filter[f + 1] = "#" => f + 1 = Len(filter)
      BY ONLY <1>1, <1>2, <3>1, WildcardLevel
    <3> QED BY <3>2
  <2>2. \A k \in 1..(nf[g] - 1) : F[k] = Plus \/ F[k] = T[k]
    BY <1>9, <2>1
  <2>3. name[p] # "/"
    BY <1>6, <1>12 DEF Wildcards
  <2>4. CASE c = "+"
    <3> DEFINE e == LevelEnd(name, p)
    <3>1. m = e + 1
      BY <1>5, <1>6, <2>4 DEF Matched, Wildcards
    <3>2. /\ e \in p..Len(name) /\ \A i \in (p + 1)..e : name[i] # "/"
          /\ e < Len(name) => name[e + 1] = "/"
      <4> HIDE DEF p
      <4> QED BY <1>1, <1>5, LevelEndIs
    <3> HIDE DEF e
    <3>3. nt[e] = nt[n]
      <4>1. e \in n..Len(name) /\ \A i \in (n + 1)..e : i = p \/ i \in (p + 1)..e
        BY <1>1, <1>3, <3>2
      <4>2. \A i \in (n + 1)..e : name[i] # "/"
        BY <2>3, <3>2, <4>1
      <4> QED BY <1>1, <1>2, <4>1, <4>2, SameLevel
    <3>4. e \in 0..Len(name) /\ m - 1 = e
      BY <1>1, <1>3, <3>1, <3>2
    <3>5. AtPlus(filter, name, nf, F, nt, g, e)
      BY <1>3, <1>10, <2>1, <2>4, <3>2, <3>3 DEF AtPlus, Plus
    <3> HIDE DEF g
    <3>6. Halfway(filter, name, nf, of, F, nt, ot, T, g, e)
      BY <1>3, <2>2, <3>4, <3>5 DEF Halfway
    <3> QED BY <3>4, <3>6 DEF g
  <2>5. CASE c = "#"
    <3>1. m = Len(name) + 1
      BY <1>5, <1>6, <2>5 DEF Matched, Wildcards
    <3> DEFINE e == Len(name)
    <3>2. e \in 0..Len(name) /\ m - 1 = e
      BY <1>1, <3>1
    <3>3. nf[g] = Len(F)
      <4>1. g \in 0..Len(filter) /\ g = Len(filter)
        BY <1>3, <2>1, <2>5
      <4> HIDE DEF g
      <4>2. Stands(filter, nf, of, F, g)
        BY <1>1, <4>1, PlaceStands
      <4> QED BY <4>1, <4>2 DEF Stands
    <3>4. Len(T) >= nt[n]
      BY <1>4 DEF Stands
    <3>5. AtHash(filter, name, nf, F, T, g, e)
      BY <1>3, <1>10, <2>1, <2>5, <3>3, <3>4 DEF AtHash, Hash
    <3> HIDE DEF g, e
    <3>6. Halfway(filter, name, nf, of, F, nt, ot, T, g, e)
      BY <1>3, <2>2, <3>2, <3>5 DEF Halfway
    <3> QED BY <3>2, <3>6 DEF g
  <2> QED BY <1>12, <2>4, <2>5 DEF Wildcards
<1>13. CASE c # "/" /\ c \notin Wildcards
  <2>1. c = name[p] /\ m = p + 1
    BY <1>5, <1>6, <1>13 DEF Matched, Wildcards
  <2>2. AtSame(filter, nf, of, F, nt, ot, T, f, n)
    <3>1. ASSUME AtPlus(filter, name, nf, F, nt, f, n) PROVE FALSE
      <4>1. f \in 1..Len(filter) /\ filter[f] = "+" /\ f < Len(filter)
        BY <1>2, <1>3, <3>1 DEF AtPlus
      <4>2. filter[f + 1] = "/"
        BY <1>1, <4>1 DEF IsFilter, Wildcards
      <4> QED BY <1>13, <4>2
    <3> QED BY <1>8, <3>1
  <2>3. /\ nf[g] = nf[f] /\ of[g] = of[f] + 1 /\ F[nf[f]][of[f] + 1] = c
        /\ nt[p] = nt[n] /\ ot[p] = ot[n] + 1 /\ T[nt[n]][ot[n] + 1] = c /\ of[f] \in Nat
    BY <1>4, <1>5, <1>13, <2>1 DEF Stands
  <2>4. AtSame(filter, nf, of, F, nt, ot, T, g, p)
    <3>1. /\ of[f] = ot[n] /\ \A j \in 1..of[f] : F[nf[f]][j] = T[nf[f]][j]
      BY <2>2 DEF AtSame
    <3>2. \A j \in 1..of[g] : j \in 1..of[f] \/ j = of[f] + 1
      BY <2>3
    <3>3. \A j \in 1..of[g] : F[nf[g]][j] = T[nf[g]][j]
      BY <1>10, <2>3, <3>1, <3>2
    <3> QED BY <1>10, <1>13, <2>3, <3>1, <3>3 DEF AtSame
  <2>5. m - 1 = p /\ p \in 0..Len(name)
    BY <1>3, <1>5, <2>1
  <2>6. \A k \in 1..(nf[g] - 1) : F[k] = Plus \/ F[k] = T[k]
    BY <1>9, <2>3
  <2> HIDE DEF g, p
  <2>7. Halfway(filter, name, nf, of, F, nt, ot, T, g, p)
    BY <1>3, <2>4, <2>5, <2>6 DEF Halfway
  <2> QED BY <2>5, <2>7 DEF g
<1> QED BY <1>11, <1>12, <1>13
(* The topic has no wildcard, so its levels are none.                      *)
LEMMA NoWildLevel ==
  ASSUME NEW filter, NEW name, NEW nf, NEW of, NEW F, NEW nt, NEW ot, NEW T,
         Sorted(filter, name, nf, of, F, nt, ot, T), NEW f \in 0..Len(filter), NEW n \in 0..Len(name),
         AtSame(filter, nf, of, F, nt, ot, T, f, n), of[f] = Len(F[nf[f]])
  PROVE  F[nf[f]] # Plus /\ F[nf[f]] # Hash
<1> SUFFICES ASSUME NEW c \in Wildcards, F[nf[f]] = <<c>> PROVE FALSE
  BY DEF Plus, Hash, Wildcards
<1>1. Len(F[nf[f]]) = 1 /\ F[nf[f]][1] = c
  OBVIOUS
<1>2. /\ f > 0 => filter[f] \notin Wildcards
      /\ of[f] = 1
  BY <1>1 DEF AtSame
<1>3. f # 0
  <2>1. of[0] = 0
    BY DEF Sorted, LevelPlaces
  <2> QED BY <1>2, <2>1
<1>4. f \in 1..Len(filter) /\ f > 0
  BY <1>3
<1>5. filter[f] # "/"
  BY <1>2, <1>4, SMTT(60) DEF Sorted, LevelPlaces
<1>6. F[nf[f]][of[f]] = filter[f]
  BY <1>4, <1>5, SMTT(60) DEF Sorted, LevelPlaces
<1> QED BY <1>1, <1>2, <1>4, <1>6

(* Where the levels match, the loop goes on to the end of the filter.      *)
LEMMA TopicGoesOn ==
  ASSUME NEW filter, NEW name, NEW nf, NEW of, NEW F, NEW nt, NEW ot, NEW T,
         Sorted(filter, name, nf, of, F, nt, ot, T), NEW f, NEW n,
         Halfway(filter, name, nf, of, F, nt, ot, T, f, n), f < Len(filter),
         NEW c, c = filter[f + 1], NEW m, m = Matched(name, n + 1, c), LevelsMatch(F, T)
  PROVE  m # 0
<1> DEFINE p == n + 1  k == nf[f]
<1>1. /\ IsFilter(filter) /\ IsTopic(name)
      /\ LevelPlaces(filter, nf, of, F) /\ LevelPlaces(name, nt, ot, T)
      /\ filter \in Seq(STRING) /\ name \in Seq(STRING) /\ Len(name) \in Nat /\ Len(filter) \in Nat
      /\ name # <<>>
  BY DEF Sorted, IsFilter, IsTopic
<1>2. f \in 0..Len(filter) /\ n \in 0..Len(name)
  BY DEF Halfway
<1>3. f \in Nat /\ n \in Nat /\ p - 1 = n /\ p \in Nat /\ (n < Len(name) => p \in 1..Len(name))
  BY <1>1, <1>2
<1>4. Stands(filter, nf, of, F, f) /\ Stands(name, nt, ot, T, n)
  BY <1>1, <1>2, PlaceStands
<1>5. \/ AtSame(filter, nf, of, F, nt, ot, T, f, n)
      \/ AtPlus(filter, name, nf, F, nt, f, n)
  <2>1. ~AtHash(filter, name, nf, F, T, f, n)
    BY DEF AtHash
  <2> QED BY <2>1 DEF Halfway
<1>6. k \in 1..Len(F) /\ k = nt[n] /\ Len(F) \in Nat /\ Len(T) \in Nat /\ k \in 1..Len(T)
      /\ F \in Seq(Seq(STRING)) /\ T \in Seq(Seq(STRING))
  BY <1>1, <1>4, <1>5 DEF Stands, AtSame, AtPlus, LevelPlaces
<1>7. F[k] # Hash => F[k] = Plus \/ F[k] = T[k]
  BY <1>6 DEF LevelsMatch, Plus, Hash
<1>8. Len(T) >= Len(F)
  BY <1>6 DEF LevelsMatch
<1>9. SUFFICES n < Len(name) /\ ~(name[p] = "/" /\ c # "/") /\ c \in Wildcards \cup {name[p]}
  <2>1. ASSUME p \in 1..Len(name) PROVE LevelEnd(name, p) \in p..Len(name)
    <3> HIDE DEF p
    <3> QED BY <1>1, <2>1, LevelEndIs
  <2> QED BY <1>1, <1>3, <2>1 DEF Matched, Wildcards
<1> HIDE DEF p
<1>10. CASE c = "/"
  <2>1. of[f] = Len(F[k]) /\ k < Len(F)
    BY <1>4, <1>10 DEF Stands
  <2>2. ot[n] = Len(T[nt[n]]) \/ (n < Len(name) /\ name[n + 1] = "/")
    <3>1. CASE AtSame(filter, nf, of, F, nt, ot, T, f, n)
      <4>1. F[k] # Plus /\ F[k] # Hash
        BY <1>2, <2>1, <3>1, NoWildLevel
      <4>2. F[k] = T[k] /\ of[f] = ot[n]
        BY <1>7, <3>1, <4>1 DEF AtSame
      <4> QED BY <1>6, <2>1, <4>2
    <3>2. CASE AtPlus(filter, name, nf, F, nt, f, n)
      <4>1. n = Len(name) \/ n < Len(name)
        BY <1>1, <1>2
      <4> QED BY <1>4, <3>2, <4>1 DEF AtPlus, Stands
    <3> QED BY <1>5, <3>1, <3>2
  <2>3. n # Len(name)
    BY <1>4, <1>6, <1>8, <2>1 DEF Stands
  <2>4. n < Len(name)
    BY <1>1, <1>2, <2>3
  <2>5. name[n + 1] = "/"
    BY <1>4, <2>2, <2>4 DEF Stands
  <2> QED BY <1>10, <2>4, <2>5 DEF p
<1>11. CASE c \in Wildcards
  <2>1. of[f] = 0 /\ (f > 0 => filter[f] = "/")
    <3>1. filter[f + 1] \in Wildcards /\ f < Len(filter)
      BY <1>11
    <3> QED BY ONLY <1>1, <1>2, <3>1, WildcardLevel
  <2>2. AtSame(filter, nf, of, F, nt, ot, T, f, n)
    <3>1. ~AtPlus(filter, name, nf, F, nt, f, n)
      BY <2>1 DEF AtPlus
    <3> QED BY <1>5, <3>1
  <2>3. n = 0 \/ name[n] = "/"
    BY <1>4, <2>1, <2>2 DEF AtSame, Stands
  <2>4. n < Len(name) /\ name[p] # "/"
    <3>1. CASE n = 0
      <4>1. Len(name) # 0
        BY <1>1
      <4>2. 1 \in 1..Len(name) /\ 1 \notin 2..(Len(name) - 1)
        BY <1>1, <4>1
      <4>3. name[1] # "/"
        BY <1>1, <4>2 DEF IsTopic
      <4> QED BY <1>1, <3>1, <4>1, <4>3 DEF p
    <3>2. CASE n # 0
      <4>1. n \in 1..Len(name) /\ name[n] = "/"
        BY <1>2, <2>3, <3>2
      <4>2. n \in 2..(Len(name) - 1)
        BY <1>1, <4>1 DEF IsTopic
      <4>3. p \in 1..Len(name) /\ n < Len(name)
        BY <1>1, <1>3, <4>2
      <4>4. name[p] = "/" => name[p - 1] # "/"
        BY <1>1, <4>3 DEF IsTopic
      <4> QED BY <1>3, <4>1, <4>3, <4>4
    <3> QED BY <3>1, <3>2
  <2> QED BY <1>11, <2>4
<1>12. CASE c # "/" /\ c \notin Wildcards
  <2>1. AtSame(filter, nf, of, F, nt, ot, T, f, n)
    <3>1. ASSUME AtPlus(filter, name, nf, F, nt, f, n) PROVE FALSE
      <4>1. f \in 1..Len(filter) /\ filter[f] = "+" /\ f < Len(filter)
        BY <1>2, <1>3, <3>1 DEF AtPlus
      <4>2. filter[f + 1] = "/"
        BY <1>1, <4>1 DEF IsFilter, Wildcards
      <4> QED BY <1>12, <4>2
    <3> QED BY <1>5, <3>1
  <2>2. of[f] < Len(F[k]) /\ F[k][of[f] + 1] = c /\ of[f] \in Nat /\ of[f] = ot[n]
    BY <1>4, <1>12, <2>1 DEF Stands, AtSame
  <2>3. F[k] # Plus /\ F[k] # Hash
    <3> SUFFICES ASSUME NEW w \in Wildcards, F[k] = <<w>> PROVE FALSE
      BY DEF Plus, Hash, Wildcards
    <3>1. Len(F[k]) = 1 /\ F[k][1] = w
      OBVIOUS
    <3>2. of[f] = 0
      BY <2>2, <3>1
    <3> QED BY <1>12, <2>2, <3>1, <3>2
  <2>4. F[k] = T[nt[n]]
    BY <1>6, <1>7, <2>3
  <2>5. ot[n] < Len(T[nt[n]]) /\ T[nt[n]][ot[n] + 1] = c
    BY <2>2, <2>4
  <2>6. n < Len(name) /\ name[n + 1] # "/"
    <3>1. ot[n] \in Nat /\ Len(T[nt[n]]) \in Nat /\ ot[n] # Len(T[nt[n]])
      BY <1>4, <2>5 DEF Stands
    <3>2. n # Len(name)
      BY <1>4, <3>1 DEF Stands
    <3>3. n < Len(name)
      BY <1>1, <1>2, <3>2
    <3> QED BY <1>4, <3>1, <3>3 DEF Stands
  <2>7. name[n + 1] = c
    BY <1>4, <2>5, <2>6 DEF Stands
  <2> QED BY <1>12, <2>6, <2>7 DEF p
<1> QED BY <1>10, <1>11, <1>12

(* At the end of the filter: the name is at its end if, and only if, the   *)
(* levels match.                                                           *)
LEMMA TopicEnds ==
  ASSUME NEW filter, NEW name, NEW nf, NEW of, NEW F, NEW nt, NEW ot, NEW T,
         Sorted(filter, name, nf, of, F, nt, ot, T), NEW f, f = Len(filter), NEW n,
         Halfway(filter, name, nf, of, F, nt, ot, T, f, n)
  PROVE  n = Len(name) <=> LevelsMatch(F, T)
<1> DEFINE k == nf[f]
<1>1. /\ IsFilter(filter) /\ IsTopic(name)
      /\ LevelPlaces(filter, nf, of, F) /\ LevelPlaces(name, nt, ot, T)
      /\ F \in Seq(Seq(STRING)) /\ T \in Seq(Seq(STRING)) /\ Len(name) \in Nat
  BY DEF Sorted, IsFilter, IsTopic, LevelPlaces
<1>2. f \in 0..Len(filter) /\ n \in 0..Len(name)
  BY DEF Halfway
<1>3. Stands(filter, nf, of, F, f) /\ Stands(name, nt, ot, T, n)
  BY <1>1, <1>2, PlaceStands
<1>4. k = Len(F) /\ of[f] = Len(F[k]) /\ k \in 1..Len(F) /\ Len(F) \in Nat /\ Len(T) \in Nat
  BY <1>3 DEF Stands
<1>5. \A i \in 1..(k - 1) : F[i] = Plus \/ F[i] = T[i]
  BY DEF Halfway
<1>6. Last(F) = F[k] /\ DOMAIN F = 1..Len(F) /\ DOMAIN T = 1..Len(T)
  BY <1>1, <1>4 DEF Last
<1>7. ASSUME F[k] # Hash, k = nt[n], F[k] = Plus \/ F[k] = T[k]
      PROVE  n = Len(name) => LevelsMatch(F, T)
  <2> SUFFICES ASSUME n = Len(name) PROVE LevelsMatch(F, T)
    OBVIOUS
  <2>1. Len(T) = Len(F)
    BY <1>3, <1>4, <1>7 DEF Stands
  <2>2. \A i \in 1..Len(F) : i \in 1..(k - 1) \/ i = k
    BY <1>4
  <2>3. \A i \in 1..Len(F) : i \in 1..Len(T) /\ F[i] \in {Plus, T[i]}
    BY <1>5, <1>7, <2>1, <2>2
  <2> QED BY <1>6, <1>7, <2>1, <2>3 DEF LevelsMatch, Plus, Hash
<1>8. ASSUME F[k] # Hash, k = nt[n], n < Len(name) => name[n + 1] = "/"
      PROVE  LevelsMatch(F, T) => n = Len(name)
  <2> SUFFICES ASSUME LevelsMatch(F, T), n # Len(name) PROVE FALSE
    OBVIOUS
  <2>1. n < Len(name)
    BY <1>1, <1>2
  <2>2. nt[n] < Len(T)
    BY <1>3, <1>8, <2>1 DEF Stands
  <2>3. Len(T) = Len(F)
    BY <1>6, <1>8 DEF LevelsMatch, Hash
  <2>4. nt[n] = Len(F)
    BY <1>4, <1>8
  <2> QED BY <1>4, <2>2, <2>3, <2>4
<1>9. CASE AtSame(filter, nf, of, F, nt, ot, T, f, n)
  <2>1. F[k] # Plus /\ F[k] # Hash
    BY <1>2, <1>4, <1>9, NoWildLevel
  <2>2. k = nt[n] /\ of[f] = ot[n]
    BY <1>9 DEF AtSame
  <2>3. ASSUME n = Len(name) PROVE LevelsMatch(F, T)
    <3>1. ot[n] = Len(T[nt[n]])
      BY <1>3, <2>3 DEF Stands
    <3>2. F[k] = T[k]
      BY <1>2, <1>4, <1>9, <3>1, LevelsEqual
    <3> QED BY <1>7, <2>1, <2>2, <2>3, <3>2
  <2>4. ASSUME LevelsMatch(F, T) PROVE n = Len(name)
    <3>1. F[k] = T[k]
      BY <1>4, <1>6, <2>1, <2>4 DEF LevelsMatch, Plus, Hash
    <3>2. ot[n] = Len(T[nt[n]])
      BY <1>4, <2>2, <3>1
    <3>3. n < Len(name) => name[n + 1] = "/"
      BY <1>3, <3>2 DEF Stands
    <3> QED BY <1>8, <2>1, <2>2, <2>4, <3>3
  <2> QED BY <2>3, <2>4
<1>10. CASE AtPlus(filter, name, nf, F, nt, f, n)
  <2>1. F[k] = Plus /\ k = nt[n] /\ (n < Len(name) => name[n + 1] = "/") /\ F[k] # Hash
    BY <1>10 DEF AtPlus, Plus, Hash
  <2> QED BY <1>7, <1>8, <2>1
<1>11. CASE AtHash(filter, name, nf, F, T, f, n)
  <2>1. n = Len(name) /\ F[k] = Hash /\ Len(T) >= Len(F)
    BY <1>11 DEF AtHash
  <2>2. \A i \in 1..Len(F) : F[i] # Hash => i \in 1..Len(T) /\ F[i] \in {Plus, T[i]}
    <3>1. \A i \in 1..Len(F) : (i \in 1..(k - 1) \/ i = k) /\ i \in 1..Len(T)
      BY <1>4, <2>1
    <3> QED BY <1>5, <2>1, <3>1
  <2>3. LevelsMatch(F, T)
    BY <1>6, <2>1, <2>2 DEF LevelsMatch, Plus, Hash
  <2> QED BY <2>1, <2>3
<1> QED BY <1>9, <1>10, <1>11 DEF Halfway
LEMMA MatchedTyped ==
  ASSUME NEW name \in Seq(STRING), NEW n \in Nat, NEW c
  PROVE  Matched(name, n, c) \in Nat /\ (n = 0 => Matched(name, n, c) = 0)
<1>1. CASE n \notin 1..Len(name) \/ (name[n] = "/" /\ c # "/") \/ c \notin Wildcards \cup {name[n]}
  BY <1>1 DEF Matched
<1>2. CASE /\ n \in 1..Len(name) /\ ~(name[n] = "/" /\ c # "/")
           /\ c \in Wildcards \cup {name[n]}
  <2>1. LevelEnd(name, n) \in n..Len(name) /\ Len(name) \in Nat
    BY <1>2, LevelEndIs
  <2>2. LevelEnd(name, n) + 1 \in Nat /\ Len(name) + 1 \in Nat /\ n + 1 \in Nat /\ n # 0
    BY <1>2, <2>1
  <2>3. c = "+" \/ c = "#" \/ c \notin Wildcards
    BY DEF Wildcards
  <2> QED BY <1>2, <2>2, <2>3 DEF Matched, Wildcards
<1> QED BY <1>1, <1>2

(* The loop over the characters of the filter matches a topic exactly when *)
(* the levels do.                                                          *)
LEMMA Matching ==
  ASSUME NEW filter, NEW name, IsFilter(filter), IsTopic(name)
  PROVE  isTopicMatched(filter, name) <=> LevelsMatch(Levels(filter), Levels(name))
<1> DEFINE n == Len(filter)
           step == [p \in (1..n) \X Nat |-> Matched(name, p[2], filter[p[1]])]
           G(a) == [f \in 0..n |-> IF f = 0 THEN 1 ELSE Matched(name, a[f - 1], filter[f])]
           at == CHOOSE a : a = G(a)
<1>1. isTopicMatched(filter, name) <=> at[n] = Len(name) + 1
  BY DEF isTopicMatched
<1>2. /\ filter \in Seq(STRING) /\ name \in Seq(STRING)
      /\ n \in Nat /\ Len(name) \in Nat /\ \A i \in 1..n : filter[i] \in STRING
  BY DEF IsFilter, IsTopic
<1>3. Recursion(Nat, 1, n, step)
  <2>1. \A p \in (1..n) \X Nat : Matched(name, p[2], filter[p[1]]) \in Nat
    BY <1>2, MatchedTyped
  <2> QED BY <1>2, <2>1 DEF Recursion
<1>4. PICK h : Recursed(h, Nat, 1, n, step)
  BY <1>3, RecursionExists
<1>5. h = G(h)
  <2>1. h \in [0..n -> Nat] /\ h[0] = 1 /\ \A i \in 1..n : h[i] = step[<<i, h[i - 1]>>]
    BY <1>4 DEF Recursed
  <2>2. ASSUME NEW i \in 1..n PROVE h[i] = Matched(name, h[i - 1], filter[i])
    <3> DEFINE x == h[i - 1]  p == <<i, x>>
    <3>1. x \in Nat
      BY <1>2, <2>1
    <3>2. p \in (1..n) \X Nat /\ p[1] = i /\ p[2] = x
      BY <3>1
    <3>3. step[p] = Matched(name, x, filter[i])
      BY <3>2
    <3> QED BY <2>1, <3>3
  <2>3. ASSUME NEW i \in 0..n
        PROVE  h[i] = IF i = 0 THEN 1 ELSE Matched(name, h[i - 1], filter[i])
    <3>1. CASE i = 0
      BY <2>1, <3>1
    <3>2. CASE i # 0
      <4>1. i \in 1..n
        BY <1>2, <3>2
      <4> QED BY <2>2, <3>2, <4>1
    <3> QED BY <3>1, <3>2
  <2>4. h = [i \in 0..n |-> h[i]]
    BY <2>1
  <2> QED BY <2>3, <2>4
<1>6. at = G(at)
  <2> HIDE DEF G
  <2> QED BY <1>5
<1> HIDE DEF at, step
<1>7. at[0] = 1 /\ \A i \in 1..n : at[i] = Matched(name, at[i - 1], filter[i])
  <2>1. at[0] = 1
    BY <1>2, <1>6
  <2>2. ASSUME NEW i \in 1..n PROVE at[i] = Matched(name, at[i - 1], filter[i])
    <3>1. i \in 0..n /\ i # 0
      BY <1>2
    <3> QED BY <1>6, <3>1
  <2> QED BY <2>1, <2>2
<1> HIDE DEF n
<1>8. \A i \in 0..n : at[i] \in Nat
  <2> DEFINE set == {i \in Nat : i <= n => at[i] \in Nat}
  <2>1. 0 \in set
    BY <1>7
  <2>2. ASSUME NEW i \in Nat, i \in set PROVE i + 1 \in set
    <3> SUFFICES ASSUME i + 1 <= n PROVE at[i + 1] \in Nat
      OBVIOUS
    <3> DEFINE k == i + 1
    <3>1. k \in 1..n /\ k - 1 = i /\ at[i] \in Nat
      BY <1>2, <2>2
    <3> HIDE DEF k
    <3>2. at[k] = Matched(name, at[i], filter[k])
      BY <1>7, <3>1
    <3> QED BY <1>2, <3>1, <3>2, MatchedTyped DEF k
  <2> HIDE DEF set
  <2>3. Nat \subseteq set
    BY <2>1, <2>2, SetInduction
  <2> QED BY <1>2, <2>3 DEF set
<1> DEFINE F == Levels(filter)  T == Levels(name)
<1>9. PICK nf, of : LevelPlaces(filter, nf, of, F)
  BY <1>2, LevelPlacesExist
<1>10. PICK nt, ot : LevelPlaces(name, nt, ot, T)
  BY <1>2, LevelPlacesExist
<1> HIDE DEF F, T
<1>11. Sorted(filter, name, nf, of, F, nt, ot, T)
  BY <1>9, <1>10 DEF Sorted
<1> DEFINE Half(f) == Halfway(filter, name, nf, of, F, nt, ot, T, f, at[f] - 1)
<1>12. Half(0)
  <2>1. nf[0] = 1 /\ nt[0] = 1 /\ of[0] = 0 /\ ot[0] = 0
    BY <1>9, <1>10 DEF LevelPlaces
  <2>2. at[0] - 1 = 0 /\ 0 \in 0..Len(filter) /\ 0 \in 0..Len(name)
    BY <1>2, <1>7 DEF n
  <2>3. AtSame(filter, nf, of, F, nt, ot, T, 0, 0)
    BY <2>1 DEF AtSame
  <2>4. Halfway(filter, name, nf, of, F, nt, ot, T, 0, 0)
    BY <2>1, <2>2, <2>3 DEF Halfway
  <2> QED BY <2>2, <2>4
<1>13. ASSUME NEW i \in Nat, i + 1 <= n, at[i] # 0, Half(i)
       PROVE  /\ at[i + 1] # 0 => Half(i + 1)
              /\ LevelsMatch(F, T) => at[i + 1] # 0
  <2> DEFINE k == i + 1  p == at[i] - 1  c == filter[k]  m == at[k]
  <2>1. k \in 1..n /\ k - 1 = i /\ i \in 0..n /\ i < n /\ at[i] \in Nat /\ p + 1 = at[i]
    BY <1>2, <1>8, <1>13
  <2>2. m = Matched(name, p + 1, c)
    BY <1>7, <2>1
  <2>3. i < Len(filter) /\ c = filter[i + 1]
    BY <2>1 DEF n
  <2>4. Halfway(filter, name, nf, of, F, nt, ot, T, i, p)
    BY <1>13
  <2> HIDE DEF p, c, m, k
  <2>5. ASSUME m # 0 PROVE Halfway(filter, name, nf, of, F, nt, ot, T, i + 1, m - 1)
    BY <1>11, <2>2, <2>3, <2>4, <2>5, TopicStep
  <2>6. ASSUME LevelsMatch(F, T) PROVE m # 0
    BY <1>11, <2>2, <2>3, <2>4, <2>6, TopicGoesOn
  <2> QED BY <2>5, <2>6 DEF m, k
<1> HIDE DEF Half
<1>14. \A f \in 0..n : at[f] # 0 => Half(f)
  <2> DEFINE set == {i \in Nat : i <= n => (at[i] # 0 => Half(i))}
  <2>1. 0 \in set
    BY <1>12
  <2>2. ASSUME NEW i \in Nat, i \in set PROVE i + 1 \in set
    <3> SUFFICES ASSUME i + 1 <= n, at[i + 1] # 0 PROVE Half(i + 1)
      OBVIOUS
    <3> DEFINE k == i + 1
    <3>1. k \in 1..n /\ k - 1 = i /\ i <= n /\ at[k] # 0 /\ i \in 0..n
      BY <1>2, <2>2
    <3>2. at[i] # 0
      <4> HIDE DEF k
      <4>1. at[k] = Matched(name, at[i], filter[k]) /\ at[i] \in Nat
        BY <1>7, <1>8, <3>1
      <4> QED BY <1>2, <3>1, <4>1, MatchedTyped
    <3>3. Half(i)
      BY <2>2, <3>1, <3>2
    <3> QED BY <1>13, <3>2, <3>3
  <2> HIDE DEF set
  <2>3. Nat \subseteq set
    BY <2>1, <2>2, SetInduction
  <2> QED BY <1>2, <2>3 DEF set
<1>15. ASSUME LevelsMatch(F, T) PROVE \A f \in 0..n : at[f] # 0
  <2> DEFINE set == {i \in Nat : i <= n => at[i] # 0}
  <2>1. 0 \in set
    BY <1>7
  <2>2. ASSUME NEW i \in Nat, i \in set PROVE i + 1 \in set
    <3> SUFFICES ASSUME i + 1 <= n PROVE at[i + 1] # 0
      OBVIOUS
    <3>1. i \in 0..n /\ at[i] # 0
      BY <1>2, <2>2
    <3>2. Half(i)
      BY <1>14, <3>1
    <3> QED BY <1>13, <1>15, <3>1, <3>2
  <2> HIDE DEF set
  <2>3. Nat \subseteq set
    BY <2>1, <2>2, SetInduction
  <2> QED BY <1>2, <2>3 DEF set
<1>16. ASSUME at[n] # 0 PROVE at[n] - 1 = Len(name) <=> LevelsMatch(F, T)
  <2> DEFINE m == at[n] - 1
  <2>1. Halfway(filter, name, nf, of, F, nt, ot, T, n, m)
    BY <1>2, <1>14, <1>16 DEF Half
  <2>2. n = Len(filter)
    BY DEF n
  <2> HIDE DEF m, n
  <2>3. m = Len(name) <=> LevelsMatch(F, T)
    BY <1>11, <2>1, <2>2, TopicEnds
  <2> QED BY <2>3 DEF m
<1>17. at[n] \in Nat /\ n \in 0..n
  BY <1>2, <1>8
<1>18. at[n] = Len(name) + 1 <=> LevelsMatch(F, T)
  <2>1. CASE at[n] = 0
    BY <1>2, <1>15, <1>17, <2>1
  <2>2. CASE at[n] # 0
    BY <1>2, <1>16, <1>17, <2>2
  <2> QED BY <2>1, <2>2
<1> QED BY <1>1, <1>18 DEF F, T

LEMMA MatchesItself ==
  ASSUME NEW topic, IsTopic(topic)
  PROVE  LevelsMatch(Levels(topic), Levels(topic))
<1> DEFINE T == Levels(topic)
<1>1. PICK nt, ot : LevelPlaces(topic, nt, ot, T)
  BY LevelPlacesExist DEF IsTopic
<1> HIDE DEF T
<1>2. Len(T) \in Nat
  BY <1>1 DEF LevelPlaces
<1>3. LevelsMatch(T, T)
  BY <1>2 DEF LevelsMatch
<1> QED BY <1>3 DEF T

(* The filters and callbacks of the slots in use are among those given.    *)
SlotsGiven == \A i \in Used : slots[i].filter \in Filters /\ slots[i].fp \in Callbacks

LEMMA SlotsStayGiven ==
  ASSUME TableInv, SlotsGiven, [TableNext]_table
  PROVE  SlotsGiven'
<1>0. DOMAIN slots = Slots /\ \A i \in Slots : DOMAIN slots[i] = {"filter", "fp"}
  BY DEF TableInv
<1>1. ASSUME NEW filter \in Filters, NEW fp \in Callbacks, SetMessageHandler(filter, fp)
      PROVE  SlotsGiven'
  <2> DEFINE room == IF SlotsOf(filter) # {} THEN SlotsOf(filter) ELSE Slots \ Used
             k == First(room)
  <2>1. room \subseteq Slots /\ room # {}
    BY <1>1 DEF SetMessageHandler, SlotsOf
  <2>2. k \in Slots
    BY <2>1, FirstIsIn
  <2>3. slots' = [slots EXCEPT ![k] = [filter |-> filter, fp |-> fp]]
    BY <1>1 DEF SetMessageHandler
  <2> HIDE DEF k, room
  <2>4. /\ slots'[k].filter = filter /\ slots'[k].fp = fp
        /\ \A i \in Slots \ {k} : slots'[i] = slots[i]
    BY <1>0, <2>2, <2>3
  <2> QED BY <2>2, <2>4 DEF SlotsGiven, Used, Slots
<1>2. ASSUME NEW filter \in Filters, SubscribeTooMany(filter) PROVE SlotsGiven'
  <2>1. \A i \in Slots : slots'[i].filter = <<>>
    <3>1. slots' = [i \in Slots |-> [slots[i] EXCEPT !.filter = <<>>]]
      BY <1>2 DEF SubscribeTooMany
    <3> QED BY <1>0, <3>1
  <2> QED BY <2>1 DEF SlotsGiven, Used, Slots
<1>3. ASSUME NEW filter \in Filters, RemoveMessageHandler(filter) PROVE SlotsGiven'
  <2> DEFINE k == First(SlotsOf(filter))
  <2>1. k \in Slots
    BY <1>3, FirstIsIn DEF RemoveMessageHandler, SlotsOf
  <2>2. slots' = [slots EXCEPT ![k] = Free]
    BY <1>3 DEF RemoveMessageHandler
  <2> HIDE DEF k
  <2>3. slots'[k].filter = <<>> /\ \A i \in Slots \ {k} : slots'[i] = slots[i]
    BY <1>0, <2>1, <2>2 DEF Free
  <2> QED BY <2>3 DEF SlotsGiven, Used, Slots
<1>4. CASE slots' = slots
  BY <1>4 DEF SlotsGiven, Used, Slots
<1> QED BY <1>1, <1>2, <1>3, <1>4 DEF TableNext, DeliverMessage, table

(* A message is handed to the slots whose filter matches its topic by      *)
(* levels: a filter equal to the topic does, and of the others the loop    *)
(* finds those that do.                                                    *)
LEMMA DeliveredByLevels ==
  ASSUME SlotsGiven, NEW topic \in Topics, DeliverMessage(topic)
  PROVE  called' = [topic |-> topic,
                    fps |-> {slots[i].fp : i \in
                      {j \in Used : LevelsMatch(Levels(slots[j].filter), Levels(topic))}}]
<1> DEFINE A == {j \in Used : /\ slots[j].fp # NoCallback
                              /\ \/ slots[j].filter = topic
                                 \/ isTopicMatched(slots[j].filter, topic)}
           B == {j \in Used : LevelsMatch(Levels(slots[j].filter), Levels(topic))}
<1>1. called' = [topic |-> topic, fps |-> {slots[i].fp : i \in A}]
  BY DEF DeliverMessage
<1>2. ASSUME NEW j \in Used
      PROVE  /\ slots[j].fp # NoCallback
             /\ \/ slots[j].filter = topic
                \/ isTopicMatched(slots[j].filter, topic)
             <=> LevelsMatch(Levels(slots[j].filter), Levels(topic))
  <2> DEFINE filter == slots[j].filter
  <2>1. slots[j].fp # NoCallback /\ IsFilter(filter) /\ IsTopic(topic)
    BY HandlersAssumption DEF SlotsGiven
  <2> HIDE DEF filter
  <2>2. isTopicMatched(filter, topic) <=> LevelsMatch(Levels(filter), Levels(topic))
    BY <2>1, Matching
  <2>3. filter = topic => LevelsMatch(Levels(filter), Levels(topic))
    BY <2>1, MatchesItself
  <2> QED BY <2>1, <2>2, <2>3 DEF filter
<1>3. A = B
  BY <1>2
<1> HIDE DEF A, B
<1>4. {slots[i].fp : i \in A} = {slots[i].fp : i \in B}
  BY <1>3
<1> QED BY <1>1, <1>4 DEF B

(* A message reaches exactly the handlers last set for the filters that    *)
(* match its topic by levels, and no other: for tables of any size, and    *)
(* filters and topics of any length.                                       *)
THEOREM RightHandlersAlways == TableSpec => RightHandlers
<1>1. TableInit => SlotsGiven
  BY DEF TableInit, SlotsGiven, Used, Free, Slots
<1>2. TableInv /\ SlotsGiven /\ [TableNext]_table => SlotsGiven'
  BY SlotsStayGiven
<1>3. SlotsGiven /\ [TableNext]_table =>
        [\A t \in Topics : called'.topic = t /\ called' # called =>
           called'.fps = {slots[i].fp : i \in
                            {j \in Used : LevelsMatch(Levels(slots[j].filter), Levels(t))}}]_table
  <2> SUFFICES ASSUME SlotsGiven, TableNext, NEW t \in Topics, called'.topic = t, called' # called
               PROVE  called'.fps = {slots[i].fp : i \in
                        {j \in Used : LevelsMatch(Levels(slots[j].filter), Levels(t))}}
    BY DEF table
  <2>1. PICK topic \in Topics : DeliverMessage(topic)
    BY DEF TableNext, SetMessageHandler, SubscribeTooMany, RemoveMessageHandler
  <2> DEFINE fps(x) == {slots[i].fp : i \in
                          {j \in Used : LevelsMatch(Levels(slots[j].filter), Levels(x))}}
  <2>2. called' = [topic |-> topic, fps |-> fps(topic)]
    BY <2>1, DeliveredByLevels
  <2> HIDE DEF fps
  <2>3. called'.fps = fps(t)
    BY <2>2
  <2> QED BY <2>3 DEF fps
<1> QED BY <1>1, <1>2, <1>3, TableInvariant, PTL DEF TableSpec, RightHandlers

-----------------------------------------------------------------------------
(* Drawing.                                                                *)
Scr == (0..(width - 1)) \X (0..(height - 1))
Pixels(b) == {p \in Scr : getpixel(b, p[1], p[2]) = 1}
Holding(b) == b \in [0..(size - 1) -> SUBSET (0..7)] /\ b[0] = ControlByte

LEMMA PictureScreen == Picture!Screen = Scr /\ Lit = Pixels(buffer)
  BY DEF Picture!Screen, Scr, Lit, Pixels

(* Products grow with their factors.                                       *)
LEMMA Grows ==
  ASSUME NEW n \in Nat, NEW a \in Int, NEW b \in Int, a <= b
  PROVE  n * a <= n * b /\ n * a \in Int /\ n * b \in Int
OBVIOUS

LEMMA Sizes8 ==
  /\ width \in Nat /\ width > 0 /\ height \in Nat /\ height > 0 /\ height \div 8 \in Nat
  /\ height = 8 * (height \div 8)
  /\ stride = width /\ size = width * (height \div 8) + 1 /\ size \in Nat
<1> DEFINE r == height \div 8
<1>1. width \in Nat /\ width > 0 /\ height \in Nat /\ height > 0 /\ height % 8 = 0
  BY FrameBufAssumption
<1>2. r \in Nat /\ height = 8 * r
  BY <1>1
<1> HIDE DEF r
<1>3. width * r \in Nat
  BY <1>1, <1>2
<1> QED BY <1>1, <1>2, <1>3 DEF stride, size, r

LEMMA Eights ==
  ASSUME NEW y \in Nat
  PROVE  y \div 8 \in Nat /\ y % 8 \in 0..7 /\ y = 8 * (y \div 8) + (y % 8)
<1>1. y \div 8 \in Nat
  OBVIOUS
<1>2. y % 8 \in 0..7
  OBVIOUS
<1>3. y = 8 * (y \div 8) + (y % 8)
  OBVIOUS
<1> QED BY <1>1, <1>2, <1>3

(* The cell of a pixel on the screen is in the buffer, past its first      *)
(* byte, and no other pixel has it.                                        *)
LEMMA CellIs ==
  ASSUME NEW x \in 0..(width - 1), NEW y \in 0..(height - 1)
  PROVE  /\ Cell(x, y)[1] \in 1..(size - 1) /\ Cell(x, y)[2] \in 0..7
         /\ Cell(x, y) = <<(y \div 8) * width + x + 1, y % 8>>
<1> DEFINE r == height \div 8  q == y \div 8
<1>1. width \in Nat /\ r \in Nat /\ height = 8 * r /\ size = width * r + 1 /\ stride = width
      /\ height \in Nat
  BY Sizes8
<1>2. q \in Nat /\ y % 8 \in 0..7 /\ y = 8 * q + (y % 8) /\ y \in Nat
  <2>1. y \in Nat
    BY <1>1
  <2> QED BY <2>1, Eights
<1> DEFINE m == y % 8
<1>3. q + 1 <= r
  <2>1. y \in Nat /\ y <= height - 1 /\ m \in 0..7 /\ y = 8 * q + m /\ q \in Nat /\ r \in Nat
        /\ height = 8 * r
    BY <1>1, <1>2
  <2> HIDE DEF m, r, q
  <2> QED BY ONLY <2>1
<1> HIDE DEF r, q, m
<1>4. width * (q + 1) <= width * r /\ width * q \in Int /\ width * r \in Int
  BY <1>1, <1>2, <1>3, Grows
<1>5. width * (q + 1) = width * q + width /\ q * width = width * q /\ width * q >= 0
  BY <1>1, <1>2
<1>6. q * width + x + 1 \in 1..(size - 1)
  <2> DEFINE a == width * q  c == width * r
  <2>1. a \in Int /\ c \in Int /\ a + width <= c /\ a >= 0 /\ q * width = a /\ size - 1 = c
    BY <1>1, <1>4, <1>5
  <2> HIDE DEF a, c
  <2> QED BY <1>1, <2>1
<1>7. Cell(x, y) = <<q * width + x + 1, y % 8>>
  BY <1>1 DEF Cell, q
<1> QED BY <1>2, <1>6, <1>7 DEF q

LEMMA CellsDiffer ==
  ASSUME NEW x \in 0..(width - 1), NEW y \in 0..(height - 1),
         NEW a \in 0..(width - 1), NEW b \in 0..(height - 1), Cell(x, y) = Cell(a, b)
  PROVE  x = a /\ y = b
<1> DEFINE q == y \div 8  r == b \div 8  m == y % 8  n == b % 8
<1>1. width \in Nat /\ height \in Nat
  BY Sizes8
<1>2. q \in Nat /\ y = 8 * q + m /\ r \in Nat /\ b = 8 * r + n /\ m \in Nat /\ n \in Nat
  <2>1. y \in Nat /\ b \in Nat
    BY <1>1
  <2> QED BY ONLY <2>1
<1>3. q * width + x + 1 = r * width + a + 1 /\ m = n
  BY CellIs
<1> HIDE DEF q, r, m, n
<1>4. q = r
  <2>1. ASSUME NEW i \in Nat, NEW j \in Nat, NEW c \in 0..(width - 1), NEW d \in 0..(width - 1),
               i * width + c + 1 = j * width + d + 1, i < j
        PROVE  FALSE
    <3> DEFINE A == width * i  B == width * j
    <3>1. width * (i + 1) <= width * j /\ A \in Int /\ B \in Int
      BY <1>1, <2>1, Grows
    <3>2. width * (i + 1) = A + width /\ i * width = A /\ j * width = B
      BY <1>1
    <3> HIDE DEF A, B
    <3> QED BY <1>1, <2>1, <3>1, <3>2
  <2>2. ~(q < r) /\ ~(r < q)
    BY <1>2, <1>3, <2>1
  <2> QED BY <1>2, <2>2
<1>5. q * width \in Int
  BY <1>1, <1>2
<1> QED BY <1>1, <1>2, <1>3, <1>4, <1>5

(* Setting the cells of some pixels on the screen paints these and leaves  *)
(* the rest of the picture, and the control byte.                          *)
Painted(pixels, P, color) == IF color = 0 THEN pixels \ P ELSE pixels \cup P
CellsOf(P) == {Cell(p[1], p[2]) : p \in P}

LEMMA SetPaints ==
  ASSUME NEW b, Holding(b), NEW P \in SUBSET Scr, NEW color
  PROVE  /\ Holding(Set(b, CellsOf(P), color))
         /\ Pixels(Set(b, CellsOf(P), color)) = Painted(Pixels(b), P, color)
<1> DEFINE c == Set(b, CellsOf(P), color)
           bits(i) == {d[2] : d \in {e \in CellsOf(P) : e[1] = i}}
<1>1. b \in [0..(size - 1) -> SUBSET (0..7)] /\ b[0] = ControlByte /\ size \in Nat
  BY Sizes8 DEF Holding
<1>2. ASSUME NEW p \in Scr
      PROVE  /\ Cell(p[1], p[2])[1] \in 1..(size - 1) /\ Cell(p[1], p[2])[2] \in 0..7
             /\ p[1] \in 0..(width - 1) /\ p[2] \in 0..(height - 1) /\ p = <<p[1], p[2]>>
  <2>1. p[1] \in 0..(width - 1) /\ p[2] \in 0..(height - 1) /\ p = <<p[1], p[2]>>
    BY DEF Scr
  <2> QED BY <2>1, CellIs
<1>3. \A e \in CellsOf(P) : e[1] \in 1..(size - 1) /\ e[2] \in 0..7
  BY <1>2 DEF CellsOf
<1>4. \A i : bits(i) \subseteq 0..7
  BY <1>3
<1>5. bits(0) = {}
  BY <1>3
<1>6. c = [i \in 0..(size - 1) |-> IF color = 0 THEN b[i] \ bits(i) ELSE b[i] \cup bits(i)]
  BY <1>1 DEF Set
<1>7. ASSUME NEW p \in Scr
      PROVE  Cell(p[1], p[2])[2] \in bits(Cell(p[1], p[2])[1]) <=> p \in P
  <2> DEFINE e == Cell(p[1], p[2])
  <2>1. ASSUME p \in P PROVE e[2] \in bits(e[1])
    <3>1. e \in CellsOf(P)
      BY <2>1 DEF CellsOf
    <3> QED BY <3>1
  <2>2. ASSUME e[2] \in bits(e[1]) PROVE p \in P
    <3>1. PICK d \in CellsOf(P) : d[1] = e[1] /\ d[2] = e[2]
      BY <2>2
    <3>2. PICK r \in P : d = Cell(r[1], r[2])
      BY <3>1 DEF CellsOf
    <3>3. r \in Scr
      OBVIOUS
    <3> DEFINE x == p[1]  y == p[2]  v == r[1]  w == r[2]
    <3>4. /\ x \in 0..(width - 1) /\ y \in 0..(height - 1) /\ p = <<x, y>>
          /\ v \in 0..(width - 1) /\ w \in 0..(height - 1) /\ r = <<v, w>>
      BY <1>2, <3>3
    <3>5. Cell(x, y)[1] = Cell(v, w)[1] /\ Cell(x, y)[2] = Cell(v, w)[2]
      BY <3>1, <3>2
    <3> HIDE DEF x, y, v, w
    <3>6. Cell(x, y) = Cell(v, w)
      BY <3>5 DEF Cell
    <3>7. x = v /\ y = w
      BY <3>4, <3>6, CellsDiffer
    <3> QED BY <3>4, <3>7
  <2> QED BY <2>1, <2>2
<1> HIDE DEF bits, c
<1>8. c \in [0..(size - 1) -> SUBSET (0..7)]
  BY <1>1, <1>4, <1>6
<1>9. c[0] = ControlByte
  <2>1. 0 \in 0..(size - 1)
    BY Sizes8
  <2> QED BY <1>1, <1>5, <1>6, <2>1
<1>10. ASSUME NEW p \in Scr
       PROVE  p \in Pixels(c) <=> p \in Painted(Pixels(b), P, color)
  <2> DEFINE e == Cell(p[1], p[2])  i == e[1]  k == e[2]
  <2>1. p \in Pixels(c) <=> k \in c[i]
    BY DEF Pixels, getpixel
  <2>2. p \in Pixels(b) <=> k \in b[i]
    BY DEF Pixels, getpixel
  <2>3. k \in bits(i) <=> p \in P
    BY <1>7
  <2>4. i \in 0..(size - 1)
    BY <1>1, <1>2
  <2> HIDE DEF e, i, k
  <2>5. c[i] = IF color = 0 THEN b[i] \ bits(i) ELSE b[i] \cup bits(i)
    BY <1>6, <2>4
  <2> QED BY <2>1, <2>2, <2>3, <2>5 DEF Painted
<1>11. Pixels(c) \subseteq Scr /\ Painted(Pixels(b), P, color) \subseteq Scr
  BY DEF Pixels, Painted
<1>12. Pixels(c) = Painted(Pixels(b), P, color)
  BY <1>10, <1>11
<1> QED BY <1>8, <1>9, <1>12 DEF Holding, c
(* Rectangles on the screen.                                               *)
LEMMA Wraps == ASSUME NEW n \in 0..(WORD - 1) PROVE u16(n) = n
<1>1. WORD \in Nat /\ n \in Nat /\ n < WORD
  BY FrameBufAssumption
<1> DEFINE W == WORD
<1>2. W \in Nat /\ n \in Nat /\ n < W
  BY <1>1
<1> HIDE DEF W
<1>3. n % W = n
  BY ONLY <1>2
<1> QED BY <1>3 DEF u16, W

LEMMA FillPaints ==
  ASSUME NEW b, Holding(b), NEW x, NEW y, NEW w, NEW h, OnScr(x, y, w, h), NEW color
  PROVE  /\ Holding(fill_rect(b, x, y, w, h, color))
         /\ Pixels(fill_rect(b, x, y, w, h, color)) = Painted(Pixels(b), Picture!Area(x, y, w, h), color)
         /\ Picture!Area(x, y, w, h) \subseteq Scr
<1> DEFINE A == Picture!Area(x, y, w, h)
<1>0. /\ x \in Nat /\ y \in Nat /\ w \in Nat /\ h \in Nat /\ x + w <= width /\ y + h <= height
      /\ width \in Nat /\ height \in Nat /\ height < WORD /\ WORD \in Nat
  BY FrameBufAssumption, Sizes8 DEF OnScr
<1>1. A = (x..(x + w - 1)) \X (y..(y + h - 1))
  BY DEF Picture!Area
<1>2. A \subseteq Scr
  <2>1. x..(x + w - 1) \subseteq 0..(width - 1) /\ y..(y + h - 1) \subseteq 0..(height - 1)
    BY <1>0
  <2> QED BY <1>1, <2>1 DEF Scr
<1>3. {Cell(x + i, u16(y + j)) : i \in 0..(w - 1), j \in 0..(h - 1)} = CellsOf(A)
  <2> DEFINE S == {Cell(x + i, u16(y + j)) : i \in 0..(w - 1), j \in 0..(h - 1)}
  <2>1. ASSUME NEW j \in 0..(h - 1) PROVE u16(y + j) = y + j /\ y + j \in y..(y + h - 1)
    <3>1. y + j \in 0..(WORD - 1) /\ y + j \in y..(y + h - 1)
      BY <1>0
    <3> QED BY <3>1, Wraps
  <2>2. ASSUME NEW e \in S PROVE e \in CellsOf(A)
    <3>1. PICK i \in 0..(w - 1), j \in 0..(h - 1) : e = Cell(x + i, u16(y + j))
      BY <2>2
    <3> DEFINE p == <<x + i, y + j>>
    <3>2. x + i \in x..(x + w - 1)
      BY <1>0
    <3>3. p \in A /\ p[1] = x + i /\ p[2] = y + j
      BY <1>1, <2>1, <3>2
    <3>4. e = Cell(p[1], p[2])
      BY <2>1, <3>1, <3>3
    <3> HIDE DEF p
    <3> QED BY <3>3, <3>4 DEF CellsOf
  <2>3. ASSUME NEW e \in CellsOf(A) PROVE e \in S
    <3>1. PICK p \in A : e = Cell(p[1], p[2])
      BY DEF CellsOf
    <3> DEFINE i == p[1] - x  j == p[2] - y
    <3>2. p[1] \in x..(x + w - 1) /\ p[2] \in y..(y + h - 1)
      BY <1>1
    <3>3. i \in 0..(w - 1) /\ j \in 0..(h - 1) /\ x + i = p[1] /\ y + j = p[2]
      BY <1>0, <3>2
    <3>4. e = Cell(x + i, u16(y + j))
      BY <2>1, <3>1, <3>3
    <3> HIDE DEF i, j
    <3> QED BY <3>3, <3>4
  <2> QED BY <2>2, <2>3
<1>4. fill_rect(b, x, y, w, h, color) = Set(b, CellsOf(A), color)
  BY <1>3 DEF fill_rect
<1> HIDE DEF A
<1>5. Holding(Set(b, CellsOf(A), color)) /\ Pixels(Set(b, CellsOf(A), color)) = Painted(Pixels(b), A, color)
  BY <1>2, SetPaints
<1> QED BY <1>2, <1>4, <1>5 DEF A

(* What Paint says is what Painted says, of pixels on the screen.          *)
LEMMA PaintIs ==
  ASSUME NEW P, NEW color
  PROVE  Picture!Paint(P, color) = Painted(Lit, P \cap Scr, color)
<1>1. Lit \subseteq Scr
  BY DEF Lit, Scr
<1> QED BY <1>1, PictureScreen DEF Picture!Paint, Painted

(* Each edge of a frame once.                                              *)
LEMMA RectPaints ==
  ASSUME NEW b, Holding(b), NEW x, NEW y, NEW w, NEW h, OnScr(x, y, w, h), w # 0, h # 0,
         NEW color, NEW fill \in BOOLEAN
  PROVE  /\ Holding(rect(b, x, y, w, h, color, fill))
         /\ Pixels(rect(b, x, y, w, h, color, fill)) =
              Painted(Pixels(b), IF fill THEN Picture!Area(x, y, w, h)
                                         ELSE Picture!Border(x, y, w, h), color)
         /\ Picture!Border(x, y, w, h) \subseteq Scr
<1>0. /\ x \in Nat /\ y \in Nat /\ w \in Nat /\ h \in Nat /\ x + w <= width /\ y + h <= height
      /\ w >= 1 /\ h >= 1 /\ width \in Nat /\ height \in Nat /\ height < WORD /\ width < WORD
      /\ WORD \in Nat
  BY FrameBufAssumption, Sizes8 DEF OnScr
<1>1. CASE fill
  <2>1. Picture!Border(x, y, w, h) \subseteq Picture!Area(x, y, w, h)
    BY DEF Picture!Border
  <2> QED BY <1>1, <2>1, FillPaints DEF rect
<1>2. CASE ~fill
  <2> DEFINE v == y + h - 1  u == x + w - 1
             top == fill_rect(b, x, y, w, 1, color)
             bottom == fill_rect(top, x, v, w, 1, color)
             left == fill_rect(bottom, x, y, 1, h, color)
             right == fill_rect(left, u, y, 1, h, color)
             T == Picture!Area(x, y, w, 1)  B == Picture!Area(x, v, w, 1)
             L == Picture!Area(x, y, 1, h)  R == Picture!Area(u, y, 1, h)
  <2>1. u16(v) = v /\ u16(u) = u
    <3>1. v \in 0..(WORD - 1) /\ u \in 0..(WORD - 1)
      BY <1>0
    <3> HIDE DEF v, u
    <3> QED BY <3>1, Wraps
  <2>2. rect(b, x, y, w, h, color, fill) = right
    BY <1>2, <2>1 DEF rect
  <2>3. OnScr(x, y, w, 1) /\ OnScr(x, v, w, 1) /\ OnScr(x, y, 1, h) /\ OnScr(u, y, 1, h)
    BY <1>0 DEF OnScr
  <2>4. Picture!Border(x, y, w, h) = ((T \cup B) \cup L) \cup R
    <3>1. /\ T = (x..u) \X (y..y) /\ B = (x..u) \X (v..v)
          /\ L = (x..x) \X (y..v) /\ R = (u..u) \X (y..v)
      <4>1. x + 1 - 1 = x /\ y + 1 - 1 = y /\ v + 1 - 1 = v /\ u + 1 - 1 = u
        BY <1>0
      <4> HIDE DEF u, v
      <4> QED BY <4>1 DEF Picture!Area, u, v
    <3>2. Picture!Border(x, y, w, h) = {p \in (x..u) \X (y..v) : p[1] \in {x, u} \/ p[2] \in {y, v}}
      BY DEF Picture!Border, Picture!Area
    <3>3. x \in x..u /\ u \in x..u /\ y \in y..v /\ v \in y..v /\ x..x = {x} /\ u..u = {u}
          /\ y..y = {y} /\ v..v = {v}
      BY <1>0
    <3> HIDE DEF T, B, L, R, u, v
    <3> QED BY <3>1, <3>2, <3>3
  <2> HIDE DEF v, u
  <2>5. /\ Holding(top) /\ Pixels(top) = Painted(Pixels(b), T, color) /\ T \subseteq Scr
    BY <2>3, FillPaints
  <2> HIDE DEF top, T
  <2>6. /\ Holding(bottom) /\ Pixels(bottom) = Painted(Pixels(top), B, color) /\ B \subseteq Scr
    BY <2>3, <2>5, FillPaints
  <2> HIDE DEF bottom, B
  <2>7. /\ Holding(left) /\ Pixels(left) = Painted(Pixels(bottom), L, color) /\ L \subseteq Scr
    BY <2>3, <2>6, FillPaints
  <2> HIDE DEF left, L
  <2>8. /\ Holding(right) /\ Pixels(right) = Painted(Pixels(left), R, color) /\ R \subseteq Scr
    BY <2>3, <2>7, FillPaints
  <2> HIDE DEF right, R
  <2>9. Pixels(right) = Painted(Pixels(b), ((T \cup B) \cup L) \cup R, color)
    BY <2>5, <2>6, <2>7, <2>8 DEF Painted
  <2> QED BY <1>2, <2>2, <2>4, <2>5, <2>6, <2>7, <2>8, <2>9
<1> QED BY <1>1, <1>2
LEMMA WrapsLeft == ASSUME NEW n \in (width - WORD)..(WORD - 1)
  PROVE  /\ n \in 0..(WORD - 1) => u16(n) = n
         /\ n < 0 => u16(n) \notin 0..(width - 1)
<1> DEFINE W == WORD  v == width
<1>1. W \in Nat /\ v \in Nat /\ v > 0 /\ v < W /\ n \in Int /\ v - W <= n /\ n < W
  BY FrameBufAssumption
<1>2. ASSUME n < 0 PROVE n % W = n + W
  <2> HIDE DEF W, v
  <2> DEFINE m == n + W
  <2>1. m \in Nat /\ m < W /\ n = m - W
    BY <1>1, <1>2
  <2> HIDE DEF m
  <2>2. (m - W) % W = m
    BY <1>1, <2>1
  <2> QED BY <2>1, <2>2 DEF m
<1>3. n < 0 => n + W \notin 0..(v - 1)
  BY <1>1
<1> QED BY <1>2, <1>3, Wraps DEF u16

(* What is clipped are the pixels on the screen.                           *)
LEMMA ClippedIs ==
  ASSUME NEW P, \A p \in P : p = <<p[1], p[2]>>
  PROVE  Clipped(P) = CellsOf(P \cap Scr)
<1>1. {q \in P : q[1] \in 0..(width - 1) /\ q[2] \in 0..(height - 1)} = P \cap Scr
  <2>1. ASSUME NEW q \in P
        PROVE  q[1] \in 0..(width - 1) /\ q[2] \in 0..(height - 1) <=> q \in Scr
    <3> DEFINE x == q[1]  y == q[2]
    <3>1. q = <<x, y>>
      OBVIOUS
    <3> HIDE DEF x, y
    <3>2. q \in Scr <=> x \in 0..(width - 1) /\ y \in 0..(height - 1)
      BY <3>1 DEF Scr
    <3> QED BY <3>2 DEF x, y
  <2> QED BY <2>1
<1> QED BY <1>1 DEF Clipped, CellsOf

LEMMA TextPaints ==
  ASSUME NEW b, Holding(b), NEW str, NEW x, NEW y, CanText(str, x, y), NEW color
  PROVE  /\ Holding(text(b, str, x, y, color))
         /\ Pixels(text(b, str, x, y, color)) =
              Painted(Pixels(b), Picture!Letters(str, x, y) \cap Scr, color)
<1> DEFINE P == UNION {{<<u16(x + 8 * (k - 1) + j), u16(y) + row>> :
                           row \in Font[Chr(str[k])][j + 1]} : k \in DOMAIN str, j \in 0..7}
           L == Picture!Letters(str, x, y)
<1>0. /\ Len(str) \in Nat /\ DOMAIN str = 1..Len(str) /\ u16(y) = y /\ x \in Int /\ y \in Int
      /\ width \in Nat /\ WORD \in Nat /\ x >= width - WORD /\ x + 8 * Len(str) <= WORD
      /\ width < WORD
  BY Wraps, FrameBufAssumption, Sizes8 DEF CanText
<1>1. \A p : p \in P <=> \E k \in 1..Len(str), j \in 0..7 : \E row \in Font[Chr(str[k])][j + 1] :
                           p = <<u16(x + 8 * (k - 1) + j), y + row>>
  <2> DEFINE At(k, j) == {<<u16(x + 8 * (k - 1) + j), u16(y) + row>> : row \in Font[Chr(str[k])][j + 1]}
             K == DOMAIN str  J == 0..7
  <2>1. P = UNION {At(k, j) : k \in K, j \in J}
    OBVIOUS
  <2> HIDE DEF At, P, K, J
  <2>2. \A p : p \in P <=> \E k \in K, j \in J : p \in At(k, j)
    BY <2>1
  <2>3. ASSUME NEW p, NEW k, NEW j
        PROVE  p \in At(k, j) <=> \E row \in Font[Chr(str[k])][j + 1] :
                 p = <<u16(x + 8 * (k - 1) + j), y + row>>
    BY <1>0 DEF At
  <2> DEFINE B(p, k, j) == \E row \in Font[Chr(str[k])][j + 1] : p = <<u16(x + 8 * (k - 1) + j), y + row>>
  <2>4. \A p, k, j : p \in At(k, j) <=> B(p, k, j)
    BY <2>3
  <2>5. \A p : p \in P <=> \E k \in K, j \in J : B(p, k, j)
    <3> HIDE DEF B
    <3> QED BY <2>2, <2>4
  <2>6. K = 1..Len(str) /\ J = 0..7
    BY <1>0 DEF K, J
  <2>7. \A p : p \in P <=> \E k \in 1..Len(str), j \in 0..7 : B(p, k, j)
    <3> HIDE DEF B
    <3> QED BY <2>5, <2>6
  <2> QED BY <2>7
<1>2. \A p : p \in L <=> \E k \in 1..Len(str), j \in 1..8 : \E row \in Font[Chr(str[k])][j] :
                           p = <<x + 8 * (k - 1) + (j - 1), y + row>>
  <2>1. \A c, g : g \in GlyphOf(c) <=> \E j \in 1..8 : \E row \in Font[Chr(c)][j] : g = <<j - 1, row>>
    BY DEF GlyphOf
  <2>2. L = UNION {{<<x + 8 * (k - 1) + g[1], y + g[2]>> : g \in GlyphOf(str[k])} : k \in DOMAIN str}
    BY DEF Picture!Letters
  <2>3. \A p : p \in L <=> \E k \in 1..Len(str) : \E g \in GlyphOf(str[k]) :
                             p = <<x + 8 * (k - 1) + g[1], y + g[2]>>
    <3> DEFINE At(k) == {<<x + 8 * (k - 1) + g[1], y + g[2]>> : g \in GlyphOf(str[k])}
               K == DOMAIN str
    <3>1. L = UNION {At(k) : k \in K}
      BY <2>2
    <3> HIDE DEF At, L, K
    <3>2. \A p : p \in L <=> \E k \in K : p \in At(k)
      BY <3>1
    <3>3. ASSUME NEW p, NEW k
          PROVE  p \in At(k) <=> \E g \in GlyphOf(str[k]) : p = <<x + 8 * (k - 1) + g[1], y + g[2]>>
      BY DEF At
    <3> QED BY <1>0, <3>2, <3>3 DEF K
  <2> HIDE DEF L
  <2>4. ASSUME NEW p, NEW k
        PROVE  (\E g \in GlyphOf(str[k]) : p = <<x + 8 * (k - 1) + g[1], y + g[2]>>)
               <=> \E j \in 1..8 : \E row \in Font[Chr(str[k])][j] :
                     p = <<x + 8 * (k - 1) + (j - 1), y + row>>
    <3> DEFINE z == x + 8 * (k - 1)
    <3>1. \A j, row : <<j - 1, row>>[1] = j - 1 /\ <<j - 1, row>>[2] = row
      OBVIOUS
    <3> HIDE DEF z
    <3>2. ASSUME NEW g \in GlyphOf(str[k]), p = <<z + g[1], y + g[2]>>
          PROVE  \E j \in 1..8 : \E row \in Font[Chr(str[k])][j] : p = <<z + (j - 1), y + row>>
      <4>1. PICK j \in 1..8 : \E row \in Font[Chr(str[k])][j] : g = <<j - 1, row>>
        BY <2>1
      <4>2. PICK row \in Font[Chr(str[k])][j] : g = <<j - 1, row>>
        BY <4>1
      <4>3. p = <<z + (j - 1), y + row>>
        BY <3>1, <3>2, <4>2
      <4> QED BY <4>3
    <3>3. ASSUME NEW j \in 1..8, NEW row \in Font[Chr(str[k])][j], p = <<z + (j - 1), y + row>>
          PROVE  \E g \in GlyphOf(str[k]) : p = <<z + g[1], y + g[2]>>
      <4> DEFINE g == <<j - 1, row>>
      <4>1. g \in GlyphOf(str[k])
        BY <2>1
      <4>2. p = <<z + g[1], y + g[2]>>
        BY <3>1, <3>3
      <4> HIDE DEF g
      <4> QED BY <4>1, <4>2
    <3>4. (\E g \in GlyphOf(str[k]) : p = <<z + g[1], y + g[2]>>)
          <=> \E j \in 1..8 : \E row \in Font[Chr(str[k])][j] : p = <<z + (j - 1), y + row>>
      BY <3>2, <3>3
    <3> QED BY <3>4 DEF z
  <2> DEFINE A(p, k) == \E g \in GlyphOf(str[k]) : p = <<x + 8 * (k - 1) + g[1], y + g[2]>>
             B(p, k) == \E j \in 1..8 : \E row \in Font[Chr(str[k])][j] :
                          p = <<x + 8 * (k - 1) + (j - 1), y + row>>
  <2>5. (\A p, k : A(p, k) <=> B(p, k)) /\ \A p : p \in L <=> \E k \in 1..Len(str) : A(p, k)
    BY <2>3, <2>4
  <2>6. \A p : p \in L <=> \E k \in 1..Len(str) : B(p, k)
    <3> HIDE DEF A, B
    <3> QED BY <2>5
  <2> QED BY <2>6
<1> HIDE DEF P, L
<1>3. ASSUME NEW k \in 1..Len(str), NEW j \in 0..7, NEW a, a = x + 8 * (k - 1) + j
      PROVE  /\ a \in Int /\ u16(a) \in 0..(width - 1) => u16(a) = a
             /\ a \in 0..(width - 1) => u16(a) = a
  <2>1. a \in (width - WORD)..(WORD - 1)
    BY <1>0, <1>3
  <2> HIDE <1>3
  <2>2. a < 0 \/ a \in 0..(WORD - 1)
    BY <1>0, <2>1
  <2>3. a < 0 => a \notin 0..(width - 1)
    BY <1>0, <2>1
  <2> QED BY <2>1, <2>2, <2>3, WrapsLeft
<1>4. P \cap Scr = L \cap Scr
  <2>1. ASSUME NEW p \in P \cap Scr PROVE p \in L
    <3>1. PICK k \in 1..Len(str), j \in 0..7 : \E row \in Font[Chr(str[k])][j + 1] :
                           p = <<u16(x + 8 * (k - 1) + j), y + row>>
      BY <1>1
    <3>2. PICK row \in Font[Chr(str[k])][j + 1] : p = <<u16(x + 8 * (k - 1) + j), y + row>>
      BY <3>1
    <3> DEFINE a == x + 8 * (k - 1) + j  i == j + 1
    <3>3. u16(a) \in 0..(width - 1)
      BY <3>2 DEF Scr
    <3>4. a \in Int
      BY <1>0
    <3>5. u16(a) = a
      <4> HIDE DEF a
      <4>1. a = x + 8 * (k - 1) + j
        BY DEF a
      <4> QED BY <1>3, <3>3, <3>4, <4>1
    <3>6. i \in 1..8 /\ a = x + 8 * (k - 1) + (i - 1) /\ p = <<a, y + row>> /\ row \in Font[Chr(str[k])][i]
      BY <1>0, <3>2, <3>5
    <3> HIDE DEF a, i
    <3> QED BY <1>2, <3>6
  <2>2. ASSUME NEW p \in L \cap Scr PROVE p \in P
    <3>1. PICK k \in 1..Len(str), j \in 1..8 : \E row \in Font[Chr(str[k])][j] :
                           p = <<x + 8 * (k - 1) + (j - 1), y + row>>
      BY <1>2
    <3>2. PICK row \in Font[Chr(str[k])][j] : p = <<x + 8 * (k - 1) + (j - 1), y + row>>
      BY <3>1
    <3> DEFINE i == j - 1  a == x + 8 * (k - 1) + i
    <3>3. i \in 0..7 /\ j = i + 1
      OBVIOUS
    <3>4. a \in 0..(width - 1)
      BY <3>2 DEF Scr
    <3> HIDE DEF i
    <3>5. u16(a) = a
      <4> HIDE DEF a
      <4>1. a = x + 8 * (k - 1) + i
        BY DEF a
      <4> QED BY <1>3, <3>3, <3>4, <4>1
    <3>6. p = <<u16(x + 8 * (k - 1) + i), y + row>> /\ row \in Font[Chr(str[k])][i + 1]
      BY <3>2, <3>3, <3>5 DEF i
    <3> HIDE DEF a
    <3> QED BY <1>1, <3>3, <3>6
  <2> QED BY <2>1, <2>2
<1>5. \A p \in P : p = <<p[1], p[2]>>
  BY <1>1
<1>6. text(b, str, x, y, color) = Set(b, CellsOf(P \cap Scr), color)
  BY <1>5, ClippedIs DEF text, P
<1>7. P \cap Scr \in SUBSET Scr
  OBVIOUS
<1> QED BY <1>4, <1>6, <1>7, SetPaints DEF L
(* A sprite, one color after the other.                                    *)
LEMMA BlitPaints ==
  ASSUME NEW b, Holding(b), Pixels(b) = Lit, NEW o,
         CanBlit(o.sprite, o.x, o.y, o.palette)
  PROVE  /\ Holding(blit(b, o.sprite, o.x, o.y, o.key, o.palette))
         /\ Pixels(blit(b, o.sprite, o.x, o.y, o.key, o.palette)) = Picture!Covered(o)
<1> DEFINE x == o.x  y == o.y  w == o.sprite.w  h == o.sprite.h  lit == o.sprite.lit
           key == o.key  palette == o.palette
           Hue(p) == palette[IF <<p[1] - x, p[2] - y>> \in lit THEN 1 ELSE 0]
           In(p) == p[1] - x \in 0..(w - 1) /\ p[2] - y \in 0..(h - 1)
           Part(c) == {p \in Scr : In(p) /\ Hue(p) = c /\ c # key}
<1>0. /\ x \in Int /\ y \in Int /\ w \in Nat /\ h \in Nat /\ palette[0] \in {0, 1} /\ palette[1] \in {0, 1}
      /\ width \in Nat /\ height \in Nat
  BY Sizes8 DEF CanBlit
<1>1. \A p \in Scr : p[1] \in 0..(width - 1) /\ p[2] \in 0..(height - 1) /\ p = <<p[1], p[2]>>
  BY DEF Scr
<1>2. \A p : Hue(p) \in {0, 1}
  BY <1>0
<1>3. Picture!Covered(o) = {p \in Scr : IF In(p) /\ Hue(p) # key THEN Hue(p) = 1 ELSE p \in Lit}
  <2>1. ASSUME NEW p \in Scr
        PROVE  LET q == <<p[1] - o.x, p[2] - o.y>>
                   inside == q \in Picture!Area(0, 0, o.sprite.w, o.sprite.h)
                   color == o.palette[IF q \in o.sprite.lit THEN 1 ELSE 0]
               IN  (IF inside /\ color # o.key THEN color = 1 ELSE p \in Lit)
                   <=> IF In(p) /\ Hue(p) # key THEN Hue(p) = 1 ELSE p \in Lit
    <3>1. <<p[1] - o.x, p[2] - o.y>> \in Picture!Area(0, 0, o.sprite.w, o.sprite.h) <=> In(p)
      <4>1. 0 + w - 1 = w - 1 /\ 0 + h - 1 = h - 1
        BY <1>0
      <4> QED BY <4>1 DEF Picture!Area
    <3> HIDE DEF In
    <3> QED BY <3>1
  <2> HIDE DEF Hue, In
  <2> QED BY <2>1, PictureScreen DEF Picture!Covered
<1>4. \A c : Part(c) \in SUBSET Scr
  OBVIOUS
<1> DEFINE top == Set(b, CellsOf(Part(0)), 0)  all == Set(top, CellsOf(Part(1)), 1)
<1>5. Holding(all) /\ Pixels(all) = (Lit \ Part(0)) \cup Part(1)
  <2> HIDE DEF Part
  <2>1. Holding(top) /\ Pixels(top) = Painted(Lit, Part(0), 0)
    BY <1>4, SetPaints
  <2> HIDE DEF top
  <2>2. Holding(all) /\ Pixels(all) = Painted(Pixels(top), Part(1), 1)
    BY <1>4, <2>1, SetPaints
  <2> QED BY <2>1, <2>2 DEF Painted
<1>6. (Lit \ Part(0)) \cup Part(1) = Picture!Covered(o)
  <2>1. Lit \subseteq Scr
    BY DEF Lit, Scr
  <2> HIDE DEF Hue, In
  <2> QED BY <1>2, <1>3, <2>1
<1>7. CASE x >= width \/ y >= height \/ -x >= w \/ -y >= h
  <2>1. \A p \in Scr : ~In(p)
    BY <1>0, <1>1, <1>7
  <2>2. Picture!Covered(o) = Lit
    <3>1. Lit \subseteq Scr
      BY DEF Lit, Scr
    <3> HIDE DEF In, Hue
    <3> QED BY <1>3, <2>1, <3>1
  <2>3. blit(b, o.sprite, o.x, o.y, o.key, o.palette) = b
    BY <1>7 DEF blit
  <2> QED BY <2>2, <2>3
<1>8. CASE ~(x >= width \/ y >= height \/ -x >= w \/ -y >= h)
  <2> DEFINE x0 == Upper(0, x)  y0 == Upper(0, y)  x1 == Upper(0, -x)  y1 == Upper(0, -y)
             Color(p) == palette[IF <<p[1] - x0 + x1, p[2] - y0 + y1>> \in lit THEN 1 ELSE 0]
             area == (x0..(Lower(width, x + w) - 1)) \X (y0..(Lower(height, y + h) - 1))
             Some(c) == {Cell(p[1], p[2]) : p \in {q \in area : Color(q) = c /\ c # key}}
  <2>1. /\ x0 \in Int /\ x1 \in Int /\ x0 - x1 = x /\ x0 >= 0 /\ x0 >= x /\ (x0 = 0 \/ x0 = x)
        /\ y0 \in Int /\ y1 \in Int /\ y0 - y1 = y /\ y0 >= 0 /\ y0 >= y /\ (y0 = 0 \/ y0 = y)
    BY <1>0 DEF Upper
  <2> DEFINE x2 == Lower(width, x + w)  y2 == Lower(height, y + h)
  <2>2. /\ x2 \in Int /\ x2 <= width /\ x2 <= x + w /\ (x2 = width \/ x2 = x + w)
        /\ y2 \in Int /\ y2 <= height /\ y2 <= y + h /\ (y2 = height \/ y2 = y + h)
    BY <1>0 DEF Lower
  <2>3. area = (x0..(x2 - 1)) \X (y0..(y2 - 1))
    OBVIOUS
  <2> HIDE DEF x0, y0, x1, y1, x2, y2, area
  <2>4. area \subseteq Scr /\ \A p \in Scr : p \in area <=> In(p)
    <3>1. ASSUME NEW i \in 0..(width - 1) PROVE i \in x0..(x2 - 1) <=> i - x \in 0..(w - 1)
      BY <1>0, <2>1, <2>2
    <3>2. ASSUME NEW j \in 0..(height - 1) PROVE j \in y0..(y2 - 1) <=> j - y \in 0..(h - 1)
      BY <1>0, <2>1, <2>2
    <3>3. x0..(x2 - 1) \subseteq 0..(width - 1) /\ y0..(y2 - 1) \subseteq 0..(height - 1)
      BY <1>0, <2>1, <2>2
    <3>4. area \subseteq Scr
      BY <2>3, <3>3 DEF Scr
    <3>5. ASSUME NEW p \in Scr PROVE p \in area <=> In(p)
      <4> DEFINE i == p[1]  j == p[2]
      <4>1. i \in 0..(width - 1) /\ j \in 0..(height - 1) /\ p = <<i, j>>
        BY <1>1
      <4> HIDE DEF i, j
      <4>2. p \in area <=> i \in x0..(x2 - 1) /\ j \in y0..(y2 - 1)
        BY <2>3, <4>1
      <4>3. p \in area <=> i - x \in 0..(w - 1) /\ j - y \in 0..(h - 1)
        BY <3>1, <3>2, <4>1, <4>2
      <4> QED BY <4>3 DEF i, j
    <3> QED BY <3>4, <3>5
  <2>5. \A p \in Scr : Color(p) = Hue(p)
    <3>1. ASSUME NEW p \in Scr PROVE p[1] - x0 + x1 = p[1] - x /\ p[2] - y0 + y1 = p[2] - y
      BY <1>0, <1>1, <2>1
    <3> QED BY <3>1
  <2>6. \A c : {q \in area : Color(q) = c /\ c # key} = Part(c)
    <3> HIDE DEF Color, Hue, In
    <3> QED BY <2>4, <2>5
  <2>7. \A c : Some(c) = CellsOf(Part(c))
    <3> HIDE DEF Part, Color
    <3> QED BY <2>6 DEF CellsOf
  <2>8. blit(b, o.sprite, o.x, o.y, o.key, o.palette) = Set(Set(b, Some(0), 0), Some(1), 1)
    BY <1>8 DEF blit, area, x0, y0, x1, y1
  <2>9. blit(b, o.sprite, o.x, o.y, o.key, o.palette) = all
    <3> HIDE DEF Some, Part
    <3> QED BY <2>7, <2>8
  <2> HIDE DEF all, Part
  <2> QED BY <1>5, <1>6, <2>9
<1> QED BY <1>7, <1>8

(* Each pixel is read before it is painted.                                *)
LEMMA ScrollPaints ==
  ASSUME NEW b, Holding(b), Pixels(b) = Lit, NEW xstep \in Int, NEW ystep \in Int
  PROVE  /\ Holding(scroll(b, xstep, ystep))
         /\ Pixels(scroll(b, xstep, ystep)) = Picture!Moved(xstep, ystep)
<1> DEFINE To(step, extent) == (IF step < 0 THEN 0..(extent + step - 1) ELSE step..(extent - 1))
           targets == To(xstep, width) \X To(ystep, height)
           Earlier(q, p) == \/ (q[2] - p[2]) * Scan(ystep) < 0
                            \/ q[2] = p[2] /\ (q[1] - p[1]) * Scan(xstep) < 0
           From(p) == <<p[1] - xstep, p[2] - ystep>>
           G(f) == [p \in targets |->
                      LET q == <<p[1] - xstep, p[2] - ystep>>
                      IN  IF q \in targets /\ Earlier(q, p) THEN f[q] ELSE getpixel(b, q[1], q[2])]
           moved == CHOOSE f : f = G(f)
           Cells(color) == {Cell(p[1], p[2]) : p \in {t \in targets : moved[t] = color}}
<1>0. width \in Nat /\ height \in Nat
  BY Sizes8
<1>1. scroll(b, xstep, ystep) = Set(Set(b, Cells(0), 0), Cells(1), 1)
  BY DEF scroll
<1>2. \A p \in Scr : p[1] \in 0..(width - 1) /\ p[2] \in 0..(height - 1) /\ p = <<p[1], p[2]>>
  BY DEF Scr
<1>3. targets \subseteq Scr /\ \A p \in Scr : p \in targets <=> From(p) \in Scr
  <2>1. ASSUME NEW step \in Int, NEW extent \in Nat
        PROVE  /\ To(step, extent) \subseteq 0..(extent - 1)
               /\ \A i \in 0..(extent - 1) : i \in To(step, extent) <=> i - step \in 0..(extent - 1)
    OBVIOUS
  <2> HIDE DEF To
  <2>2. targets \subseteq Scr
    BY <1>0, <2>1 DEF Scr
  <2>3. ASSUME NEW p \in Scr PROVE p \in targets <=> From(p) \in Scr
    <3> DEFINE i == p[1]  j == p[2]
    <3>1. i \in 0..(width - 1) /\ j \in 0..(height - 1) /\ p = <<i, j>>
      BY <1>2
    <3>2. From(p) \in Scr <=> i - xstep \in 0..(width - 1) /\ j - ystep \in 0..(height - 1)
      BY DEF Scr
    <3> HIDE DEF i, j, From
    <3>3. p \in targets <=> i \in To(xstep, width) /\ j \in To(ystep, height)
      BY <3>1
    <3> QED BY <1>0, <2>1, <3>1, <3>2, <3>3
  <2> QED BY <2>2, <2>3
<1> HIDE DEF targets
<1>4. ASSUME NEW p \in targets PROVE ~Earlier(From(p), p)
  <2> DEFINE i == p[1]  j == p[2]
  <2>1. i \in Int /\ j \in Int
    BY <1>0, <1>2, <1>3
  <2>2. From(p)[1] = i - xstep /\ From(p)[2] = j - ystep
    OBVIOUS
  <2> HIDE DEF i, j, From
  <2>3. ~(((j - ystep) - j) * Scan(ystep) < 0) /\ ~(((i - xstep) - i) * Scan(xstep) < 0)
    BY <2>1 DEF Scan
  <2> QED BY <2>2, <2>3 DEF i, j
<1> DEFINE h == [p \in targets |-> getpixel(b, From(p)[1], From(p)[2])]
<1>5. \A f : G(f) = h
  <2> HIDE DEF Earlier
  <2>1. ASSUME NEW f, NEW p \in targets
        PROVE  (LET q == <<p[1] - xstep, p[2] - ystep>>
                IN  IF q \in targets /\ Earlier(q, p) THEN f[q] ELSE getpixel(b, q[1], q[2]))
               = getpixel(b, From(p)[1], From(p)[2])
    BY <1>4
  <2> QED BY <2>1
<1>6. moved = h
  <2> HIDE DEF G, h
  <2>1. h = G(h)
    BY <1>5
  <2>2. moved = G(moved)
    BY <2>1
  <2> HIDE DEF moved
  <2> QED BY <1>5, <2>2
<1> HIDE DEF moved, G
<1>7. \A t \in targets : moved[t] = IF From(t) \in Lit THEN 1 ELSE 0
  <2>1. ASSUME NEW t \in targets
        PROVE  getpixel(b, From(t)[1], From(t)[2]) = IF From(t) \in Lit THEN 1 ELSE 0
    <3>1. From(t) \in Scr
      BY <1>3
    <3> HIDE DEF From
    <3>2. From(t) \in Pixels(b) <=> getpixel(b, From(t)[1], From(t)[2]) = 1
      BY <3>1 DEF Pixels
    <3>3. getpixel(b, From(t)[1], From(t)[2]) \in {0, 1}
      BY DEF getpixel
    <3> QED BY <3>2, <3>3
  <2> HIDE DEF From
  <2> QED BY <1>6, <2>1
<1> DEFINE Part(c) == {t \in targets : moved[t] = c}
<1>8. \A c : Part(c) \in SUBSET Scr /\ Cells(c) = CellsOf(Part(c))
  BY <1>3 DEF CellsOf
<1> DEFINE top == Set(b, CellsOf(Part(0)), 0)  all == Set(top, CellsOf(Part(1)), 1)
<1>9. Holding(all) /\ Pixels(all) = (Lit \ Part(0)) \cup Part(1)
  <2> HIDE DEF Part
  <2>1. Holding(top) /\ Pixels(top) = Painted(Lit, Part(0), 0)
    BY <1>8, SetPaints
  <2> HIDE DEF top
  <2>2. Holding(all) /\ Pixels(all) = Painted(Pixels(top), Part(1), 1)
    BY <1>8, <2>1, SetPaints
  <2> QED BY <2>1, <2>2 DEF Painted
<1>10. (Lit \ Part(0)) \cup Part(1) = Picture!Moved(xstep, ystep)
  <2>1. Lit \subseteq Scr
    BY DEF Lit, Scr
  <2>2. Picture!Moved(xstep, ystep) = {p \in Scr : IF From(p) \in Scr THEN From(p) \in Lit ELSE p \in Lit}
    BY PictureScreen DEF Picture!Moved
  <2> HIDE DEF From
  <2> QED BY <1>3, <1>7, <2>1, <2>2
<1>11. scroll(b, xstep, ystep) = all
  <2> HIDE DEF Cells, Part
  <2> QED BY <1>1, <1>8
<1> HIDE DEF all, Part
<1> QED BY <1>9, <1>10, <1>11
-----------------------------------------------------------------------------
(* Bresenham.                                                              *)
LEMMA DivBounds ==
  ASSUME NEW e \in Nat, NEW D \in Nat, D > 0
  PROVE  e \div D \in Nat /\ D * (e \div D) \in Int /\ D * (e \div D) <= e /\ e < D * (e \div D) + D
OBVIOUS

LEMMA DivUnique ==
  ASSUME NEW a \in Nat, NEW D \in Nat, D > 0, NEW q \in Nat, D * q <= a, a < D * q + D
  PROVE  a \div D = q
<1> DEFINE r == a \div D
<1>1. r \in Nat /\ D * r \in Int /\ D * r <= a /\ a < D * r + D
  BY DivBounds
<1> HIDE DEF r
<1>2. ASSUME NEW i \in Nat, NEW j \in Nat, i < j, D * j <= a, a < D * i + D PROVE FALSE
  <2>1. D * (i + 1) <= D * j /\ D * j \in Int
    BY <1>2, Grows
  <2>2. D * (i + 1) = D * i + D /\ D * i \in Int
    OBVIOUS
  <2> QED BY <1>2, <2>1, <2>2
<1>3. ~(r < q) /\ ~(q < r)
  BY <1>1, <1>2
<1> QED BY <1>1, <1>3 DEF r

(* i * m / n to the nearest, halves up.                                    *)
Mid(i, m, n) == (2 * (i * m) + n) \div (2 * n)

LEMMA MidIs ==
  ASSUME NEW i \in Nat, NEW m \in Nat, NEW n \in Nat, n > 0,
         NEW k \in Nat, (2 * n) * k <= 2 * (i * m) + n, 2 * (i * m) + n < (2 * n) * k + 2 * n
  PROVE  Mid(i, m, n) = k
<1> DEFINE a == 2 * (i * m) + n  D == 2 * n
<1>1. a \in Nat /\ D \in Nat /\ D > 0 /\ D * k <= a /\ a < D * k + D
  BY Grows
<1> HIDE DEF a, D
<1>2. a \div D = k
  BY <1>1, DivUnique
<1> QED BY <1>2 DEF Mid, a, D

LEMMA MidBetween ==
  ASSUME NEW i \in Nat, NEW m \in Nat, NEW n \in Nat, n > 0, i <= n
  PROVE  /\ Mid(i, m, n) \in 0..m
         /\ Mid(n, m, n) = m /\ Mid(i, n, n) = i /\ Mid(i, 0, n) = 0
<1> DEFINE a == 2 * (i * m) + n  D == 2 * n  k == a \div D  B == i * m  C == n * m
<1>1. B \in Nat /\ C \in Nat /\ B <= C
  BY Grows
<1>2. a \in Nat /\ D \in Nat /\ D > 0
  BY <1>1
<1>3. k \in Nat /\ D * k <= a /\ a < D * k + D
  <2> HIDE DEF a, D
  <2> QED BY <1>2, DivBounds
<1>4. k <= m
  <2> SUFFICES ASSUME m + 1 <= k PROVE FALSE
    BY <1>3
  <2> HIDE DEF k
  <2>1. n * (m + 1) <= n * k /\ n * k \in Int
    BY <1>3, Grows
  <2>2. n * (m + 1) = C + n /\ D * k = 2 * (n * k)
    BY <1>3
  <2> DEFINE A == n * k
  <2>3. C + n <= A /\ A \in Int /\ 2 * A <= 2 * B + n
    BY <1>3, <2>1, <2>2
  <2> HIDE DEF A, B, C, D, a
  <2> QED BY <1>1, <2>3
<1>5. Mid(n, m, n) = m
  <2>1. (2 * n) * m = 2 * (n * m) /\ n * m \in Nat
    BY <1>1
  <2> QED BY <2>1, MidIs
<1>6. Mid(i, n, n) = i
  <2>1. (2 * n) * i = 2 * (i * n) /\ i * n \in Nat
    BY Grows
  <2> QED BY <2>1, MidIs
<1>7. Mid(i, 0, n) = 0
  <2>1. (2 * n) * 0 = 0 /\ i * 0 = 0
    OBVIOUS
  <2> QED BY <2>1, MidIs
<1> QED BY <1>3, <1>4, <1>5, <1>6, <1>7 DEF Mid

(* The state of the loop of line().                                        *)
Walked(p, i, n, m) ==
  /\ p \in [minor : Nat, e : Int]
  /\ p.e = 2 * (i * m) + 2 * m - n - (2 * n) * p.minor
  /\ (2 * n) * p.minor <= 2 * (i * m) + n /\ 2 * (i * m) + n < (2 * n) * p.minor + 2 * n

Walk(p, n, m) ==
  LET steps == IF p.e < 0 THEN 0 ELSE p.e \div (2 * n) + 1
  IN  [minor |-> p.minor + steps, e |-> p.e - 2 * n * steps + 2 * m]

LEMMA WalkStep ==
  ASSUME NEW i \in Nat, NEW n \in Nat, n > 0, NEW m \in 0..n, NEW p, Walked(p, i, n, m)
  PROVE  Walked(Walk(p, n, m), i + 1, n, m)
<1> DEFINE D == 2 * n  V == i * m  x == p.minor  e == p.e  U == D * x
           s == IF e < 0 THEN 0 ELSE e \div D + 1  S == D * s
<1>1. /\ D \in Nat /\ D > 0 /\ V \in Int /\ x \in Nat /\ e \in Int /\ U \in Int /\ m \in Nat /\ m <= n
      /\ e = 2 * V + 2 * m - n - U /\ U <= 2 * V + n /\ 2 * V + n < U + D /\ D = 2 * n
  BY Grows DEF Walked
<1>2. s \in Nat /\ S \in Int /\ -D <= e - S /\ e - S < 0
  <2>1. CASE e < 0
    <3>1. s = 0 /\ S = 0
      BY <1>1, <2>1
    <3> HIDE DEF D, V, U, e, s, S
    <3> QED BY <1>1, <2>1, <3>1
  <2>2. CASE ~(e < 0)
    <3> DEFINE q == e \div D
    <3>1. q \in Nat /\ D * q \in Int /\ D * q <= e /\ e < D * q + D
      <4> HIDE DEF D, e
      <4> QED BY <1>1, <2>2, DivBounds
    <3>2. s = q + 1
      BY <2>2
    <3> HIDE DEF q, s
    <3>3. S = D * q + D
      BY <1>1, <3>1, <3>2
    <3> HIDE DEF S, D, e
    <3> QED BY <1>1, <3>1, <3>2, <3>3
  <2> QED BY <2>1, <2>2
<1>3. Walk(p, n, m) = [minor |-> x + s, e |-> e - S + 2 * m]
  BY DEF Walk
<1> DEFINE r == Walk(p, n, m)
<1>4. r \in [minor : Nat, e : Int] /\ r.minor = x + s /\ r.e = e - S + 2 * m
  <2> HIDE DEF x, s, e, S
  <2> QED BY <1>1, <1>2, <1>3
<1>5. (i + 1) * m = V + m /\ D * (x + s) = U + S
  <2>1. (i + 1) * m = V + m
    BY <1>1
  <2>2. D * (x + s) = U + S
    <3> HIDE DEF D, x, s
    <3> QED BY <1>1, <1>2
  <2> QED BY <2>1, <2>2
<1>6. /\ r.e = 2 * (V + m) + 2 * m - n - (U + S)
      /\ U + S <= 2 * (V + m) + n /\ 2 * (V + m) + n < (U + S) + D
  <2> HIDE DEF r, V, U, S, D, e, x, s
  <2> QED BY <1>1, <1>2, <1>4
<1> HIDE DEF r, V, U, S, x, s, e
<1>7. /\ r.e = 2 * ((i + 1) * m) + 2 * m - n - D * r.minor
      /\ D * r.minor <= 2 * ((i + 1) * m) + n /\ 2 * ((i + 1) * m) + n < D * r.minor + D
  <2> HIDE DEF D
  <2> QED BY <1>4, <1>5, <1>6
<1> QED BY <1>4, <1>7 DEF Walked, r, D

LEMMA WalkIs ==
  ASSUME NEW n \in Nat, n > 0, NEW m \in 0..n
  PROVE  \A i \in 0..n : walk(n, m)[i].minor = Mid(i, m, n)
<1> DEFINE T == [minor : Nat, e : Int]
           start == [minor |-> 0, e |-> 2 * m - n]
           G(f) == [i \in 0..n |->
                      IF i = 0 THEN [minor |-> 0, e |-> 2 * m - n]
                      ELSE LET p == f[i - 1]
                               steps == IF p.e < 0 THEN 0 ELSE p.e \div (2 * n) + 1
                           IN  [minor |-> p.minor + steps, e |-> p.e - 2 * n * steps + 2 * m]]
           step == [p \in (1..n) \X T |-> Walk(p[2], n, m)]
           at == CHOOSE f : f = G(f)
<1>1. walk(n, m) = at
  BY DEF walk
<1>2. start \in T /\ m \in Nat /\ m <= n
  OBVIOUS
<1>3. ASSUME NEW p \in T PROVE Walk(p, n, m) \in T
  <2> DEFINE D == 2 * n  s == IF p.e < 0 THEN 0 ELSE p.e \div D + 1
  <2>1. p.minor \in Nat /\ p.e \in Int /\ D \in Nat /\ D > 0
    OBVIOUS
  <2>2. s \in Nat
    <3>1. p.e \in Nat => p.e \div D \in Nat
      <4> DEFINE e == p.e
      <4>1. e \in Int
        BY <2>1
      <4> HIDE DEF e, D
      <4>2. e \in Nat => e \div D \in Nat
        BY <2>1, DivBounds
      <4> QED BY <4>2 DEF e
    <3> HIDE DEF D
    <3> QED BY <2>1, <3>1
  <2>3. Walk(p, n, m) = [minor |-> p.minor + s, e |-> p.e - D * s + 2 * m]
    BY DEF Walk
  <2> HIDE DEF D, s
  <2>4. D * s \in Int
    BY <2>1, <2>2
  <2> QED BY <1>2, <2>1, <2>2, <2>3, <2>4
<1>4. Recursion(T, start, n, step)
  <2> HIDE DEF T, start
  <2> QED BY <1>2, <1>3 DEF Recursion
<1>5. PICK h : Recursed(h, T, start, n, step)
  BY <1>4, RecursionExists
<1> HIDE DEF T
<1>6. h = G(h)
  <2>1. h \in [0..n -> T] /\ h[0] = start /\ \A i \in 1..n : h[i] = step[<<i, h[i - 1]>>]
    BY <1>5 DEF Recursed
  <2>2. ASSUME NEW i \in 1..n PROVE h[i] = Walk(h[i - 1], n, m)
    <3> DEFINE x == h[i - 1]  p == <<i, x>>
    <3>1. x \in T
      <4>1. i - 1 \in 0..n
        OBVIOUS
      <4> QED BY <2>1, <4>1
    <3>2. p \in (1..n) \X T /\ p[1] = i /\ p[2] = x
      BY <3>1
    <3>3. step[p] = Walk(x, n, m)
      BY <3>2
    <3> QED BY <2>1, <3>3
  <2>3. ASSUME NEW i \in 0..n
        PROVE  h[i] = IF i = 0 THEN start ELSE Walk(h[i - 1], n, m)
    <3>1. CASE i = 0
      BY <2>1, <3>1
    <3>2. CASE i # 0
      <4>1. i \in 1..n
        BY <3>2
      <4> QED BY <2>2, <3>2, <4>1
    <3> QED BY <3>1, <3>2
  <2>4. h = [i \in 0..n |-> h[i]]
    BY <2>1
  <2>5. h = [i \in 0..n |-> IF i = 0 THEN start ELSE Walk(h[i - 1], n, m)]
    <3> HIDE DEF start
    <3> QED BY <2>3, <2>4
  <2> QED BY <2>5 DEF Walk
<1>7. at = G(at)
  <2> HIDE DEF G
  <2> QED BY <1>6
<1> HIDE DEF at
<1>8. at[0] = start /\ \A i \in 1..n : at[i] = Walk(at[i - 1], n, m)
  <2>1. at = [i \in 0..n |-> IF i = 0 THEN start ELSE Walk(at[i - 1], n, m)]
    BY <1>7 DEF Walk
  <2> HIDE DEF start, G
  <2>2. at[0] = start
    BY <2>1
  <2>3. ASSUME NEW i \in 1..n PROVE at[i] = Walk(at[i - 1], n, m)
    <3>1. i \in 0..n /\ i # 0
      OBVIOUS
    <3> QED BY <2>1, <3>1
  <2> QED BY <2>2, <2>3
<1> HIDE DEF G
<1>9. \A i \in 0..n : Walked(at[i], i, n, m)
  <2> DEFINE set == {i \in Nat : i <= n => Walked(at[i], i, n, m)}
  <2>1. 0 \in set
    <3>1. start.minor = 0 /\ start.e = 2 * m - n /\ start \in [minor : Nat, e : Int]
      BY <1>2
    <3>2. 0 * m = 0 /\ (2 * n) * 0 = 0
      BY <1>2
    <3> HIDE DEF start
    <3>3. Walked(start, 0, n, m)
      BY <1>2, <3>1, <3>2 DEF Walked
    <3> QED BY <1>8, <3>3
  <2>2. ASSUME NEW i \in Nat, i \in set PROVE i + 1 \in set
    <3> SUFFICES ASSUME i + 1 <= n PROVE Walked(at[i + 1], i + 1, n, m)
      OBVIOUS
    <3> DEFINE k == i + 1
    <3>1. k \in 1..n /\ k - 1 = i /\ Walked(at[i], i, n, m)
      BY <2>2
    <3> HIDE DEF k
    <3>2. at[k] = Walk(at[i], n, m)
      BY <1>8, <3>1
    <3>3. Walked(Walk(at[i], n, m), i + 1, n, m)
      BY <3>1, WalkStep
    <3> QED BY <3>2, <3>3 DEF k
  <2> HIDE DEF set
  <2>3. Nat \subseteq set
    BY <2>1, <2>2, SetInduction
  <2> QED BY <2>3 DEF set
<1>10. ASSUME NEW i \in 0..n PROVE at[i].minor = Mid(i, m, n)
  <2> DEFINE k == at[i].minor
  <2>1. /\ k \in Nat /\ (2 * n) * k <= 2 * (i * m) + n /\ 2 * (i * m) + n < (2 * n) * k + 2 * n
    BY <1>9 DEF Walked
  <2> HIDE DEF k
  <2>2. Mid(i, m, n) = k
    BY <1>2, <2>1, MidIs
  <2> QED BY <2>2 DEF k
<1> QED BY <1>1, <1>10
(* A step of one axis is that of Rounded; s is its direction, m its        *)
(* extent.                                                                 *)
Axis(d, s, m) ==
  d \in Int /\ s \in {1, -1} /\ m \in Nat /\ (s = 1 => d > 0) /\ (s = -1 => d <= 0) /\ m = s * d
PointOf(i, n) == n \in Nat /\ n > 0 /\ i \in Nat /\ i <= n

LEMMA RoundedIs ==
  ASSUME NEW d, NEW s, NEW m, Axis(d, s, m), NEW n, NEW i, PointOf(i, n)
  PROVE  Picture!Rounded(i * d, n) = s * Mid(i, m, n)
<1>0. /\ d \in Int /\ s \in {1, -1} /\ m \in Nat /\ (s = 1 => d > 0) /\ (s = -1 => d <= 0) /\ m = s * d
      /\ n \in Nat /\ n > 0 /\ i \in Nat /\ i <= n
  BY DEF Axis, PointOf
<1>1. CASE s = 1
  <2>1. m = d /\ i * d \in Nat
    <3>1. i * 0 <= i * d /\ i * d \in Int /\ i * 0 = 0
      BY <1>0, <1>1, Grows
    <3> QED BY <1>0, <1>1, <3>1
  <2>2. Picture!Abs(i * d) = i * d /\ ~(i * d < 0)
    BY <2>1 DEF Picture!Abs
  <2>3. Mid(i, m, n) \in Int
    BY <1>0, MidBetween
  <2> QED BY <1>0, <1>1, <2>1, <2>2, <2>3 DEF Picture!Rounded, Mid
<1>2. CASE s = -1
  <2>1. m = -d
    BY <1>0, <1>2
  <2>2. i * d \in Int /\ i * m = -(i * d) /\ i * m \in Nat
    BY <1>0, <2>1, Grows
  <2>3. Mid(i, m, n) \in Int
    BY <1>0, MidBetween
  <2> DEFINE a == i * d
  <2>4. CASE a < 0
    <3>1. Picture!Abs(a) = i * m
      BY <2>2, <2>4 DEF Picture!Abs
    <3>2. Picture!Rounded(a, n) = (-1) * Mid(i, m, n)
      <4> HIDE DEF a
      <4> QED BY <1>0, <2>4, <3>1 DEF Picture!Rounded, Mid
    <3> QED BY <1>2, <3>2
  <2>5. CASE ~(a < 0)
    <3>1. a = 0 /\ i * m = 0
      BY <2>2, <2>5
    <3>2. Picture!Abs(a) = i * m
      BY <3>1 DEF Picture!Abs
    <3>3. Mid(i, m, n) = 0
      <4>1. (2 * n) * 0 = 0
        BY <1>0
      <4> QED BY <1>0, <3>1, <4>1, MidIs
    <3>4. Picture!Rounded(a, n) = 1 * Mid(i, m, n)
      <4> HIDE DEF a
      <4> QED BY <1>0, <2>5, <3>2 DEF Picture!Rounded, Mid
    <3> QED BY <1>2, <3>3, <3>4
  <2> QED BY <2>4, <2>5
<1> QED BY <1>0, <1>1, <1>2

(* Between the ends of a line nothing wraps.                               *)
Between(a, c, s, m, k) ==
  /\ a \in 0..(WORD - 1) /\ c \in 0..(WORD - 1) /\ s \in {1, -1} /\ m \in Nat
  /\ m = s * (c - a) /\ k \in 0..m

LEMMA AxisStays ==
  ASSUME NEW a, NEW c, NEW s, NEW m, NEW k, Between(a, c, s, m, k)
  PROVE  u16(a + s * k) = a + s * k /\ a + s * m = c
<1>1. /\ WORD \in Nat
      /\ a \in 0..(WORD - 1) /\ c \in 0..(WORD - 1) /\ s \in {1, -1} /\ m \in Nat
      /\ m = s * (c - a) /\ k \in 0..m
  BY FrameBufAssumption DEF Between
<1>2. a + s * k \in 0..(WORD - 1) /\ a + s * m = c
  BY <1>1
<1> DEFINE b == a + s * k
<1>3. b \in 0..(WORD - 1)
  BY <1>2
<1> HIDE DEF b
<1>4. u16(b) = b
  BY <1>3, Wraps
<1> QED BY <1>2, <1>4 DEF b

LEMMA LinePaints ==
  ASSUME NEW b, Holding(b), NEW x1, NEW y1, NEW x2, NEW y2, CanLine(x1, y1, x2, y2), NEW color
  PROVE  /\ Holding(line(b, x1, y1, x2, y2, color))
         /\ Pixels(line(b, x1, y1, x2, y2, color)) =
              Painted(Pixels(b), Picture!Straight(x1, y1, x2, y2) \cap Scr, color)
<1> DEFINE sx == IF x2 > x1 THEN 1 ELSE -1
           sy == IF y2 > y1 THEN 1 ELSE -1
           dx == sx * (x2 - x1)
           dy == sy * (y2 - y1)
           steep == dy > dx
           long == IF steep THEN dy ELSE dx
           short == IF steep THEN dx ELSE dy
           Point(i) == LET minor == walk(long, short)[i].minor
                       IN  IF steep THEN <<u16(x1 + sx * minor), u16(y1 + sy * i)>>
                           ELSE <<u16(x1 + sx * i), u16(y1 + sy * minor)>>
           P == {Point(i) : i \in 0..(long - 1)} \cup {<<x2, y2>>}
           S == Picture!Straight(x1, y1, x2, y2)
           X == x2 - x1  Y == y2 - y1
<1>0. /\ x1 \in 0..(WORD - 1) /\ y1 \in 0..(WORD - 1) /\ x2 \in 0..(WORD - 1) /\ y2 \in 0..(WORD - 1)
      /\ WORD \in Nat /\ x1 \in Int /\ x2 \in Int /\ y1 \in Int /\ y2 \in Int
  BY FrameBufAssumption DEF CanLine
<1>1. line(b, x1, y1, x2, y2, color) = Set(b, Clipped(P), color)
  BY DEF line
<1>2. /\ sx \in {1, -1} /\ (sx = 1 => X > 0) /\ (sx = -1 => X <= 0) /\ dx \in Nat
      /\ sy \in {1, -1} /\ (sy = 1 => Y > 0) /\ (sy = -1 => Y <= 0) /\ dy \in Nat
      /\ X \in Int /\ Y \in Int /\ dx = sx * X /\ dy = sy * Y
      /\ Picture!Abs(X) = dx /\ Picture!Abs(Y) = dy
  BY <1>0 DEF Picture!Abs
<1>3. /\ long \in Nat /\ short \in 0..long /\ (long = 0 => dx = 0 /\ dy = 0)
      /\ long = IF Picture!Abs(X) > Picture!Abs(Y) THEN Picture!Abs(X) ELSE Picture!Abs(Y)
      /\ dx <= long /\ dy <= long
  <2> HIDE DEF dx, dy, X, Y
  <2> QED BY <1>2
<1>4. S = IF long = 0 THEN {<<x1, y1>>}
          ELSE {<<x1 + Picture!Rounded(i * X, long), y1 + Picture!Rounded(i * Y, long)>> : i \in 0..long}
  <2>1. S = LET n == IF Picture!Abs(X) > Picture!Abs(Y) THEN Picture!Abs(X) ELSE Picture!Abs(Y)
            IN  IF n = 0 THEN {<<x1, y1>>}
                ELSE {<<x1 + Picture!Rounded(i * X, n), y1 + Picture!Rounded(i * Y, n)>> : i \in 0..n}
    BY DEF Picture!Straight
  <2> HIDE DEF S, X, Y, long
  <2> QED BY <1>3, <2>1
<1> DEFINE At(i) == <<x1 + sx * Mid(i, dx, long), y1 + sy * Mid(i, dy, long)>>
<1> HIDE DEF S
<1>5. ASSUME long # 0, NEW i \in 0..long
      PROVE  /\ <<x1 + Picture!Rounded(i * X, long), y1 + Picture!Rounded(i * Y, long)>> = At(i)
             /\ Mid(i, dx, long) \in 0..dx /\ Mid(i, dy, long) \in 0..dy
  <2> HIDE DEF X, Y, sx, sy, dx, dy, long
  <2>1. long \in Nat /\ long > 0 /\ i \in Nat /\ i <= long
    BY <1>3, <1>5
  <2>2. Picture!Rounded(i * X, long) = sx * Mid(i, dx, long)
    <3>1. Axis(X, sx, dx)
      BY <1>2 DEF Axis
    <3>2. PointOf(i, long)
      BY <2>1 DEF PointOf
    <3> QED BY <3>1, <3>2, RoundedIs
  <2>3. Picture!Rounded(i * Y, long) = sy * Mid(i, dy, long)
    <3>1. Axis(Y, sy, dy)
      BY <1>2 DEF Axis
    <3>2. PointOf(i, long)
      BY <2>1 DEF PointOf
    <3> QED BY <3>1, <3>2, RoundedIs
  <2>4. Mid(i, dx, long) \in 0..dx /\ Mid(i, dy, long) \in 0..dy
    BY <1>2, <2>1, MidBetween
  <2> QED BY <2>2, <2>3, <2>4
<1>6. ASSUME long # 0, NEW i \in 0..(long - 1)
      PROVE  Point(i) = At(i)
  <2>0. long \in Nat /\ long > 0 /\ i \in Nat /\ i <= long /\ i \in 0..long
    BY <1>3, <1>6
  <2>1. walk(long, short)[i].minor = Mid(i, short, long)
    <3> HIDE DEF long, short
    <3> QED BY <1>3, <2>0, WalkIs
  <2>2. Mid(i, long, long) = i
    <3> HIDE DEF long
    <3> QED BY <2>0, MidBetween
  <2>3. u16(x1 + sx * Mid(i, dx, long)) = x1 + sx * Mid(i, dx, long)
    <3>1. Mid(i, dx, long) \in 0..dx
      BY <1>5, <1>6, <2>0
    <3> DEFINE k == Mid(i, dx, long)
    <3> HIDE DEF k
    <3>2. k \in 0..dx
      BY <3>1 DEF k
    <3>3. /\ x1 \in 0..(WORD - 1) /\ x2 \in 0..(WORD - 1) /\ sx \in {1, -1} /\ dx \in Nat
          /\ dx = sx * (x2 - x1)
      BY <1>0, <1>2
    <3> HIDE DEF sx, dx
    <3>4. Between(x1, x2, sx, dx, k)
      BY <3>2, <3>3 DEF Between
    <3>5. u16(x1 + sx * k) = x1 + sx * k
      BY <3>4, AxisStays
    <3> QED BY <3>5 DEF k
  <2>4. u16(y1 + sy * Mid(i, dy, long)) = y1 + sy * Mid(i, dy, long)
    <3>1. Mid(i, dy, long) \in 0..dy
      BY <1>5, <1>6, <2>0
    <3> DEFINE k == Mid(i, dy, long)
    <3> HIDE DEF k
    <3>2. k \in 0..dy
      BY <3>1 DEF k
    <3>3. /\ y1 \in 0..(WORD - 1) /\ y2 \in 0..(WORD - 1) /\ sy \in {1, -1} /\ dy \in Nat
          /\ dy = sy * (y2 - y1)
      BY <1>0, <1>2
    <3> HIDE DEF sy, dy
    <3>4. Between(y1, y2, sy, dy, k)
      BY <3>2, <3>3 DEF Between
    <3>5. u16(y1 + sy * k) = y1 + sy * k
      BY <3>4, AxisStays
    <3> QED BY <3>5 DEF k
  <2>5. CASE steep
    <3>1. long = dy /\ short = dx
      BY <2>5
    <3>2. Point(i) = <<u16(x1 + sx * Mid(i, dx, long)), u16(y1 + sy * Mid(i, dy, long))>>
      <4> HIDE DEF sx, sy, dx, dy, long, short
      <4> QED BY <2>1, <2>2, <2>5, <3>1
    <3> QED BY <2>3, <2>4, <3>2
  <2>6. CASE ~steep
    <3>1. long = dx /\ short = dy
      BY <2>6
    <3>2. Point(i) = <<u16(x1 + sx * Mid(i, dx, long)), u16(y1 + sy * Mid(i, dy, long))>>
      <4> HIDE DEF sx, sy, dx, dy, long, short
      <4> QED BY <2>1, <2>2, <2>6, <3>1
    <3> QED BY <2>3, <2>4, <3>2
  <2> QED BY <2>5, <2>6
<1>7. ASSUME long # 0 PROVE At(long) = <<x2, y2>>
  <2>1. Mid(long, dx, long) = dx /\ Mid(long, dy, long) = dy
    <3>1. long \in Nat /\ long > 0 /\ long <= long
      BY <1>3, <1>7
    <3>2. dx \in Nat /\ dy \in Nat
      BY <1>2
    <3> HIDE DEF long, dx, dy
    <3> QED BY ONLY <3>1, <3>2, MidBetween
  <2>2. x1 + sx * dx = x2 /\ y1 + sy * dy = y2
    BY <1>0
  <2> HIDE DEF dx, dy, sx, sy, long
  <2> QED BY <2>1, <2>2
<1>8. P = S
  <2>1. CASE long = 0
    <3>1. x1 = x2 /\ y1 = y2
      BY <1>0, <1>2, <1>3, <2>1
    <3>2. {Point(i) : i \in 0..(long - 1)} = {}
      <4> HIDE DEF Point, long
      <4> QED BY <2>1
    <3> HIDE DEF Point, long
    <3> QED BY <1>4, <2>1, <3>1, <3>2
  <2>2. CASE long # 0
    <3>1. S = {At(i) : i \in 0..long}
      <4>1. S = {<<x1 + Picture!Rounded(i * X, long), y1 + Picture!Rounded(i * Y, long)>> : i \in 0..long}
        <5> HIDE DEF long, X, Y
        <5> QED BY <1>4, <2>2
      <4>2. \A i \in 0..long :
              <<x1 + Picture!Rounded(i * X, long), y1 + Picture!Rounded(i * Y, long)>> = At(i)
        BY <1>5, <2>2
      <4> HIDE DEF At, X, Y, long
      <4> QED BY <4>1, <4>2
    <3>2. {Point(i) : i \in 0..(long - 1)} = {At(i) : i \in 0..(long - 1)}
      <4>1. \A i \in 0..(long - 1) : Point(i) = At(i)
        BY <1>6, <2>2
      <4> HIDE DEF At, Point, long
      <4> QED BY <4>1
    <3>3. At(long) = <<x2, y2>>
      BY <1>7, <2>2
    <3>4. \A i : i \in 0..long <=> i \in 0..(long - 1) \/ i = long
      <4> HIDE DEF long
      <4> QED BY <1>3, <2>2
    <3> HIDE DEF At, Point, long
    <3> QED BY <3>1, <3>2, <3>3, <3>4
  <2> QED BY <2>1, <2>2
<1>9. \A p \in S : p = <<p[1], p[2]>>
  <2> HIDE DEF long, X, Y
  <2> QED BY <1>4
<1> HIDE DEF P
<1>10. line(b, x1, y1, x2, y2, color) = Set(b, CellsOf(S \cap Scr), color)
  BY <1>1, <1>8, <1>9, ClippedIs
<1>11. S \cap Scr \in SUBSET Scr
  OBVIOUS
<1> QED BY <1>10, <1>11, SetPaints DEF S
(* Each operation gives the picture that Drawn promises.                   *)
LEMMA ResultPaints ==
  ASSUME NEW o \in Drawings, Holding(buffer)
  PROVE  Holding(Result(o)) /\ Pixels(Result(o)) = Picture!Drawn(o)
<1>0. CanDraw(o) /\ Pixels(buffer) = Lit
  BY DrawingsAssumption, PictureScreen
<1>1. ASSUME NEW r, NEW P, NEW color, Result(o) = r, Picture!Drawn(o) = Picture!Paint(P, color),
             Holding(r), Pixels(r) = Painted(Pixels(buffer), P \cap Scr, color)
      PROVE  Holding(Result(o)) /\ Pixels(Result(o)) = Picture!Drawn(o)
  BY <1>0, <1>1, PaintIs
<1>2. CASE o.kind = "fill"
  <2> DEFINE r == fill_rect(buffer, 0, 0, width, height, o.color)
             A == Picture!Area(0, 0, width, height)
  <2>1. Result(o) = r /\ Picture!Drawn(o) = Picture!Paint(Picture!Screen, o.color)
    BY <1>2 DEF Result, Picture!Drawn
  <2>2. OnScr(0, 0, width, height)
    BY Sizes8 DEF OnScr
  <2>3. Holding(r) /\ Pixels(r) = Painted(Pixels(buffer), A, o.color)
    BY <2>2, FillPaints
  <2>4. A = Scr
    BY Sizes8 DEF Picture!Area, Scr
  <2> HIDE DEF r, A
  <2> QED BY <1>1, <2>1, <2>3, <2>4, PictureScreen
<1>3. CASE o.kind = "rect" /\ OnScr(o.x, o.y, o.w, o.h) /\ o.w # 0 /\ o.h # 0 /\ o.fill \in BOOLEAN
  <2> DEFINE r == rect(buffer, o.x, o.y, o.w, o.h, o.color, o.fill)
             A == Picture!Area(o.x, o.y, o.w, o.h)  B == Picture!Border(o.x, o.y, o.w, o.h)
             P == IF o.fill THEN A ELSE B
  <2>1. Result(o) = r /\ Picture!Drawn(o) = Picture!Paint(P, o.color)
    BY <1>3 DEF Result, Picture!Drawn
  <2>2. Holding(r) /\ Pixels(r) = Painted(Pixels(buffer), P, o.color) /\ B \subseteq Scr
    BY <1>3, RectPaints
  <2>3. A \subseteq Scr
    BY <1>3, FillPaints
  <2>4. P \cap Scr = P
    BY <2>2, <2>3
  <2> HIDE DEF r, A, B, P
  <2> QED BY <1>1, <2>1, <2>2, <2>4
<1>4. CASE o.kind = "hline" /\ OnScr(o.x, o.y, o.w, 1)
  <2> DEFINE r == fill_rect(buffer, o.x, o.y, o.w, 1, o.color)
             A == Picture!Area(o.x, o.y, o.w, 1)
  <2>1. Result(o) = r /\ Picture!Drawn(o) = Picture!Paint(A, o.color)
    BY <1>4 DEF Result, Picture!Drawn
  <2>2. Holding(r) /\ Pixels(r) = Painted(Pixels(buffer), A, o.color) /\ A \subseteq Scr
    BY <1>4, FillPaints
  <2>3. A \cap Scr = A
    BY <2>2
  <2> HIDE DEF r, A
  <2> QED BY <1>1, <2>1, <2>2, <2>3
<1>5. CASE o.kind = "vline" /\ OnScr(o.x, o.y, 1, o.h)
  <2> DEFINE r == fill_rect(buffer, o.x, o.y, 1, o.h, o.color)
             A == Picture!Area(o.x, o.y, 1, o.h)
  <2>1. Result(o) = r /\ Picture!Drawn(o) = Picture!Paint(A, o.color)
    BY <1>5 DEF Result, Picture!Drawn
  <2>2. Holding(r) /\ Pixels(r) = Painted(Pixels(buffer), A, o.color) /\ A \subseteq Scr
    BY <1>5, FillPaints
  <2>3. A \cap Scr = A
    BY <2>2
  <2> HIDE DEF r, A
  <2> QED BY <1>1, <2>1, <2>2, <2>3
<1>6. CASE o.kind = "line" /\ CanLine(o.x1, o.y1, o.x2, o.y2)
  <2> DEFINE r == line(buffer, o.x1, o.y1, o.x2, o.y2, o.color)
             S == Picture!Straight(o.x1, o.y1, o.x2, o.y2)
  <2>1. Result(o) = r /\ Picture!Drawn(o) = Picture!Paint(S, o.color)
    BY <1>6 DEF Result, Picture!Drawn
  <2>2. Holding(r) /\ Pixels(r) = Painted(Pixels(buffer), S \cap Scr, o.color)
    BY <1>6, LinePaints
  <2> HIDE DEF r, S
  <2> QED BY <1>1, <2>1, <2>2
<1>7. CASE o.kind = "text" /\ CanText(o.str, o.x, o.y)
  <2> DEFINE r == text(buffer, o.str, o.x, o.y, o.color)
             L == Picture!Letters(o.str, o.x, o.y)
  <2>1. Result(o) = r /\ Picture!Drawn(o) = Picture!Paint(L, o.color)
    BY <1>7 DEF Result, Picture!Drawn
  <2>2. Holding(r) /\ Pixels(r) = Painted(Pixels(buffer), L \cap Scr, o.color)
    BY <1>7, TextPaints
  <2> HIDE DEF r, L
  <2> QED BY <1>1, <2>1, <2>2
<1>8. CASE o.kind = "blit" /\ CanBlit(o.sprite, o.x, o.y, o.palette)
  <2>1. Result(o) = blit(buffer, o.sprite, o.x, o.y, o.key, o.palette)
        /\ Picture!Drawn(o) = Picture!Covered(o)
    BY <1>8 DEF Result, Picture!Drawn
  <2> QED BY <1>0, <1>8, <2>1, BlitPaints
<1>9. CASE o.kind = "scroll" /\ o.xstep \in Int /\ o.ystep \in Int
  <2>1. Result(o) = scroll(buffer, o.xstep, o.ystep)
        /\ Picture!Drawn(o) = Picture!Moved(o.xstep, o.ystep)
    BY <1>9 DEF Result, Picture!Drawn
  <2> QED BY <1>0, <1>9, <2>1, ScrollPaints
<1> QED BY <1>0, <1>2, <1>3, <1>4, <1>5, <1>6, <1>7, <1>8, <1>9 DEF CanDraw

LEMMA InReceived ==
  ASSUME NEW b, NEW c, NEW d, NEW x, NEW y
  PROVE  <<x, y>> \in Received(b, c, d) <=>
           /\ x \in 0..(PANEL - 1) /\ y \in 0..(height - 1) /\ x \in c..d
           /\ (y % 8) \in b[1 + (y \div 8) * (d - c + 1) + (x - c)]
<1> DEFINE N == (0..(PANEL - 1)) \X (0..(height - 1))
           F(p) == p[1] \in c..d /\ (p[2] % 8) \in b[1 + (p[2] \div 8) * (d - c + 1) + (p[1] - c)]
           A == x \in 0..(PANEL - 1) /\ y \in 0..(height - 1)
           B == x \in c..d /\ (y % 8) \in b[1 + (y \div 8) * (d - c + 1) + (x - c)]
<1>1. Received(b, c, d) = {p \in N : F(p)}
  BY DEF Received
<1>2. (<<x, y>> \in N <=> A) /\ (F(<<x, y>>) <=> B)
  OBVIOUS
<1> HIDE DEF F, N, A, B
<1>3. <<x, y>> \in Received(b, c, d) <=> A /\ B
  BY <1>1, <1>2
<1> QED BY <1>3 DEF A, B

(* The controller sees the pixels of the buffer, each in its place.        *)
LEMMA ReceivedIs ==
  ASSUME NEW b, Holding(b)
  PROVE  LET seen == Received(b, col_offset, col_offset + width - 1)
         IN  /\ {<<p[1] - col_offset, p[2]>> : p \in seen} = Pixels(b)
             /\ seen \subseteq (0..(PANEL - 1)) \X (0..(height - 1))
<1> DEFINE c == col_offset
           d == c + width - 1
           seen == Received(b, c, d)
<1>0. /\ c \in Nat /\ width \in Nat /\ width > 0 /\ c + width = PANEL /\ PANEL \in Nat /\ height \in Nat
      /\ stride = width /\ d = c + width - 1 /\ d \in Int
  BY FrameBufAssumption, Sizes8 DEF col_offset
<1>1. ASSUME NEW x, NEW y
      PROVE  <<x, y>> \in seen <=>
               /\ x \in 0..(PANEL - 1) /\ y \in 0..(height - 1) /\ x \in c..d
               /\ (y % 8) \in b[1 + (y \div 8) * (d - c + 1) + (x - c)]
  <2> HIDE DEF c, d
  <2> QED BY InReceived
<1>2. ASSUME NEW x, NEW y
      PROVE  <<x, y>> \in Pixels(b) <=>
               <<x, y>> \in Scr /\ (y % 8) \in b[(y \div 8) * width + x + 1]
  <2>1. <<x, y>> \in Pixels(b) <=> <<x, y>> \in Scr /\ getpixel(b, x, y) = 1
    BY DEF Pixels
  <2>2. getpixel(b, x, y) = IF (y % 8) \in b[(y \div 8) * width + x + 1] THEN 1 ELSE 0
    BY <1>0 DEF getpixel, Cell
  <2> QED BY <2>1, <2>2
<1>3. ASSUME NEW x \in Int, NEW y \in 0..(height - 1)
      PROVE  <<x, y>> \in seen <=> <<x - c, y>> \in Pixels(b)
  <2> DEFINE z == x - c
  <2> HIDE DEF c, d, seen
  <2>1. x \in 0..(PANEL - 1) /\ x \in c..d <=> z \in 0..(width - 1)
    BY <1>0
  <2>2. 1 + (y \div 8) * (d - c + 1) + (x - c) = (y \div 8) * width + z + 1
    <3>1. d - c + 1 = width
      BY <1>0
    <3> DEFINE q == (y \div 8) * width
    <3>2. q \in Int /\ z \in Int
      <4>1. y \div 8 \in Int
        BY <1>0
      <4> QED BY <1>0, <4>1
    <3>3. 1 + q + z = q + z + 1
      <4> HIDE DEF q, z
      <4> QED BY <3>2
    <3> QED BY <3>1, <3>3
  <2> HIDE DEF z
  <2>3. <<z, y>> \in Scr <=> z \in 0..(width - 1)
    BY DEF Scr
  <2> QED BY <1>1, <1>2, <2>1, <2>2, <2>3 DEF z
<1>4. seen \subseteq (0..(PANEL - 1)) \X (0..(height - 1))
  BY DEF Received
<1>5. ASSUME NEW p \in seen PROVE <<p[1] - c, p[2]>> \in Pixels(b)
  <2> DEFINE x == p[1]  y == p[2]
  <2>1. p = <<x, y>> /\ x \in Int /\ y \in 0..(height - 1)
    BY <1>0, <1>4, <1>5
  <2> HIDE DEF c, seen, x, y
  <2>2. <<x - c, y>> \in Pixels(b)
    BY <1>3, <1>5, <2>1
  <2> QED BY <2>2 DEF x, y
<1>6. ASSUME NEW r \in Pixels(b) PROVE \E p \in seen : r = <<p[1] - c, p[2]>>
  <2> DEFINE x == r[1]  y == r[2]  p == <<x + c, y>>
  <2>1. r = <<x, y>> /\ x \in Int /\ y \in 0..(height - 1)
    BY <1>0, <1>6 DEF Pixels, Scr
  <2> HIDE DEF c, seen, x, y
  <2>2. x + c \in Int /\ (x + c) - c = x
    BY <1>0, <2>1
  <2>3. <<x + c, y>> \in seen
    BY <1>3, <1>6, <2>1, <2>2
  <2>4. p \in seen /\ r = <<p[1] - c, p[2]>>
    BY <2>1, <2>2, <2>3
  <2> QED BY <2>4
<1>7. {<<p[1] - c, p[2]>> : p \in seen} = Pixels(b)
  <2> HIDE DEF c, seen
  <2> QED BY <1>5, <1>6
<1> QED BY <1>4, <1>7
(* What drawing and showing keep: the types, the control byte with them,   *)
(* and a user who sees pixels of the screen only.                          *)
CanvasHolds == FrameBufTypeOK /\ OnScreen \subseteq Scr

LEMMA CanvasInitHolds == CanvasInit => CanvasHolds /\ Picture!Init
<1> SUFFICES ASSUME CanvasInit PROVE CanvasHolds /\ Picture!Init
  OBVIOUS
<1>1. Holding(buffer)
  <2>1. 0 \in 0..(size - 1)
    <3>1. width * (height \div 8) \in Nat
      BY Sizes8
    <3> QED BY <3>1 DEF size
  <2> QED BY <2>1 DEF CanvasInit, Blank, Holding, ControlByte
<1>2. Lit = {}
  <2>1. ASSUME NEW x \in 0..(width - 1), NEW y \in 0..(height - 1)
        PROVE  getpixel(buffer, x, y) # 1
    <3>1. Cell(x, y)[1] \in 1..(size - 1)
      BY <2>1, CellIs
    <3>2. buffer[Cell(x, y)[1]] = {}
      BY <3>1 DEF CanvasInit, Blank
    <3> HIDE DEF Cell
    <3> QED BY <3>2 DEF getpixel
  <2> QED BY <2>1 DEF Lit
<1>3. OnScreen \subseteq Scr
  <2>1. window \subseteq (col_offset..(PANEL - 1)) \X (0..(height - 1))
    BY DEF CanvasInit
  <2>2. ASSUME NEW p \in window PROVE <<p[1] - col_offset, p[2]>> \in Scr
    <3>1. p[1] \in col_offset..(PANEL - 1) /\ p[2] \in 0..(height - 1)
      BY <2>1
    <3>2. p[1] - col_offset \in 0..(width - 1)
      BY <3>1, FrameBufAssumption DEF col_offset
    <3> QED BY <3>1, <3>2 DEF Scr
  <2> QED BY <2>2 DEF OnScreen
<1>4. drawing = {}
  BY DEF CanvasInit
<1>5. FrameBufTypeOK
  <2>1. window \subseteq (0..(PANEL - 1)) \X (0..(height - 1))
    <3>1. col_offset..(PANEL - 1) \subseteq 0..(PANEL - 1)
      BY FrameBufAssumption DEF col_offset
    <3> QED BY <3>1 DEF CanvasInit
  <2>2. drawings \in 0..MaxDrawings
    BY FrameBufAssumption DEF CanvasInit
  <2> QED BY <1>1, <2>1, <2>2 DEF FrameBufTypeOK, Holding
<1> QED BY <1>2, <1>3, <1>4, <1>5, PictureScreen DEF CanvasHolds, Picture!Init

LEMMA CanvasStepHolds ==
  CanvasHolds /\ [CanvasNext]_canvas => CanvasHolds' /\ (canvas' # canvas => Picture!Next)
<1> SUFFICES ASSUME CanvasHolds, [CanvasNext]_canvas
             PROVE  CanvasHolds' /\ (canvas' # canvas => Picture!Next)
  OBVIOUS
<1>0. Lit = Pixels(buffer) /\ Lit' = Pixels(buffer')
  BY DEF Lit, Pixels, Scr
<1>4. Holding(buffer)
  BY DEF CanvasHolds, FrameBufTypeOK, Holding
<1>1. ASSUME NEW o \in Drawings, Draw(o) PROVE CanvasHolds' /\ Picture!Next
  <2>1. Holding(Result(o)) /\ Pixels(Result(o)) = Picture!Drawn(o)
    BY <1>4, ResultPaints
  <2>2. buffer' = Result(o) /\ window' = window /\ drawing' = {o}
    BY <1>1 DEF Draw
  <2>3. OnScreen' = OnScreen /\ OnScreen' \subseteq Scr
    BY <2>2 DEF OnScreen, CanvasHolds
  <2>5. drawings' \in 0..MaxDrawings
    BY <1>1, FrameBufAssumption DEF Draw, CanvasHolds, FrameBufTypeOK
  <2>6. FrameBufTypeOK'
    BY <2>1, <2>2, <2>5 DEF CanvasHolds, FrameBufTypeOK, Holding, size, ControlByte
  <2>4. Lit' = Picture!Drawn(o)
    BY <1>0, <2>1, <2>2
  <2> QED BY <2>2, <2>3, <2>4, <2>6 DEF CanvasHolds, Picture!Next, Picture!Draw, Scr
<1>2. ASSUME show PROVE CanvasHolds' /\ Picture!Next
  <2>1. buffer' = buffer
    BY <1>4, <1>2 DEF show, Holding
  <2>2. window' = Received(buffer, col_offset, col_offset + width - 1) /\ drawing' = {}
    BY <1>2, <2>1 DEF show
  <2>3. OnScreen' = Pixels(buffer)
    BY <1>4, <2>2, ReceivedIs DEF OnScreen
  <2>4. Lit' = Lit /\ OnScreen' = Lit
    BY <1>0, <2>1, <2>3
  <2>5. Lit \subseteq Scr
    BY DEF Lit, Scr
  <2>6. window' \subseteq (0..(PANEL - 1)) \X (0..(height - 1))
    BY <1>4, <2>2, ReceivedIs
  <2>7. FrameBufTypeOK'
    BY <1>2, <2>1, <2>6 DEF show, CanvasHolds, FrameBufTypeOK, size, ControlByte
  <2> QED BY <2>2, <2>4, <2>5, <2>7 DEF CanvasHolds, Picture!Next, Picture!Show, Scr
<1>3. CASE UNCHANGED canvas
  BY <1>3 DEF CanvasHolds, FrameBufTypeOK, OnScreen, Scr, canvas, size, ControlByte
<1> QED BY <1>1, <1>2, <1>3 DEF CanvasNext

(* Nothing that is drawn reaches the control byte or a byte outside the    *)
(* buffer.                                                                 *)
THEOREM CanvasTypes == CanvasSpec => []FrameBufTypeOK
<1>1. CanvasHolds => FrameBufTypeOK
  BY DEF CanvasHolds
<1> QED BY <1>1, CanvasInitHolds, CanvasStepHolds, PTL DEF CanvasSpec

(* The display shows what was drawn: whatever is drawn and shown, in any   *)
(* order and on a buffer of any size, each operation of framebuf.cpp       *)
(* changes the pixels as geometry says and show() brings them to the       *)
(* screen as they are.                                                     *)
THEOREM ImplementsCanvasAlways == CanvasSpec => ImplementsCanvas
<1>1. CanvasSpec => Picture!Init /\ []CanvasHolds
  BY CanvasInitHolds, CanvasStepHolds, PTL DEF CanvasSpec
<1>2. CanvasHolds /\ [CanvasNext]_canvas => [canvas' # canvas => Picture!Next]_canvas
  BY CanvasStepHolds
<1> QED BY <1>1, <1>2, PTL DEF CanvasSpec, ImplementsCanvas
================================================================================
