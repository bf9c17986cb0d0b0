------------------------------- MODULE SetupMenu -------------------------------
(***************************************************************************)
(* main.cpp before the control loop: the start menu and the text entry of  *)
(* textInput() in graphics.cpp, the mailbox and the count that the GPIO    *)
(* interrupt of input.cpp writes at any time, the attempts to connect, and *)
(* storeCredentials() of logHandler.cpp, page by page, with the reset that *)
(* may come between two pages or within one.  A character is a table and   *)
(* an index in it; below 0 it is a stray, whatever byte lies that far      *)
(* before the table.  fetchCredentials() is not called in main; what it    *)
(* would find is Fetched.                                                  *)
(***************************************************************************)
EXTENDS Integers, Sequences, SequencesExt

CONSTANTS
  INPUT_SIZE,  \* characters input_string holds, and storeCredentials() admits: 60
  Length,      \* of the tables of characters: 26, 26, 31, 10
  START,       \* where the cursor starts: 10000
  MAX_INT,     \* largest port std::stoi() takes, 2^31-1
  ShortPorts,  \* ports that sprintf() leaves within portStr: -99999999..999999999
  OldSettings,  \* settings a connection was made with before this power-up
  Pins,        \* the buttons an operator presses
  Turns,       \* by how much the knob turns between two looks at it
  MaxPresses, MaxHasty, MaxTurns, MaxAttempts, MaxResets   \* bounds on the environment

ASSUME SetupAssumption ==
  /\ INPUT_SIZE \in Nat \ {0} /\ MAX_INT \in Nat
  /\ Length \in [0..3 -> Nat \ {0}] /\ START \in Nat
  /\ Pins \subseteq {7, 8, 9, 12} /\ Turns \subseteq Int
  /\ MaxPresses \in Nat /\ MaxHasty \in Nat /\ MaxTurns \in Nat
  /\ MaxAttempts \in Nat /\ MaxResets \in Nat

VARIABLES
  pc, stage, ssid_stage, rotvalue, prevval, pos,  \* as in the code
  place,                        \* i in main
  current_Array, input,         \* static in graphics.cpp: input_string
  settings, use_wifi,           \* ssid, pw, hostname, port
  pressed, pin, knob,           \* DataPass data, which the interrupt writes
  pages,                        \* the EEPROM's four pages of credentials
  presses, hasty, served, turns, attempts, resets,  \* history: how many so far
  verified                      \* history: settings a connection was made with

menu == <<stage, ssid_stage, rotvalue, place, prevval, pos>>
entry == <<current_Array, input, settings>>
mailbox == <<pressed, pin, knob>>
history == <<presses, hasty, served, turns, attempts, resets, verified>>
setup == <<pc, menu, entry, use_wifi, mailbox, pages, history>>

Fields == <<"ssid", "pw", "hostname", "port">>
Default == [ssid |-> << <<0, 0>> >>, pw |-> << <<0, 0>> >>,
            hostname |-> << <<3, 0>> >>, port |-> 1]

(* C's remainder has the sign of the dividend.                             *)
Rem(n, d) == IF n < 0 THEN -((-n) % d) ELSE n % d

Value(text) == FoldLeft(LAMBDA n, c : 10 * n + c[2], 0, text)

(* The ports std::stoi() may find in a text: a stray may be a digit, a     *)
(* sign or the end of the number.                                          *)
HasStray(text) == \E c \in Range(text) : c[2] < 0
Ports(text) == IF HasStray(text) THEN (-MAX_INT - 1)..MAX_INT
               ELSE {port \in {Value(text)} : text # <<>> /\ port <= MAX_INT}

-----------------------------------------------------------------------------
(* A page: the text or number in it, and whether its CRC is right.         *)
(* createCredentialArray() counts a CRC in for the SSID too, but none is   *)
(* appended; a text as long as admitted runs past the page.                *)
Sealed(field, value) == field # "ssid" /\ (field = "port" \/ Len(value) < INPUT_SIZE)

Page(field, value) == [value |-> value, sealed |-> Sealed(field, value)]

(* What a page may be once written.  Behind portStr sprintf() may overwrite *)
(* what the port is copied to, and then more than the port is in the page. *)
Garbled == MAX_INT + 1
Pages(field, value) ==
  IF field = "port" /\ value \notin ShortPorts
  THEN [value : {value, Garbled}, sealed : BOOLEAN]
  ELSE {Page(field, value)}

Torn == [value |-> {}, sealed |-> FALSE]
Fetched(field) == IF pages[field].sealed THEN {pages[field].value} ELSE {}

Restart ==   \* the outer loop of main
  /\ stage' = 0 /\ ssid_stage' = 0 /\ rotvalue' = 0 /\ place' = START /\ prevval' = 0

MainInit ==
  /\ stage = 0 /\ ssid_stage = 0 /\ rotvalue = 0 /\ place = START /\ prevval = 0 /\ pos = 0
  /\ current_Array = 0 /\ input = <<>> /\ settings = Default
  /\ use_wifi = TRUE /\ pressed = FALSE /\ pin = 0 /\ knob = 0

SetupInit ==
  /\ pc = "top" /\ MainInit
  /\ \/ verified = {} /\ pages = [f \in Range(Fields) |-> Torn]
     \/ \E v \in OldSettings : \E port \in Pages("port", v.port) :
          /\ verified = {v}
          /\ pages = [f \in Range(Fields) |-> IF f = "port" THEN port ELSE Page(f, v[f])]
  /\ presses = 0 /\ hasty = 0 /\ served = 0 /\ turns = 0 /\ attempts = 0 /\ resets = 0

-----------------------------------------------------------------------------
(* Slips for the properties to notice; no specification uses them.         *)
PrepareTextTableLate ==
  /\ pc = "text"
  /\ pos' = Rem(place, Length[current_Array])
  /\ current_Array' = IF ssid_stage = 3 THEN 3 ELSE current_Array
  /\ IF pressed THEN pc' = "act" /\ pressed' = FALSE
                ELSE pc' = "pin7" /\ UNCHANGED pressed
  /\ UNCHANGED <<stage, ssid_stage, rotvalue, place, prevval, input, settings, use_wifi,
                 pin, knob, pages, history>>

PrepareTextUncleared ==
  /\ pc = "text" /\ pc' = IF pressed THEN "act" ELSE "pin7"
  /\ current_Array' = IF ssid_stage = 3 THEN 3 ELSE current_Array
  /\ pos' = Rem(place, Length[current_Array'])
  /\ UNCHANGED <<stage, ssid_stage, rotvalue, place, prevval, input, settings, use_wifi,
                 mailbox, pages, history>>

AttemptStoresAlways ==
  /\ pc = "connect" /\ attempts < MaxAttempts /\ attempts' = attempts + 1
  /\ pc' = Fields[1]
  /\ \E success \in BOOLEAN : verified' = IF success THEN verified \cup {settings} ELSE verified
  /\ UNCHANGED <<menu, entry, use_wifi, mailbox, pages, presses, hasty, served, turns, resets>>

NextPageForgetsPort(field) ==
  IF field = "hostname" THEN "running"
  ELSE Fields[1 + CHOOSE k \in DOMAIN Fields : Fields[k] = field]

-----------------------------------------------------------------------------
(* The interrupt, at any time.                                             *)
Press(p) ==
  /\ presses < MaxPresses /\ presses' = presses + 1
  /\ hasty' = hasty + (IF pressed THEN 1 ELSE 0) /\ hasty' <= MaxHasty
  /\ pin' = p /\ pressed' = TRUE
  /\ UNCHANGED <<pc, menu, entry, use_wifi, knob, pages, served, turns, attempts, resets,
                 verified>>

Turn(n) ==
  /\ turns < MaxTurns /\ turns' = turns + 1
  /\ knob' = knob + n
  /\ UNCHANGED <<pc, menu, entry, use_wifi, pressed, pin, pages, presses, hasty, served, attempts,
                 resets, verified>>

-----------------------------------------------------------------------------
(* One pass of the menu's loop, from stage 0 or from stage 1.              *)
ShowStartMenu ==
  /\ pc = "top" /\ stage = 0 /\ pc' = "pin9"
  /\ rotvalue' = Rem(knob, 6)
  /\ UNCHANGED <<stage, ssid_stage, place, prevval, pos, entry, use_wifi, mailbox, pages, history>>

MoveCursor ==
  /\ pc = "top" /\ stage = 1 /\ pc' = "prevval"
  /\ place' = IF prevval < knob THEN place + 1 ELSE IF prevval > knob THEN place - 1 ELSE place
  /\ UNCHANGED <<stage, ssid_stage, rotvalue, prevval, pos, entry, use_wifi, mailbox, pages,
                 history>>

KeepCount ==
  /\ pc = "prevval" /\ pc' = "text"
  /\ prevval' = knob
  /\ UNCHANGED <<stage, ssid_stage, rotvalue, place, pos, entry, use_wifi, mailbox, pages, history>>

(* textInput() to the switch on the pin: the table, the cursor, the flag.  *)
PrepareText ==
  /\ pc = "text"
  /\ current_Array' = IF ssid_stage = 3 THEN 3 ELSE current_Array
  /\ pos' = Rem(place, Length[current_Array'])
  /\ IF pressed THEN pc' = "act" /\ pressed' = FALSE
                ELSE pc' = "pin7" /\ UNCHANGED pressed
  /\ UNCHANGED <<stage, ssid_stage, rotvalue, place, prevval, input, settings, use_wifi,
                 pin, knob, pages, history>>

(* A stray may be 0, and then strcat() adds nothing.                       *)
Act ==
  /\ pc = "act" /\ pc' = "pin7"
  /\ served' = served + 1
  /\ current_Array' = IF pin = 9 THEN (current_Array + 1) % 4 ELSE current_Array
  /\ input' \in CASE pin = 8 /\ Len(input) < INPUT_SIZE ->
                       {Append(input, <<current_Array, pos>>)} \cup {t \in {input} : pos < 0}
                  [] pin = 7 /\ input # <<>> -> {Front(input)}
                  [] OTHER -> {input}
  /\ UNCHANGED <<menu, settings, use_wifi, mailbox, pages,
                 presses, hasty, turns, attempts, resets, verified>>

(* main reads the pin, and then the flag.                                  *)
Look(here, p, flag, next) ==
  /\ pc = here /\ pc' = IF pin = p THEN flag ELSE next
  /\ UNCHANGED <<menu, entry, use_wifi, mailbox, pages, history>>

NotPressed(flag, next) ==
  /\ pc = flag /\ ~pressed /\ pc' = next
  /\ UNCHANGED <<menu, entry, use_wifi, mailbox, pages, history>>

Serve(flag) ==
  /\ pc = flag /\ pressed
  /\ pressed' = FALSE /\ served' = served + 1
  /\ UNCHANGED <<place, prevval, pos, current_Array, pin, knob, pages,
                 presses, hasty, turns, attempts, resets, verified>>

(* Pin 7 within main: all the text is dropped; without text, back to the   *)
(* start menu, whose key is looked for in the same pass.                   *)
Leave ==
  /\ Serve("flag7") /\ input' = <<>>
  /\ IF input = <<>> THEN pc' = "pin9" /\ stage' = 0 ELSE pc' = "top" /\ UNCHANGED stage
  /\ UNCHANGED <<ssid_stage, rotvalue, settings, use_wifi>>

(* Pin 12: the text is the field of this stage.  std::stoi() throws for a  *)
(* port without digits and for one out of range, which nobody catches.     *)
Confirm ==
  /\ Serve("flag12")
  /\ \/ /\ ssid_stage = 4 /\ pc' = "connect" /\ UNCHANGED <<ssid_stage, settings, input>>
     \/ /\ ssid_stage = 3 /\ (Ports(input) = {} \/ HasStray(input))
        /\ pc' = "halted" /\ input' = <<>> /\ UNCHANGED <<ssid_stage, settings>>
     \/ /\ ssid_stage < 4 /\ ssid_stage' = ssid_stage + 1
        /\ pc' = "top" /\ input' = <<>>
        /\ \E value \in IF ssid_stage = 3 THEN Ports(input) ELSE {input} :
             settings' = [settings EXCEPT ![Fields[ssid_stage + 1]] = value]
  /\ UNCHANGED <<stage, rotvalue, use_wifi>>

(* Pin 9 in the start menu.  A knob turned below 0 has no entry.           *)
Select ==
  /\ Serve("flag9") /\ stage = 0
  /\ CASE rotvalue \in {0, 1} -> pc' = "top" /\ stage' = 1 /\ UNCHANGED <<rotvalue, use_wifi>>
       [] rotvalue \in {2, 3} -> pc' = "connect" /\ UNCHANGED <<stage, rotvalue, use_wifi>>
       [] rotvalue \in {4, 5} ->
            pc' = "running" /\ use_wifi' = FALSE /\ UNCHANGED <<stage, rotvalue>>
       [] OTHER -> pc' = "top" /\ rotvalue' = 0 /\ UNCHANGED <<stage, use_wifi>>
  /\ UNCHANGED <<ssid_stage, input, settings>>

Looks ==
  \/ Look("pin7", 7, "flag7", "pin12") \/ NotPressed("flag7", "pin12")
  \/ Look("pin12", 12, "flag12", "top") \/ NotPressed("flag12", "top")
  \/ Look("pin9", 9, "flag9", "top") \/ NotPressed("flag9", "top")

-----------------------------------------------------------------------------
(* connect_to_server(), connect_to_broker() and subscribe() on new objects *)
(* (modules IPStack and MqttSession): main looks at the outcome only.      *)
Attempt == pc = "connect" /\ attempts < MaxAttempts /\ attempts' = attempts + 1

(* Then verify_connection(): another round of the menu, or the four pages. *)
(* The text typed and not confirmed stays.                                 *)
AttemptFails ==
  /\ Attempt /\ pc' = "top"
  /\ Restart
  /\ UNCHANGED <<pos, entry, use_wifi, mailbox, pages, presses, hasty, served, turns, resets, verified>>

AttemptSucceeds ==
  /\ Attempt /\ pc' = Fields[1]
  /\ verified' = verified \cup {settings}
  /\ UNCHANGED <<menu, entry, use_wifi, mailbox, pages, presses, hasty, served, turns, resets>>

NextPage(field) ==
  IF field = "port" THEN "running"
  ELSE Fields[1 + CHOOSE k \in DOMAIN Fields : Fields[k] = field]

WritePage ==
  /\ pc \in Range(Fields) /\ pc' = NextPage(pc)
  /\ \E page \in Pages(pc, settings[pc]) : pages' = [pages EXCEPT ![pc] = page]
  /\ UNCHANGED <<menu, entry, use_wifi, mailbox, history>>

(* A reset: all but the EEPROM begins anew.  Within a page write some of   *)
(* its bytes are old and some new, and then the CRC is not right.          *)
Reset(torn) ==
  /\ resets < MaxResets /\ resets' = resets + 1
  /\ pc' = "top"
  /\ stage' = 0 /\ ssid_stage' = 0 /\ rotvalue' = 0 /\ place' = START /\ prevval' = 0 /\ pos' = 0
  /\ current_Array' = 0 /\ input' = <<>> /\ settings' = Default
  /\ use_wifi' = TRUE /\ pressed' = FALSE /\ pin' = 0 /\ knob' = 0
  /\ torn => pc \in Range(Fields)
  /\ pages' = IF torn THEN [pages EXCEPT ![pc] = Torn] ELSE pages
  /\ UNCHANGED <<presses, hasty, served, turns, attempts, verified>>

SetupNext ==
  \/ ShowStartMenu \/ MoveCursor \/ KeepCount \/ PrepareText \/ Act \/ Looks
  \/ Leave \/ Confirm \/ Select \/ AttemptFails \/ AttemptSucceeds \/ WritePage
  \/ (\E p \in Pins : Press(p)) \/ (\E n \in Turns : Turn(n))
  \/ (\E torn \in BOOLEAN : Reset(torn))

SetupSpec == SetupInit /\ [][SetupNext]_setup

-----------------------------------------------------------------------------
(* Every character typed and confirmed is in the table it was taken from,  *)
(* though tables differ in length and change between two looks at the      *)
(* cursor, and a port is typed with the digits' table; a stray comes in    *)
(* only after the knob was turned more often than START times.             *)
WrittenInTable ==
  /\ \A c \in Range(input \o settings.ssid \o settings.pw \o settings.hostname) :
       c[2] < Length[c[1]] /\ (c[2] < 0 => turns > START)
  /\ ssid_stage = 3 => \A c \in Range(input) : c[1] = 3

(* A key acts no more often than keys were pressed, wherever the interrupt *)
(* comes between the looks at flag and pin.  It may act for another one.   *)
NoMoreThanPressed == served + (IF pressed THEN 1 ELSE 0) <= presses

(* The set-up ends without the network, or connected with settings that    *)
(* fetchCredentials() would find: all but the SSID, texts that are as long *)
(* as admitted, and ports that are too long for portStr.                   *)
LeavesStored ==
  pc = "running" /\ use_wifi =>
    /\ settings \in verified
    /\ \A f \in {"pw", "hostname"} :
         Len(settings[f]) < INPUT_SIZE => Fetched(f) = {settings[f]}
    /\ settings.port \in ShortPorts => Fetched("port") = {settings.port}

(* Whatever resets come in between, while settings are stored over older   *)
(* ones, what fetchCredentials() would accept was part of settings that a  *)
(* connection was made with, never half of two texts; the fields may come  *)
(* from different settings.  A port too long for portStr may be garbled.   *)
AcceptedWasVerified ==
  /\ \A f \in {"ssid", "pw", "hostname"} : Fetched(f) \subseteq {v[f] : v \in verified}
  /\ \A port \in Fetched("port") :
       \E v \in verified : port = v.port \/ (port = Garbled /\ v.port \notin ShortPorts)
=============================================================================
