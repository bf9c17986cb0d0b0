----------------------------- MODULE VentControl -----------------------------
(***************************************************************************)
(* The control loop of src/main.cpp with everything that feeds it: the     *)
(* GPIO interrupt of input.cpp (one mailbox for all buttons, the rotary    *)
(* count), the key handling of mainMenu(), the settings that               *)
(* message_arrived() of commhandler.cpp leaves in `manual` and `setpoint`, *)
(* and the status it publishes.  The statements between which an interrupt *)
(* matters are separate steps.  message_arrived() runs inside the client's *)
(* yield() only: status messages are published with QOS0 and wait for      *)
(* nothing.                                                                *)
(*                                                                         *)
(* The fan is represented by the last request made to it (set_speed or     *)
(* adjust_speed, module Fan); use_wifi is TRUE.                            *)
(***************************************************************************)
EXTENDS Integers, Sequences

CONSTANTS
  Commands,    \* settings messages: auto (1 or 0 on the wire) and value
  Pins,        \* the buttons an operator presses
  MaxCommands, \* bound: settings messages ever sent
  MaxPresses,  \* bound: button presses
  MaxTurns     \* bound: steps of the rotary encoder

PagePin == 8   \* switches between the measurement page and the mode page
ModePin == 9   \* switches between manual and automatic on the mode page
FirstSetPoint == 50

ASSUME ControlAssumption ==
  /\ Commands \subseteq [auto : BOOLEAN, value : Int]
  /\ Pins \subseteq {7, PagePin, ModePin, 12}
  /\ MaxCommands \in Nat /\ MaxPresses \in Nat /\ MaxTurns \in Nat

VARIABLES
  pc,           \* what the main thread does next
  manual,       \* commhandler.cpp's manual
  setpoint,     \* commhandler.cpp's setpoint
  mode,         \* main's local copy of manual
  oldSetPoint,  \* old_set_point
  speedVal,     \* speed_val, percent
  presVal,      \* pres_val, pascal
  prevval,      \* the rotary count main has seen
  knob,         \* data.data, the rotary count
  pressed,      \* data.buttonPressed
  pin,          \* data.ButtonPin
  displayMode,  \* display_mode
  fan,          \* the last request made to the fan
  status,       \* the last status published
  adjustDue,    \* ADJUST_DELAY has passed since adjust_time
  sendDue,      \* SEND_DELAY has passed since send_time
  inbox,        \* settings messages the client has not delivered
  sent, presses, turns,  \* inputs so far
  last          \* the last input that asks something of the controller

keys == <<pressed, pin, displayMode>>
settings == <<manual, setpoint>>
values == <<mode, oldSetPoint, speedVal, presVal, prevval>>
outputs == <<fan, status>>
timers == <<adjustDue, sendDue>>
counts == <<sent, presses, turns>>
world == <<timers, inbox, counts>>
vars == <<pc, settings, values, knob, keys, outputs, world, last>>

Clamp(n, hi) == IF n < 0 THEN 0 ELSE IF n > hi THEN hi ELSE n
ClampFor(auto, n) == Clamp(n, IF auto THEN 120 ELSE 100)

NoRequest == [op |-> "none", value |-> 0]
NoStatus == [auto |-> TRUE, setpoint |-> -1, speed |-> 0]

(* The message CommHandler::send() writes; the readings in it are left out. *)
Status(auto, value, speed) == [auto |-> auto, setpoint |-> value, speed |-> speed]
NoInput == [kind |-> "none", auto |-> TRUE, value |-> 0, fresh |-> FALSE]

(* Settings may have arrived while the menus were shown, before the loop.  *)
Init ==
  /\ pc = "top"
  /\ manual \in BOOLEAN
  /\ setpoint \in {FirstSetPoint} \cup {c.value : c \in Commands}
  /\ mode = FALSE /\ oldSetPoint = setpoint
  /\ speedVal = 0 /\ presVal = 0 /\ prevval = 0 /\ knob = 0
  /\ pressed = FALSE /\ pin = ModePin /\ displayMode = 1
  /\ fan = NoRequest /\ status = NoStatus
  /\ adjustDue = FALSE /\ sendDue = FALSE
  /\ inbox = <<>>
  /\ sent = 0 /\ presses = 0 /\ turns = 0
  /\ last = NoInput

-----------------------------------------------------------------------------
(* Mutated forms of the definitions below, slips the properties must       *)
(* notice; no specification uses them.                                     *)
ReadModeOnce ==
  /\ pc = "top" /\ pc' = "page"
  /\ UNCHANGED <<settings, values, knob, keys, outputs, world, last>>

ToggleModeUncleared ==
  /\ pc = "toggle" /\ pc' = "setManual"
  /\ mode' = ~mode
  /\ last' = [NoInput EXCEPT !.kind = "button"]
  /\ UNCHANGED <<settings, oldSetPoint, speedVal, presVal, prevval, knob, keys,
                 outputs, world>>

PublishPressureTarget ==
  /\ pc = "status" /\ pc' = "yield"
  /\ sendDue /\ sendDue' = FALSE
  /\ status' = Status(~manual, presVal,
                      IF fan.op = "speed" THEN fan.value \div 10 ELSE 0)
  /\ UNCHANGED <<settings, values, knob, keys, fan, adjustDue, inbox, counts,
                 last>>

TakeSetPointOnlyAuto ==
  IF setpoint # oldSetPoint /\ ~manual
  THEN setpoint ELSE IF manual THEN speedVal ELSE presVal

-----------------------------------------------------------------------------
(* The main thread.                                                        *)
Goto(from, to) == pc = from /\ pc' = to

ReadMode ==
  /\ Goto("top", "page")
  /\ mode' = manual
  /\ UNCHANGED <<settings, oldSetPoint, speedVal, presVal, prevval, knob, keys,
                 outputs, world, last>>

(* mainMenu(): each key is looked at, then cleared.                        *)
AfterPage(page) == IF page = 1 THEN "modeKey" ELSE "setManual"

LookForPageKey ==
  /\ pc = "page"
  /\ pc' = IF pressed /\ pin = PagePin THEN "flip" ELSE AfterPage(displayMode)
  /\ UNCHANGED <<settings, values, knob, keys, outputs, world, last>>

FlipPage ==
  /\ pc = "flip"
  /\ pressed' = FALSE
  /\ displayMode' = 1 - displayMode
  /\ pc' = AfterPage(displayMode')
  /\ UNCHANGED <<settings, values, knob, pin, outputs, world, last>>

LookForModeKey ==
  /\ pc = "modeKey"
  /\ pc' = IF pressed /\ pin = ModePin THEN "toggle" ELSE "setManual"
  /\ UNCHANGED <<settings, values, knob, keys, outputs, world, last>>

ToggleMode ==
  /\ Goto("toggle", "setManual")
  /\ pressed' = FALSE
  /\ mode' = ~mode
  /\ last' = [NoInput EXCEPT !.kind = "button"]
  /\ UNCHANGED <<settings, oldSetPoint, speedVal, presVal, prevval, knob, pin,
                 displayMode, outputs, world>>

SetManual ==
  /\ Goto("setManual", "knobUp")
  /\ manual' = mode
  /\ UNCHANGED <<setpoint, values, knob, keys, outputs, world, last>>

(* The rotary count is read three times, and may change in between.        *)
AddToValue(n) ==
  /\ speedVal' = speedVal + (IF manual THEN n ELSE 0)
  /\ presVal' = presVal + (IF manual THEN 0 ELSE n)

KnobUp ==
  /\ Goto("knobUp", "knobDown")
  /\ AddToValue(IF prevval < knob THEN 1 ELSE 0)
  /\ UNCHANGED <<settings, mode, oldSetPoint, prevval, knob, keys, outputs,
                 world, last>>

KnobDown ==
  /\ Goto("knobDown", "knobSave")
  /\ AddToValue(IF prevval > knob THEN -1 ELSE 0)
  /\ UNCHANGED <<settings, mode, oldSetPoint, prevval, knob, keys, outputs,
                 world, last>>

KnobSave ==
  /\ Goto("knobSave", "apply")
  /\ prevval' = knob
  /\ UNCHANGED <<settings, mode, oldSetPoint, speedVal, presVal, knob, keys,
                 outputs, world, last>>

(* The value of the present mode: a changed set point replaces it.         *)
TakeSetPoint ==
  IF setpoint # oldSetPoint
  THEN setpoint ELSE IF manual THEN speedVal ELSE presVal

NewValue == ClampFor(~manual, TakeSetPoint)

ApplyManual ==
  /\ Goto("apply", "status")
  /\ manual
  /\ oldSetPoint' = setpoint
  /\ speedVal' = NewValue
  /\ fan' = [op |-> "speed", value |-> 10 * speedVal']
  /\ UNCHANGED <<settings, mode, presVal, prevval, knob, keys, status, world,
                 last>>

ApplyAuto ==
  /\ Goto("apply", "status")
  /\ ~manual
  /\ oldSetPoint' = setpoint
  /\ presVal' = NewValue
  /\ fan' = IF adjustDue THEN [op |-> "target", value |-> presVal'] ELSE fan
  /\ adjustDue' = FALSE
  /\ UNCHANGED <<settings, mode, speedVal, prevval, knob, keys, status,
                 sendDue, inbox, counts, last>>

(* The speed published is the one set_speed() stored or, in automatic      *)
(* mode, what adjust_speed() made of it, which is not modelled here.       *)
Publish ==
  /\ Goto("status", "yield")
  /\ sendDue /\ sendDue' = FALSE
  /\ status' = Status(~manual, IF mode THEN speedVal ELSE presVal,
                      IF fan.op = "speed" THEN fan.value \div 10 ELSE 0)
  /\ UNCHANGED <<settings, values, knob, keys, fan, adjustDue, inbox, counts,
                 last>>

SkipPublish ==
  /\ Goto("status", "yield")
  /\ ~sendDue
  /\ UNCHANGED <<settings, values, knob, keys, outputs, world, last>>

(* message_arrived(), called by yield() for each message that has come.    *)
MessageArrived ==
  /\ pc = "yield" /\ inbox # <<>>
  /\ LET c == Head(inbox) IN
       /\ setpoint' = c.value
       /\ manual' = ~c.auto
       /\ last' = [kind |-> "command", auto |-> c.auto, value |-> c.value,
                   fresh |-> c.value # oldSetPoint]
  /\ inbox' = Tail(inbox)
  /\ UNCHANGED <<pc, values, knob, keys, outputs, timers, counts>>

YieldReturns ==
  /\ Goto("yield", "top")
  /\ UNCHANGED <<settings, values, knob, keys, outputs, world, last>>

-----------------------------------------------------------------------------
(* The GPIO interrupt handler, the clock and the broker.                   *)
Press(p) ==
  /\ presses < MaxPresses
  /\ presses' = presses + 1
  /\ pin' = p /\ pressed' = TRUE
  /\ UNCHANGED <<pc, settings, values, knob, displayMode, outputs, timers,
                 inbox, sent, turns, last>>

Turn(d) ==
  /\ turns < MaxTurns
  /\ turns' = turns + 1
  /\ knob' = knob + d
  /\ last' = [NoInput EXCEPT !.kind = "knob"]
  /\ UNCHANGED <<pc, settings, values, keys, outputs, timers, inbox, sent,
                 presses>>

AdjustDelayPasses ==
  /\ ~adjustDue /\ adjustDue' = TRUE
  /\ UNCHANGED <<pc, settings, values, knob, keys, outputs, sendDue, inbox,
                 counts, last>>

SendDelayPasses ==
  /\ ~sendDue /\ sendDue' = TRUE
  /\ UNCHANGED <<pc, settings, values, knob, keys, outputs, adjustDue, inbox,
                 counts, last>>

SendCommand(c) ==
  /\ sent < MaxCommands
  /\ sent' = sent + 1
  /\ inbox' = Append(inbox, c)
  /\ UNCHANGED <<pc, settings, values, knob, keys, outputs, timers, presses,
                 turns, last>>

-----------------------------------------------------------------------------
Menu == ReadMode \/ LookForPageKey \/ FlipPage \/ LookForModeKey \/ ToggleMode
          \/ SetManual
Control == KnobUp \/ KnobDown \/ KnobSave \/ ApplyManual \/ ApplyAuto
Report == Publish \/ SkipPublish
Main == Menu \/ Control \/ Report \/ YieldReturns

Next ==
  \/ Main \/ MessageArrived
  \/ \E p \in Pins : Press(p)
  \/ \E d \in {-1, 1} : Turn(d)
  \/ AdjustDelayPasses \/ SendDelayPasses
  \/ \E c \in Commands : SendCommand(c)

Spec == Init /\ [][Next]_vars

(* The loop never blocks, time passes, and yield() sooner or later reads a *)
(* message that has come.                                                  *)
FairSpec ==
  /\ Spec
  /\ WF_vars(Main)
  /\ WF_vars(AdjustDelayPasses) /\ WF_vars(SendDelayPasses)
  /\ SF_vars(MessageArrived)

-----------------------------------------------------------------------------
(* Types and ranges: whatever was commanded or turned, the fan is asked for *)
(* 0 to 100 percent or 0 to 120 pascal.                                    *)
TypeOK ==
  /\ pc \in {"top", "page", "flip", "modeKey", "toggle", "setManual", "knobUp",
             "knobDown", "knobSave", "apply", "status", "yield"}
  /\ manual \in BOOLEAN /\ mode \in BOOLEAN
  /\ setpoint \in Int /\ oldSetPoint \in Int
  /\ speedVal \in -1..101 /\ presVal \in -1..121
  /\ prevval \in Int /\ knob \in Int
  /\ pressed \in BOOLEAN /\ pin \in {7, PagePin, ModePin, 12}
  /\ displayMode \in {0, 1}
  /\ \/ fan = NoRequest
     \/ fan.op = "speed" /\ fan.value \in 0..1000
     \/ fan.op = "target" /\ fan.value \in 0..120
  /\ inbox \in Seq([auto : BOOLEAN, value : Int])

(* A status never mixes two modes or two rounds of the loop: in manual     *)
(* mode the published set point is the speed the fan was last given, and   *)
(* in automatic mode it is a pressure target in range.                     *)
StatusConsistent ==
  status # NoStatus =>
    IF status.auto THEN status.setpoint \in 0..120
                   ELSE status.setpoint = status.speed

(* When no more input comes, the mode of the last command stands, if no    *)
(* key was used after it: the loop's copy of `manual` never overwrites a   *)
(* setting that has just arrived.                                          *)
ModeObeyed == <>[](last.kind = "command" => status.auto = last.auto)

Obeyed ==
  /\ status.auto = last.auto
  /\ status.setpoint = ClampFor(last.auto, last.value)
  /\ fan.op = IF last.auto THEN "target" ELSE "speed"

(* When no more input comes, a command whose value differs from the set    *)
(* point last taken up is carried out and reported, however it was         *)
(* interleaved with keys, turns and other commands.                        *)
FreshCommandObeyed == <>[](last.kind = "command" /\ last.fresh => Obeyed)

(* On the mode page a press of the mode button is not left in the mailbox. *)
ModeKeyServed == <>[]~(pressed /\ pin = ModePin /\ displayMode = 1)
=============================================================================
