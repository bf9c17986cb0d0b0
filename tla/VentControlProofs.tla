--------------------------- MODULE VentControlProofs ---------------------------
(***************************************************************************)
(* Proofs about VentControl, for every set of commands and buttons, with   *)
(* any number of each.  The steps of the main thread are followed by those *)
(* of the interrupt, the clock and the broker.                             *)
(***************************************************************************)
EXTENDS VentControl, TLAPS

Rounds ==
  {"top", "page", "flip", "modeKey", "toggle", "setManual", "knobUp", "knobDown",
   "knobSave", "apply", "status", "yield"}

(* What interrupt and client leave, and the flags.                         *)
InputInv ==
  /\ pc \in Rounds
  /\ setpoint \in Int /\ oldSetPoint \in Int /\ prevval \in Int /\ knob \in Int
  /\ pin \in {7, PagePin, ModePin, 12} /\ displayMode \in {0, 1}
  /\ inbox \in Seq([auto : BOOLEAN, value : Int])

FlagInv == manual \in BOOLEAN /\ mode \in BOOLEAN /\ pressed \in BOOLEAN

(* The loop's copy is the mode from setManual to the status, so the value  *)
(* that the knob moves out of its range by one is the one clamped before   *)
(* anything reads it, and the fan's speed is the one a status reports.     *)
Within(val, hi, turned) ==
  IF turned /\ pc = "knobDown" THEN val \in 0..(hi + 1)
  ELSE IF turned /\ pc \in {"knobSave", "apply"} THEN val \in -1..(hi + 1)
  ELSE val \in 0..hi

RoundInv ==
  /\ pc \in {"knobUp", "knobDown", "knobSave", "apply", "status"} => (mode <=> manual)
  /\ Within(speedVal, 100, manual)
  /\ Within(presVal, 120, ~manual)

FanInv ==
  /\ \/ fan = NoRequest
     \/ fan.op = "speed" /\ fan.value \in 0..1000
     \/ fan.op = "target" /\ fan.value \in 0..120
  /\ pc = "status" /\ manual => fan.op = "speed" /\ fan.value = 10 * speedVal

LEMMA ClampedIs ==
  ASSUME NEW n \in Int, NEW hi \in Nat
  PROVE  Clamp(n, hi) \in 0..hi
  BY DEF Clamp

LEMMA TenTimes ==
  ASSUME NEW n \in 0..100
  PROVE  10 * n \in 0..1000
  OBVIOUS

LEMMA MovedUp ==
  ASSUME NEW n \in {0, 1}
  PROVE  /\ \A v \in 0..100 : v + n \in 0..101
         /\ \A v \in 0..120 : v + n \in 0..121
  OBVIOUS

LEMMA MovedDown ==
  ASSUME NEW n \in {-1, 0}
  PROVE  /\ \A v \in 0..101 : v + n \in -1..101
         /\ \A v \in 0..121 : v + n \in -1..121
  OBVIOUS

LEMMA HeadAndTail ==
  ASSUME NEW S, NEW s \in Seq(S), s # <<>>
  PROVE  Head(s) \in S /\ Tail(s) \in Seq(S)
  OBVIOUS

LEMMA ValuesAreIntegers ==
  ASSUME InputInv, RoundInv
  PROVE  speedVal \in Int /\ presVal \in Int /\ TakeSetPoint \in Int
<1>1. speedVal \in Int /\ presVal \in Int
  BY DEF RoundInv, Within
<1> QED BY <1>1 DEF TakeSetPoint, InputInv

-----------------------------------------------------------------------------
(* The mailbox of the interrupt holds a pin and the commands waiting are   *)
(* modes with a value, wherever main is.                                   *)
THEOREM InputInvariant == Spec => []InputInv
<1>0. \A c \in Commands : c \in [auto : BOOLEAN, value : Int]
  BY ControlAssumption
<1>1. Init => InputInv
  <2> SUFFICES ASSUME Init PROVE InputInv
    OBVIOUS
  <2>1. setpoint \in Int
    BY <1>0 DEF Init, FirstSetPoint
  <2>2. /\ pc = "top" /\ oldSetPoint = setpoint /\ prevval = 0 /\ knob = 0
        /\ pin = ModePin /\ displayMode = 1 /\ inbox = <<>>
    BY DEF Init
  <2> QED BY <2>1, <2>2 DEF InputInv, Rounds
<1>2. InputInv /\ [Next]_vars => InputInv'
  <2> SUFFICES ASSUME InputInv, [Next]_vars PROVE InputInv'
    OBVIOUS
  <2> USE DEF InputInv, Rounds, settings, values, keys, world, timers, counts
  <2>1. CASE ReadMode
    BY <2>1 DEF ReadMode, Goto
  <2>2. CASE LookForPageKey
    BY <2>2 DEF LookForPageKey, AfterPage
  <2>3. CASE FlipPage
    BY <2>3 DEF FlipPage, AfterPage
  <2>4. CASE LookForModeKey
    BY <2>4 DEF LookForModeKey
  <2>5. CASE ToggleMode
    BY <2>5 DEF ToggleMode, Goto
  <2>6. CASE SetManual
    BY <2>6 DEF SetManual, Goto
  <2>7. CASE KnobUp
    BY <2>7 DEF KnobUp, Goto
  <2>8. CASE KnobDown
    BY <2>8 DEF KnobDown, Goto
  <2>9. CASE KnobSave
    BY <2>9 DEF KnobSave, Goto
  <2>10. CASE ApplyManual
    BY <2>10 DEF ApplyManual, Goto
  <2>11. CASE ApplyAuto
    BY <2>11 DEF ApplyAuto, Goto
  <2>12. CASE Publish
    BY <2>12 DEF Publish, Status, Goto
  <2>13. CASE SkipPublish
    BY <2>13 DEF SkipPublish, Goto
  <2>14. CASE YieldReturns
    BY <2>14 DEF YieldReturns, Goto
  <2>15. CASE MessageArrived
    <3>1. Head(inbox) \in [auto : BOOLEAN, value : Int]
            /\ Tail(inbox) \in Seq([auto : BOOLEAN, value : Int])
      BY <2>15, HeadAndTail DEF MessageArrived
    <3>2. setpoint' = Head(inbox).value /\ inbox' = Tail(inbox)
      BY <2>15 DEF MessageArrived
    <3>3. Head(inbox).value \in Int
      BY <3>1
    <3> QED BY <2>15, <3>1, <3>2, <3>3 DEF MessageArrived
  <2>16. CASE \E p \in Pins : Press(p)
    BY <2>16, ControlAssumption DEF Press
  <2>17. CASE \E d \in {-1, 1} : Turn(d)
    BY <2>17 DEF Turn
  <2>18. CASE AdjustDelayPasses
    BY <2>18 DEF AdjustDelayPasses
  <2>19. CASE SendDelayPasses
    BY <2>19 DEF SendDelayPasses
  <2>20. CASE \E c \in Commands : SendCommand(c)
    BY <2>20, <1>0 DEF SendCommand
  <2>21. CASE UNCHANGED vars
    BY <2>21 DEF vars
  <2> QED BY <2>1, <2>2, <2>3, <2>4, <2>5, <2>6, <2>7, <2>8, <2>9, <2>10,
             <2>11, <2>12, <2>13, <2>14, <2>15, <2>16, <2>17, <2>18, <2>19,
             <2>20, <2>21 DEF Next, Main, Menu, Control, Report
<1> QED BY <1>1, <1>2, PTL DEF Spec

(* The mode, main's copy of it and the flag of the interrupt are booleans. *)
LEMMA FlagInvariant == Spec => []FlagInv
<1>1. Init => FlagInv
  BY Zenon DEF Init, FlagInv
<1>2. FlagInv /\ [Next]_vars => FlagInv'
  <2> SUFFICES ASSUME FlagInv, [Next]_vars PROVE FlagInv'
    OBVIOUS
  <2> USE DEF FlagInv, settings, values, keys, world, timers, counts
  <2>1. CASE ReadMode
    BY <2>1, Zenon DEF ReadMode, Goto
  <2>2. CASE LookForPageKey
    BY <2>2, Zenon DEF LookForPageKey
  <2>3. CASE FlipPage
    BY <2>3, Zenon DEF FlipPage
  <2>4. CASE LookForModeKey
    BY <2>4, Zenon DEF LookForModeKey
  <2>5. CASE ToggleMode
    BY <2>5, Zenon DEF ToggleMode, Goto
  <2>6. CASE SetManual
    BY <2>6, Zenon DEF SetManual, Goto
  <2>7. CASE KnobUp
    BY <2>7, Zenon DEF KnobUp, Goto
  <2>8. CASE KnobDown
    BY <2>8, Zenon DEF KnobDown, Goto
  <2>9. CASE KnobSave
    BY <2>9, Zenon DEF KnobSave, Goto
  <2>10. CASE ApplyManual
    BY <2>10, Zenon DEF ApplyManual, Goto
  <2>11. CASE ApplyAuto
    BY <2>11, Zenon DEF ApplyAuto, Goto
  <2>12. CASE Publish
    BY <2>12, Zenon DEF Publish, Status, Goto
  <2>13. CASE SkipPublish
    BY <2>13, Zenon DEF SkipPublish, Goto
  <2>14. CASE YieldReturns
    BY <2>14, Zenon DEF YieldReturns, Goto
  <2>15. CASE MessageArrived
    BY <2>15, Zenon DEF MessageArrived
  <2>16. CASE \E p \in Pins : Press(p)
    BY <2>16, Zenon DEF Press
  <2>17. CASE \E d \in {-1, 1} : Turn(d)
    BY <2>17, Zenon DEF Turn
  <2>18. CASE AdjustDelayPasses
    BY <2>18, Zenon DEF AdjustDelayPasses
  <2>19. CASE SendDelayPasses
    BY <2>19, Zenon DEF SendDelayPasses
  <2>20. CASE \E c \in Commands : SendCommand(c)
    BY <2>20, Zenon DEF SendCommand
  <2>21. CASE UNCHANGED vars
    BY <2>21, Zenon DEF vars
  <2> QED BY <2>1, <2>2, <2>3, <2>4, <2>5, <2>6, <2>7, <2>8, <2>9, <2>10,
             <2>11, <2>12, <2>13, <2>14, <2>15, <2>16, <2>17, <2>18, <2>19,
             <2>20, <2>21 DEF Next, Main, Menu, Control, Report
<1> QED BY <1>1, <1>2, PTL DEF Spec

-----------------------------------------------------------------------------
(* From the read of the mode to the status a round works in that mode, and *)
(* a value the knob moved one out of its range is clamped before it is     *)
(* used.                                                                   *)
THEOREM RoundInvariant == Spec => []RoundInv
<1>1. Init => RoundInv
  BY DEF Init, RoundInv, Within
<1>2. InputInv /\ RoundInv /\ [Next]_vars => RoundInv'
  <2> SUFFICES ASSUME InputInv, RoundInv, [Next]_vars PROVE RoundInv'
    OBVIOUS
  <2> USE DEF InputInv, RoundInv, Within, settings, values, keys, world, timers, counts
  <2>1. CASE ReadMode
    BY <2>1 DEF ReadMode, Goto
  <2>2. CASE LookForPageKey
    BY <2>2 DEF LookForPageKey, AfterPage
  <2>3. CASE FlipPage
    BY <2>3 DEF FlipPage, AfterPage
  <2>4. CASE LookForModeKey
    BY <2>4 DEF LookForModeKey
  <2>5. CASE ToggleMode
    BY <2>5 DEF ToggleMode, Goto
  <2>6. CASE SetManual
    BY <2>6 DEF SetManual, Goto
  <2>7. CASE KnobUp
    <3> DEFINE n == IF prevval < knob THEN 1 ELSE 0
    <3>1. n \in {0, 1}
      OBVIOUS
    <3>2. /\ pc = "knobUp" /\ pc' = "knobDown"
          /\ mode' = mode /\ manual' = manual /\ AddToValue(n)
      BY <2>7 DEF KnobUp, Goto
    <3> HIDE DEF n
    <3>3. IF manual THEN speedVal' = speedVal + n /\ presVal' = presVal
                    ELSE presVal' = presVal + n /\ speedVal' = speedVal
      BY <3>1, <3>2, ValuesAreIntegers DEF AddToValue
    <3>4. CASE manual
      <4>1. speedVal \in 0..100 /\ presVal \in 0..120
        BY <3>2, <3>4
      <4>2. speedVal + n \in 0..101
        BY <3>1, <4>1, MovedUp
      <4>3. speedVal' = speedVal + n /\ presVal' = presVal
        BY <3>3, <3>4
      <4>4. speedVal' \in 0..101 /\ presVal' \in 0..120
        BY <4>1, <4>2, <4>3
      <4> QED BY <3>2, <3>4, <4>4
    <3>5. CASE ~manual
      <4>1. presVal \in 0..120 /\ speedVal \in 0..100
        BY <3>2, <3>5
      <4>2. presVal + n \in 0..121
        BY <3>1, <4>1, MovedUp
      <4>3. presVal' = presVal + n /\ speedVal' = speedVal
        BY <3>3, <3>5
      <4>4. presVal' \in 0..121 /\ speedVal' \in 0..100
        BY <4>1, <4>2, <4>3
      <4> QED BY <3>2, <3>5, <4>4
    <3> QED BY <3>4, <3>5
  <2>8. CASE KnobDown
    <3> DEFINE n == IF prevval > knob THEN -1 ELSE 0
    <3>1. n \in {-1, 0}
      OBVIOUS
    <3>2. /\ pc = "knobDown" /\ pc' = "knobSave"
          /\ mode' = mode /\ manual' = manual /\ AddToValue(n)
      BY <2>8 DEF KnobDown, Goto
    <3> HIDE DEF n
    <3>3. IF manual THEN speedVal' = speedVal + n /\ presVal' = presVal
                    ELSE presVal' = presVal + n /\ speedVal' = speedVal
      BY <3>1, <3>2, ValuesAreIntegers DEF AddToValue
    <3>4. CASE manual
      <4>1. speedVal \in 0..101 /\ presVal \in 0..120
        BY <3>2, <3>4
      <4>2. speedVal + n \in -1..101
        BY <3>1, <4>1, MovedDown
      <4>3. speedVal' = speedVal + n /\ presVal' = presVal
        BY <3>3, <3>4
      <4>4. speedVal' \in -1..101 /\ presVal' \in 0..120
        BY <4>1, <4>2, <4>3
      <4> QED BY <3>2, <3>4, <4>4
    <3>5. CASE ~manual
      <4>1. presVal \in 0..121 /\ speedVal \in 0..100
        BY <3>2, <3>5
      <4>2. presVal + n \in -1..121
        BY <3>1, <4>1, MovedDown
      <4>3. presVal' = presVal + n /\ speedVal' = speedVal
        BY <3>3, <3>5
      <4>4. presVal' \in -1..121 /\ speedVal' \in 0..100
        BY <4>1, <4>2, <4>3
      <4> QED BY <3>2, <3>5, <4>4
    <3> QED BY <3>4, <3>5
  <2>9. CASE KnobSave
    BY <2>9 DEF KnobSave, Goto
  <2>10. CASE ApplyManual
    <3>1. TakeSetPoint \in Int
      BY ValuesAreIntegers
    <3>2. NewValue \in 0..100
      BY <2>10, <3>1, ClampedIs DEF ApplyManual, NewValue, ClampFor
    <3> QED BY <2>10, <3>2 DEF ApplyManual, Goto
  <2>11. CASE ApplyAuto
    <3>1. TakeSetPoint \in Int
      BY ValuesAreIntegers
    <3>2. NewValue \in 0..120
      BY <2>11, <3>1, ClampedIs DEF ApplyAuto, NewValue, ClampFor
    <3> QED BY <2>11, <3>2 DEF ApplyAuto, Goto
  <2>12. CASE Publish
    BY <2>12 DEF Publish, Status, Goto
  <2>13. CASE SkipPublish
    BY <2>13 DEF SkipPublish, Goto
  <2>14. CASE YieldReturns
    BY <2>14 DEF YieldReturns, Goto
  <2>15. CASE MessageArrived
    BY <2>15 DEF MessageArrived
  <2>16. CASE \E p \in Pins : Press(p)
    BY <2>16 DEF Press
  <2>17. CASE \E d \in {-1, 1} : Turn(d)
    BY <2>17 DEF Turn
  <2>18. CASE AdjustDelayPasses
    BY <2>18 DEF AdjustDelayPasses
  <2>19. CASE SendDelayPasses
    BY <2>19 DEF SendDelayPasses
  <2>20. CASE \E c \in Commands : SendCommand(c)
    BY <2>20 DEF SendCommand
  <2>21. CASE UNCHANGED vars
    BY <2>21 DEF vars
  <2> QED BY <2>1, <2>2, <2>3, <2>4, <2>5, <2>6, <2>7, <2>8, <2>9, <2>10,
             <2>11, <2>12, <2>13, <2>14, <2>15, <2>16, <2>17, <2>18, <2>19,
             <2>20, <2>21 DEF Next, Main, Menu, Control, Report
<1> QED BY <1>1, <1>2, InputInvariant, PTL DEF Spec

(* The fan is only asked for 0 to 1000 or 0 to 120, and in manual mode for *)
(* the speed that the status of the round reports.                         *)
THEOREM FanInvariant == Spec => []FanInv
<1>1. Init => FanInv
  BY DEF Init, FanInv
<1>2. RoundInv /\ RoundInv' /\ FanInv /\ [Next]_vars => FanInv'
  <2> SUFFICES ASSUME RoundInv, RoundInv', FanInv, [Next]_vars PROVE FanInv'
    OBVIOUS
  <2> USE DEF FanInv, settings, values, keys, outputs, world, timers, counts
  <2>1. CASE ReadMode
    BY <2>1 DEF ReadMode, Goto
  <2>2. CASE LookForPageKey
    BY <2>2 DEF LookForPageKey, AfterPage
  <2>3. CASE FlipPage
    BY <2>3 DEF FlipPage, AfterPage
  <2>4. CASE LookForModeKey
    BY <2>4 DEF LookForModeKey
  <2>5. CASE ToggleMode
    BY <2>5 DEF ToggleMode, Goto
  <2>6. CASE SetManual
    BY <2>6 DEF SetManual, Goto
  <2>7. CASE KnobUp
    BY <2>7 DEF KnobUp, Goto
  <2>8. CASE KnobDown
    BY <2>8 DEF KnobDown, Goto
  <2>9. CASE KnobSave
    BY <2>9 DEF KnobSave, Goto
  <2>10. CASE ApplyManual
    <3>1. fan' = [op |-> "speed", value |-> 10 * speedVal'] /\ pc' = "status"
      BY <2>10 DEF ApplyManual, Goto
    <3>2. speedVal' \in 0..100
      BY <3>1 DEF RoundInv, Within
    <3>3. fan'.op = "speed" /\ fan'.value = 10 * speedVal'
      BY <3>1
    <3>4. 10 * speedVal' \in 0..1000
      BY <3>2, TenTimes
    <3> QED BY <3>3, <3>4
  <2>11. CASE ApplyAuto
    <3>1. /\ pc' = "status" /\ ~manual'
          /\ fan' = [op |-> "target", value |-> presVal'] \/ fan' = fan
      BY <2>11 DEF ApplyAuto, Goto
    <3>2. presVal' \in 0..120
      BY <3>1 DEF RoundInv, Within
    <3> QED BY <3>1, <3>2
  <2>12. CASE Publish
    BY <2>12 DEF Publish, Status, Goto
  <2>13. CASE SkipPublish
    BY <2>13 DEF SkipPublish, Goto
  <2>14. CASE YieldReturns
    BY <2>14 DEF YieldReturns, Goto
  <2>15. CASE MessageArrived
    BY <2>15 DEF MessageArrived
  <2>16. CASE \E p \in Pins : Press(p)
    BY <2>16 DEF Press
  <2>17. CASE \E d \in {-1, 1} : Turn(d)
    BY <2>17 DEF Turn
  <2>18. CASE AdjustDelayPasses
    BY <2>18 DEF AdjustDelayPasses
  <2>19. CASE SendDelayPasses
    BY <2>19 DEF SendDelayPasses
  <2>20. CASE \E c \in Commands : SendCommand(c)
    BY <2>20 DEF SendCommand
  <2>21. CASE UNCHANGED vars
    BY <2>21 DEF vars
  <2> QED BY <2>1, <2>2, <2>3, <2>4, <2>5, <2>6, <2>7, <2>8, <2>9, <2>10,
             <2>11, <2>12, <2>13, <2>14, <2>15, <2>16, <2>17, <2>18, <2>19,
             <2>20, <2>21 DEF Next, Main, Menu, Control, Report
<1> QED BY <1>1, <1>2, RoundInvariant, PTL DEF Spec

-----------------------------------------------------------------------------
(* Types and ranges: whatever was commanded or turned, the fan is asked for*)
(* 0 to 100 percent or 0 to 120 pascal.                                    *)
THEOREM TypeCorrect == Spec => []TypeOK
<1>1. InputInv /\ FlagInv /\ RoundInv /\ FanInv => TypeOK
  <2> SUFFICES ASSUME InputInv, FlagInv, RoundInv, FanInv PROVE TypeOK
    OBVIOUS
  <2>1. speedVal \in -1..101 /\ presVal \in -1..121
    BY DEF RoundInv, Within
  <2> QED BY <2>1, Zenon DEF TypeOK, InputInv, FlagInv, FanInv, Rounds
<1> QED BY <1>1, InputInvariant, FlagInvariant, RoundInvariant, FanInvariant, PTL

(* A status never mixes two modes or two rounds of the loop.               *)
THEOREM StatusConsistentAlways == Spec => []StatusConsistent
<1>1. Init => StatusConsistent
  BY DEF Init, StatusConsistent
<1>2. RoundInv /\ FanInv /\ FlagInv /\ StatusConsistent /\ [Next]_vars
        => StatusConsistent'
  <2> SUFFICES ASSUME RoundInv, FanInv, FlagInv, StatusConsistent, [Next]_vars
               PROVE  StatusConsistent'
    OBVIOUS
  <2> USE DEF StatusConsistent, outputs
  <2>1. CASE ReadMode
    BY <2>1 DEF ReadMode, Goto
  <2>2. CASE LookForPageKey
    BY <2>2 DEF LookForPageKey
  <2>3. CASE FlipPage
    BY <2>3 DEF FlipPage
  <2>4. CASE LookForModeKey
    BY <2>4 DEF LookForModeKey
  <2>5. CASE ToggleMode
    BY <2>5 DEF ToggleMode, Goto
  <2>6. CASE SetManual
    BY <2>6 DEF SetManual, Goto
  <2>7. CASE KnobUp
    BY <2>7 DEF KnobUp, Goto
  <2>8. CASE KnobDown
    BY <2>8 DEF KnobDown, Goto
  <2>9. CASE KnobSave
    BY <2>9 DEF KnobSave, Goto
  <2>10. CASE ApplyManual
    BY <2>10 DEF ApplyManual, Goto
  <2>11. CASE ApplyAuto
    BY <2>11 DEF ApplyAuto, Goto
  <2>12. CASE Publish
    <3>1. /\ mode <=> manual
          /\ speedVal \in 0..100 /\ presVal \in 0..120
          /\ manual => fan.op = "speed" /\ fan.value = 10 * speedVal
      BY <2>12 DEF Publish, Status, Goto, RoundInv, Within, FanInv
    <3>2. CASE manual
      <4>1. fan.value \div 10 = speedVal
        BY <3>1, <3>2
      <4>2. status' = [auto |-> ~manual, setpoint |-> speedVal, speed |-> speedVal]
        BY <2>12, <3>1, <3>2, <4>1 DEF Publish, Status
      <4> QED BY <3>2, <4>2
    <3>3. CASE ~manual
      <4>1. status'.auto /\ status'.setpoint = presVal
        BY <2>12, <3>1, <3>3 DEF Publish, Status
      <4> QED BY <3>1, <4>1
    <3> QED BY <3>2, <3>3
  <2>13. CASE SkipPublish
    BY <2>13 DEF SkipPublish, Goto
  <2>14. CASE YieldReturns
    BY <2>14 DEF YieldReturns, Goto
  <2>15. CASE MessageArrived
    BY <2>15 DEF MessageArrived
  <2>16. CASE \E p \in Pins : Press(p)
    BY <2>16 DEF Press
  <2>17. CASE \E d \in {-1, 1} : Turn(d)
    BY <2>17 DEF Turn
  <2>18. CASE AdjustDelayPasses
    BY <2>18 DEF AdjustDelayPasses
  <2>19. CASE SendDelayPasses
    BY <2>19 DEF SendDelayPasses
  <2>20. CASE \E c \in Commands : SendCommand(c)
    BY <2>20 DEF SendCommand
  <2>21. CASE UNCHANGED vars
    BY <2>21 DEF vars
  <2> QED BY <2>1, <2>2, <2>3, <2>4, <2>5, <2>6, <2>7, <2>8, <2>9, <2>10,
             <2>11, <2>12, <2>13, <2>14, <2>15, <2>16, <2>17, <2>18, <2>19,
             <2>20, <2>21 DEF Next, Main, Menu, Control, Report
<1> QED BY <1>1, <1>2, RoundInvariant, FanInvariant, FlagInvariant, PTL DEF Spec
-----------------------------------------------------------------------------
(* What a command leaves until the next key or turn of the knob: the mode  *)
(* it set, whatever was in the mailbox or half way round the loop when it  *)
(* came ...                                                                *)
Commanded == last.kind = "command"

ModeInv ==
  Commanded => /\ manual <=> ~last.auto
               /\ pc \notin {"yield", "top"} => (mode <=> manual)

(* ... and, once a value differing from the old set point has been taken   *)
(* up, that value: the knob has been read before, so it adds nothing.      *)
Present == IF manual THEN speedVal ELSE presVal
Taken == last.fresh /\ oldSetPoint = setpoint

ValueInv ==
  Commanded => /\ setpoint = last.value
               /\ pc = "status" => oldSetPoint = setpoint
               /\ pc \in {"apply", "status"} \/ Taken => prevval = knob
               /\ Taken => Present = ClampFor(~manual, setpoint)

LEMMA ModeInvariant == Spec => []ModeInv
<1>1. Init => ModeInv
  BY DEF Init, ModeInv, Commanded, NoInput
<1>2. InputInv /\ FlagInv /\ ModeInv /\ [Next]_vars => ModeInv'
  <2> SUFFICES ASSUME InputInv, FlagInv, ModeInv, [Next]_vars PROVE ModeInv'
    OBVIOUS
  <2> USE DEF ModeInv, Commanded, settings, values, keys, world, timers, counts
  <2>1. CASE ReadMode
    BY <2>1 DEF ReadMode, Goto
  <2>2. CASE LookForPageKey
    BY <2>2 DEF LookForPageKey, AfterPage
  <2>3. CASE FlipPage
    BY <2>3 DEF FlipPage, AfterPage
  <2>4. CASE LookForModeKey
    BY <2>4 DEF LookForModeKey
  <2>5. CASE ToggleMode
    <3>1. last'.kind = "button"
      BY <2>5 DEF ToggleMode, NoInput
    <3> QED BY <3>1, Zenon
  <2>6. CASE SetManual
    BY <2>6 DEF SetManual, Goto
  <2>7. CASE KnobUp
    BY <2>7 DEF KnobUp, Goto, AddToValue
  <2>8. CASE KnobDown
    BY <2>8 DEF KnobDown, Goto, AddToValue
  <2>9. CASE KnobSave
    BY <2>9 DEF KnobSave, Goto
  <2>10. CASE ApplyManual
    BY <2>10 DEF ApplyManual, Goto
  <2>11. CASE ApplyAuto
    BY <2>11 DEF ApplyAuto, Goto
  <2>12. CASE Publish
    BY <2>12 DEF Publish, Goto
  <2>13. CASE SkipPublish
    BY <2>13 DEF SkipPublish, Goto
  <2>14. CASE YieldReturns
    BY <2>14 DEF YieldReturns, Goto
  <2>15. CASE MessageArrived
    <3>1. last'.auto = Head(inbox).auto /\ pc' = "yield"
      BY <2>15 DEF MessageArrived
    <3>2. manual' = ~Head(inbox).auto
      BY <2>15, Zenon DEF MessageArrived
    <3> QED BY <3>1, <3>2, Zenon
  <2>16. CASE \E p \in Pins : Press(p)
    BY <2>16 DEF Press
  <2>17. CASE \E d \in {-1, 1} : Turn(d)
    <3>1. last'.kind = "knob"
      BY <2>17 DEF Turn, NoInput
    <3> QED BY <3>1, Zenon
  <2>18. CASE AdjustDelayPasses
    BY <2>18 DEF AdjustDelayPasses
  <2>19. CASE SendDelayPasses
    BY <2>19 DEF SendDelayPasses
  <2>20. CASE \E c \in Commands : SendCommand(c)
    BY <2>20 DEF SendCommand
  <2>21. CASE UNCHANGED vars
    BY <2>21 DEF vars
  <2> QED BY <2>1, <2>2, <2>3, <2>4, <2>5, <2>6, <2>7, <2>8, <2>9, <2>10,
             <2>11, <2>12, <2>13, <2>14, <2>15, <2>16, <2>17, <2>18, <2>19,
             <2>20, <2>21 DEF Next, Main, Menu, Control, Report
<1> QED BY <1>1, <1>2, InputInvariant, FlagInvariant, PTL DEF Spec

LEMMA ClampedAgain ==
  ASSUME NEW n \in Int, NEW auto
  PROVE  ClampFor(auto, ClampFor(auto, n)) = ClampFor(auto, n)
  BY DEF ClampFor, Clamp

LEMMA ValueInvariant == Spec => []ValueInv
<1>1. Init => ValueInv
  BY DEF Init, ValueInv, Commanded, NoInput
<1>2. InputInv /\ FlagInv /\ RoundInv /\ ModeInv /\ ValueInv /\ [Next]_vars
        => ValueInv'
  <2> SUFFICES ASSUME InputInv, FlagInv, RoundInv, ModeInv, ValueInv, [Next]_vars
               PROVE  ValueInv'
    OBVIOUS
  <2> USE DEF ValueInv, Commanded, Taken, Present, settings, values, keys, world,
              timers, counts
  <2>1. CASE ReadMode
    BY <2>1 DEF ReadMode, Goto
  <2>2. CASE LookForPageKey
    BY <2>2 DEF LookForPageKey, AfterPage
  <2>3. CASE FlipPage
    BY <2>3 DEF FlipPage, AfterPage
  <2>4. CASE LookForModeKey
    BY <2>4 DEF LookForModeKey
  <2>5. CASE ToggleMode
    <3>1. last'.kind = "button"
      BY <2>5 DEF ToggleMode, NoInput
    <3> QED BY <3>1
  <2>6. CASE SetManual
    <3>1. Commanded => (manual' <=> manual)
      BY <2>6, Zenon DEF SetManual, Goto, ModeInv
    <3> QED BY <2>6, <3>1 DEF SetManual, Goto, ClampFor
  <2>7. CASE KnobUp
    <3>1. Commanded /\ Taken => speedVal' = speedVal /\ presVal' = presVal
      BY <2>7, ValuesAreIntegers DEF KnobUp, AddToValue, InputInv
    <3> QED BY <2>7, <3>1 DEF KnobUp, Goto
  <2>8. CASE KnobDown
    <3>1. Commanded /\ Taken => speedVal' = speedVal /\ presVal' = presVal
      BY <2>8, ValuesAreIntegers DEF KnobDown, AddToValue, InputInv
    <3> QED BY <2>8, <3>1 DEF KnobDown, Goto
  <2>9. CASE KnobSave
    BY <2>9 DEF KnobSave, Goto
  <2>10. CASE ApplyManual
    <3>1. Commanded /\ last.fresh => NewValue = ClampFor(~manual, setpoint)
      BY ClampedAgain DEF NewValue, TakeSetPoint, InputInv
    <3> QED BY <2>10, <3>1 DEF ApplyManual, Goto
  <2>11. CASE ApplyAuto
    <3>1. Commanded /\ last.fresh => NewValue = ClampFor(~manual, setpoint)
      BY ClampedAgain DEF NewValue, TakeSetPoint, InputInv
    <3> QED BY <2>11, <3>1 DEF ApplyAuto, Goto
  <2>12. CASE Publish
    BY <2>12 DEF Publish, Goto
  <2>13. CASE SkipPublish
    BY <2>13 DEF SkipPublish, Goto
  <2>14. CASE YieldReturns
    BY <2>14 DEF YieldReturns, Goto
  <2>15. CASE MessageArrived
    <3>1. /\ last'.value = Head(inbox).value /\ setpoint' = Head(inbox).value
          /\ pc' = "yield" /\ oldSetPoint' = oldSetPoint
      BY <2>15 DEF MessageArrived
    <3>2. last'.fresh <=> Head(inbox).value # oldSetPoint
      BY <2>15 DEF MessageArrived
    <3> QED BY <3>1, <3>2
  <2>16. CASE \E p \in Pins : Press(p)
    BY <2>16 DEF Press
  <2>17. CASE \E d \in {-1, 1} : Turn(d)
    <3>1. last'.kind = "knob"
      BY <2>17 DEF Turn, NoInput
    <3> QED BY <3>1
  <2>18. CASE AdjustDelayPasses
    BY <2>18 DEF AdjustDelayPasses
  <2>19. CASE SendDelayPasses
    BY <2>19 DEF SendDelayPasses
  <2>20. CASE \E c \in Commands : SendCommand(c)
    BY <2>20 DEF SendCommand
  <2>21. CASE UNCHANGED vars
    BY <2>21 DEF vars
  <2> QED BY <2>1, <2>2, <2>3, <2>4, <2>5, <2>6, <2>7, <2>8, <2>9, <2>10,
             <2>11, <2>12, <2>13, <2>14, <2>15, <2>16, <2>17, <2>18, <2>19,
             <2>20, <2>21 DEF Next, Main, Menu, Control, Report
<1> QED BY <1>1, <1>2, InputInvariant, FlagInvariant, RoundInvariant, ModeInvariant,
           PTL DEF Spec

(* Each status published since the last command, no key or knob having     *)
(* been used after it, tells of its mode; and of its value, brought into   *)
(* the range of the mode, if that differed from the set point last taken   *)
(* up.  The loop never overwrites a setting that has just arrived.         *)
CommandReported ==
  Publish /\ Commanded =>
    /\ status'.auto <=> last.auto
    /\ last.fresh => status'.setpoint = ClampFor(last.auto, last.value)
    /\ last.fresh /\ manual => fan.op = "speed" /\ fan.value = 10 * Clamp(last.value, 100)

(* The safety core of ModeObeyed and FreshCommandObeyed.                   *)
THEOREM CommandReportedAlways == Spec => [][CommandReported]_vars
<1>1. InputInv /\ FlagInv /\ RoundInv /\ FanInv /\ ModeInv /\ ValueInv => CommandReported
  <2> SUFFICES ASSUME InputInv, FlagInv, RoundInv, FanInv, ModeInv, ValueInv,
                      Publish, Commanded
               PROVE  /\ status'.auto <=> last.auto
                      /\ last.fresh => status'.setpoint = ClampFor(last.auto, last.value)
                      /\ last.fresh /\ manual =>
                           fan.op = "speed" /\ fan.value = 10 * Clamp(last.value, 100)
    BY DEF CommandReported
  <2>1. /\ pc = "status" /\ (mode <=> manual) /\ (manual <=> ~last.auto)
        /\ setpoint = last.value /\ oldSetPoint = setpoint
        /\ last.fresh => Present = ClampFor(~manual, setpoint)
        /\ manual => fan.op = "speed" /\ fan.value = 10 * speedVal
    BY DEF Publish, Goto, ModeInv, ValueInv, Taken, FanInv
  <2>2. status'.auto = ~manual /\ status'.setpoint = IF mode THEN speedVal ELSE presVal
    BY DEF Publish, Status
  <2>3. last.fresh => Present = ClampFor(last.auto, last.value)
    BY <2>1 DEF ClampFor
  <2>4. status'.setpoint = Present
    BY <2>1, <2>2 DEF Present
  <2>5. status'.auto <=> last.auto
    BY <2>1, <2>2, Zenon
  <2> QED BY <2>1, <2>3, <2>4, <2>5 DEF Present, ClampFor
<1> QED BY <1>1, InputInvariant, FlagInvariant, RoundInvariant, FanInvariant,
           ModeInvariant, ValueInvariant, PTL DEF Spec
=============================================================================
