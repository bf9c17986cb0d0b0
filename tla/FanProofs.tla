------------------------------ MODULE FanProofs ------------------------------
(* Theorems about Fan, for every target, measured pressure, commanded speed *)
(* and delay, and the step from FanLoop to it.                              *)
EXTENDS FanLoop, TLAPS

(* What C division by the two constants of adjust_speed() returns.          *)
LEMMA TruncDivBy150 ==
  ASSUME NEW n \in Int
  PROVE  /\ TruncDiv(n, 150) \in Int
         /\ n >= 300 => TruncDiv(n, 150) >= 2
         /\ n <= -300 => TruncDiv(n, 150) <= -2
  BY SMT DEF TruncDiv

LEMMA TruncDivBy2 ==
  ASSUME NEW n \in Int
  PROVE  /\ TruncDiv(n, 2) \in Int
         /\ n >= 0 => 2 * TruncDiv(n, 2) <= n /\ n <= 2 * TruncDiv(n, 2) + 1
         /\ n < 0 => TruncDiv(n, 2) <= 0
  BY SMT DEF TruncDiv

(* A correction outside the tolerance moves the speed by at least one step  *)
(* toward the target, or leaves it at the end of its range.                 *)
LEMMA NewSpeedMoves ==
  ASSUME speed \in SPEED_MIN..SPEED_MAX, NEW d \in Int
  PROVE  /\ NewSpeed(d) \in SPEED_MIN..SPEED_MAX
         /\ d >= TOLERANCE => NewSpeed(d) > speed \/ NewSpeed(d) = SPEED_MAX
         /\ d <= -TOLERANCE => NewSpeed(d) < speed \/ NewSpeed(d) = SPEED_MIN
<1> USE DEF SPEED_MIN, SPEED_MAX, PRESSURE_MAX, TOLERANCE
<1> DEFINE adjust == TruncDiv(d * 1000, 150)
           sum == TruncDiv(2 * speed + adjust, 2)
<1>1. /\ adjust \in Int
      /\ d >= 5 => adjust >= 2
      /\ d <= -5 => adjust <= -2
  <2>1. d * 1000 \in Int /\ (d >= 5 => d * 1000 >= 300)
        /\ (d <= -5 => d * 1000 <= -300)
    OBVIOUS
  <2> QED
    BY <2>1, TruncDivBy150
<1> HIDE DEF adjust
<1>2. /\ sum \in Int
      /\ 2 * speed + adjust >= 0 =>
           2 * sum <= 2 * speed + adjust /\ 2 * speed + adjust <= 2 * sum + 1
      /\ 2 * speed + adjust < 0 => sum <= 0
  BY <1>1, TruncDivBy2
<1>3. NewSpeed(d) = Clamp(sum, 0, 1000)
  BY DEF NewSpeed, adjust
<1> HIDE DEF sum
<1> QED
  BY <1>1, <1>2, <1>3 DEF Clamp

LEMMA TypeNext == ASSUME TypeOK, [Next]_fanVars PROVE TypeOK'
<1>1. speed' \in SPEED_MIN..SPEED_MAX /\ pressure' \in Int
  <2>1. ASSUME NEW s \in SpeedVals, SetSpeed(10 * s) 
        PROVE  speed' \in SPEED_MIN..SPEED_MAX /\ pressure' \in Int
    BY <2>1, FanAssumption DEF SetSpeed, TypeOK, SPEED_MIN, SPEED_MAX
  <2>2. ASSUME NEW t \in Targets, NEW p \in Int, AdjustSpeed(t, p)
        PROVE  speed' \in SPEED_MIN..SPEED_MAX /\ pressure' \in Int
    <3>1. t - p \in Int /\ p \in Int
      BY FanAssumption
    <3>2. NewSpeed(t - p) \in SPEED_MIN..SPEED_MAX
      BY <3>1, NewSpeedMoves DEF TypeOK
    <3> QED
      BY <2>2, <3>1, <3>2 DEF AdjustSpeed, InTolerance, OutOfTolerance, TypeOK
  <2>3. CASE (\E ms \in Nat : Elapse(ms)) \/ UNCHANGED fanVars
    BY <2>3 DEF Elapse, TypeOK, fanVars
  <2> QED
    BY <2>1, <2>2, <2>3 DEF Next
<1>2. errorAge' \in 0..AGE_BOUND
  <2>1. ASSUME NEW ms \in Nat, Elapse(ms) PROVE errorAge' \in 0..AGE_BOUND
    BY <2>1 DEF Elapse, Older, TypeOK, AGE_BOUND, ERROR_DELAY
  <2>2. 0 \in 0..AGE_BOUND
    BY DEF AGE_BOUND, ERROR_DELAY
  <2>3. CASE \/ \E s \in SpeedVals : SetSpeed(10 * s)
             \/ \E t \in Targets, p \in Int : AdjustSpeed(t, p)
             \/ UNCHANGED fanVars
    BY <2>2, <2>3
       DEF SetSpeed, AdjustSpeed, InTolerance, OutOfTolerance, TypeOK, fanVars
  <2> QED
    BY <2>1, <2>3 DEF Next
<1>3. error' \in BOOLEAN
  BY DEF TypeOK, Next, SetSpeed, AdjustSpeed, InTolerance, OutOfTolerance,
         Elapse, fanVars
<1> QED
  BY <1>1, <1>2, <1>3 DEF TypeOK

(* The commanded speed never leaves the fan's range, whatever the sensor    *)
(* reports and however long the commands go on.                             *)
THEOREM TypeCorrect == Spec => []TypeOK
<1>1. Init => TypeOK
  BY DEF Init, TypeOK, SPEED_MIN, SPEED_MAX, AGE_BOUND, ERROR_DELAY
<1> QED
  BY <1>1, TypeNext, PTL DEF Spec

LEMMA AdjustMoves ==
  ASSUME TypeOK, NEW t \in Targets, NEW p \in Int, AdjustSpeed(t, p)
  PROVE  /\ t - p >= TOLERANCE => speed' > speed \/ speed' = SPEED_MAX
         /\ p - t >= TOLERANCE => speed' < speed \/ speed' = SPEED_MIN
<1>1. t \in Int /\ p \in Int /\ t - p \in Int
  BY FanAssumption
<1>2. CASE AbsValue(t - p) < TOLERANCE
  BY <1>1, <1>2 DEF AbsValue, TOLERANCE
<1>3. CASE ~(AbsValue(t - p) < TOLERANCE)
  <2>1. speed' = NewSpeed(t - p)
    BY <1>3 DEF AdjustSpeed, OutOfTolerance
  <2> QED
    BY <1>1, <2>1, NewSpeedMoves DEF TypeOK, TOLERANCE
<1> QED
  BY <1>2, <1>3

(* Every adjustment outside the tolerance moves the fan toward the target   *)
(* unless the fan is already at the end of its range.                       *)
THEOREM MovesTowardTargetAlways == Spec => MovesTowardTarget
<1> DEFINE Moves ==
      \A t \in Targets :
        AdjustSpeed(t, pressure') =>
          /\ t - pressure' >= TOLERANCE => speed' > speed \/ speed' = SPEED_MAX
          /\ pressure' - t >= TOLERANCE => speed' < speed \/ speed' = SPEED_MIN
<1>1. TypeOK /\ TypeOK' => Moves
  <2>1. TypeOK' => pressure' \in Int
    BY DEF TypeOK
  <2> QED
    BY <2>1, AdjustMoves
<1> QED
  BY <1>1, TypeCorrect, PTL DEF MovesTowardTarget

-----------------------------------------------------------------------------
(* What is fixed when a behaviour begins.                                   *)
Fixed == gain \in Nat /\ target \in Targets

(* Driven by main, in either mode and through every change of mode, over    *)
(* any duct, the fan does only what Fan allows.                             *)
THEOREM LoopImplementsFan == LoopSpec => Spec
<1>1. LoopInit => Init
  BY DEF LoopInit
<1>2. TypeOK /\ Fixed /\ [LoopNext]_loopVars => [Next]_fanVars
  <2> SUFFICES ASSUME TypeOK, Fixed, [LoopNext]_loopVars PROVE [Next]_fanVars
    OBVIOUS
  <2>1. CASE SwitchMode
    BY <2>1 DEF SwitchMode, fanVars
  <2>2. CASE DelayPasses
    BY <2>2 DEF DelayPasses, Next, ADJUST_DELAY
  <2>3. CASE SetManually
    BY <2>3 DEF SetManually, Next
  <2>4. CASE Adjust
    <3>1. PICK e \in -Noise..Noise : AdjustSpeed(target, DuctPressure + e)
      BY <2>4 DEF Adjust
    <3>2. gain * speed \in Nat
      BY DEF Fixed, TypeOK, SPEED_MIN, SPEED_MAX
    <3>3. DuctPressure + e \in Int
      BY <3>2, LoopAssumption DEF DuctPressure, SPEED_MAX
    <3> QED
      BY <2>4, <3>1, <3>3 DEF Adjust, Next, Fixed
  <2>5. CASE UNCHANGED loopVars
    BY <2>5 DEF loopVars, fanVars
  <2> QED
    BY <2>1, <2>2, <2>3, <2>4, <2>5 DEF LoopNext
<1>3. LoopInit => TypeOK /\ Fixed
  BY LoopAssumption
  DEF Fixed, LoopInit, Init, TypeOK, SPEED_MIN, SPEED_MAX, AGE_BOUND, ERROR_DELAY
<1>4. TypeOK /\ [Next]_fanVars => TypeOK'
  BY TypeNext
<1>5. Fixed /\ [LoopNext]_loopVars => Fixed'
  BY DEF Fixed, LoopNext, SwitchMode, DelayPasses, SetManually, Adjust, loopVars
<1> QED
  BY <1>1, <1>2, <1>3, <1>4, <1>5, PTL DEF LoopSpec, Spec

-----------------------------------------------------------------------------
(* How far one correction moves the speed, and the speed the pressure.      *)
LEMMA TruncBounds ==
  ASSUME NEW n \in Int
  PROVE  /\ n >= 0 => 0 <= TruncDiv(n, 150) /\ 150 * TruncDiv(n, 150) <= n
                      /\ n < 150 * TruncDiv(n, 150) + 150
         /\ n < 0 => 0 <= -TruncDiv(n, 150) /\ 150 * (-TruncDiv(n, 150)) <= -n
  BY SMT DEF TruncDiv

LEMMA CorrectionBound ==
  ASSUME speed \in SPEED_MIN..SPEED_MAX, NEW d \in Int
  PROVE  /\ NewSpeed(d) \in 0..1000 /\ speed \in 0..1000
         /\ d > 0 => NewSpeed(d) >= speed /\ 3 * (NewSpeed(d) - speed) <= 10 * d
         /\ d < 0 => NewSpeed(d) <= speed /\ 6 * (speed - NewSpeed(d)) <= 20 * (-d) + 3
<1> USE DEF SPEED_MIN, SPEED_MAX, PRESSURE_MAX
<1> DEFINE adjust == TruncDiv(d * 1000, 150)
           sum == TruncDiv(2 * speed + adjust, 2)
<1>1. /\ adjust \in Int
      /\ d > 0 => adjust >= 1 /\ 150 * adjust <= 1000 * d
      /\ d < 0 => adjust <= 0 /\ 150 * (-adjust) <= 1000 * (-d)
  <2>1. d * 1000 \in Int /\ (d > 0 => d * 1000 >= 1000) /\ (d < 0 => d * 1000 < 0)
    OBVIOUS
  <2> QED BY <2>1, TruncDivBy150, TruncBounds
<1> HIDE DEF adjust
<1>2. /\ sum \in Int
      /\ 2 * speed + adjust >= 0 =>
           2 * sum <= 2 * speed + adjust /\ 2 * speed + adjust <= 2 * sum + 1
      /\ 2 * speed + adjust < 0 => sum <= 0
  BY <1>1, TruncDivBy2
<1>3. NewSpeed(d) = Clamp(sum, 0, 1000)
  BY DEF NewSpeed, adjust
<1> HIDE DEF sum
<1>4. d > 0 => sum >= speed /\ 3 * (sum - speed) <= 10 * d
  BY <1>1, <1>2
<1>5. d < 0 => sum <= speed /\ (sum >= 0 => 6 * (speed - sum) <= 20 * (-d) + 3)
                            /\ (sum <= 0 => 6 * speed <= 20 * (-d) + 3)
  BY <1>1, <1>2
<1> QED BY <1>2, <1>3, <1>4, <1>5 DEF Clamp

(* The pressure of a duct of gain g at speed s, and a speed raised or       *)
(* lowered from s to r by no more than the correction for d pascal.         *)
Press(g, s) == (g * s) \div 1000
RiseFits(s, r, d) == s <= r /\ 3 * (r - s) <= 10 * d
FallFits(s, r, d) == r <= s /\ 6 * (s - r) <= 20 * d + 3

LEMMA GainTimes ==
  ASSUME NEW g \in 0..300, NEW k \in Nat
  PROVE  g * k \in Nat /\ g * k <= 300 * k
  OBVIOUS

LEMMA PressureRises ==
  ASSUME NEW g \in 0..300, NEW s, NEW r, NEW d \in Nat,
         s \in 0..1000, r \in 0..1000, RiseFits(s, r, d)
  PROVE  Press(g, s) <= Press(g, r) /\ Press(g, r) <= Press(g, s) + d
<1> DEFINE k == r - s
           a == g * s
           b == g * k
<1>1. k \in Nat /\ 3 * k <= 10 * d
  BY DEF RiseFits
<1>2. b \in Nat /\ b <= 300 * k
  BY <1>1, GainTimes
<1>3. g * r = a + b /\ a \in Nat
  OBVIOUS
<1> HIDE DEF a, b, k
<1>4. b <= 1000 * d
  BY <1>1, <1>2
<1>5. a \div 1000 <= (a + b) \div 1000 /\ (a + b) \div 1000 <= a \div 1000 + d
  BY <1>2, <1>3, <1>4
<1> QED BY <1>3, <1>5 DEF a, Press

LEMMA PressureFalls ==
  ASSUME NEW g \in 0..300, NEW s, NEW r, NEW d \in Nat,
         s \in 0..1000, r \in 0..1000, FallFits(s, r, d)
  PROVE  Press(g, r) <= Press(g, s) /\ Press(g, s) <= Press(g, r) + d + 1
<1> DEFINE k == s - r
           a == g * r
           b == g * k
<1>1. k \in Nat /\ 6 * k <= 20 * d + 3
  BY DEF FallFits
<1>2. b \in Nat /\ b <= 300 * k
  BY <1>1, GainTimes
<1>3. g * s = a + b /\ a \in Nat
  OBVIOUS
<1> HIDE DEF a, b, k
<1>4. b <= 1000 * d + 150
  BY <1>1, <1>2
<1>5. a \div 1000 <= (a + b) \div 1000 /\ (a + b) \div 1000 <= a \div 1000 + d + 1
  BY <1>2, <1>3, <1>4
<1> QED BY <1>3, <1>5 DEF a, Press

(* A correction takes the pressure at most to the target, but for the error *)
(* of the measurement and one pascal of rounding: over any duct up to twice *)
(* as strong as adjust_speed() assumes it does not oscillate, and having    *)
(* come that near to the target stays there.                                *)
Steady ==
  Adjust /\ gain <= 2 * PRESSURE_MAX =>
    /\ DuctPressure <= target + Noise => DuctPressure' <= target + Noise
    /\ DuctPressure >= target - Noise - 1 => DuctPressure' >= target - Noise - 1

LEMMA AdjustSteady == ASSUME TypeOK, Fixed PROVE Steady
<1> SUFFICES ASSUME Adjust, gain <= 2 * PRESSURE_MAX
             PROVE  /\ DuctPressure <= target + Noise => DuctPressure' <= target + Noise
                    /\ DuctPressure >= target - Noise - 1 =>
                         DuctPressure' >= target - Noise - 1
  BY DEF Steady
<1>1. gain \in 0..300 /\ gain' = gain /\ target \in Int /\ Noise \in Nat
  BY FanAssumption, LoopAssumption DEF Fixed, Adjust, PRESSURE_MAX
<1>2. PICK e \in -Noise..Noise : AdjustSpeed(target, DuctPressure + e)
  BY DEF Adjust
<1> DEFINE p == Press(gain, speed)
           d == target - (p + e)
<1>3. speed \in 0..1000 /\ gain * speed \in Nat
  BY <1>1 DEF TypeOK, SPEED_MIN, SPEED_MAX
<1>4. p \in Int /\ e \in Int /\ d \in Int /\ DuctPressure = p
  BY <1>1, <1>3 DEF DuctPressure, SPEED_MAX, Press
<1>5. CASE speed' = speed
  <2>1. DuctPressure' = DuctPressure
    BY <1>1, <1>5 DEF DuctPressure
  <2> QED BY <1>1, <2>1
<1>6. CASE speed' # speed
  <2>1. speed' = NewSpeed(d) /\ d # 0
    BY <1>2, <1>4, <1>6 DEF AdjustSpeed, InTolerance, OutOfTolerance, AbsValue, TOLERANCE
  <2>2. DuctPressure' = Press(gain, NewSpeed(d))
    BY <1>1, <2>1 DEF DuctPressure, SPEED_MAX, Press
  <2>3. /\ NewSpeed(d) \in 0..1000
        /\ d > 0 => NewSpeed(d) >= speed /\ 3 * (NewSpeed(d) - speed) <= 10 * d
        /\ d < 0 => NewSpeed(d) <= speed /\ 6 * (speed - NewSpeed(d)) <= 20 * (-d) + 3
    BY <1>4, CorrectionBound DEF TypeOK
  <2> DEFINE r == NewSpeed(d)
             q == Press(gain, r)
  <2>4. q \in Int
    BY <1>1, <2>3 DEF Press
  <2>5. r \in 0..1000 /\ (d > 0 => r >= speed /\ 3 * (r - speed) <= 10 * d)
        /\ (d < 0 => r <= speed /\ 6 * (speed - r) <= 20 * (-d) + 3)
    BY <2>3
  <2>6. DuctPressure' = q
    BY <2>2
  <2>7. d = target - (p + e) /\ d \in Int
    BY <1>4
  <2> HIDE DEF r, d
  <2>8. CASE d > 0
    <3>1. d \in Nat /\ RiseFits(speed, r, d)
      BY <1>3, <2>5, <2>7, <2>8 DEF RiseFits
    <3>2. p <= q /\ q <= p + d
      <4>1. gain \in 0..300 /\ speed \in 0..1000 /\ r \in 0..1000
        BY <1>1, <1>3, <2>5
      <4>2. /\ Press(gain, speed) <= Press(gain, r)
            /\ Press(gain, r) <= Press(gain, speed) + d
        BY <3>1, <4>1, PressureRises
      <4> QED BY <4>2
    <3> HIDE DEF p, q
    <3> QED BY <1>1, <1>2, <1>4, <2>4, <2>6, <2>7, <3>2
  <2>9. CASE d < 0
    <3> DEFINE m == -d
    <3>1. m \in Nat /\ FallFits(speed, r, m)
      BY <1>3, <2>5, <2>7, <2>9 DEF FallFits
    <3>2. m = -d
      OBVIOUS
    <3> HIDE DEF m
    <3>3. q <= p /\ p <= q + m + 1
      <4>1. gain \in 0..300 /\ speed \in 0..1000 /\ r \in 0..1000
        BY <1>1, <1>3, <2>5
      <4>2. /\ Press(gain, r) <= Press(gain, speed)
            /\ Press(gain, speed) <= Press(gain, r) + m + 1
        BY <3>1, <4>1, PressureFalls
      <4> QED BY <4>2
    <3> HIDE DEF p, q
    <3> QED BY <1>1, <1>2, <1>4, <2>4, <2>6, <2>7, <3>2, <3>3
  <2> QED BY <2>1, <2>7, <2>8, <2>9
<1> QED BY <1>5, <1>6

(* What Settles adds fairness and a limit to.                               *)
THEOREM SteadyAlways == LoopSpec => [][Steady]_loopVars
<1>1. LoopSpec => []Fixed
  <2>1. LoopInit => Fixed
    BY LoopAssumption DEF Fixed, LoopInit
  <2>2. Fixed /\ [LoopNext]_loopVars => Fixed'
    BY DEF Fixed, LoopNext, SwitchMode, DelayPasses, SetManually, Adjust, loopVars
  <2> QED BY <2>1, <2>2, PTL DEF LoopSpec
<1>2. TypeOK /\ Fixed => Steady
  BY AdjustSteady
<1> QED BY <1>1, <1>2, LoopImplementsFan, TypeCorrect, PTL
=============================================================================
