-------------------------------- MODULE Fan ---------------------------------
(***************************************************************************)
(* The FAN class of src/src/fan_controller: the speed it commands, the     *)
(* pressure it last measured, and its error flag with the timer behind it. *)
(* The numbers are those of the code.  set_speed() and adjust_speed() are  *)
(* the two operations; the Modbus transfer each ends with is the subject   *)
(* of ModbusCtrl; the speed it carries is always the new `speed`.           *)
(***************************************************************************)
EXTENDS Integers

CONSTANTS
  Targets,   \* pressure targets main asks adjust_speed() for
  SpeedVals  \* fan speeds in percent main asks set_speed() for

ASSUME FanAssumption ==
  /\ Targets \subseteq 0..120
  /\ SpeedVals \subseteq 0..100

TOLERANCE == 5        \* PRESSURE_TARGET_TOLERANCE
PRESSURE_MAX == 150
SPEED_MIN == 0
SPEED_MAX == 1000
ERROR_DELAY == 30000
AGE_BOUND == ERROR_DELAY + 1  \* bound: ages above ERROR_DELAY are alike

VARIABLES
  speed,     \* FAN::speed
  pressure,  \* FAN::pressure
  error,     \* FAN::error
  errorAge   \* milliseconds since error_time_ms

fanVars == <<speed, pressure, error, errorAge>>

AbsValue(n) == IF n < 0 THEN -n ELSE n
(* C division, which truncates toward zero; d > 0.                         *)
TruncDiv(n, d) == IF n < 0 THEN -((-n) \div d) ELSE n \div d
Clamp(n, lo, hi) == IF n < lo THEN lo ELSE IF n > hi THEN hi ELSE n
Older(age, ms) == IF age + ms > AGE_BOUND THEN AGE_BOUND ELSE age + ms

-----------------------------------------------------------------------------
(* Mutated forms of the definitions below, slips the properties must       *)
(* notice; no specification uses them.                                     *)
NewSpeedHalfFirst(distance) ==
  Clamp(speed + TruncDiv(TruncDiv(distance, 2 * TOLERANCE) * SPEED_MAX,
                         PRESSURE_MAX),
        SPEED_MIN, SPEED_MAX)

NewSpeedNotHalved(distance) ==
  Clamp(speed + TruncDiv(distance * SPEED_MAX, PRESSURE_MAX),
        SPEED_MIN, SPEED_MAX)

-----------------------------------------------------------------------------
(* speed += adjust / 2 is computed in floating point and truncated, so the *)
(* halves are kept until the sum is known.                                 *)
NewSpeed(distance) ==
  Clamp(TruncDiv(2 * speed + TruncDiv(distance * SPEED_MAX, PRESSURE_MAX), 2),
        SPEED_MIN, SPEED_MAX)

(* The constructor leaves error and error_time_ms uninitialized: the age   *)
(* may be anything, and its two ends stand for it.                         *)
Init ==
  /\ speed = 0 /\ pressure = 0
  /\ error \in BOOLEAN
  /\ errorAge \in {0, AGE_BOUND}

-----------------------------------------------------------------------------
SetSpeed(s) ==
  /\ error' = FALSE
  /\ speed' = s
  /\ UNCHANGED <<pressure, errorAge>>

InTolerance ==
  /\ errorAge' = 0
  /\ error' = FALSE
  /\ UNCHANGED speed

(* Another mutated form.                                                   *)
OutOfToleranceRestarts(distance) ==
  /\ error' = (error \/ errorAge > ERROR_DELAY)
  /\ speed' = NewSpeed(distance)
  /\ errorAge' = 0

OutOfTolerance(distance) ==
  /\ error' = (error \/ errorAge > ERROR_DELAY)
  /\ speed' = NewSpeed(distance)
  /\ UNCHANGED errorAge

(* adjust_speed(target), the sensor reporting `measured`.                  *)
AdjustSpeed(target, measured) ==
  /\ pressure' = measured
  /\ LET distance == target - measured IN
       IF AbsValue(distance) < TOLERANCE
       THEN InTolerance ELSE OutOfTolerance(distance)

Elapse(ms) ==
  /\ errorAge' = Older(errorAge, ms)
  /\ UNCHANGED <<speed, pressure, error>>

(* The sensor may report anything, and any time may pass.                  *)
Next ==
  \/ \E s \in SpeedVals : SetSpeed(10 * s)
  \/ \E t \in Targets, p \in Int : AdjustSpeed(t, p)
  \/ \E ms \in Nat : Elapse(ms)

Spec == Init /\ [][Next]_fanVars

-----------------------------------------------------------------------------
(* Types; the speed is always one the fan accepts.                         *)
TypeOK ==
  /\ speed \in SPEED_MIN..SPEED_MAX
  /\ pressure \in Int
  /\ error \in BOOLEAN
  /\ errorAge \in 0..AGE_BOUND

(* An adjustment outside the tolerance moves the fan toward the target     *)
(* unless it is already at the end of its range: neither the integer       *)
(* division nor the truncation back to int can swallow a correction, or    *)
(* turn it round, on either side of the target.                            *)
MovesTowardTarget ==
  [][\A t \in Targets :
       AdjustSpeed(t, pressure') =>
         /\ t - pressure' >= TOLERANCE => speed' > speed \/ speed' = SPEED_MAX
         /\ pressure' - t >= TOLERANCE => speed' < speed \/ speed' = SPEED_MIN
    ]_fanVars
=============================================================================
