------------------------------- MODULE FanLoop -------------------------------
(***************************************************************************)
(* The fan as main drives it: in manual mode set_speed() in every round,   *)
(* in automatic mode adjust_speed() every ADJUST_DELAY for one target,     *)
(* while the pressure follows the speed.  The duct is not in the           *)
(* repository: it is taken to settle between two adjustments at a pressure *)
(* proportional to the speed, measured with an error of at most Noise.     *)
(***************************************************************************)
EXTENDS Fan

CONSTANTS Gains,  \* pressures of the duct at full speed
          Noise   \* largest error of a measurement

ASSUME LoopAssumption == Gains \subseteq Nat /\ Noise \in Nat

ADJUST_DELAY == 5000

VARIABLES target,  \* pres_val, fixed
          gain,    \* the duct's gain, fixed
          auto,    \* automatic mode
          due      \* ADJUST_DELAY has passed since adjust_time

loopVars == <<fanVars, target, gain, auto, due>>

DuctPressure == (gain * speed) \div SPEED_MAX

LoopInit ==
  /\ Init
  /\ target \in Targets /\ gain \in Gains
  /\ auto = FALSE /\ due = FALSE

(* A key or a message changes the mode; neither changes the fan.           *)
SwitchMode ==
  /\ auto' = ~auto
  /\ UNCHANGED <<fanVars, target, gain, due>>

DelayPasses ==
  /\ due' = TRUE
  /\ Elapse(ADJUST_DELAY + 1)
  /\ UNCHANGED <<target, gain, auto>>

SetManually ==
  /\ ~auto
  /\ \E s \in SpeedVals : SetSpeed(10 * s)
  /\ UNCHANGED <<target, gain, auto, due>>

Adjust ==
  /\ auto
  /\ due /\ due' = FALSE
  /\ \E e \in -Noise..Noise : AdjustSpeed(target, DuctPressure + e)
  /\ UNCHANGED <<target, gain, auto>>

LoopNext == SwitchMode \/ DelayPasses \/ SetManually \/ Adjust

(* Time passes and main keeps looping.                                     *)
LoopSpec ==
  LoopInit /\ [][LoopNext]_loopVars /\ WF_loopVars(DelayPasses)
           /\ WF_loopVars(Adjust)

-----------------------------------------------------------------------------
(* Once automatic mode is left on, from whatever speed, error flag and     *)
(* timer the manual mode or the boot has left, a target the duct can reach *)
(* is reached, held within the tolerance and the measuring error, and the  *)
(* error flag is down for good: the gain of adjust_speed() neither         *)
(* oscillates nor stops short of the target.                               *)
Settles ==
  target <= gain /\ <>[]auto =>
    <>[](AbsValue(target - DuctPressure) < TOLERANCE + Noise /\ ~error)

(* Once automatic mode is left on, a target beyond the duct's reach ends   *)
(* with the fan at full speed and the error flag up for good.              *)
UnreachableReported ==
  target >= gain + TOLERANCE + Noise /\ <>[]auto =>
    <>[](error /\ speed = SPEED_MAX)
=============================================================================
