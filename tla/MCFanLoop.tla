----------------------------- MODULE MCFanLoop ------------------------------
(* Targets over their whole range, speeds at and between the ends, ducts    *)
(* from too weak for any target to twice what PRESSURE_MAX assumes.         *)
EXTENDS FanLoop

MCTargets == {0, 3, 5, 37, 60, 99, 120}
MCGains == {4, 60, 100, 150, 300}
MCSpeedVals == {0, 1, 25, 50, 77, 100}
=============================================================================
