CONSTANTS
  Targets <- MCTargets
  SpeedVals <- MCSpeedVals
  Gains <- MCGains
  Noise = 1
SPECIFICATION LoopSpec
PROPERTIES MovesTowardTarget Settles UnreachableReported
