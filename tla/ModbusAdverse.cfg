CONSTANTS
  r1 = r1
  r2 = r2
  Registers = {r1}
  RespLen <- MCOneLen
  ErrorLen = 1
  BufLen = 3
  NoReg = NoReg
  NoByte = NoByte
  AnswersInTime = FALSE
  AlarmDuringStart = TRUE
  MaxOutstanding = 2
  MaxLine = 4
  Pauses = {0, 32}
SPECIFICATION FairSpec
INVARIANT BusyHasAlarm
PROPERTY CallsReturn
