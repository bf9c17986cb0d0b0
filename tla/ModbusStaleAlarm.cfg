CONSTANTS
  r1 = r1
  r2 = r2
  Registers = {r1, r2}
  RespLen <- MCRespLen
  ErrorLen = 1
  BufLen = 3
  NoReg = NoReg
  NoByte = NoByte
  AnswersInTime = TRUE
  AlarmDuringStart = TRUE
  MaxOutstanding = 2
  MaxLine = 4
  Pauses = {0, 32}
SPECIFICATION Spec
INVARIANT IdleMeansStopped
