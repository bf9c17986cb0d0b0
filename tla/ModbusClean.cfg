CONSTANTS
  r1 = r1
  r2 = r2
  Registers = {r1, r2}
  RespLen <- MCRespLen
  ErrorLen = 1
  BufLen = 3
  NoReg = NoReg
  NoByte = NoByte
  AnswersInTime = TRUE
  AlarmDuringStart = FALSE
  MaxOutstanding = 2
  MaxLine = 4
  Pauses = {0, 32, 44}
SPECIFICATION FairSpec
INVARIANTS TypeOK IdleMeansStopped OwnBytes FullLengthIsWhole
PROPERTIES QuietBeforeRequest ImplementsSerialBus
