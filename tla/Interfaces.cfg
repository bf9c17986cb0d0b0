CONSTANTS
  Streams <- MCStreams
  BUFLEN = 132
  Chunks = {1, 50}
  MaxBreaks = 1
  Filters <- MCFilters
  Topics <- MCTopics
  Callbacks = {h1, h2}
  NoCallback = none
  MAX_MESSAGE_HANDLERS = 2
  Data <- MCData
  Bursts <- MCBursts
  Counts = {1, 2}
  Unset <- MCUnset
  MaxFaults = 1
  width = 12
  height = 16
  PANEL = 14
  WORD = 65536
  Font <- MCFont
  Drawings <- MCDrawings
  MaxDrawings = 2
  INPUT_SIZE = 2
  Length <- MCLength
  START = 0
  MAX_INT = 3
  ShortPorts <- MCShortPorts
  OldSettings <- MCOldSettings
  Pins = {7, 8, 9, 12}
  Turns <- MCTurns
  MaxPresses = 7
  MaxHasty = 1
  MaxTurns = 1
  MaxAttempts = 2
  MaxResets = 1
SPECIFICATION Spec
INVARIANTS ReceivedAsSent OneSlotPerFilter AcceptedIsTrue
INVARIANTS WrittenInTable NoMoreThanPressed LeavesStored AcceptedWasVerified
PROPERTIES RightHandlers OnlyRequestedWritten ImplementsCanvas
CHECK_DEADLOCK FALSE
