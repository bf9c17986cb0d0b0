CONSTANTS
  Commands <- MCCommands
  Pins = {8, 9}
  MaxCommands = 2
  MaxPresses = 1
  MaxTurns = 1
SPECIFICATION FairSpec
INVARIANT StatusConsistent
PROPERTIES ModeObeyed FreshCommandObeyed ModeKeyServed
