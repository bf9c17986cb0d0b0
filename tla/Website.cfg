CONSTANTS
  Slots = {1, 2}
  Worlds <- MCWorlds
SPECIFICATION MCSpec
INVARIANT HistoryNewestFirst
PROPERTIES PageCatchesUp LastSettingsStand
