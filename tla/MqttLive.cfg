CONSTANTS
  Ids = {1}
  Worlds <- MCTimedWorlds
  MaxMessages = 2
SPECIFICATION FairSpec
INVARIANT AckedDelivered
PROPERTIES OperationsEnd SettingsDelivered DeadPeerNoticed
CHECK_DEADLOCK FALSE
