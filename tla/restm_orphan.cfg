SPECIFICATION LiveSpec
CONSTANTS
  Ptr = {x}
  Static = {x}
  Time <- MCTime
  Value <- MCValue
  Stores <- WriteOnly
  Null = Null
  NoValue = NoValue
  MaxDisturbances = 1
  Scenes = {"all"}
PROPERTY OrphanedLocksReleased
CHECK_DEADLOCK FALSE
