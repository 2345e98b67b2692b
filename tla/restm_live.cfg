SPECIFICATION LiveSpec
CONSTANTS
  Ptr = {x}
  Static = {x}
  Time <- MCTime
  Value <- MCValue
  Stores <- WriteOnly
  Null = Null
  NoValue = NoValue
  MaxDisturbances = 1
  Scenes = {"all"}
PROPERTIES CommitsGetInstalled RegisteredLocksReleased
CHECK_DEADLOCK FALSE
