SPECIFICATION MCSpec
CONSTANTS
  Ptr = {x, y}
  Static = {x, y}
  Time <- MCTime
  Value <- MCValue
  Stores <- WriteOnly
  Null = Null
  NoValue = NoValue
  MaxDisturbances = 1
  Scenes = {"order"}
INVARIANTS CommittedWritesSafe NothingUncommitted
PROPERTY ImplementsSerialStore
CHECK_DEADLOCK FALSE
