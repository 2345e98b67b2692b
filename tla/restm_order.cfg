SPECIFICATION MCSpec
CONSTANTS
  Ptr = {x, n}
  Static = {x}
  Time <- MCTime3
  Value <- MCValue
  Stores <- MCStores
  Null = Null
  NoValue = NoValue
  MaxDisturbances = 1
  Scenes = {"order", "create", "lock"}
INVARIANTS Serializable IInv
CHECK_DEADLOCK FALSE
