SPECIFICATION MCSpec
CONSTANTS
  Ptr = {o1, o2}
  Second = o2
  Time = {1, 2, 3}
  Value = {a, b}
  First = a
  Null = Null
  NoValue = NoValue
  NoObj = NoObj
  Writer = {1, 3}
  Reader = {2}
  Creator = 0
  Maker = 1
  Old = {1, 2, 3}
  OldWins = FALSE
  MayFail = {"read", "store"}
INVARIANTS LockedIsCurrent CommittedSurvive MarkedIsStored SerialWhileHeld
PROPERTY CommitsReachStore
CHECK_DEADLOCK FALSE
