SPECIFICATION MCSpec
CONSTANTS
  Ptr = {o1, o2}
  Second = o2
  Time = {1, 2}
  Value = {a, b}
  First = a
  Null = Null
  NoValue = NoValue
  NoObj = NoObj
  Writer = {1}
  Reader = {}
  Creator = 1
  Maker = 1
  Old = {}
  OldWins = FALSE
  MayFail = {}
INVARIANT CommittedSurvive
CHECK_DEADLOCK FALSE
