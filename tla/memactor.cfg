SPECIFICATION MCSpec
CONSTANTS
  Ptr = {p1}
  Time = {1, 2, 3}
  Value = {a, b}
  Second = b
  Null = Null
  NoValue = NoValue
  MaxHistory = 3
  Thread = {t1, t2}
  Reading <- MCReading
  Priority <- MCPriority
  NanosPerSecond = 3
  NanosPerMilli = 2
  MaxDrawn = 4
INVARIANTS HistorySorted LockAboveReads AnswersRepeat DrawnInOrder TimesAgree
PROPERTIES SnapshotStable ImplementsAtomicActor
CHECK_DEADLOCK FALSE
