SPECIFICATION MCSpec
CONSTANTS
  Ptr = {1, 2}
  Time = {1}
  Value = {a, b}
  Null = Null
  NoValue = NoValue
  Reader = {}
  Writer = {1}
  Orphan = {1}
  MaxFaults = 1
  Fragile = {"commitTxn", "commitValue"}
  Write <- MCWrite
  Daemon = {d1, d2}
  Job = {j1, j2}
  NoJob = NoJob
  MaxStarts = 2
  p = p
  a = a
  b = b
  m = m
  e1 = e1
  e2 = e2
  NoOne = NoOne
INVARIANT StoppedIsStill
PROPERTIES DaemonsComeBack AllComplete 
CHECK_DEADLOCK FALSE
