SPECIFICATION MCSpec
CONSTANTS
  Ptr = {1, 2}
  Time = {1, 2, 3}
  Value = {a, b}
  Null = Null
  NoValue = NoValue
  a = a
  b = b
  Reader = {3}
  Writer = {1, 2}
  Orphan = {}
  MaxFaults = 1
  Fragile = {"read", "lock", "addLock", "queue", "commitTxn", "resetTxn", "txnState", "commitValue", "resetValue"}
  Write <- MCWrite
INVARIANTS ReplicasAgree ValuesSerial
CHECK_DEADLOCK FALSE
