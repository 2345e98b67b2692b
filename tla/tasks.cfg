SPECIFICATION MCSpec
CONSTANTS
  p = p
  a = a
  b = b
  c = c
  m = m
  q = q
  x = x
  y = y
  n = n
  Task = {p, a, b, c, m, q, x, y, n}
  Executor = {e1, e2}
  NoOne = NoOne
  Children <- MCChildren
  Ancestors <- MCAncestors
  Faults = {"crash", "lost", "drop"}
  MaxFaults = 2
INVARIANTS RunnableIsQueued OneRunner WaitsForTriggers
PROPERTY OutcomesFinal
CHECK_DEADLOCK FALSE
