SPECIFICATION FairSpec
CONSTANTS
  Msg = {m1, m2, m3}
  Thread = {t1, t2}
  NoMsg = NoMsg
  Closing = {m2}
INVARIANTS OneAtATime WillBeSeen
PROPERTY ImplementsMailbox
CHECK_DEADLOCK FALSE
