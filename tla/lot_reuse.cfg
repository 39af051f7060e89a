SPECIFICATION FairSpec
CHECK_DEADLOCK FALSE
CONSTANTS
  a1 = a1
  a2 = a2
  t1 = t1
  t2 = t2
  t3 = t3
  t4 = t4
  NoThread = NoThread
  Threads = {t1, t2, t3}
  Addrs = {a1}
  Castings <- Change
  Desired = 2
  WakeCount <- WakeAll
  WakeMask <- FullMask
  Cells = {1, 2}
  Reuse = TRUE
  MaxRounds = 1
PROPERTIES
  AwaitReturns
