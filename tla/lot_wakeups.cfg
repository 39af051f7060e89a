SPECIFICATION FairSpec
CHECK_DEADLOCK FALSE
CONSTANTS
  a1 = a1
  a2 = a2
  t1 = t1
  t2 = t2
  t3 = t3
  t4 = t4
  NoThread = NoThread
  Threads = {t1, t2, t3, t4}
  Addrs = {a1, a2}
  Castings <- MutexesOrWord
  Desired = 1
  WakeCount <- WakeAll
  WakeMask <- DesiredMask
  Cells = {1, 2, 3}
  Reuse = FALSE
  MaxRounds = 1
INVARIANTS
  CountExact
  NoLostWakeup
  WakeNotWasted
PROPERTIES
  LockReturns
  AwaitReturns
