SPECIFICATION Spec
CHECK_DEADLOCK FALSE
CONSTANTS
  a = a
  b = b
  c = c
  d = d
  fn = fn
  co = co
  k1 = k1
  k2 = k2
  NoJob = NoJob
  N = 1
  Clients = {k1, k2}
  Script <- PauseScript
  Order <- ChainOrder
  Fns = {fn, co}
  Succs <- ChainSuccs
  Preds <- ChainPreds
  Suspends <- Once
  LocalCap = 1
  GlobalCap = 4
INVARIANTS
  Conserved
  ZeroIsIdle
  PauseHolds
