SPECIFICATION FairSpec
CHECK_DEADLOCK FALSE
CONSTANTS
  a = a
  b = b
  c = c
  d = d
  fn = fn
  co = co
  k1 = k1
  k2 = k2
  NoJob = NoJob
  N = 2
  Clients = {k1}
  Script <- GraphScript
  Order <- DiamondOrder
  Fns = {}
  Succs <- DiamondSuccs
  Preds <- DiamondPreds
  Suspends <- Never
  LocalCap = 1
  GlobalCap = 4
PROPERTIES
  WaitDrains
