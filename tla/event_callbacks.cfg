SPECIFICATION FairSpec
CHECK_DEADLOCK FALSE
CONSTANTS
  c1 = c1
  c2 = c2
  r1 = r1
  r2 = r2
  w1 = w1
  Completers = {c1, c2}
  Registrars = {r1, r2}
  Waiters = {w1}
  Timed = {w1}
  Teams = {{c1, c2, r1, r2}, {c1, w1}, {r1, w1}}
  MaxCalls = 2
INVARIANTS
  TypeOK
  NoStrandedCallback
PROPERTIES
  FinalStatus
  Refines
  CallbackFires
  BlockedByWaitOnly
