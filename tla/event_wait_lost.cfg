SPECIFICATION FairSpec
CHECK_DEADLOCK FALSE
CONSTANTS
  c1 = c1
  c2 = c2
  r1 = r1
  r2 = r2
  w1 = w1
  Completers = {c1}
  Registrars = {}
  Waiters = {w1}
  Timed = {}
  Teams = {{c1, w1}}
  MaxCalls = 2
PROPERTY WaitReturns
