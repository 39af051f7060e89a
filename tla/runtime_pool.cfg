SPECIFICATION FairSpec
CHECK_DEADLOCK FALSE
CONSTANTS
  a = a
  b = b
  c = c
  e = e
  c1 = c1
  c2 = c2
  w1 = w1
  w2 = w2
  Subs = {a, b}
  Externals = {}
  Prereqs <- NoPrereqs
  Inline = {}
  StopOnFailure = {}
  Clients = {c1, c2}
  Workers = {w1, w2}
  Capacity = 1
  Resumable = {a}
  Cancellable = {}
  MayShutdown = TRUE
  MaxRuns = 2
  MaxResumes = 1
INVARIANTS
  StepExclusion
PROPERTIES
  DrainedOnShutdown
  ShutdownReturns
