SPECIFICATION FairSpec
CHECK_DEADLOCK FALSE
CONSTANTS
  a = a
  b = b
  c = c
  e = e
  c1 = c1
  c2 = c2
  w1 = w1
  Subs = {a, b, c}
  Externals = {e}
  Prereqs <- JoinPrereqs
  Inline = {b}
  StopOnFailure = {b}
  Clients = {c1, c2}
  Workers = {w1}
  Capacity = 4
  Resumable = {}
  Cancellable = {a}
  MayShutdown = FALSE
  MaxRuns = 1
  MaxResumes = 0
INVARIANTS
  LiveStep
  PrerequisitesFirst
  CountsPrerequisites
PROPERTIES
  SubmissionSettles
