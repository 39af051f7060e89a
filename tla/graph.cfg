SPECIFICATION FairSpec
CHECK_DEADLOCK FALSE
CONSTANTS
  w1 = w1
  w2 = w2
  NoPass = NoPass
  Decls <- Scenes
  MaxResources = 2
  MaxPasses = 4
  MaxRun = 3
  Workers = {w1, w2}
INVARIANTS
  CompileAnswers
  LanesSuffice
  PriorityFirst
  ConflictsInOrder
  EventIsLast
PROPERTIES
  GraphCompletes
