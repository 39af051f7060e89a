SPECIFICATION FairSpec
CHECK_DEADLOCK FALSE
CONSTANTS
  NoResource = NoResource
  Resources = {r1}
  Users = {u1, u2}
  Keepers = {k1}
  Tickets = {1, 2}
  Requests <- EvictOrRefresh
  AllowLeased = {r1}
  EvictWhenStale = {r1}
  StaleAfter <- AfterOne
  MaxEpoch = 1
INVARIANTS
  TypeOK
  OneMaintenance
PROPERTIES
  LeaseHonoured
  RetiredReclaimed
