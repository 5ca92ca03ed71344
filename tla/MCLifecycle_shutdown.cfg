SPECIFICATION FairSpec
CONSTANTS
  c1 = c1
  c2 = c2
  Clients = {c1, c2}
CHECK_DEADLOCK FALSE
INVARIANTS
  TypeOK
  RequestsKeepStore
  ChecksSeeOpenStore
  CleanExitIsClosed
PROPERTY
  SignalEndsProcess
