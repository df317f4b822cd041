SPECIFICATION FairSpec
CONSTANTS
  Callers = {c1}
  Nobody = nobody
  MaxSize = 2
  MaxChunks = 2
  MaxPools = 4
  MaxCalls = 3
INVARIANTS
  TypeOK
  NoSubmissionRefused
  OpenPoolsAreOwned
  LockHeldByLease
  WaitsPointForward
PROPERTIES
  CallsReturn
  AcceptedChunksRun
CHECK_DEADLOCK FALSE
