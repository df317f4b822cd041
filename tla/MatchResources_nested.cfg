SPECIFICATION Spec
CONSTANTS
  Threads = {t1}
  Shared = shared
  Strategies = {"thread-local", "global"}
  ContextCache = {TRUE, FALSE}
  Iters = {}
  Kinds = {"execute", "scan", "substitute"}
  MaxPairs = 1
  MaxObjects = 7
  Depth = 2
INVARIANTS
  TypeOK
  OwnedOnceAndLive
  SlotContextsAreClean
  RunsOnWhatItNeeds
