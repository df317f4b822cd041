SPECIFICATION Spec
CONSTANTS
  Threads = {t1, t2}
  Shared = shared
  Strategies = {"thread-local", "global"}
  ContextCache = {TRUE}
  Iters = {i1}
  Kinds = {"finditer"}
  MaxPairs = 2
  MaxObjects = 5
  Depth = 1
SYMMETRY ThreadSymmetry
CONSTRAINT LargeIsInterpreted
INVARIANTS
  OwnedOnceAndLive
  RunsOnWhatItNeeds
  DisabledCachesAreEmpty
