SPECIFICATION Spec
CONSTANTS
  Threads = {t1, t2}
  Shared = shared
  Patterns = {p1, p2}
  Oversized = {p2}
  Strategies = {"thread-local", "global"}
  Limits = {0, 1, 2}
  FirstLimit = 2
  NoEntry = none
  MaxEpoch = 1
  MaxModule = 2
  MaxVersion = 0
SYMMETRY ThreadSymmetry
INVARIANTS
  LocalCachesBounded
  EffectiveLimitFollowsThreadLocal
