SPECIFICATION Spec
CONSTANTS
  Threads = {t1, t2}
  Shared = shared
  Patterns = {p1}
  Oversized = {}
  Strategies = {"global"}
  Limits = {0, 1}
  FirstLimit = 1
  NoEntry = none
  MaxEpoch = 1
  MaxModule = 2
  MaxVersion = 0
SYMMETRY ThreadSymmetry
INVARIANTS
  EffectiveLimitFollows
