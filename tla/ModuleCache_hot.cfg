SPECIFICATION Spec
CONSTANTS
  Threads = {t1, t2}
  Shared = shared
  Patterns = {p1}
  Oversized = {}
  Strategies = {"thread-local"}
  Limits = {1}
  FirstLimit = 1
  NoEntry = none
  MaxEpoch = 1
  MaxModule = 3
  MaxVersion = 1
SYMMETRY ThreadSymmetry
INVARIANTS
  SlowPathIsCurrent
  CoherentHotIsCurrent
