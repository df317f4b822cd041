SPECIFICATION Spec
CONSTANTS
  Threads = {t1, t2}
  Shared = shared
  Keys = {k1, k2}
  Oversized = {}
  Strategies = {"global"}
  Unbounded = unbounded
  Limits = {0, 1}
  DefaultLimit = 2
  HardLimit = 2
  NativeLimit = 1
  MaxEpoch = 2
SYMMETRY ThreadSymmetry
INVARIANTS
  NoStaleReturn
