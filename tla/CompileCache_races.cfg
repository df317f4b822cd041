SPECIFICATION Spec
CONSTANTS
  Threads = {t1, t2}
  Shared = shared
  Keys = {k1, k2, k3}
  Oversized = {k3}
  Strategies = {"thread-local", "global"}
  Unbounded = unbounded
  Limits = {0, unbounded}
  DefaultLimit = 1
  HardLimit = 2
  NativeLimit = 1
  MaxEpoch = 2
SYMMETRY ThreadSymmetry
INVARIANTS
  LimitRespected
  NoStaleReturnThreadLocal
  GenerationPure
  FillsOutliveNoClear
PROPERTIES
  PublishedOnce
