SPECIFICATION Spec
CONSTANTS
  Chunk = 3
  Threads = {t1, t2}
  SubjectKinds = {"bytes", "utf", "ascii", "text"}
  Texts <- MCTexts
  Alternatives <- MCAlternatives
  Positions <- MCPositions
  Jits = {"off", "works", "refuses", "ignores anchors"}
  MaxFailures = 1
SYMMETRY ThreadSymmetry
INVARIANTS
  PositionsAgree
  CallsAreDefined
  ExecuteFindsTheMatch
  FindallFindsAll
  SplitCutsAtMatches
  ConversionsAgree
PROPERTIES
  IteratesMatches
