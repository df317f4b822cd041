SPECIFICATION SubstitutionSpec
CONSTANTS
  SubjectLengths = {0, 1, 2, 3}
  MaxMatches = 3
  LiteralLengths = {40}
  Counts = {2}
  MaxSize = 1000
  MaxFailures = 0
CHECK_DEADLOCK FALSE
INVARIANTS
  CeilingSuffices
