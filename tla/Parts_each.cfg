SPECIFICATION Spec
CONSTANTS
  MaxTokens = 2
  NameLimit = 1
  Matches <- MCMatches
  TemplateFragments <- MCTemplateFragments
  PatternFragments <- MCPatternFragments
  MaxFragments = 5
  SubjectLengths = {0, 1, 2}
  MaxMatches = 4
  LiteralLengths = {0, 1, 20, 40}
  Counts <- MCCounts
  MaxSize = 90
  MaxFailures = 1
  Threads = {t1, t2, t3}
  NoThread = NoThread
  MaxCalls = 3
  Readers = {1, 2}
  GroupNumbers = {1, 2}
  Snapshots = {m1, m2}
  MaxReads = 2
  MaxReplayFailures = 1
  Interpreters = {main, sub}
  NoInterpreter = NoInterpreter
  Allocators = {"pymem", "malloc"}
  MaxImports = 3
CHECK_DEADLOCK FALSE
INVARIANTS
  ExpandFollowsRe
  ReplacementsMeanTheTemplate
  EscapesTranslated
  SubstitutesAsRequested
  FailsOnlyWhenItMust
  FieldsAgree
  RuntimeStaysWhole
  SectionsAreExclusive
  SomeThreadCanGoOn
PROPERTIES
  ThreadsEnd
