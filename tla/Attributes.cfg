SPECIFICATION Spec
CONSTANTS
  c1 = c1
  c2 = c2
  Callers = {c1, c2}
  Operations <- SomeOperations
  Names = {"a", "b"}
  Inodes = {"f", "g", "d"}
  Directories = {"d"}
  Bits = {"r", "w"}
  Modes <- SomeModes
  Starts <- SomeStarts
  Sizes <- SomeSizes
  Times <- SomeTimes
  Ticks = 3
  Modulus = 16
CHECK_DEADLOCK FALSE
INVARIANTS
  ChangesHaveACause
  QuietAnswers
  TimesReadBack
  SpaceIsExactOrUnknown
PROPERTIES
  EmptyIsTrueThen
