SPECIFICATION FairSpec
CONSTANTS
  c1 = c1
  c2 = c2
  Calls = {c1, c2}
  Nodes <- Tree
  Root = "root"
  Parent <- TreeParent
  Kind <- TreeKind
  Inside <- TreeInside
  Late = {"n"}
  Vanishing = {"f"}
  Replaceable = {"d"}
  Locks <- SomeLocks
  Closures <- SomeClosures
  ReadsFail = TRUE
  Modulus = 16
CHECK_DEADLOCK FALSE
INVARIANTS
  TypeOK
  AloneIsExact
  ErrorMeansItRemains
  RacesAreSilent
PROPERTIES
  OnlyInside
  Terminates
