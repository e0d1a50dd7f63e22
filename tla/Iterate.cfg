SPECIFICATION FairSpec
CONSTANTS
  Nodes <- Tree
  Root = "root"
  Parent <- TreeParent
  DTypes = TRUE
  ReadsFail = TRUE
  Worlds <- SomeWorlds
  Denials <- SomeClosed
  Choices <- SomeOptions
INVARIANTS
  StackIsTrail
  CompleteWithoutLinks
  QuietSucceeds
PROPERTIES
  ImplementsTraversal
  Terminates
