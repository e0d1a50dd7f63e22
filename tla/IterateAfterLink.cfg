SPECIFICATION Spec
CONSTANTS
  Nodes <- Tree
  Root = "root"
  Parent <- TreeParent
  DTypes = TRUE
  ReadsFail = FALSE
  Worlds <- LinkWorlds
  Denials <- AllOpen
  Choices <- NoOptions
INVARIANT Complete
