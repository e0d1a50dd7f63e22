SPECIFICATION FairSpec
CONSTANTS
  Inodes <- Things
  New = "new"
  None = "none"
  Kind <- ThingKind
  Contents <- SomeContents
  Starts <- SomeStarts
  LinkSets <- SomeLinks
  SendMax = 2
  BufSize = 2
  IOFails = {TRUE, FALSE}
  MaxDisturbances = 2
CHECK_DEADLOCK FALSE
INVARIANTS SuccessMeansCopied RefusalsChangeNothing OneSwapIsCaught
PROPERTIES Terminates
