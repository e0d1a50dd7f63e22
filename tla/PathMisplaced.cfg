SPECIFICATION Spec
CONSTANTS
    MaxLen = 5
    MaxArg = 1
INVARIANTS
    RelativePathIsTheRest
