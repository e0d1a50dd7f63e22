SPECIFICATION Spec
CONSTANTS
    Names <- MCNames
    Places <- MCPlaces
    Source <- S
    Starts <- MCStarts
    OptionSets <- MCOptions
    MaxLen = 3
    MaxOthers = 1
INVARIANTS
    CallsMirror
    SuccessMeansCopied
    PlainCopySucceeds
PROPERTIES
    NothingIsReplaced
    Terminates
CHECK_DEADLOCK FALSE
