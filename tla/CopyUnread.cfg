SPECIFICATION Spec
CONSTANTS
    Names <- MCNames
    Places <- MCPlaces
    Source <- S
    Starts <- MCStarts
    OptionSets <- MCOptions
    MaxLen = 3
    MaxOthers = 0
INVARIANT
    NoErrorMeansCopied
CHECK_DEADLOCK FALSE
