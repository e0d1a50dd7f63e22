SPECIFICATION Spec
CONSTANTS
    MaxLen = 6
    MaxArg = 3
INVARIANTS
    NormalIsTheNormalForm
    EqualPathsAnswerAlike
    EditsUndo
    RelativeLeadsBack
    ClimbEndsInAChain
PROPERTIES
    OnlyParentPathMisplaces
