SPECIFICATION Spec
CONSTANTS
    Callers = {c1, c2}
    Asked <- MCAsked
    Nodes <- MCNodes
    Trees <- MCTrees
    Modes <- MCModes
    MaxOthers = 2
INVARIANTS
    ErrorHasCause
    SuccessMeansMade
    AnswerIsExactAlone
PROPERTIES
    Terminates
CHECK_DEADLOCK FALSE
