CONSTANTS
    ParamCount = 2
    MaxSize = 7
    MaxValue = 3
SPECIFICATION Spec
CHECK_DEADLOCK FALSE
INVARIANTS
    AnswersAreRight
