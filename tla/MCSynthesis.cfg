CONSTANTS
    Databases <- MCDatabases
    Goals <- MCGoals
    OutParam <- MCOutParam
    Ground <- MCGround
    MaxResultSize = 4
SPECIFICATION Spec
CHECK_DEADLOCK FALSE
INVARIANTS
    AnswersAreSound
    TablesAreComplete
    NoneIsFinal
    EarliestCandidateWins
    EachAnswerReachesEachWaiterOnce
