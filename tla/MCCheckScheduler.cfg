CONSTANTS
    Workers = {w1, w2, w3}
    Graphs <- MCGraphs
    NoOne = NoOne
    NoFailure = NoFailure
    Running = Running
SPECIFICATION FairSpec
INVARIANTS
    TypeOK
    DependencyOrder
    VerdictExact
    DrainIsFinal
PROPERTIES
    EventuallyReturns
    ImplementsSequentialCheck
