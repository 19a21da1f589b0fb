CONSTANTS
    Workers = {w1, w2, w3}
    Graphs <- BuildGraphs
    JobEnds = {"ok", "error", "panic"}
    NoItem = NoItem
    NoFailure = NoFailure
    Running = Running
    InitName <- MCInit
    NoRev = NoRev
    Plans <- MCPlans
    RawGraphs <- MCGraphs
    NoPlan = NoPlan
    NoArtifacts = NoArtifacts
    Partial = Partial
    Malformed = Malformed
SPECIFICATION BuildSpec
INVARIANTS
    TypeOK
    SleepersHaveAWaker
    BuildsAreClean
PROPERTIES
    EventuallyReturns
    ImplementsTopologicalRun
