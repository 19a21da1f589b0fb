CONSTANTS
    Workers = {w1, w2}
    Graphs <- PanicGraphs
    JobEnds = {"ok", "panic"}
    NoItem = NoItem
    NoFailure = NoFailure
    Running = Running
SPECIFICATION FairSpec
PROPERTIES
    PanicCrashesTheBuild
CHECK_DEADLOCK FALSE
