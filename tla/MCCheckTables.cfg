CONSTANTS
    Workers = {w1, w2}
    Graphs <- MCGraphs
    Tables <- MCTables
    EqName <- MCEqName
    QuotNames <- MCQuotNames
    NoOne = NoOne
    NoFailure = NoFailure
    Running = Running
SPECIFICATION BothSpec
INVARIANTS
    LookupsAreOrdered
    NoLaxerThanReplay NoStricterThanReplay
