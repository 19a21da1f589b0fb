CONSTANTS
    Workers = {w1}
    Graphs <- MemberTypeGraphs
    Tables <- MemberTypeTables
    EqName <- MCEqName
    QuotNames <- MCQuotNames
    NoOne = NoOne
    NoFailure = NoFailure
    Running = Running
SPECIFICATION BothSpec
INVARIANT NoLaxerThanReplay
