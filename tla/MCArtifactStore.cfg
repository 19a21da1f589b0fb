CONSTANTS
    Procs = {p1, p2}
    Fps = {f}
    Blobs = {a, b, c}
    a = a
    b = b
    c = c
    f = f
    Arity = 2
    Outputs <- MCOutputs
    NoFile = NoFile
    Torn = Torn
    NoProc = NoProc
    Remotes <- OddRemotes
    Stores <- OldStores
    Ops = {"build", "get", "push", "gc"}
    Cap = 1
    MaxOps = 2
    MaxKills = 1
SPECIFICATION FairSpec
INVARIANTS
    TypeOK
    BlobsAreIntact
    OnlyGcLeavesDanglingManifests
    BuildsDeliverAnOutput
    LinkFailsOnlyForGc
    BuildsHealTheStore
PROPERTIES
    PushesAreComplete
    FetchReplacesNothing
    EveryOperationEnds
