CONSTANTS
    Procs = {p1, p2}
    dep = dep
    branch = branch
    refused = refused
    local = local
    Entries = {dep, branch, refused}
    Invalid = {refused}
    Shas = {dep, refused}
    PathPackages = {local}
    Manifests <- MCManifests
    MaxCalls = 2
    MaxKills = 1
    MaxTampers = 1
    Nobody = Nobody
SPECIFICATION FairSpec
INVARIANTS
    TypeOK
    OkMeansReady
    NobodyClonesTwice
PROPERTIES
    EntriesAreWhole
    EveryCallEnds
