CONSTANTS
    Procs = {p1, p2}
    Fps = {f}
    Blobs = {a, b, c}
    a = a
    b = b
    c = c
    f = f
    Arity = 2
    Outputs <- MCOutputs
    NoFile = NoFile
    Torn = Torn
    NoProc = NoProc
    Remotes <- EmptyRemotes
    Stores <- EmptyStores
    Ops = {"build"}
    Cap = 3
    MaxOps = 2
    MaxKills = 1
SPECIFICATION Spec
PROPERTIES
    KillsAreHarmless
