CONSTANTS
    Programs <- MCPrograms
    TypeMVars = {"a", "b", "c"}
    Instances <- MCInstances
    Defaults <- MCDefaults
SPECIFICATION Spec
CHECK_DEADLOCK FALSE
INVARIANTS
    NewestFirst
    NothingForgotten
    OneMVarPerPlace
    DefaultsComeLast
    StuckIsStuck
PROPERTIES
    ElaborationEnds
