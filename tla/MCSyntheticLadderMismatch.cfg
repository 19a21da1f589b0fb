CONSTANTS
    Programs <- DependentPrograms
    TypeMVars = {"a", "b", "c"}
    Instances <- MCInstances
    Defaults <- MCDefaults
SPECIFICATION Spec
CHECK_DEADLOCK FALSE
INVARIANT
    MismatchesAreGrounded
