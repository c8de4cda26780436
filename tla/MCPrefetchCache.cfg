CONSTANTS
    Keys = {k1, k2, k3}
    Owners = {0, 1, 2}
    Capacity = 3
    MaxProbe = 1
    GenMod = 2
    Errors = {"again"}
    StartError = "again"
SPECIFICATION Spec
SYMMETRY KeySymmetry
INVARIANTS TypeOK HandlesResolve FetchesMatchPending GatesExact
CHECK_DEADLOCK FALSE
