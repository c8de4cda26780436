CONSTANTS
    k1 = k1
    k2 = k2
    k3 = k3
    k4 = k4
    k5 = k5
    Keys = {k1, k2, k3, k4, k5}
    Hash <- MCHash
    Capacity = 4
    MaxProbe = 1
    MaxPins = 1
SPECIFICATION Spec
INVARIANTS ResidentFound ValuesOwnedOnce
 
CHECK_DEADLOCK FALSE
