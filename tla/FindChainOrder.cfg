CONSTANTS
    Names = {vm1, vm2}
    Callers = {p1, p2}
    Idx <- MCIdx
    Hash <- MCHash
    Fwds <- MCNoFwds
    AllowCrash = FALSE
    NoName = NoName
    Nobody = Nobody
    NoTarget = NoTarget
SPECIFICATION Spec
INVARIANT FilterOrdered
