CONSTANTS
    Names = {vm1}
    Callers = {p1}
    Idx <- MCIdx
    Hash <- MCHash
    Fwds <- MCTwoFwds
    AllowCrash = FALSE
    NoName = NoName
    Nobody = Nobody
    NoTarget = NoTarget
SPECIFICATION Spec
INVARIANT PortReaches
