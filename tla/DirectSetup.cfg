CONSTANTS
    Names = {vm1, vm2}
    Callers = {p1, p2}
    Idx <- MCIdx
    Hash <- MCHash
    Fwds <- MCFwds
    AllowCrash = TRUE
    NoName = NoName
    Nobody = Nobody
    NoTarget = NoTarget
SYMMETRY Symmetry
SPECIFICATION Spec
INVARIANTS DirectTypeOK SshReaches FilterComplete NothingLeft
