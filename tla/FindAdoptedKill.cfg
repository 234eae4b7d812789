CONSTANTS
    Names = {vm1}
    Pids = {i1, i2}
    Careful = TRUE
    NoName = NoName
    NoPid = NoPid
    Stale = Stale
SPECIFICATION Spec
PROPERTY KillHitsItsVM
