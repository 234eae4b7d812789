CONSTANTS
    Names = {vm1, vm2}
    Snaps = {s1, s2}
    Callers = {p1}
    Taps <- MCTaps
    Tap <- MCTap
    Alone = TRUE
    AllowCrash = FALSE
    NoName = NoName
    NoSnap = NoSnap
    NoTap = NoTap
    NoDrive = NoDrive

SPECIFICATION Spec
INVARIANT TapMatches
