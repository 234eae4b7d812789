CONSTANTS
    Names = {vm1}
    Snaps = {s1, s2}
    Callers = {p1, p2}
    Taps <- MCTaps
    Tap <- MCTap
    Alone = FALSE
    AllowCrash = FALSE
    NoName = NoName
    NoSnap = NoSnap
    NoTap = NoTap
    NoDrive = NoDrive

SPECIFICATION Spec
INVARIANT SelfContained
