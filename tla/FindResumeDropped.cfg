CONSTANTS
    Names = {vm1}
    Snaps = {s1}
    Callers = {p1}
    Taps <- MCTaps
    Tap <- MCTap
    Alone = TRUE
    AllowCrash = FALSE
    NoName = NoName
    NoSnap = NoSnap
    NoTap = NoTap
    NoDrive = NoDrive

SPECIFICATION Spec
PROPERTY SuccessGivesBack
