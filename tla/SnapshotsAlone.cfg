CONSTANTS
    Names = {vm1, vm2}
    Snaps = {s1}
    Callers = {p1, p2}
    Taps <- MCTaps
    Tap <- MCTap
    Alone = TRUE
    AllowCrash = TRUE
    NoName = NoName
    NoSnap = NoSnap
    NoTap = NoTap
    NoDrive = NoDrive
SYMMETRY Symmetry
SPECIFICATION Spec
INVARIANTS SnapTypeOK SelfContained RawMatched OnOwnDisk NoneLeftPaused
