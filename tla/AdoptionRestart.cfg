CONSTANTS
    Names = {vm1, vm2}
    Pids = {i1, i2, i3}
    Careful = TRUE
    NoName = NoName
    NoPid = NoPid
    Stale = Stale
SPECIFICATION FairSpec
INVARIANTS AdoptionTypeOK AdoptedIsTheVM WaitMeansGone
PROPERTIES ChildKillHitsItsVM WaitEnds
