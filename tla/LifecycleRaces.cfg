CONSTANTS
    Names = {vm1}
    Callers = {p1, p2}
    Insts = {i1, i2}
    Web = web
    Ports <- MCPorts
    SSHPort <- MCSSHPort
    PortChoices <- MCNoPorts
    BootKinds = {"fresh"}
    ByName = {"stop", "pause", "resume"}
    Exclusive = FALSE
    SlowAPI = TRUE
    AllowCrash = FALSE
    NoInst = NoInst
    NoName = NoName
    NoSock = NoSock
    Stale = Stale

SPECIFICATION FairSpec
INVARIANTS TypeOK IInv OnePerName NoOrphan
PROPERTIES FailedRunSparesOthers RunTerminates StopEndsWait
