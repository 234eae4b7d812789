CONSTANTS
    Names = {vm1}
    Callers = {p1, p2}
    Insts = {i1, i2}
    Web = web
    Ports <- MCPorts
    SSHPort <- MCSSHPort
    PortChoices <- MCNoPorts
    BootKinds = {"fresh", "restore"}
    ByName = {"stop", "pause"}
    Exclusive = TRUE
    SlowAPI = FALSE
    AllowCrash = TRUE
    NoInst = NoInst
    NoName = NoName
    NoSock = NoSock
    Stale = Stale
SYMMETRY Symmetry
SPECIFICATION ListSpec
INVARIANTS ListTypeOK ReportedWasTrue UpIsListed ListComplete
