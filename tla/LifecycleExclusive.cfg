CONSTANTS
    Names = {vm1, vm2}
    Callers = {p1, p2}
    Insts = {i1, i2}
    Web = web
    Ports <- MCPorts
    SSHPort <- MCSSHPort
    PortChoices <- MCPortChoices
    BootKinds = {"fresh", "restore"}
    ByName = {"stop", "pause", "resume"}
    Exclusive = TRUE
    SlowAPI = FALSE
    AllowCrash = TRUE
    NoInst = NoInst
    NoName = NoName
    NoSock = NoSock
    Stale = Stale
SYMMETRY Symmetry
SPECIFICATION Spec
INVARIANTS Reachable DiskIntact PortsKept
PROPERTIES FailedRunSparesReturned LiveSocketKept RmSparesRunning FailureIsClean ImplementsRegistry
