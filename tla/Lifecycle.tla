----------------------------- MODULE Lifecycle -----------------------------
(***************************************************************************)
(* The life of knaller's microVMs: Run (vm.go), the handle it returns, the *)
(* "knaller start" command that waits on it, and RemoveVM, StopVM, PauseVM *)
(* and ResumeVM, issued by several knaller processes at once.              *)
(*                                                                         *)
(* There is no daemon.  A knaller process and its peers share only what is *)
(* on the host: one socket path per VM name, one data directory per VM     *)
(* name, the host's TCP ports, and the Firecracker processes themselves.   *)
(* Each action is one system call or one API request, so that the steps of *)
(* two processes interleave wherever the code lets them.                   *)
(***************************************************************************)
EXTENDS Firecracker, FiniteSets

CONSTANTS
    Names,        \* the VM names users choose
    Callers,      \* knaller processes (or goroutines of a library user)
    Insts,        \* identities of Firecracker processes, reused after exit
    Ports,        \* TCP ports of the host
    SSHPort,      \* the SSH port derived from each name (sshPort, network.go)
    PortChoices,  \* the sets of extra ports a user may ask Run for
    BootKinds,    \* subset of {"fresh", "restore"}
    ByName,       \* by-name commands issued: subset of {"stop","pause","resume"}
    Exclusive,    \* users never run start and rm of one name at a time
    SlowAPI,      \* GetInfo of a live process may exceed RemoveVM's 2 seconds
    AllowCrash,   \* a knaller process may die between two steps
    NoInst, NoName, NoSock, Stale   \* blank values; Stale: nobody listens

ASSUME SSHPortAssumption == SSHPort \in [Names -> Ports]
ASSUME PortChoicesAssumption == PortChoices \subseteq SUBSET Ports
ASSUME BootKindsAssumption == BootKinds \subseteq {"fresh", "restore"}
ASSUME FlagsAssumption ==
    Exclusive \in BOOLEAN /\ SlowAPI \in BOOLEAN /\ AllowCrash \in BOOLEAN
ASSUME BlanksAssumption ==
    /\ NoInst \notin Insts /\ NoName \notin Names
    /\ NoSock \notin Insts /\ Stale \notin Insts /\ NoSock # Stale

VARIABLES
    vmm,    \* the Firecracker processes
    sock,   \* ~/.local/share/knaller/sockets/<name>.socket: absent, or its binder
    dir,    \* ~/.local/share/knaller/vms/<name>/ and what it holds
    call    \* what each knaller process is doing

vars == <<vmm, sock, dir, call>>

-----------------------------------------------------------------------------
Blank == [state |-> "gone", name |-> NoName, ports |-> {}, conf |-> {},
          disk |-> "none", cad |-> FALSE, owner |-> "none", given |-> FALSE]

NoDir == [made |-> FALSE, rootfs |-> FALSE, ports |-> {}]

Idle == [pc |-> "idle", name |-> NoName, boot |-> "fresh", ports |-> {},
         own |-> NoInst, conn |-> NoInst]

(* Requests of Run, in the order it issues them. *)
ConfigPcs == {"boot-source", "drive", "network", "machine"}
ApiPcs == ConfigPcs \cup {"start", "load", "patch", "resume"}

(* Inside Run before it has a result; CleanupPcs are inside its cleanup(). *)
CleanupPcs == {"kill", "unsock", "undisk"}
RunPcs == {"disk", "spawn", "await", "save"} \cup ApiPcs \cup CleanupPcs

(* A VM was returned and its caller waits on it, or cleans up after it. *)
WaitPcs == {"wait", "rmdir"}
RmPcs == {"rm-stat", "rm-unsock", "rm-disk"}

(* Nothing under way; "failed" remembers that the last Run failed. *)
Ready == {"idle", "failed"}
Pcs == Ready \cup RunPcs \cup WaitPcs \cup RmPcs

Vmm == [state: VmmStates, name: Names \cup {NoName}, ports: SUBSET Ports,
        conf: SUBSET ConfigItems, disk: DiskStates, cad: BOOLEAN, owner: Owners,
        given: BOOLEAN]
Dir == [made: BOOLEAN, rootfs: BOOLEAN, ports: SUBSET Ports]
Call == [pc: Pcs, name: Names \cup {NoName}, boot: {"fresh", "restore"},
         ports: SUBSET Ports, own: Insts \cup {NoInst}, conn: Insts \cup {NoInst}]

Init ==
    /\ vmm = [i \in Insts |-> Blank]
    /\ sock = [n \in Names |-> NoSock]
    /\ dir = [n \in Names |-> NoDir]
    /\ call = [p \in Callers |-> Idle]

-----------------------------------------------------------------------------
(* The host: what the death of a process and file operations do.           *)

(* Process i exits: its listening socket file stays behind, connections to *)
(* it break, and its parent can reap it.                                   *)
VmmAfterExit(i) == [vmm EXCEPT ![i] = Blank]
SockAfterExit(i) == [n \in Names |-> IF sock[n] = i THEN Stale ELSE sock[n]]
(* mutant: Wait never notices that the process is gone *)
CallAfterExit_Unreaped(i) ==
    [p \in Callers |-> [call[p] EXCEPT !.conn = IF @ = i THEN NoInst ELSE @]]

CallAfterExit(i) ==
    [p \in Callers |->
        [call[p] EXCEPT !.own = IF @ = i THEN NoInst ELSE @,
                        !.conn = IF @ = i THEN NoInst ELSE @]]

(* The per-VM rootfs of n is rewritten in place, or removed, under every   *)
(* process that has it open.                                               *)
DiskLost(n, how) ==
    [i \in Insts |->
        IF vmm[i].name = n /\ vmm[i].disk = "intact"
          THEN [vmm[i] EXCEPT !.disk = how] ELSE vmm[i]]

(* os.Remove(socketPath): whoever is bound to the path. *)
RemoveSocket(n) == sock' = [sock EXCEPT ![n] = NoSock]

(* removeDisk: os.RemoveAll of the data directory. *)
RemoveDisk(n) ==
    /\ dir' = [dir EXCEPT ![n] = NoDir]
    /\ vmm' = DiskLost(n, "unlinked")

Goto(p, pc) == call' = [call EXCEPT ![p].pc = pc]

(* The caller is done; name and reason of a failed Run are kept. *)
Done(p) == call' = [call EXCEPT ![p] = Idle]
Failed(p) ==
    call' = [call EXCEPT ![p] = [Idle EXCEPT !.pc = "failed", !.name = call[p].name]]

(* Exclusive use of a name: no second start, and rm only while no start of *)
(* that name is configuring its VM.                                        *)
MayRun(n) ==
    Exclusive =>
        /\ \A q \in Callers : call[q].pc \notin Ready => call[q].name # n
        /\ \A i \in Insts : Live(vmm[i]) => vmm[i].name # n
MayRemove(n) ==
    Exclusive =>
        \A q \in Callers : call[q].pc \in RunPcs => call[q].name # n

-----------------------------------------------------------------------------
(* Run: from the removal of a stale socket to the pasta process.           *)

RunBegin(p, n, boot, ports) ==
    /\ call[p].pc \in Ready
    /\ MayRun(n)
    /\ RemoveSocket(n)
    /\ call' = [call EXCEPT ![p] = [Idle EXCEPT !.pc = "disk", !.name = n,
                                                !.boot = boot, !.ports = ports]]
    /\ UNCHANGED <<vmm, dir>>

(* prepareDisk and prepareDiskFromSnapshot: MkdirAll, then cp over whatever *)
(* rootfs.ext4 is there.                                                   *)
RunDisk(p) ==
    LET n == call[p].name IN
    /\ call[p].pc = "disk"
    /\ dir' = [dir EXCEPT ![n].made = TRUE, ![n].rootfs = TRUE]
    /\ vmm' = DiskLost(n, "overwritten")
    /\ Goto(p, "spawn")
    /\ UNCHANGED sock

(* The directory, or the copy into it, cannot be made (no space, missing   *)
(* source, e2fsck): Run returns the error without its cleanup.             *)
RunDiskFails(p) ==
    LET n == call[p].name IN
    /\ call[p].pc = "disk"
    /\ \/ UNCHANGED <<dir, vmm>>
       \/ dir' = [dir EXCEPT ![n].made = TRUE] /\ UNCHANGED vmm
       \/ /\ dir' = [dir EXCEPT ![n].made = TRUE, ![n].rootfs = TRUE]
          /\ vmm' = DiskLost(n, "overwritten")
    /\ Failed(p)
    /\ UNCHANGED sock

(* mutant: pasta is not told to forward the SSH port *)
RunSpawn_NoSSH(p) ==
    /\ call[p].pc = "spawn"
    /\ \E i \in Insts :
         /\ ~Live(vmm[i])
         /\ vmm' = [vmm EXCEPT ![i] =
                      [Blank EXCEPT !.state = "spawned", !.owner = "run",
                                    !.name = call[p].name, !.ports = call[p].ports]]
         /\ call' = [call EXCEPT ![p].pc = "await", ![p].own = i]
    /\ UNCHANGED <<sock, dir>>

RunSpawn(p) ==
    /\ call[p].pc = "spawn"
    /\ \E i \in Insts :
         /\ ~Live(vmm[i])
         /\ vmm' = [vmm EXCEPT ![i] =
                      [Blank EXCEPT !.state = "spawned", !.owner = "run",
                                    !.name = call[p].name,
                                    !.ports = call[p].ports \cup {SSHPort[call[p].name]}]]
         /\ call' = [call EXCEPT ![p].pc = "await", ![p].own = i]
    /\ UNCHANGED <<sock, dir>>

(* cmd.Start fails: cleanup() has no process to kill. *)
RunSpawnFails(p) ==
    /\ call[p].pc = "spawn"
    /\ Goto(p, "unsock")
    /\ UNCHANGED <<vmm, sock, dir>>

(* waitForSocket sees a file at the path, whoever made it. *)
RunAwait(p) ==
    /\ call[p].pc = "await"
    /\ sock[call[p].name] # NoSock
    /\ Goto(p, IF call[p].boot = "restore" THEN "load" ELSE "boot-source")
    /\ UNCHANGED <<vmm, sock, dir>>

(* mutant: waits until the file appears or the process has died *)
RunAwaitTimeout_Patient(p) ==
    /\ call[p].pc = "await" /\ call[p].own = NoInst
    /\ Goto(p, "kill")
    /\ UNCHANGED <<vmm, sock, dir>>

(* The deadline also passes when the file appears during the last sleep.   *)
RunAwaitTimeout(p) ==
    /\ call[p].pc = "await"
    /\ Goto(p, "kill")
    /\ UNCHANGED <<vmm, sock, dir>>

-----------------------------------------------------------------------------
(* Run: the API requests.  The client keeps the connection of its first    *)
(* request; without one it dials the path again.                           *)

Peer(p) == IF call[p].conn # NoInst THEN call[p].conn ELSE sock[call[p].name]

(* The process at the other end answers 204, is now v, and Run goes on. *)
Answered(p, v, next) ==
    /\ vmm' = [vmm EXCEPT ![Peer(p)] = v]
    /\ call' = [call EXCEPT ![p].pc = next, ![p].conn = Peer(p)]
    /\ UNCHANGED <<sock, dir>>

(* mutant: a step that no code handles follows the last configuration *)
AfterConfig_Unknown(pc) == IF pc = "machine" THEN "boot" ELSE "machine"

AfterConfig(pc) ==
    CASE pc = "boot-source" -> "drive"
      [] pc = "drive" -> "network"
      [] pc = "network" -> "machine"
      [] pc = "machine" -> "start"

RunConfigure(p) ==
    /\ call[p].pc \in ConfigPcs
    /\ Peer(p) \in Insts
    /\ CanConfigure(vmm[Peer(p)])
    /\ call[p].pc = "drive" => dir[call[p].name].rootfs
    /\ Answered(p, Configured(vmm[Peer(p)], call[p].pc), AfterConfig(call[p].pc))

RunStart(p) ==
    /\ call[p].pc = "start"
    /\ Peer(p) \in Insts
    /\ CanStart(vmm[Peer(p)])
    /\ Answered(p, Started(vmm[Peer(p)]), "save")

RunLoad(p) ==
    /\ call[p].pc = "load"
    /\ Peer(p) \in Insts
    /\ CanLoad(vmm[Peer(p)])
    /\ Answered(p, Loaded(vmm[Peer(p)]), "patch")

(* mutant: the drive of a restored VM is not patched *)
RunPatch_Skipped(p) ==
    /\ call[p].pc = "patch"
    /\ Goto(p, "resume")
    /\ UNCHANGED <<vmm, sock, dir>>

RunPatch(p) ==
    /\ call[p].pc = "patch"
    /\ Peer(p) \in Insts
    /\ Booted(vmm[Peer(p)])
    /\ dir[call[p].name].rootfs
    /\ Answered(p, Patched(vmm[Peer(p)]), "resume")

RunResume(p) ==
    /\ call[p].pc = "resume"
    /\ Peer(p) \in Insts
    /\ Booted(vmm[Peer(p)])
    /\ Answered(p, Resumed(vmm[Peer(p)]), "save")

(* mutants: cleanup() without the kill, or with the disk removed only *)
RunRefused_NoKill(p) ==
    /\ call[p].pc \in ApiPcs
    /\ Goto(p, "unsock")
    /\ UNCHANGED <<vmm, sock, dir>>
RunRefused_OnlyDisk(p) ==
    /\ call[p].pc \in ApiPcs
    /\ Goto(p, "undisk")
    /\ UNCHANGED <<vmm, sock, dir>>

(* A request is refused, cannot be delivered or fails inside Firecracker. *)
RunRefused(p) ==
    /\ call[p].pc \in ApiPcs
    /\ Goto(p, "kill")
    /\ UNCHANGED <<vmm, sock, dir>>

(* saveVMPorts: no file is written for an empty list, an old one stays;    *)
(* without a data directory the write fails, and the error is dropped.     *)
DirAfterSave(n, ports) ==
    IF ports # {} /\ dir[n].made THEN [dir EXCEPT ![n].ports = ports] ELSE dir

(* Run returns p's VM: its user answers from now on for p's own process,   *)
(* and takes for the VM whatever process p's client is connected to, which *)
(* may be one that another Run has started and still answers for.          *)
VmmAfterReturn(p) ==
    [i \in Insts |->
        [vmm[i] EXCEPT !.owner = IF i = call[p].own THEN "user" ELSE @,
                       !.given = @ \/ i \in {call[p].own, call[p].conn}]]

(* mutant: the ports of a restored VM are not saved *)
RunSave_FreshOnly(p, attached) ==
    /\ call[p].pc = "save"
    /\ dir' = IF call[p].boot = "restore" THEN dir
              ELSE DirAfterSave(call[p].name, call[p].ports)
    /\ vmm' = VmmAfterReturn(p)
    /\ IF attached THEN Goto(p, "wait") ELSE Done(p)
    /\ UNCHANGED sock

(* Then Run returns, without a look at its own process: an attached caller *)
(* waits, a detached one is done.                                          *)
RunSave(p, attached) ==
    /\ call[p].pc = "save"
    /\ dir' = DirAfterSave(call[p].name, call[p].ports)
    /\ vmm' = VmmAfterReturn(p)
    /\ IF attached THEN Goto(p, "wait") ELSE Done(p)
    /\ UNCHANGED sock

(* mutant: cleanup kills whoever forwards a port of the VM *)
RunKill_Port(p) ==
    /\ call[p].pc = "kill"
    /\ \/ \E i \in Insts :
            /\ Listening(vmm[i]) /\ call[p].ports \cap vmm[i].ports # {}
            /\ vmm' = VmmAfterExit(i)
            /\ sock' = SockAfterExit(i)
            /\ call' = [CallAfterExit(i) EXCEPT ![p].pc = "unsock"]
       \/ Goto(p, "unsock") /\ UNCHANGED <<vmm, sock>>
    /\ UNCHANGED dir

(* mutant: cleanup kills the process that answers at the socket path *)
RunKill_Bound(p) ==
    LET i == sock[call[p].name] IN
    /\ call[p].pc = "kill"
    /\ IF i \notin Insts
         THEN Goto(p, "unsock") /\ UNCHANGED <<vmm, sock>>
         ELSE /\ vmm' = VmmAfterExit(i)
              /\ sock' = SockAfterExit(i)
              /\ call' = [CallAfterExit(i) EXCEPT ![p].pc = "unsock"]
    /\ UNCHANGED dir

(* cleanup(): SIGKILL and reap the own process if it was started ... *)
RunKill(p) ==
    LET i == call[p].own IN
    /\ call[p].pc = "kill"
    /\ IF i = NoInst
         THEN Goto(p, "unsock") /\ UNCHANGED <<vmm, sock>>
         ELSE /\ vmm' = VmmAfterExit(i)
              /\ sock' = SockAfterExit(i)
              /\ call' = [CallAfterExit(i) EXCEPT ![p].pc = "unsock"]
    /\ UNCHANGED dir

(* ... remove whatever is at the socket path ... *)
RunUnsock(p) ==
    /\ call[p].pc = "unsock"
    /\ RemoveSocket(call[p].name)
    /\ Goto(p, "undisk")
    /\ UNCHANGED <<vmm, dir>>

(* ... and the data directory. *)
RunUndisk(p) ==
    /\ call[p].pc = "undisk"
    /\ RemoveDisk(call[p].name)
    /\ Failed(p)
    /\ UNCHANGED sock

-----------------------------------------------------------------------------
(* The handle that Run returned, in "knaller start" or a library user.     *)

(* mutant: the socket is removed without waiting *)
StartFinish_NoWait(p) ==
    /\ call[p].pc = "wait"
    /\ RemoveSocket(call[p].name)
    /\ Done(p)
    /\ UNCHANGED <<vmm, dir>>

(* Wait() has returned because the process is gone: "knaller start" removes *)
(* the socket and keeps the disk.                                          *)
StartFinish(p) ==
    /\ call[p].pc = "wait" /\ call[p].own = NoInst
    /\ RemoveSocket(call[p].name)
    /\ Done(p)
    /\ UNCHANGED <<vmm, dir>>

(* A library user calls Cleanup() instead: first the socket ... *)
CleanupSocket(p) ==
    /\ call[p].pc = "wait" /\ call[p].own = NoInst
    /\ RemoveSocket(call[p].name)
    /\ Goto(p, "rmdir")
    /\ UNCHANGED <<vmm, dir>>

(* ... then the data directory. *)
CleanupDisk(p) ==
    /\ call[p].pc = "rmdir"
    /\ RemoveDisk(call[p].name)
    /\ Done(p)
    /\ UNCHANGED sock

(* vm.Stop(), in "knaller start" from the signal goroutine. *)
HandleStop(p) ==
    /\ call[p].pc = "wait"
    /\ Peer(p) \in Insts
    /\ Booted(vmm[Peer(p)])
    /\ Answered(p, Signalled(vmm[Peer(p)]), "wait")

(* vm.Kill(), for guests that ignore Stop. *)
HandleKill(p) ==
    LET i == call[p].own IN
    /\ call[p].pc = "wait" /\ i # NoInst
    /\ vmm' = VmmAfterExit(i)
    /\ sock' = SockAfterExit(i)
    /\ call' = CallAfterExit(i)
    /\ UNCHANGED dir

-----------------------------------------------------------------------------
(* RemoveVM: probe the API, stat the directory, remove socket and disk.    *)

(* mutant: the API is not asked *)
RmProbe_Blind(p, n) ==
    /\ call[p].pc \in Ready
    /\ MayRemove(n)
    /\ call' = [call EXCEPT ![p] = [Idle EXCEPT !.pc = "rm-stat", !.name = n]]
    /\ UNCHANGED <<vmm, sock, dir>>

RmProbe(p, n) ==
    /\ call[p].pc \in Ready
    /\ MayRemove(n)
    /\ sock[n] \in Insts => SlowAPI
    /\ call' = [call EXCEPT ![p] = [Idle EXCEPT !.pc = "rm-stat", !.name = n]]
    /\ UNCHANGED <<vmm, sock, dir>>

RmStat(p) ==
    /\ call[p].pc = "rm-stat"
    /\ IF dir[call[p].name].made THEN Goto(p, "rm-unsock") ELSE Done(p)
    /\ UNCHANGED <<vmm, sock, dir>>

RmUnsock(p) ==
    /\ call[p].pc = "rm-unsock"
    /\ RemoveSocket(call[p].name)
    /\ Goto(p, "rm-disk")
    /\ UNCHANGED <<vmm, dir>>

RmDisk(p) ==
    /\ call[p].pc = "rm-disk"
    /\ RemoveDisk(call[p].name)
    /\ Done(p)
    /\ UNCHANGED sock

-----------------------------------------------------------------------------
(* StopVM, PauseVM and ResumeVM: one request to whoever answers the path.  *)

StopVM(n) ==
    /\ "stop" \in ByName
    /\ sock[n] \in Insts /\ Booted(vmm[sock[n]])
    /\ vmm' = [vmm EXCEPT ![sock[n]] = Signalled(@)]
    /\ UNCHANGED <<sock, dir, call>>

PauseVM(n) ==
    /\ "pause" \in ByName
    /\ sock[n] \in Insts /\ Booted(vmm[sock[n]])
    /\ vmm' = [vmm EXCEPT ![sock[n]] = Paused(@)]
    /\ UNCHANGED <<sock, dir, call>>

ResumeVM(n) ==
    /\ "resume" \in ByName
    /\ sock[n] \in Insts /\ Booted(vmm[sock[n]])
    /\ vmm' = [vmm EXCEPT ![sock[n]] = Resumed(@)]
    /\ UNCHANGED <<sock, dir, call>>

-----------------------------------------------------------------------------
(* What happens by itself.                                                 *)

(* pasta binds the host ports, the setup script runs and Firecracker binds *)
(* its socket; a port in use, or a file at the path, makes the process     *)
(* exit instead (VmmExit).                                                 *)
PortsFree(i) ==
    \A j \in Insts \ {i} :
        Listening(vmm[j]) => vmm[i].ports \cap vmm[j].ports = {}

VmmListen(i) ==
    /\ vmm[i].state = "spawned"
    /\ PortsFree(i)
    /\ sock[vmm[i].name] = NoSock
    /\ vmm' = [vmm EXCEPT ![i].state = "unbooted"]
    /\ sock' = [sock EXCEPT ![vmm[i].name] = i]
    /\ UNCHANGED <<dir, call>>

(* A live process exits for a reason of its own. *)
VmmExit(i) ==
    /\ Live(vmm[i])
    /\ vmm' = VmmAfterExit(i)
    /\ sock' = SockAfterExit(i)
    /\ call' = CallAfterExit(i)
    /\ UNCHANGED dir

(* The guest obeys a pending Ctrl+Alt+Del. *)
GuestShutdown(i) == CanShutDown(vmm[i]) /\ VmmExit(i)

(* A knaller process dies in the middle of an operation. *)
Crash(p) ==
    /\ AllowCrash
    /\ call[p].pc \notin Ready
    /\ vmm' = IF call[p].pc \in RunPcs /\ call[p].own # NoInst
                THEN [vmm EXCEPT ![call[p].own].owner = "none"] ELSE vmm
    /\ Done(p)
    /\ UNCHANGED <<sock, dir>>

-----------------------------------------------------------------------------
(* The steps a knaller process takes once an operation has begun. *)
RunStep(p) ==
    \/ RunDisk(p) \/ RunDiskFails(p) \/ RunSpawn(p) \/ RunSpawnFails(p)
    \/ RunAwait(p) \/ RunAwaitTimeout(p)
    \/ RunConfigure(p) \/ RunStart(p) \/ RunLoad(p) \/ RunPatch(p) \/ RunResume(p)
    \/ RunRefused(p)
    \/ \E attached \in BOOLEAN : RunSave(p, attached)
    \/ RunKill(p) \/ RunUnsock(p) \/ RunUndisk(p)

WaitStep(p) == StartFinish(p) \/ CleanupSocket(p) \/ CleanupDisk(p)

RmStep(p) == RmStat(p) \/ RmUnsock(p) \/ RmDisk(p)

CallerNext(p) ==
    \/ \E n \in Names, boot \in BootKinds, ports \in PortChoices :
         RunBegin(p, n, boot, ports)
    \/ \E n \in Names : RmProbe(p, n)
    \/ RunStep(p) \/ WaitStep(p) \/ RmStep(p)
    \/ HandleStop(p) \/ HandleKill(p)
    \/ Crash(p)

VmmNext(i) == VmmListen(i) \/ VmmExit(i) \/ GuestShutdown(i)

Next ==
    \/ \E p \in Callers : CallerNext(p)
    \/ \E n \in Names : StopVM(n) \/ PauseVM(n) \/ ResumeVM(n)
    \/ \E i \in Insts : VmmNext(i)

Spec == Init /\ [][Next]_vars

(* The scheduler runs every knaller process that can go on, a spawned      *)
(* Firecracker gets to bind its socket or exits, and a running guest acts  *)
(* on Ctrl+Alt+Del (most distributions do, client.go:152-154).  Nothing    *)
(* forces users to issue commands, or VMs to exit by themselves.           *)
Fairness ==
    /\ \A p \in Callers : WF_vars(RunStep(p)) /\ WF_vars(WaitStep(p)) /\ WF_vars(RmStep(p))
    /\ \A i \in Insts : WF_vars(GuestShutdown(i))

FairSpec == Spec /\ Fairness

-----------------------------------------------------------------------------
(* Every variable has its type. *)
TypeOK ==
    /\ vmm \in [Insts -> Vmm]
    /\ sock \in [Names -> Insts \cup {NoSock, Stale}]
    /\ dir \in [Names -> Dir]
    /\ call \in [Callers -> Call]

(* However many starts of one name race, at most one Firecracker with that *)
(* name gets past its setup: they compete for the SSH port derived from    *)
(* the name, although each start deletes the others' socket (vm.go:94).    *)
OnePerName ==
    \A i, j \in Insts :
        (Listening(vmm[i]) /\ Listening(vmm[j]) /\ vmm[i].name = vmm[j].name)
            => i = j

(* A process that Run started and has not handed over is one that a Run in *)
(* progress will hand over or kill: no failure path forgets it (cleanup,   *)
(* vm.go:121-130), whatever other processes do meanwhile.                  *)
NoOrphan ==
    \A i \in Insts :
        (Live(vmm[i]) /\ vmm[i].owner = "run")
            => \E p \in Callers : /\ call[p].own = i
                                  /\ call[p].pc \in RunPcs \ {"undisk", "unsock"}

(* What makes NoOrphan and OnePerName inductive.  A caller that is busy    *)
(* knows its VM name; a live process has a name and forwards its SSH port; *)
(* the process a caller holds is alive, held by no other caller, and       *)
(* answered for by Run until Run has returned it.                          *)
OwnPcs == {"await", "save", "kill", "wait"} \cup ApiPcs

Engaged == \A p \in Callers : call[p].pc # "idle" => call[p].name \in Names

Named ==
    \A i \in Insts :
        Live(vmm[i]) => vmm[i].name \in Names /\ SSHPort[vmm[i].name] \in vmm[i].ports

Holds ==
    \A p \in Callers :
        call[p].own # NoInst =>
            /\ call[p].pc \in OwnPcs
            /\ Live(vmm[call[p].own])
            /\ vmm[call[p].own].owner = IF call[p].pc = "wait" THEN "user" ELSE "run"

HoldsAlone ==
    \A p, q \in Callers :
        (call[p].own # NoInst /\ call[p].own = call[q].own) => p = q

IInv == /\ TypeOK /\ Engaged /\ Named /\ Holds /\ HoldsAlone
        /\ OnePerName /\ NoOrphan

(* A Run that fails kills its own process only: one that another Run has   *)
(* started and returned to its user survives, although the requests of the *)
(* failed Run may have reached it (cleanup, vm.go:123-127).  Without       *)
(* exclusive use of names this is all a user can rely on: a Run whose own  *)
(* process died on the SSH port may configure, start and return the one of *)
(* another Run, and when that one fails its cleanup kills the VM returned. *)
FailedRunSparesOthers ==
    [][\A p \in Callers, i \in Insts :
          (/\ call[p].pc = "kill" /\ call'[p].pc = "unsock"
           /\ Live(vmm[i]) /\ vmm[i].owner = "user")
              => Live(vmm'[i])]_vars

(* With exclusive use of names, no VM that a Run has returned, whichever   *)
(* Run that was, is killed by the cleanup of a Run that fails: the VM its  *)
(* user was told is "Running" is nobody else's to clean up (vm.go:121-130, *)
(* 329-342).                                                               *)
FailedRunSparesReturned ==
    [][\A p \in Callers, i \in Insts :
          (/\ call[p].pc = "kill" /\ call'[p].pc = "unsock"
           /\ Live(vmm[i]) /\ vmm[i].given)
              => Live(vmm'[i])]_vars

(* With exclusive use of names and timely answers, a VM that a Run has     *)
(* returned answers at its own socket path for as long as it lives, so     *)
(* that stop, pause, rm and ls find it.  A process whose Run died half way *)
(* was returned by nobody and may lose its path.                           *)
Reachable ==
    \A i \in Insts :
        (Booted(vmm[i]) /\ vmm[i].given) => sock[vmm[i].name] = i

(* With exclusive use of names and timely answers, a VM that a Run has     *)
(* returned runs on its own copy of the rootfs, and nobody overwrites or   *)
(* removes that copy under it.  Without the one a second start copies over *)
(* it, without the other RemoveVM takes a slow VM for a stopped one.       *)
DiskIntact ==
    \A i \in Insts :
        (Booted(vmm[i]) /\ vmm[i].given) => vmm[i].disk = "intact"

(* With exclusive use of names and timely answers, only a socket that      *)
(* nobody listens on is removed ("stale", vm.go:93 and start.go:147): the  *)
(* socket of a VM that a Run has returned goes when it has exited, not     *)
(* before.  A start of the same name while the old one waits or cleans up  *)
(* is what exclusive use rules out; such a start does take the socket.     *)
LiveSocketKept ==
    [][\A n \in Names, i \in Insts :
          (sock[n] = i /\ vmm[i].given /\ Live(vmm'[i]))
              => sock'[n] = i]_vars

(* RemoveVM leaves a VM alone that is running (vm.go:464-465), when the VM *)
(* answers within the 2 seconds of the probe and nobody starts the name    *)
(* between the probe and the removal: exclusive use and timely answers     *)
(* again.  What is left is that the probe guards every later step.         *)
RmSparesRunning ==
    [][\A p \in Callers, i \in Insts :
          (call[p].pc = "rm-disk" /\ call'[p].pc = "idle"
             /\ Booted(vmm[i]) /\ vmm[i].name = call[p].name)
              => vmm'[i].disk = vmm[i].disk]_vars

(* The ports that the user of a process has asked for. *)
Asked(v) == v.ports \ {SSHPort[v.name]}

(* With exclusive use of names and timely answers, the ports that a VM was *)
(* started with are those remembered for it as long as it is up, whichever *)
(* way it was started, so that a snapshot of it records them               *)
(* (disk.go:149-150).  A VM started without ports is exempt: saveVMPorts   *)
(* writes nothing for an empty list, and the ports.json of an earlier life *)
(* of the name stays.                                                      *)
PortsKept ==
    \A i \in Insts :
        (Booted(vmm[i]) /\ vmm[i].given /\ Asked(vmm[i]) # {})
            => dir[vmm[i].name].ports \ {SSHPort[vmm[i].name]} = Asked(vmm[i])

(* With exclusive use of names, a Run that fails after its disk was made   *)
(* leaves nothing of its VM: no process, no socket and no data directory   *)
(* ("all previously created resources are cleaned up", vm.go:64).          *)
FailureIsClean ==
    [][\A p \in Callers :
          (call[p].pc = "undisk" /\ call'[p].pc = "failed") =>
              /\ sock'[call[p].name] = NoSock
              /\ ~dir'[call[p].name].made
              /\ \A i \in Insts : Live(vmm'[i]) => vmm'[i].name # call[p].name]_vars

(* What makes these inductive.  A name has one tenant at most, a caller    *)
(* that starts it or waits on it; rm has no name with a tenant that starts *)
(* it, and only a tenant's own process of that name is alive.              *)
TenantPcs == RunPcs \cup WaitPcs

Tenancy ==
    \A p, q \in Callers : call[p].name = call[q].name =>
        /\ (call[p].pc \in TenantPcs /\ call[q].pc \in TenantPcs) => p = q
        /\ ~(call[p].pc \in RunPcs /\ call[q].pc \in RmPcs)

OwnsAll ==
    \A p \in Callers, i \in Insts :
        (call[p].pc \in TenantPcs /\ Live(vmm[i]) /\ vmm[i].name = call[p].name)
            => call[p].own = i

OwnMatches ==
    \A p \in Callers :
        /\ call[p].own # NoInst =>
              /\ vmm[call[p].own].name = call[p].name
              /\ vmm[call[p].own].ports = call[p].ports \cup {SSHPort[call[p].name]}
        /\ call[p].conn # NoInst => call[p].conn = call[p].own

(* Socket paths lead to processes of their name, and booted processes are  *)
(* at the end of one; so is the own process of a start once it listens.    *)
Bound ==
    /\ \A n \in Names :
         sock[n] \in Insts => Listening(vmm[sock[n]]) /\ vmm[sock[n]].name = n
    /\ \A i \in Insts : Booted(vmm[i]) => sock[vmm[i].name] = i
    /\ \A p \in Callers :
         /\ (call[p].pc \in RunPcs /\ call[p].own # NoInst /\ Listening(vmm[call[p].own]))
               => sock[call[p].name] = call[p].own
         /\ call[p].pc = "undisk" => sock[call[p].name] = NoSock

RemovedAreDown ==
    \A p \in Callers, i \in Insts :
        (call[p].pc \in RmPcs /\ vmm[i].name = call[p].name) => ~Booted(vmm[i])

(* How far a start has got with its process and its directory, ...         *)
Underway ==
    \A p \in Callers :
        /\ call[p].own # NoInst =>
              /\ call[p].pc \in {"network", "machine", "start", "resume", "save"} =>
                    vmm[call[p].own].disk = "intact"
              /\ call[p].pc = "save" => Booted(vmm[call[p].own])
        /\ call[p].pc \in {"spawn", "await", "save"} \cup ApiPcs => dir[call[p].name].made

(* ... and what it hands over. *)
HandedOver ==
    \A i \in Insts :
        (Live(vmm[i]) /\ vmm[i].owner = "user") =>
            /\ Booted(vmm[i]) /\ vmm[i].disk = "intact"
            /\ Asked(vmm[i]) # {} =>
                  dir[vmm[i].name].ports \ {SSHPort[vmm[i].name]} = Asked(vmm[i])

XInv == /\ Tenancy /\ OwnsAll /\ OwnMatches /\ Bound /\ RemovedAreDown
        /\ Underway /\ HandedOver

(* A VM that a Run has returned is one that Run has started itself: its    *)
(* user answers for the process.                                           *)
ReturnedIsOwned ==
    \A i \in Insts : (Live(vmm[i]) /\ vmm[i].given) => vmm[i].owner = "user"

(* Every Run comes to an end, with a VM or with an error. *)
RunTerminates ==
    \A p \in Callers :
        call[p].pc \in RunPcs ~> call[p].pc \in Ready \cup WaitPcs

(* Once Ctrl+Alt+Del is pending in the VM a caller waits for, the caller   *)
(* gets through its wait, unless somebody pauses the guest.                *)
StopEndsWait ==
    \A p \in Callers, i \in Insts :
        (call[p].pc = "wait" /\ call[p].own = i /\ vmm[i].cad)
            ~> (call[p].pc \in Ready \/ vmm[i].state = "paused")

-----------------------------------------------------------------------------
(* What List reports of a name: the state its API answers with, or         *)
(* "Stopped" when only its data directory is there.                        *)
Status(n) ==
    IF sock[n] \in Insts THEN vmm[sock[n]].state
    ELSE IF dir[n].made THEN "stopped" ELSE "absent"

Registry == INSTANCE VMRegistry WITH status <- [n \in Names |-> Status(n)]

(* With exclusive use of names every step of Run, its cleanup, rm, stop,    *)
(* pause, resume and of the processes themselves is a permitted move of one *)
(* name: no interleaving removes a VM that is up, or shows one as up that   *)
(* was not configured (List and RemoveVM, vm.go:464-465 and 521-524).       *)
ImplementsRegistry == Registry!Spec
=============================================================================
