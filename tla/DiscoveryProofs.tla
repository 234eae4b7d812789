-------------------------- MODULE DiscoveryProofs --------------------------
(***************************************************************************)
(* List beside any number of knaller processes that keep to exclusive use  *)
(* of names and answer in time, whoever of them dies: whatever it reports  *)
(* was true while it ran, and what it omits was absent or half started by  *)
(* a process that is gone.                                                 *)
(***************************************************************************)
EXTENDS Discovery, LifecycleExclusiveProofs

-----------------------------------------------------------------------------
(* Processes and the data directories of their names.                      *)

(* Somebody answers for the process. *)
Cared(v) == Live(v) /\ v.owner # "none"

(* The name of a process that somebody answers for has a data directory.   *)
Sheltered == \A i \in Insts : Cared(vmm[i]) => dir[vmm[i].name].made

Vacant(n) == \A i \in Insts : Cared(vmm[i]) => vmm[i].name # n

(* A process lives on; whom nobody answers for, nobody will.               *)
LivesOn(i) == Cared(vmm[i]) /\ vmm'[i].name = vmm[i].name

(* Directories are made and removed for vacant names only, while paths     *)
(* stay; a new process finds the directory of its name.                    *)
DirEffect ==
    /\ \/ MadeKept
       \/ \E n \in Names : /\ Vacant(n) /\ sock' = sock
                           /\ \A m \in Names \ {n} : dir'[m].made = dir[m].made
                           /\ \A i \in Insts : Cared(vmm'[i]) => LivesOn(i)
    /\ \A i \in Insts : Cared(vmm'[i]) =>
          \/ LivesOn(i)
          \/ /\ vmm'[i].name \in Names /\ dir[vmm'[i].name].made
             /\ MadeKept

(* rm has a vacant name, and so has a tenant that holds no process. *)
LEMMA VacantName ==
    ASSUME IInv, XInv, NEW p \in Callers,
           \/ call[p].pc \in TenantPcs /\ call[p].own = NoInst
           \/ call[p].pc \in RmPcs
    PROVE  Vacant(call[p].name)
  <1> SUFFICES ASSUME NEW i \in Insts, Cared(vmm[i]), vmm[i].name = call[p].name PROVE FALSE
    BY DEF Vacant
  <1>1. CASE call[p].pc \in TenantPcs /\ call[p].own = NoInst
    BY <1>1, BlanksAssumption DEF XInv, OwnsAll, Cared
  <1>2. CASE call[p].pc \in RmPcs
    <2>1. ~Booted(vmm[i]) /\ vmm[i].owner # "user"
      BY <1>2 DEF XInv, RemovedAreDown, HandedOver, Cared
    <2>2. vmm[i].owner = "run"
      BY <2>1 DEF Cared, IInv, TypeOK, Vmm, Owners
    <2>3. PICK q \in Callers : call[q].own = i /\ call[q].pc \in RunPcs
      BY <2>2 DEF IInv, NoOrphan, Cared
    <2> QED BY <1>2, <2>3, BlanksAssumption DEF XInv, OwnMatches, Tenancy
  <1> QED BY <1>1, <1>2

(* The steps of the callers. *)
LEMMA CallerDirEffect ==
    ASSUME IInv, XInv, NEW p \in Callers, CallerNext(p)
    PROVE  DirEffect
  <1>0. /\ call \in [Callers -> Call] /\ vmm \in [Insts -> Vmm] /\ dir \in [Names -> Dir]
        /\ call[p].own \in Insts \cup {NoInst}
        /\ call[p].pc # "idle" => call[p].name \in Names
        /\ call[p].own # NoInst => call[p].pc \in OwnPcs
    BY DEF IInv, TypeOK, Call, Engaged, Holds
  <1>s. ASSUME dir' = dir, \A i \in Insts : vmm'[i] = vmm[i] \/ SameProcess(vmm[i], vmm'[i])
        PROVE  DirEffect
    BY <1>s DEF DirEffect, MadeKept, LivesOn, Cared, SameProcess
  <1>d. ASSUME \A i \in Insts : SameProcess(vmm[i], vmm'[i]), sock' = sock,
               \A m \in Names \ {call[p].name} : dir'[m].made = dir[m].made,
               call[p].name \in Names, Vacant(call[p].name)
        PROVE  DirEffect
    BY <1>d DEF DirEffect, LivesOn, Cared, SameProcess
  <1>1. CASE \/ \E n \in Names, boot \in BootKinds, ports \in PortChoices :
                    RunBegin(p, n, boot, ports)
             \/ \E n \in Names : RmProbe(p, n)
             \/ RunSpawnFails(p) \/ RunAwait(p) \/ RunAwaitTimeout(p) \/ RunRefused(p)
             \/ RmStat(p) \/ RunUnsock(p) \/ StartFinish(p) \/ CleanupSocket(p) \/ RmUnsock(p)
    <2>1. vmm' = vmm /\ dir' = dir
      BY <1>1, Zenon DEF RunBegin, RmProbe, RunSpawnFails, RunAwait, RunAwaitTimeout, RunRefused,
                  RmStat, RunUnsock, StartFinish, CleanupSocket, RmUnsock
    <2> QED BY <1>s, <2>1
  <1>2. CASE RunDisk(p) \/ RunDiskFails(p)
    <2>1. call[p].pc = "disk" /\ call[p].own = NoInst /\ call[p].pc \in TenantPcs
      BY <1>0, <1>2, Phases DEF RunDisk, RunDiskFails, OwnPcs, ApiPcs, ConfigPcs
    <2>2. \A i \in Insts : SameProcess(vmm[i], vmm'[i])
      <3>1. vmm' = vmm \/ vmm' = DiskLost(call[p].name, "overwritten")
        BY <1>2 DEF RunDisk, RunDiskFails
      <3> QED BY <3>1, EffectsSame DEF IInv, SameProcess
    <2>3. \A m \in Names \ {call[p].name} : dir'[m].made = dir[m].made
      BY <1>0, <1>2 DEF RunDisk, RunDiskFails, Dir
    <2>4. sock' = sock
      BY <1>2 DEF RunDisk, RunDiskFails
    <2> QED BY <1>0, <1>d, <2>1, <2>2, <2>3, <2>4, VacantName
  <1>3. CASE RunUndisk(p) \/ CleanupDisk(p) \/ RmDisk(p)
    <2>1. /\ call[p].pc \in {"undisk", "rmdir", "rm-disk"} /\ call[p].own = NoInst
          /\ RemoveDisk(call[p].name) /\ sock' = sock
      BY <1>0, <1>3 DEF RunUndisk, CleanupDisk, RmDisk, OwnPcs, ApiPcs, ConfigPcs
    <2>2. Vacant(call[p].name)
      BY <2>1, VacantName DEF TenantPcs, RunPcs, CleanupPcs, WaitPcs, RmPcs
    <2>3. \A i \in Insts : SameProcess(vmm[i], vmm'[i])
      BY <2>1, EffectsSame DEF RemoveDisk, IInv
    <2>4. \A m \in Names \ {call[p].name} : dir'[m].made = dir[m].made
      BY <1>0, <2>1 DEF RemoveDisk
    <2> QED BY <1>0, <1>d, <2>1, <2>2, <2>3, <2>4
  <1>4. CASE RunSpawn(p)
    <2>1. PICK i \in Insts :
            /\ ~Live(vmm[i])
            /\ vmm' = [vmm EXCEPT ![i] =
                         [Blank EXCEPT !.state = "spawned", !.owner = "run",
                            !.name = call[p].name,
                            !.ports = call[p].ports \cup {SSHPort[call[p].name]}]]
      BY <1>4, Zenon DEF RunSpawn
    <2>2. vmm'[i].name = call[p].name
          /\ \A j \in Insts \ {i} : vmm'[j] = vmm[j]
      BY <1>0, <2>1 DEF Blank
    <2>3. call[p].name \in Names /\ dir[call[p].name].made /\ dir' = dir
      BY <1>0, <1>4 DEF RunSpawn, XInv, Underway
    <2> QED BY <2>2, <2>3 DEF DirEffect, MadeKept, LivesOn, Cared
  <1>5. CASE RunConfigure(p) \/ RunStart(p) \/ RunLoad(p) \/ RunPatch(p) \/ RunResume(p)
             \/ HandleStop(p)
    <2>1. PICK v : /\ vmm' = [vmm EXCEPT ![Peer(p)] = v] /\ dir' = dir /\ Peer(p) \in Insts
                   /\ SameProcess(vmm[Peer(p)], v)
      <3>1. CASE RunConfigure(p)
        <4>1. call[p].pc \in ConfigItems
          BY <3>1 DEF RunConfigure, ConfigItems, ConfigPcs
        <4> QED BY <3>1, <4>1, EffectsSame DEF RunConfigure, Answered, IInv
      <3>2. CASE RunStart(p)
        BY <3>2, EffectsSame DEF RunStart, Answered, IInv
      <3>3. CASE RunLoad(p)
        BY <3>3, EffectsSame DEF RunLoad, Answered, IInv
      <3>4. CASE RunPatch(p)
        BY <3>4, EffectsSame DEF RunPatch, Answered, IInv
      <3>5. CASE RunResume(p)
        BY <3>5, EffectsSame DEF RunResume, Answered, IInv
      <3>6. CASE HandleStop(p)
        BY <3>6, EffectsSame DEF HandleStop, Answered, IInv
      <3> QED BY <1>5, <3>1, <3>2, <3>3, <3>4, <3>5, <3>6
    <2> QED BY <1>0, <1>s, <2>1
  <1>6. ASSUME NEW attached \in BOOLEAN, RunSave(p, attached) PROVE DirEffect
    <2>0. /\ vmm' = VmmAfterReturn(p)
          /\ call[p].own # NoInst => Cared(vmm[call[p].own])
      BY <1>0, <1>6 DEF RunSave, IInv, Holds, Cared
    <2>1. \A i \in Insts : Cared(vmm'[i]) => LivesOn(i)
      BY <1>0, <2>0, ReturnEffect, BlanksAssumption DEF OwnerBecomes, LivesOn, Cared
    <2>2. MadeKept
      BY <1>0, <1>6 DEF RunSave, DirAfterSave, MadeKept, Dir
    <2> QED BY <2>1, <2>2 DEF DirEffect
  <1>7. CASE RunKill(p) \/ HandleKill(p)
    <2>1. vmm' = vmm \/ (call[p].own \in Insts /\ vmm' = VmmAfterExit(call[p].own))
      BY <1>0, <1>7 DEF RunKill, HandleKill
    <2>2. \A i \in Insts : Cared(vmm'[i]) => LivesOn(i)
      BY <1>0, <2>1 DEF VmmAfterExit, Blank, Live, LivesOn, Cared
    <2>3. MadeKept
      BY <1>7 DEF RunKill, HandleKill, MadeKept
    <2> QED BY <2>2, <2>3 DEF DirEffect
  <1>8. CASE Crash(p)
    <2>1. \A i \in Insts : Cared(vmm'[i]) => LivesOn(i)
      BY <1>0, <1>8 DEF Crash, LivesOn, Cared, Live, Vmm
    <2>2. MadeKept
      BY <1>8 DEF Crash, MadeKept
    <2> QED BY <2>1, <2>2 DEF DirEffect
  <1> QED BY <1>1, <1>2, <1>3, <1>4, <1>5, <1>6, <1>7, <1>8
          DEF CallerNext, RunStep, WaitStep, RmStep

(* All steps. *)
LEMMA NextDirEffect ==
    ASSUME IInv, XInv, [Next]_vars
    PROVE  DirEffect
  <1>0. vmm \in [Insts -> Vmm]
    BY DEF IInv, TypeOK
  <1>1. ASSUME NEW p \in Callers, CallerNext(p) PROVE DirEffect
    BY <1>1, CallerDirEffect
  <1>2. ASSUME NEW n \in Names, StopVM(n) \/ PauseVM(n) \/ ResumeVM(n) PROVE DirEffect
    <2>1. /\ sock[n] \in Insts /\ Booted(vmm[sock[n]]) /\ dir' = dir
          /\ \/ vmm' = [vmm EXCEPT ![sock[n]] = Signalled(vmm[sock[n]])]
             \/ vmm' = [vmm EXCEPT ![sock[n]] = Paused(vmm[sock[n]])]
             \/ vmm' = [vmm EXCEPT ![sock[n]] = Resumed(vmm[sock[n]])]
      BY <1>2 DEF StopVM, PauseVM, ResumeVM
    <2> QED BY <1>0, <2>1 DEF DirEffect, MadeKept, LivesOn, Cared, Signalled, Paused, Resumed, Vmm,
                              Booted, Live
  <1>3. ASSUME NEW i \in Insts, VmmListen(i) PROVE DirEffect
    BY <1>0, <1>3 DEF VmmListen, DirEffect, MadeKept, LivesOn, Cared, Vmm, Live
  <1>4. ASSUME NEW i \in Insts, VmmExit(i) \/ GuestShutdown(i) PROVE DirEffect
    BY <1>0, <1>4 DEF VmmExit, GuestShutdown, VmmAfterExit, Blank, DirEffect, MadeKept,
                      LivesOn, Cared, Live
  <1>5. CASE UNCHANGED vars
    BY <1>5 DEF vars, DirEffect, MadeKept, LivesOn, Cared
  <1> QED BY <1>1, <1>2, <1>3, <1>4, <1>5 DEF Next, VmmNext

(* Every process keeps its shelter. *)
LEMMA ShelteredKept ==
    ASSUME IInv, Sheltered, DirEffect PROVE Sheltered'
  <1>1. \A i \in Insts : Live(vmm[i]) => vmm[i].name \in Names
    BY DEF IInv, Named
  <1> SUFFICES ASSUME NEW i \in Insts, Cared(vmm'[i]) PROVE dir'[vmm'[i].name].made
    BY DEF Sheltered, Cared
  <1>2. CASE LivesOn(i)
    <2>1. vmm'[i].name \in Names /\ vmm'[i].name = vmm[i].name /\ dir[vmm[i].name].made
      BY <1>1, <1>2 DEF LivesOn, Sheltered, Cared
    <2>2. CASE MadeKept
      BY <2>1, <2>2 DEF MadeKept
    <2>3. ASSUME NEW n \in Names, Vacant(n), \A m \in Names \ {n} : dir'[m].made = dir[m].made
          PROVE  dir'[vmm'[i].name].made
      <3>1. vmm[i].name # n
        BY <1>2, <2>3 DEF LivesOn, Vacant
      <3> QED BY <2>1, <2>3, <3>1
    <2> QED BY <2>2, <2>3 DEF DirEffect
  <1>3. CASE ~LivesOn(i)
    BY <1>3 DEF DirEffect, MadeKept
  <1> QED BY <1>2, <1>3

-----------------------------------------------------------------------------
(* What List has seen, and what there was to see.                          *)

SeenBy(n) ==
    /\ Witnessed(n) \subseteq was[n]
    /\ ls.seen[n] # NotListed => ls.seen[n] \in was[n]
    /\ (n \notin ls.todo /\ ls.seen[n] = NotListed) => "stopped" \in was[n] \/ ~dir[n].made

ToldOf(n) ==
    /\ ls.seen[n] # NotListed => ls.seen[n] \in was[n]
    /\ ls.seen[n] = NotListed =>
         was[n] \cap {"absent", "unbooted"} # {} /\ was[n] \cap {"absent", "orphaned"} # {}

LInv ==
    /\ ListTypeOK
    /\ ls.pc = "probe" => \A n \in Names : SeenBy(n)
    /\ ls.pc = "done" => \A n \in Names : ToldOf(n)

(* A status is one of the registry's; without a directory nothing is up.   *)
LEMMA StatusKind ==
    ASSUME IInv, XInv, Housed, Sheltered, NEW n \in Names
    PROVE  /\ Status(n) \in Registry!Statuses
           /\ sock[n] \in Insts => vmm[sock[n]].state \in {"unbooted", "running", "paused"}
           /\ Witnessed(n) \in SUBSET (Registry!Statuses \cup {"orphaned"})
           /\ ~dir[n].made => Status(n) \in {"absent", "unbooted"}
           /\ ~dir[n].made => Status(n) = "absent" \/ Orphaned(n)
  <1>1. sock[n] \in Insts => Listening(vmm[sock[n]]) /\ vmm[sock[n]].name = n
    BY DEF XInv, Bound
  <1>2. sock[n] \in Insts => vmm[sock[n]].state \in {"unbooted", "running", "paused"}
    BY <1>1 DEF Listening
  <1>3. (sock[n] \in Insts /\ Booted(vmm[sock[n]])) => dir[n].made
    BY <1>1 DEF Housed
  <1>4. (sock[n] \in Insts /\ ~dir[n].made) => Orphaned(n)
    BY <1>1 DEF Sheltered, Cared, Orphaned, Listening, Live
  <1>5. Status(n) \in Registry!Statuses
    BY <1>2 DEF Status, Registry!Statuses
  <1>6. ~dir[n].made => Status(n) \in {"absent", "unbooted"}
    BY <1>2, <1>3 DEF Status, Booted
  <1>7. ~dir[n].made => Status(n) = "absent" \/ Orphaned(n)
    BY <1>4 DEF Status
  <1> QED BY <1>2, <1>5, <1>6, <1>7 DEF Witnessed

(* What there is to see of a name is always one of these.                  *)
LEMMA WitnessKind ==
    IInv /\ XInv /\ Housed /\ Sheltered =>
        \A n \in Names : Witnessed(n) \in SUBSET (Registry!Statuses \cup {"orphaned"})
  BY StatusKind

(* A directory appears for a name that has no process: the name is stopped. *)
LEMMA DirAppears ==
    ASSUME IInv, XInv, [Next]_vars, NEW n \in Names, ~dir[n].made, dir'[n].made
    PROVE  Status(n)' = "stopped"
  <1>0. /\ call \in [Callers -> Call] /\ dir \in [Names -> Dir]
        /\ \A p \in Callers : call[p].own # NoInst => call[p].pc \in OwnPcs
    BY DEF IInv, TypeOK, Holds
  <1>1. ASSUME NEW p \in Callers, RunDisk(p) \/ RunDiskFails(p) PROVE Status(n)' = "stopped"
    <2>1. call[p].pc = "disk" /\ call[p].own = NoInst /\ call[p].pc \in TenantPcs
      BY <1>0, <1>1, Phases DEF RunDisk, RunDiskFails, OwnPcs, ApiPcs, ConfigPcs
    <2>2. call[p].name = n
      BY <1>0, <1>1 DEF RunDisk, RunDiskFails, Dir
    <2>3. \A i \in Insts : Live(vmm[i]) => vmm[i].name # n
      BY <2>1, <2>2, BlanksAssumption DEF XInv, OwnsAll
    <2>4. sock[n] \notin Insts
      BY <2>3 DEF XInv, Bound, Listening, Live
    <2>5. sock' = sock
      BY <1>1 DEF RunDisk, RunDiskFails
    <2> QED BY <2>4, <2>5 DEF Status
  <1>2. ASSUME NEW p \in Callers, RunSave(p, TRUE) \/ RunSave(p, FALSE) PROVE dir'[n].made = dir[n].made
    BY <1>0, <1>2 DEF RunSave, DirAfterSave, Dir
  <1>3. ASSUME NEW p \in Callers, RunUndisk(p) \/ CleanupDisk(p) \/ RmDisk(p)
        PROVE  dir'[n] = dir[n] \/ ~dir'[n].made
    BY <1>0, <1>3 DEF RunUndisk, CleanupDisk, RmDisk, RemoveDisk, NoDir
  <1>4. \/ \E p \in Callers : \/ RunDisk(p) \/ RunDiskFails(p)
                              \/ RunSave(p, TRUE) \/ RunSave(p, FALSE)
                              \/ RunUndisk(p) \/ CleanupDisk(p) \/ RmDisk(p)
        \/ UNCHANGED dir
    <2>1. ASSUME NEW p \in Callers, CallerNext(p)
          PROVE  \/ RunDisk(p) \/ RunDiskFails(p) \/ RunSave(p, TRUE) \/ RunSave(p, FALSE)
                 \/ RunUndisk(p) \/ CleanupDisk(p) \/ RmDisk(p) \/ UNCHANGED dir
      BY <2>1, Zenon DEF CallerNext, RunStep, WaitStep, RmStep, RunBegin, RmProbe,
         RunSpawnFails, RunSpawn, RunAwait, RunAwaitTimeout, RunRefused, RunConfigure,
         RunStart, RunLoad, RunPatch, RunResume, HandleStop, RunKill, HandleKill, RmStat,
         RunUnsock, StartFinish, CleanupSocket, RmUnsock, Crash, Answered
    <2>2. ASSUME NEW m \in Names, StopVM(m) \/ PauseVM(m) \/ ResumeVM(m) PROVE UNCHANGED dir
      BY <2>2 DEF StopVM, PauseVM, ResumeVM
    <2>3. ASSUME NEW i \in Insts, VmmListen(i) \/ VmmExit(i) \/ GuestShutdown(i)
          PROVE  UNCHANGED dir
      BY <2>3, Zenon DEF VmmListen, VmmExit, GuestShutdown
    <2> QED BY <2>1, <2>2, <2>3 DEF Next, VmmNext, vars
  <1> QED BY <1>1, <1>2, <1>3, <1>4

-----------------------------------------------------------------------------
(* The steps of List.                                                      *)

LEMMA ListStepKeeps ==
    ASSUME ~SlowAPI, IInv, XInv, Housed, Sheltered, LInv, ListStep
    PROVE  LInv'
  <1>0. /\ ls \in ListType /\ was \in [Names -> SUBSET (Registry!Statuses \cup {"orphaned"})]
        /\ ls.seen \in [Names -> {NotListed, "unbooted", "running", "paused", "stopped"}]
    BY DEF LInv, ListTypeOK, ListType
  <1>1. vmm' = vmm /\ sock' = sock /\ dir' = dir
    BY Zenon DEF ListStep, ListSockets, ListProbe, ListDirs, vars
  <1>2. \A n \in Names : Witnessed(n)' = Witnessed(n)
    BY <1>1 DEF Witnessed, Status, Orphaned
  <1>3. CASE ListSockets
    <2>1. /\ ls'.pc = "probe" /\ ls'.todo = {n \in Names : sock[n] # NoSock}
          /\ \A n \in Names : ls'.seen[n] = NotListed /\ was'[n] = Witnessed(n)
      BY <1>3 DEF ListSockets
    <2>2. ListTypeOK'
      <3>1. \A n \in Names : Witnessed(n) \in SUBSET (Registry!Statuses \cup {"orphaned"})
        BY StatusKind
      <3>2. was' \in [Names -> SUBSET (Registry!Statuses \cup {"orphaned"})]
        BY <1>3, <3>1 DEF ListSockets
      <3>3. ls' \in ListType
        BY <1>3 DEF ListSockets, ListType, NotListed
      <3> QED BY <3>2, <3>3 DEF ListTypeOK
    <2>3. ASSUME NEW n \in Names PROVE SeenBy(n)'
      <3>1. Witnessed(n)' \subseteq was'[n] /\ Status(n) \in was'[n]
        BY <1>2, <2>1 DEF Witnessed
      <3>2. ASSUME sock[n] = NoSock PROVE "stopped" \in was'[n] \/ ~dir'[n].made
        BY <1>1, <3>1, <3>2, BlanksAssumption DEF Status
      <3> QED BY <2>1, <3>1, <3>2 DEF SeenBy
    <2> QED BY <2>1, <2>2, <2>3 DEF LInv
  <1>4. ASSUME NEW m \in Names, ListProbe(m) PROVE LInv'
    <2>1. /\ ls.pc = "probe" /\ ls'.pc = "probe" /\ was' = was
          /\ ls'.todo = ls.todo \ {m}
          /\ \A n \in Names \ {m} : ls'.seen[n] = ls.seen[n]
          /\ \/ sock[m] \in Insts /\ ls'.seen[m] = vmm[sock[m]].state
             \/ ls'.seen[m] = ls.seen[m]
          /\ ls' \in ListType
      <3>1. CASE /\ sock[m] \in Insts
                 /\ ls' = [ls EXCEPT !.todo = @ \ {m}, !.seen[m] = vmm[sock[m]].state]
        <4>1. vmm[sock[m]].state \in {"unbooted", "running", "paused"}
          BY <3>1, StatusKind
        <4> QED BY <1>0, <1>4, <3>1, <4>1 DEF ListProbe, ListType
      <3>2. CASE ls' = [ls EXCEPT !.todo = @ \ {m}]
        BY <1>0, <1>4, <3>2 DEF ListProbe, ListType
      <3> QED BY <1>4, <3>1, <3>2 DEF ListProbe
    <2>2. \A n \in Names : SeenBy(n)
      BY <2>1 DEF LInv
    <2>3. ASSUME NEW n \in Names, n # m PROVE SeenBy(n)'
      BY <1>1, <1>2, <2>1, <2>2, <2>3 DEF SeenBy
    <2>4. SeenBy(m)'
      <3>1. CASE sock[m] \in Insts /\ ls'.seen[m] = vmm[sock[m]].state
        <4>1. ls'.seen[m] = Status(m) /\ ls'.seen[m] # NotListed
          BY <3>1, StatusKind DEF Status, NotListed
        <4>2. Status(m) \in was'[m] /\ Witnessed(m)' \subseteq was'[m]
          BY <1>2, <2>1, <2>2 DEF SeenBy, Witnessed
        <4> QED BY <4>1, <4>2 DEF SeenBy
      <3>2. CASE ls'.seen[m] = ls.seen[m] /\ sock[m] \notin Insts
        <4>1. Status(m) \in was'[m] /\ Witnessed(m)' \subseteq was'[m]
          BY <1>2, <2>1, <2>2 DEF SeenBy, Witnessed
        <4>2. "stopped" \in was'[m] \/ ~dir'[m].made
          BY <1>1, <3>2, <4>1 DEF Status
        <4> QED BY <2>1, <2>2, <3>2, <4>1, <4>2 DEF SeenBy
      <3>3. (sock[m] \in Insts /\ ls'.seen[m] = vmm[sock[m]].state)
            \/ (ls'.seen[m] = ls.seen[m] /\ sock[m] \notin Insts)
        <4>1. CASE /\ sock[m] \in Insts
                   /\ ls' = [ls EXCEPT !.todo = @ \ {m}, !.seen[m] = vmm[sock[m]].state]
          BY <1>0, <4>1 DEF ListType
        <4>2. CASE /\ sock[m] \notin Insts
                   /\ ls' = [ls EXCEPT !.todo = @ \ {m}]
          BY <1>0, <4>2 DEF ListType
        <4> QED BY <1>4, <4>1, <4>2, Zenon DEF ListProbe
      <3> QED BY <3>1, <3>2, <3>3
    <2>5. ListTypeOK'
      BY <1>0, <2>1 DEF ListTypeOK
    <2> QED BY <2>1, <2>3, <2>4, <2>5 DEF LInv
  <1>5. CASE ListDirs
    <2>1. /\ ls.pc = "probe" /\ ls.todo = {} /\ ls'.pc = "done" /\ was' = was
          /\ \A n \in Names : ls'.seen[n] = IF ls.seen[n] = NotListed /\ dir[n].made
                                              THEN "stopped" ELSE ls.seen[n]
      BY <1>0, <1>5 DEF ListDirs, ListType
    <2>2. ls' \in ListType
      BY <1>0, <1>5, Zenon DEF ListDirs, ListType
    <2>3. ASSUME NEW n \in Names PROVE ToldOf(n)'
      <3>1. SeenBy(n)
        BY <2>1 DEF LInv
      <3>2. ~dir[n].made =>
              was[n] \cap {"absent", "unbooted"} # {} /\ was[n] \cap {"absent", "orphaned"} # {}
        BY <3>1, StatusKind DEF SeenBy, Witnessed
      <3> QED BY <2>1, <3>1, <3>2 DEF SeenBy, ToldOf, NotListed
    <2> QED BY <1>0, <2>1, <2>2, <2>3 DEF LInv, ListTypeOK
  <1> QED BY <1>3, <1>4, <1>5 DEF ListStep

(* The steps of the others. *)
LEMMA OthersStepKeeps ==
    ASSUME IInv, XInv, (IInv /\ XInv /\ Housed /\ Sheltered)', LInv, OthersStep
    PROVE  LInv'
  <1>0. was \in [Names -> SUBSET (Registry!Statuses \cup {"orphaned"})] /\ ls' = ls
    BY DEF LInv, ListTypeOK, OthersStep
  <1>1. CASE ls.pc = "probe"
    <2>1. was' = [n \in Names |-> was[n] \cup Witnessed(n)']
      BY <1>1 DEF OthersStep
    <2>2. \A n \in Names : Witnessed(n)' \in SUBSET (Registry!Statuses \cup {"orphaned"})
      <3>1. (IInv /\ XInv /\ Housed /\ Sheltered)' =>
              (\A n \in Names : Witnessed(n) \in SUBSET (Registry!Statuses \cup {"orphaned"}))'
        BY WitnessKind, PTL
      <3> QED BY <3>1
    <2>3. was' \in [Names -> SUBSET (Registry!Statuses \cup {"orphaned"})]
      <3>1. \A n \in Names : was[n] \cup Witnessed(n)' \in SUBSET (Registry!Statuses \cup {"orphaned"})
        BY <1>0, <2>2
      <3> QED BY <2>1, <3>1
    <2>4. ASSUME NEW n \in Names PROVE SeenBy(n)'
      <3>1. SeenBy(n)
        BY <1>1 DEF LInv
      <3>2. /\ Witnessed(n)' \subseteq was'[n] /\ was[n] \subseteq was'[n]
            /\ Status(n)' \in was'[n]
        BY <2>1 DEF Witnessed
      <3>3. ASSUME ~dir[n].made PROVE "stopped" \in was'[n] \/ ~dir'[n].made
        BY <3>2, <3>3, DirAppears DEF OthersStep
      <3> QED BY <1>0, <3>1, <3>2, <3>3 DEF SeenBy
    <2> QED BY <1>0, <1>1, <2>3, <2>4 DEF LInv, ListTypeOK
  <1>2. CASE ls.pc # "probe"
    <2>1. was' = was
      BY <1>2 DEF OthersStep
    <2> QED BY <1>0, <1>2, <2>1 DEF LInv, ListTypeOK, ToldOf
  <1> QED BY <1>1, <1>2

-----------------------------------------------------------------------------
(* List and the system around it.                                          *)

Around == IInv /\ XInv /\ Housed /\ Sheltered /\ LInv

LEMMA InitAround == ListInit => Around
  <1> SUFFICES ASSUME ListInit PROVE Around
    OBVIOUS
  <1>1. Init
    BY DEF ListInit
  <1>2. Housed /\ Sheltered
    BY <1>1 DEF Init, Housed, Sheltered, Cared, Blank, Booted, Live
  <1>3. LInv
    BY DEF ListInit, LInv, ListTypeOK, ListType, NotListed
  <1> QED BY <1>1, <1>2, <1>3, InitIInv, InitXInv DEF Around

LEMMA NextAround ==
    ASSUME Exclusive, ~SlowAPI, Around, [ListNext]_allVars
    PROVE  Around'
  <1>1. [Next]_vars
    BY Zenon DEF ListNext, ListStep, ListSockets, ListProbe, ListDirs, OthersStep, allVars, vars
  <1>2. IInv' /\ XInv'
    BY <1>1, NextIInv, NextXInv DEF Around
  <1>3. Housed'
    BY <1>1, NextEffect, HousedKept DEF Around
  <1>4. Sheltered'
    BY <1>1, NextDirEffect, ShelteredKept DEF Around
  <1>5. CASE ListStep
    BY <1>2, <1>3, <1>4, <1>5, ListStepKeeps DEF Around
  <1>6. CASE OthersStep
    BY <1>2, <1>3, <1>4, <1>6, OthersStepKeeps DEF Around
  <1>7. CASE UNCHANGED allVars
    <2>1. LInv'
      <3>1. vmm' = vmm /\ sock' = sock /\ dir' = dir /\ ls' = ls /\ was' = was
        BY <1>7 DEF allVars
      <3>2. \A n \in Names : Witnessed(n)' = Witnessed(n)
        BY <3>1 DEF Witnessed, Status, Orphaned
      <3> QED BY <3>1, <3>2 DEF Around, LInv, ListTypeOK, SeenBy, ToldOf
    <2> QED BY <1>2, <1>3, <1>4, <2>1 DEF Around
  <1> QED BY <1>5, <1>6, <1>7 DEF ListNext

(* The inductive invariant of List beside the rest of the system, whether  *)
(* or not processes die.                                                   *)
THEOREM ListInvariance ==
    ASSUME Exclusive, ~SlowAPI PROVE ListSpec => []Around
  <1>1. Around /\ [ListNext]_allVars => Around'
    BY NextAround
  <1> QED BY <1>1, InitAround, PTL DEF ListSpec

(* The record that List keeps has its type. *)
THEOREM ListTypeCorrect ==
    ASSUME Exclusive, ~SlowAPI PROVE ListSpec => []ListTypeOK
  <1>1. Around => ListTypeOK
    BY DEF Around, LInv
  <1> QED BY <1>1, ListInvariance, PTL

(* The status List reports was true while it ran, although it reads the    *)
(* sockets and the directories one after the other (vm.go:521-524).        *)
THEOREM ListReportsTruth ==
    ASSUME Exclusive, ~SlowAPI PROVE ListSpec => []ReportedWasTrue
  <1>1. Around => ReportedWasTrue
    BY DEF Around, LInv, ToldOf, ReportedWasTrue
  <1> QED BY <1>1, ListInvariance, PTL

(* Whoever dies, a VM whose guest is up while List runs is not omitted.    *)
THEOREM ListShowsWhatIsUp ==
    ASSUME Exclusive, ~SlowAPI PROVE ListSpec => []UpIsListed
  <1>1. Around => UpIsListed
    BY DEF Around, LInv, ToldOf, UpIsListed
  <1> QED BY <1>1, ListInvariance, PTL

(* A name List omits was absent while it ran, or had a process whose       *)
(* starter had died (vm.go:521).                                           *)
THEOREM ListMissesNothing ==
    ASSUME Exclusive, ~SlowAPI PROVE ListSpec => []ListComplete
  <1>1. Around => ListComplete
    BY DEF Around, LInv, ToldOf, ListComplete
  <1> QED BY <1>1, ListInvariance, PTL
=============================================================================
