-------------------------- MODULE LifecycleProofs --------------------------
(***************************************************************************)
(* What holds of Lifecycle for every set of names, callers and processes,  *)
(* with or without exclusive use of names, slow APIs and crashes.          *)
(***************************************************************************)
EXTENDS Lifecycle, TLAPS

-----------------------------------------------------------------------------
(* Types of the building blocks.                                           *)

(* The blank records are records of their type. *)
LEMMA BlanksTyped ==
    /\ Blank \in Vmm /\ NoDir \in Dir /\ Idle \in Call
  BY DEF Vmm, Dir, Call, Blank, NoDir, Idle, VmmStates, DiskStates, Owners, Pcs, Ready

(* A request that Firecracker grants leaves a process record. *)
LEMMA EffectsTyped ==
    ASSUME NEW v \in Vmm, NEW item \in ConfigItems
    PROVE  /\ Configured(v, item) \in Vmm /\ Started(v) \in Vmm
           /\ Loaded(v) \in Vmm /\ Patched(v) \in Vmm
           /\ Paused(v) \in Vmm /\ Resumed(v) \in Vmm /\ Signalled(v) \in Vmm
  BY DEF Vmm, Configured, Started, Loaded, Patched, Paused, Resumed, Signalled,
         VmmStates, DiskStates

(* The exit of a process, and the loss of a disk, keep all types. *)
LEMMA HostTyped ==
    ASSUME TypeOK
    PROVE  /\ \A i \in Insts : VmmAfterExit(i) \in [Insts -> Vmm]
           /\ \A i \in Insts : SockAfterExit(i) \in [Names -> Insts \cup {NoSock, Stale}]
           /\ \A i \in Insts : CallAfterExit(i) \in [Callers -> Call]
           /\ \A n : \A how \in DiskStates : DiskLost(n, how) \in [Insts -> Vmm]
  <1>1. \A i \in Insts : VmmAfterExit(i) \in [Insts -> Vmm]
    BY BlanksTyped DEF TypeOK, VmmAfterExit
  <1>2. \A i \in Insts : SockAfterExit(i) \in [Names -> Insts \cup {NoSock, Stale}]
    BY DEF TypeOK, SockAfterExit
  <1>3. \A i \in Insts : CallAfterExit(i) \in [Callers -> Call]
    <2>1. \A c \in Call, o, k \in Insts \cup {NoInst} :
             [c EXCEPT !.own = o, !.conn = k] \in Call
      BY DEF Call
    <2>2. \A c \in Call : c.own \in Insts \cup {NoInst} /\ c.conn \in Insts \cup {NoInst}
      BY DEF Call
    <2>3. \A c \in Call, i \in Insts :
             [c EXCEPT !.own = IF c.own = i THEN NoInst ELSE c.own,
                       !.conn = IF c.conn = i THEN NoInst ELSE c.conn] \in Call
      BY <2>1, <2>2, Zenon
    <2> QED BY <2>3 DEF TypeOK, CallAfterExit
  <1>4. \A n : \A how \in DiskStates : DiskLost(n, how) \in [Insts -> Vmm]
    BY DEF TypeOK, DiskLost, Vmm
  <1> QED BY <1>1, <1>2, <1>3, <1>4

(* The caller of p moves on, is done, or has failed. *)
LEMMA CallsTyped ==
    ASSUME TypeOK, NEW p \in Callers
    PROVE  /\ \A pc \in Pcs : Goto(p, pc) => call' \in [Callers -> Call]
           /\ Done(p) => call' \in [Callers -> Call]
           /\ Failed(p) => call' \in [Callers -> Call]
  <1>1. \A pc \in Pcs : Goto(p, pc) => call' \in [Callers -> Call]
    <2>1. \A pc \in Pcs : [call[p] EXCEPT !.pc = pc] \in Call
      BY DEF TypeOK, Call
    <2> QED BY <2>1 DEF TypeOK, Goto
  <1>2. Done(p) => call' \in [Callers -> Call]
    BY BlanksTyped DEF TypeOK, Done
  <1>3. Failed(p) => call' \in [Callers -> Call]
    <2>1. [Idle EXCEPT !.pc = "failed", !.name = call[p].name] \in Call
      BY BlanksTyped DEF TypeOK, Call, Pcs, Ready
    <2> QED BY <2>1 DEF TypeOK, Failed
  <1> QED BY <1>1, <1>2, <1>3

(* A granted request keeps the types. *)
LEMMA AnsweredTyped ==
    ASSUME TypeOK, NEW p \in Callers, Peer(p) \in Insts,
           NEW v \in Vmm, NEW pc \in Pcs, Answered(p, v, pc)
    PROVE  TypeOK'
  <1>1. [call[p] EXCEPT !.pc = pc, !.conn = Peer(p)] \in Call
    BY DEF TypeOK, Call
  <1>2. call' = [call EXCEPT ![p] = [call[p] EXCEPT !.pc = pc, !.conn = Peer(p)]]
    BY DEF TypeOK, Answered
  <1> QED BY <1>1, <1>2 DEF TypeOK, Answered

(* The start and the return of a process, written as whole records. *)
LEMMA RecordsTyped ==
    ASSUME TypeOK, Engaged, NEW p \in Callers, NEW i \in Insts
    PROVE  /\ call[p].pc # "idle" =>
                [Blank EXCEPT !.state = "spawned", !.owner = "run", !.name = call[p].name,
                              !.ports = call[p].ports \cup {SSHPort[call[p].name]}] \in Vmm
           /\ [call[p] EXCEPT !.pc = "await", !.own = i] \in Call
           /\ \A o \in Owners : [vmm[i] EXCEPT !.owner = o] \in Vmm
           /\ VmmAfterReturn(p)[i] \in Vmm
           /\ [vmm[i] EXCEPT !.state = "unbooted"] \in Vmm
  <1>1. vmm[i] \in Vmm /\ call[p] \in Call
    BY DEF TypeOK
  <1>2. ASSUME call[p].pc # "idle"
        PROVE  [Blank EXCEPT !.state = "spawned", !.owner = "run", !.name = call[p].name,
                  !.ports = call[p].ports \cup {SSHPort[call[p].name]}] \in Vmm
    <2>1. call[p].name \in Names /\ SSHPort[call[p].name] \in Ports
      BY <1>2, SSHPortAssumption DEF Engaged
    <2> QED BY <1>1, <2>1, BlanksTyped DEF Vmm, Call, VmmStates, Owners
  <1>3. [call[p] EXCEPT !.pc = "await", !.own = i] \in Call
    BY <1>1 DEF Call, Pcs, RunPcs
  <1>4. /\ \A o \in Owners : [vmm[i] EXCEPT !.owner = o] \in Vmm
        /\ [vmm[i] EXCEPT !.state = "unbooted"] \in Vmm
    BY <1>1 DEF Vmm, VmmStates
  <1>5. VmmAfterReturn(p)[i] \in Vmm
    <2> DEFINE o == IF i = call[p].own THEN "user" ELSE vmm[i].owner
               g == vmm[i].given \/ i \in {call[p].own, call[p].conn}
    <2>1. o \in Owners /\ g \in BOOLEAN
      BY <1>1 DEF Vmm, Owners
    <2>2. VmmAfterReturn(p)[i] = [vmm[i] EXCEPT !.owner = o, !.given = g]
      BY Zenon DEF VmmAfterReturn
    <2> HIDE DEF o, g
    <2> QED BY <1>1, <2>1, <2>2 DEF Vmm
  <1> QED BY <1>2, <1>3, <1>4, <1>5

-----------------------------------------------------------------------------
(* Every step of a knaller process keeps the types. *)
LEMMA CallerTyped ==
    ASSUME TypeOK, Engaged, NEW p \in Callers, CallerNext(p)
    PROVE  TypeOK'
  <1> USE DEF TypeOK
  <1>p. /\ call[p] \in Call
        /\ Pcs = {"idle", "failed", "disk", "spawn", "await", "save", "boot-source", "drive",
                  "network", "machine", "start", "load", "patch", "resume", "kill", "unsock",
                  "undisk", "wait", "rmdir", "rm-stat", "rm-unsock", "rm-disk"}
        /\ {"overwritten", "unlinked"} \subseteq DiskStates
    BY DEF Pcs, Ready, RunPcs, ApiPcs, ConfigPcs, CleanupPcs, WaitPcs, RmPcs, DiskStates
  <1>1. ASSUME NEW n \in Names, NEW boot \in BootKinds, NEW ports \in PortChoices,
               RunBegin(p, n, boot, ports)
        PROVE  TypeOK'
    <2>1. [Idle EXCEPT !.pc = "disk", !.name = n, !.boot = boot, !.ports = ports] \in Call
      BY <1>p, BlanksTyped, BootKindsAssumption, PortChoicesAssumption DEF Call
    <2> QED BY <1>1, <2>1 DEF RunBegin, RemoveSocket
  <1>2. ASSUME NEW n \in Names, RmProbe(p, n) PROVE TypeOK'
    <2>1. [Idle EXCEPT !.pc = "rm-stat", !.name = n] \in Call
      BY <1>p, BlanksTyped, Zenon DEF Call
    <2> QED BY <1>2, <2>1 DEF RmProbe
  <1>3. CASE RunDisk(p)
    <2>1. dir' \in [Names -> Dir]
      BY <1>3, Zenon DEF RunDisk, Dir
    <2> QED BY <1>3, <1>p, <2>1, HostTyped, CallsTyped DEF RunDisk
  <1>4. CASE RunDiskFails(p)
    <2>1. dir' \in [Names -> Dir]
      <3>1. dir' = dir \/ dir' = [dir EXCEPT ![call[p].name].made = TRUE]
              \/ dir' = [dir EXCEPT ![call[p].name].made = TRUE, ![call[p].name].rootfs = TRUE]
        BY <1>4 DEF RunDiskFails
      <3>2. [dir EXCEPT ![call[p].name].made = TRUE] \in [Names -> Dir]
        BY DEF Dir
      <3>3. [dir EXCEPT ![call[p].name].made = TRUE, ![call[p].name].rootfs = TRUE]
              \in [Names -> Dir]
        BY Zenon DEF Dir
      <3> QED BY <3>1, <3>2, <3>3
    <2> QED BY <1>4, <1>p, <2>1, HostTyped, CallsTyped DEF RunDiskFails
  <1>5. CASE RunSpawn(p)
    <2>1. PICK i \in Insts :
            /\ vmm' = [vmm EXCEPT ![i] =
                         [Blank EXCEPT !.state = "spawned", !.owner = "run",
                            !.name = call[p].name,
                            !.ports = call[p].ports \cup {SSHPort[call[p].name]}]]
            /\ call' = [call EXCEPT ![p].pc = "await", ![p].own = i]
      BY <1>5, Zenon DEF RunSpawn
    <2>2. call' = [call EXCEPT ![p] = [call[p] EXCEPT !.pc = "await", !.own = i]]
      BY <2>1
    <2>3. call[p].pc # "idle" /\ UNCHANGED <<sock, dir>>
      BY <1>5 DEF RunSpawn
    <2>4. vmm' \in [Insts -> Vmm]
      BY <2>1, <2>3, RecordsTyped, Zenon
    <2>5. call' \in [Callers -> Call]
      BY <2>2, RecordsTyped
    <2> QED BY <2>3, <2>4, <2>5
  <1>6. CASE RunSpawnFails(p) \/ RunAwait(p) \/ RunAwaitTimeout(p) \/ RunRefused(p)
             \/ RmStat(p)
    BY <1>6, <1>p, CallsTyped
       DEF RunSpawnFails, RunAwait, RunAwaitTimeout, RunRefused, RmStat
  <1>7. CASE RunConfigure(p)
    <2>1. call[p].pc \in ConfigItems /\ AfterConfig(call[p].pc) \in Pcs
      BY <1>7, <1>p DEF RunConfigure, ConfigItems, ConfigPcs, AfterConfig
    <2>2. Configured(vmm[Peer(p)], call[p].pc) \in Vmm
      BY <1>7, <2>1, EffectsTyped DEF RunConfigure
    <2> QED BY <1>7, <2>1, <2>2, AnsweredTyped DEF RunConfigure
  <1>8. CASE RunStart(p)
    BY <1>8, <1>p, EffectsTyped, AnsweredTyped DEF RunStart, ConfigItems
  <1>9. CASE RunLoad(p)
    BY <1>9, <1>p, EffectsTyped, AnsweredTyped DEF RunLoad, ConfigItems
  <1>10. CASE RunPatch(p)
    BY <1>10, <1>p, EffectsTyped, AnsweredTyped DEF RunPatch, ConfigItems
  <1>11. CASE RunResume(p)
    BY <1>11, <1>p, EffectsTyped, AnsweredTyped DEF RunResume, ConfigItems
  <1>12. CASE HandleStop(p)
    BY <1>12, <1>p, EffectsTyped, AnsweredTyped DEF HandleStop, ConfigItems
  <1>13. ASSUME NEW attached \in BOOLEAN, RunSave(p, attached) PROVE TypeOK'
    <2>1. dir' \in [Names -> Dir]
      <3>1. dir' = dir \/ dir' = [dir EXCEPT ![call[p].name].ports = call[p].ports]
        BY <1>13 DEF RunSave, DirAfterSave
      <3>2. call[p].ports \in SUBSET Ports
        BY <1>p DEF Call
      <3> QED BY <3>1, <3>2 DEF Dir
    <2>2. vmm' \in [Insts -> Vmm]
      <3>1. vmm' = VmmAfterReturn(p)
        BY <1>13 DEF RunSave
      <3>2. \A i \in Insts : VmmAfterReturn(p)[i] \in Vmm
        BY RecordsTyped
      <3> QED BY <3>1, <3>2, Zenon DEF VmmAfterReturn
    <2> QED BY <1>13, <1>p, <2>1, <2>2, CallsTyped DEF RunSave
  <1>14. CASE RunKill(p)
    <2>1. CASE call[p].own = NoInst
      BY <1>14, <1>p, <2>1, CallsTyped DEF RunKill
    <2>2. CASE call[p].own # NoInst
      <3>1. call[p].own \in Insts /\ CallAfterExit(call[p].own) \in [Callers -> Call]
        BY <1>p, <2>2, HostTyped DEF Call
      <3>2. [CallAfterExit(call[p].own)[p] EXCEPT !.pc = "unsock"] \in Call
        BY <1>p, <3>1 DEF Call
      <3>3. call' = [CallAfterExit(call[p].own) EXCEPT ![p] =
                        [CallAfterExit(call[p].own)[p] EXCEPT !.pc = "unsock"]]
        BY <1>14, <2>2, <3>1 DEF RunKill
      <3>4. call' \in [Callers -> Call]
        BY <3>1, <3>2, <3>3
      <3> QED BY <1>14, <2>2, <3>1, <3>4, HostTyped DEF RunKill
    <2> QED BY <2>1, <2>2
  <1>15. CASE RunUnsock(p) \/ RmUnsock(p) \/ StartFinish(p) \/ CleanupSocket(p)
    <2>1. sock' \in [Names -> Insts \cup {NoSock, Stale}] /\ UNCHANGED <<vmm, dir>>
      BY <1>15 DEF RunUnsock, RmUnsock, StartFinish, CleanupSocket, RemoveSocket
    <2>2. call' \in [Callers -> Call]
      BY <1>15, <1>p, CallsTyped DEF RunUnsock, RmUnsock, StartFinish, CleanupSocket
    <2> QED BY <2>1, <2>2
  <1>16. CASE RunUndisk(p) \/ RmDisk(p) \/ CleanupDisk(p)
    <2>1. RemoveDisk(call[p].name) /\ UNCHANGED sock /\ (Failed(p) \/ Done(p))
      BY <1>16 DEF RunUndisk, RmDisk, CleanupDisk
    <2>2. dir' \in [Names -> Dir]
      BY <2>1, BlanksTyped DEF RemoveDisk
    <2>3. vmm' \in [Insts -> Vmm]
      BY <1>p, <2>1, HostTyped DEF RemoveDisk
    <2> QED BY <2>1, <2>2, <2>3, CallsTyped
  <1>17. CASE HandleKill(p)
    <2>1. call[p].own \in Insts
      BY <1>17, <1>p DEF HandleKill, Call
    <2> QED BY <1>17, <2>1, HostTyped DEF HandleKill
  <1>18. CASE Crash(p)
    <2>1. vmm' \in [Insts -> Vmm]
      <3>1. CASE vmm' = vmm
        BY <3>1
      <3>2. CASE vmm' # vmm
        <4>1. call[p].own \in Insts
          BY <1>18, <1>p, <3>2 DEF Crash, Call
        <4>2. vmm' = [vmm EXCEPT ![call[p].own] = [vmm[call[p].own] EXCEPT !.owner = "none"]]
          BY <1>18, <3>2, <4>1 DEF Crash
        <4> QED BY <4>1, <4>2, RecordsTyped DEF Owners
      <3> QED BY <3>1, <3>2
    <2> QED BY <1>18, <2>1, CallsTyped DEF Crash
  <1> QED
    BY <1>1, <1>2, <1>3, <1>4, <1>5, <1>6, <1>7, <1>8, <1>9, <1>10, <1>11, <1>12, <1>13,
       <1>14, <1>15, <1>16, <1>17, <1>18 DEF CallerNext, RunStep, WaitStep, RmStep

(* Every step of the by-name commands and of the processes keeps the types. *)
LEMMA HostStepTyped ==
    ASSUME TypeOK, Engaged,
           \/ \E n \in Names : StopVM(n) \/ PauseVM(n) \/ ResumeVM(n)
           \/ \E i \in Insts : VmmNext(i)
    PROVE  TypeOK'
  <1> USE DEF TypeOK
  <1>1. ASSUME NEW n \in Names, StopVM(n) \/ PauseVM(n) \/ ResumeVM(n)
        PROVE  TypeOK'
    BY <1>1, EffectsTyped DEF StopVM, PauseVM, ResumeVM, ConfigItems
  <1>2. ASSUME NEW i \in Insts, VmmListen(i) PROVE TypeOK'
    <2>1. vmm' = [vmm EXCEPT ![i] = [vmm[i] EXCEPT !.state = "unbooted"]]
      BY <1>2 DEF VmmListen
    <2>2. \A v \in Vmm : [v EXCEPT !.state = "unbooted"] \in Vmm
      BY DEF Vmm, VmmStates
    <2>3. vmm' \in [Insts -> Vmm]
      BY <2>1, <2>2
    <2> QED BY <1>2, <2>3 DEF VmmListen
  <1>3. ASSUME NEW i \in Insts, VmmExit(i) \/ GuestShutdown(i) PROVE TypeOK'
    BY <1>3, HostTyped DEF VmmExit, GuestShutdown
  <1> QED BY <1>1, <1>2, <1>3 DEF VmmNext

-----------------------------------------------------------------------------
(* The inductive invariant.  Most steps leave alone what it says of a      *)
(* process: its name, ports, owner and user, and whether it lives and      *)
(* listens.                                                                *)

SameProcess(v, w) ==
    /\ w.name = v.name /\ w.ports = v.ports
    /\ w.owner = v.owner /\ w.given = v.given
    /\ Live(w) <=> Live(v)
    /\ Listening(w) <=> Listening(v)

(* A process that lost its disk, or was granted a request while it         *)
(* listened, is still the same process.                                    *)
LEMMA EffectsSame ==
    ASSUME TypeOK
    PROVE  /\ \A n, how : \A i \in Insts : SameProcess(vmm[i], DiskLost(n, how)[i])
           /\ \A i \in Insts, item \in ConfigItems :
                CanConfigure(vmm[i]) => SameProcess(vmm[i], Configured(vmm[i], item))
           /\ \A i \in Insts : CanStart(vmm[i]) => SameProcess(vmm[i], Started(vmm[i]))
           /\ \A i \in Insts : CanLoad(vmm[i]) => SameProcess(vmm[i], Loaded(vmm[i]))
           /\ \A i \in Insts : Booted(vmm[i]) =>
                /\ SameProcess(vmm[i], Patched(vmm[i]))
                /\ SameProcess(vmm[i], Paused(vmm[i]))
                /\ SameProcess(vmm[i], Resumed(vmm[i]))
                /\ SameProcess(vmm[i], Signalled(vmm[i]))
  <1>1. \A i \in Insts : vmm[i] \in Vmm
    BY DEF TypeOK
  <1>2. \A n, how : \A i \in Insts : SameProcess(vmm[i], DiskLost(n, how)[i])
    BY <1>1 DEF SameProcess, DiskLost, Vmm, Live, Listening
  <1>3. \A i \in Insts, item \in ConfigItems :
            CanConfigure(vmm[i]) => SameProcess(vmm[i], Configured(vmm[i], item))
    BY <1>1 DEF SameProcess, CanConfigure, Configured, Vmm, Live, Listening
  <1>4. \A i \in Insts : CanStart(vmm[i]) => SameProcess(vmm[i], Started(vmm[i]))
    BY <1>1 DEF SameProcess, CanStart, Started, Vmm, Live, Listening
  <1>5. \A i \in Insts : CanLoad(vmm[i]) => SameProcess(vmm[i], Loaded(vmm[i]))
    BY <1>1 DEF SameProcess, CanLoad, Loaded, Vmm, Live, Listening
  <1>6. \A i \in Insts : Booted(vmm[i]) =>
            /\ SameProcess(vmm[i], Patched(vmm[i]))
            /\ SameProcess(vmm[i], Paused(vmm[i]))
            /\ SameProcess(vmm[i], Resumed(vmm[i]))
            /\ SameProcess(vmm[i], Signalled(vmm[i]))
    BY <1>1 DEF SameProcess, Booted, Patched, Paused, Resumed, Signalled, Vmm, Live, Listening
  <1> QED BY <1>2, <1>3, <1>4, <1>5, <1>6

(* A step of p that keeps every process the same and p's hold on its own   *)
(* process keeps the invariant, wherever p goes inside the same phase.     *)
LEMMA SteadyStep ==
    ASSUME IInv, TypeOK', NEW p \in Callers,
           \A i \in Insts : SameProcess(vmm[i], vmm'[i]),
           \A q \in Callers \ {p} : call'[q] = call[q],
           call'[p].own = call[p].own,
           call'[p].pc # "idle" => call'[p].name \in Names,
           call[p].own # NoInst =>
               /\ call'[p].pc \in OwnPcs
               /\ (call'[p].pc = "wait") <=> (call[p].pc = "wait")
    PROVE  IInv'
  <1>0. /\ \A q \in Callers : call'[q].own = call[q].own /\ call[q].own \in Insts \cup {NoInst}
        /\ \A i \in Insts : SameProcess(vmm[i], vmm'[i])
    BY DEF IInv, TypeOK, Call
  <1>1. Engaged'
    BY DEF IInv, Engaged
  <1>2. Named'
    BY <1>0 DEF IInv, Named, SameProcess
  <1>3. Holds'
    <2> SUFFICES ASSUME NEW q \in Callers, call'[q].own # NoInst
                 PROVE  /\ call'[q].pc \in OwnPcs
                        /\ Live(vmm'[call'[q].own])
                        /\ vmm'[call'[q].own].owner
                              = IF call'[q].pc = "wait" THEN "user" ELSE "run"
      BY DEF Holds
    <2>1. /\ call'[q].pc \in OwnPcs
          /\ (call'[q].pc = "wait") <=> (call[q].pc = "wait")
      BY <1>0 DEF IInv, Holds
    <2>2. /\ Live(vmm[call[q].own])
          /\ vmm[call[q].own].owner = IF call[q].pc = "wait" THEN "user" ELSE "run"
      BY <1>0 DEF IInv, Holds
    <2> QED BY <1>0, <2>1, <2>2 DEF SameProcess
  <1>4. HoldsAlone'
    BY <1>0 DEF IInv, HoldsAlone
  <1>5. OnePerName'
    BY <1>0 DEF IInv, OnePerName, SameProcess
  <1>6. NoOrphan'
    <2> SUFFICES ASSUME NEW i \in Insts, Live(vmm'[i]), vmm'[i].owner = "run"
                 PROVE  \E q \in Callers : /\ call'[q].own = i
                                           /\ call'[q].pc \in RunPcs \ {"undisk", "unsock"}
      BY DEF NoOrphan
    <2>1. PICK q \in Callers : /\ call[q].own = i
                               /\ call[q].pc \in RunPcs \ {"undisk", "unsock"}
      BY <1>0 DEF IInv, NoOrphan, SameProcess
    <2>2. call'[q].own = i /\ call[q].own # NoInst /\ call[q].pc # "wait"
      BY <1>0, <2>1, BlanksAssumption DEF RunPcs, ApiPcs, ConfigPcs, CleanupPcs
    <2>3. call'[q].pc \in OwnPcs \ {"wait"}
      BY <2>2 DEF IInv, Holds
    <2> QED BY <2>2, <2>3 DEF OwnPcs, RunPcs, ApiPcs, ConfigPcs, CleanupPcs
  <1> QED BY <1>1, <1>2, <1>3, <1>4, <1>5, <1>6 DEF IInv

(* The exit of a process keeps the invariant: whoever held it holds        *)
(* nothing, and may go on from the kill to the next step of cleanup.       *)
LEMMA ExitStep ==
    ASSUME IInv, TypeOK', NEW i \in Insts, vmm' = VmmAfterExit(i),
           \A q \in Callers :
               /\ call'[q].name = call[q].name
               /\ call'[q].own = IF call[q].own = i THEN NoInst ELSE call[q].own
               /\ call'[q].pc = call[q].pc \/ (call[q].own = i /\ call'[q].pc = "unsock")
    PROVE  IInv'
  <1>0. /\ ~Live(vmm'[i]) /\ ~Listening(vmm'[i])
        /\ \A j \in Insts \ {i} : vmm'[j] = vmm[j]
        /\ \A q \in Callers : call[q].own \in Insts \cup {NoInst}
    BY DEF IInv, TypeOK, Call, VmmAfterExit, Blank, Live, Listening
  <1>1. Engaged'
    <2> SUFFICES ASSUME NEW q \in Callers, call'[q].pc # "idle"
                 PROVE  call'[q].name \in Names
      BY DEF Engaged
    <2>1. CASE call'[q].pc = call[q].pc
      BY <2>1 DEF IInv, Engaged
    <2>2. CASE call[q].own = i
      BY <2>2, BlanksAssumption
         DEF IInv, Engaged, Holds, OwnPcs, ApiPcs, ConfigPcs
    <2> QED BY <2>1, <2>2
  <1>2. Named'
    BY <1>0 DEF IInv, Named
  <1>3. Holds'
    BY <1>0 DEF IInv, Holds
  <1>4. HoldsAlone'
    BY <1>0 DEF IInv, HoldsAlone
  <1>5. OnePerName'
    BY <1>0 DEF IInv, OnePerName
  <1>6. NoOrphan'
    <2> SUFFICES ASSUME NEW j \in Insts, Live(vmm'[j]), vmm'[j].owner = "run"
                 PROVE  \E q \in Callers : /\ call'[q].own = j
                                           /\ call'[q].pc \in RunPcs \ {"undisk", "unsock"}
      BY DEF NoOrphan
    <2>1. PICK q \in Callers : /\ call[q].own = j
                               /\ call[q].pc \in RunPcs \ {"undisk", "unsock"}
      BY <1>0 DEF IInv, NoOrphan
    <2>2. call'[q].own = j /\ call'[q].pc = call[q].pc
      BY <1>0, <2>1
    <2> QED BY <2>1, <2>2
  <1> QED BY <1>1, <1>2, <1>3, <1>4, <1>5, <1>6 DEF IInv

(* A process that starts is named, forwards its SSH port and is held by    *)
(* the Run that started it.                                                *)
LEMMA SpawnStep ==
    ASSUME IInv, TypeOK', NEW p \in Callers, RunSpawn(p)
    PROVE  IInv'
  <1>1. PICK i \in Insts :
          /\ ~Live(vmm[i])
          /\ vmm' = [vmm EXCEPT ![i] =
                       [Blank EXCEPT !.state = "spawned", !.owner = "run",
                          !.name = call[p].name,
                          !.ports = call[p].ports \cup {SSHPort[call[p].name]}]]
          /\ call' = [call EXCEPT ![p].pc = "await", ![p].own = i]
    BY Zenon DEF RunSpawn
  <1>2. call[p].pc = "spawn" /\ call[p].name \in Names
    BY DEF RunSpawn, IInv, Engaged
  <1>3. /\ vmm'[i].name = call[p].name /\ SSHPort[call[p].name] \in vmm'[i].ports
        /\ vmm'[i].owner = "run" /\ Live(vmm'[i]) /\ ~Listening(vmm'[i])
        /\ \A j \in Insts \ {i} : vmm'[j] = vmm[j]
    BY <1>1 DEF IInv, TypeOK, Blank, Live, Listening
  <1>4. /\ call'[p].pc = "await" /\ call'[p].own = i /\ call'[p].name = call[p].name
        /\ \A q \in Callers \ {p} : call'[q] = call[q]
    BY <1>1 DEF IInv, TypeOK, Call
  <1>5. \A q \in Callers : call[q].own # i /\ (q = p => call[q].own = NoInst)
    BY <1>1, <1>2, BlanksAssumption
       DEF IInv, Holds, OwnPcs, ApiPcs, ConfigPcs
  <1>6. Engaged'
    BY <1>2, <1>4 DEF IInv, Engaged
  <1>7. Named'
    BY <1>2, <1>3 DEF IInv, Named
  <1>8. Holds'
    <2> SUFFICES ASSUME NEW q \in Callers, call'[q].own # NoInst
                 PROVE  /\ call'[q].pc \in OwnPcs
                        /\ Live(vmm'[call'[q].own])
                        /\ vmm'[call'[q].own].owner
                              = IF call'[q].pc = "wait" THEN "user" ELSE "run"
      BY DEF Holds
    <2>1. CASE q = p
      BY <1>3, <1>4, <2>1 DEF OwnPcs
    <2>2. CASE q # p
      <3>1. call'[q] = call[q] /\ call[q].own \in Insts \ {i}
        BY <1>4, <1>5, <2>2 DEF IInv, TypeOK, Call
      <3> QED BY <1>3, <3>1 DEF IInv, Holds
    <2> QED BY <2>1, <2>2
  <1>9. HoldsAlone'
    BY <1>4, <1>5 DEF IInv, HoldsAlone
  <1>10. OnePerName'
    BY <1>3 DEF IInv, OnePerName
  <1>11. NoOrphan'
    <2> SUFFICES ASSUME NEW j \in Insts, Live(vmm'[j]), vmm'[j].owner = "run"
                 PROVE  \E q \in Callers : /\ call'[q].own = j
                                           /\ call'[q].pc \in RunPcs \ {"undisk", "unsock"}
      BY DEF NoOrphan
    <2>1. CASE j = i
      BY <1>4, <2>1 DEF RunPcs
    <2>2. CASE j # i
      <3>1. PICK q \in Callers : /\ call[q].own = j
                                 /\ call[q].pc \in RunPcs \ {"undisk", "unsock"}
        BY <1>3, <2>2 DEF IInv, NoOrphan
      <3>2. q # p
        BY <1>5, <3>1, BlanksAssumption
      <3> QED BY <1>4, <3>1, <3>2
    <2> QED BY <2>1, <2>2
  <1> QED BY <1>6, <1>7, <1>8, <1>9, <1>10, <1>11 DEF IInv

(* A process binds its socket only if no process of that name listens: the *)
(* other one would hold the SSH port.                                      *)
LEMMA ListenStep ==
    ASSUME IInv, TypeOK', NEW i \in Insts, VmmListen(i)
    PROVE  IInv'
  <1>1. /\ vmm[i].state = "spawned" /\ PortsFree(i)
        /\ vmm' = [vmm EXCEPT ![i].state = "unbooted"] /\ call' = call
    BY DEF VmmListen
  <1>2. /\ vmm'[i].name = vmm[i].name /\ vmm'[i].ports = vmm[i].ports
        /\ vmm'[i].owner = vmm[i].owner /\ Live(vmm'[i]) /\ Live(vmm[i])
        /\ \A j \in Insts \ {i} : vmm'[j] = vmm[j]
    BY <1>1 DEF IInv, TypeOK, Vmm, Live
  <1>3. \A j \in Insts : vmm'[j].name = vmm[j].name /\ vmm'[j].ports = vmm[j].ports
            /\ vmm'[j].owner = vmm[j].owner /\ (Live(vmm'[j]) <=> Live(vmm[j]))
    BY <1>2
  <1>4. Engaged' /\ HoldsAlone'
    BY <1>1 DEF IInv, Engaged, HoldsAlone
  <1>5. Named'
    BY <1>3 DEF IInv, Named
  <1>6. Holds'
    <2>1. \A q \in Callers : call[q].own \in Insts \cup {NoInst}
      BY DEF IInv, TypeOK, Call
    <2> QED BY <1>1, <1>3, <2>1 DEF IInv, Holds
  <1>7. OnePerName'
    <2>1. \A j \in Insts \ {i} : Listening(vmm[j]) => vmm[j].name # vmm[i].name
      <3> SUFFICES ASSUME NEW j \in Insts \ {i}, Listening(vmm[j]),
                          vmm[j].name = vmm[i].name
                   PROVE  FALSE
        OBVIOUS
      <3>1. SSHPort[vmm[i].name] \in vmm[i].ports \cap vmm[j].ports
        BY <1>2 DEF IInv, Named, Live, Listening
      <3> QED BY <1>1, <3>1 DEF PortsFree
    <2> QED BY <1>2, <2>1 DEF IInv, OnePerName
  <1>8. NoOrphan'
    BY <1>1, <1>3 DEF IInv, NoOrphan
  <1> QED BY <1>4, <1>5, <1>6, <1>7, <1>8 DEF IInv

(* Only the owner of one process changes. *)
OwnerBecomes(i, o) ==
    \A j \in Insts : /\ vmm'[j].name = vmm[j].name /\ vmm'[j].ports = vmm[j].ports
                     /\ Live(vmm'[j]) <=> Live(vmm[j])
                     /\ Listening(vmm'[j]) <=> Listening(vmm[j])
                     /\ vmm'[j].owner = IF j = i THEN o ELSE vmm[j].owner

(* Assigning the owner of i, if there is one, changes nothing else. *)
LEMMA OwnerSet ==
    ASSUME vmm \in [Insts -> Vmm], NEW i \in Insts \cup {NoInst}, NEW o,
           vmm' = IF i # NoInst THEN [vmm EXCEPT ![i].owner = o] ELSE vmm
    PROVE  OwnerBecomes(i, o)
  BY BlanksAssumption DEF OwnerBecomes, Vmm, Live, Listening

(* When Run returns, the user owns p's own process and nothing changes     *)
(* owner besides.                                                          *)
LEMMA ReturnEffect ==
    ASSUME vmm \in [Insts -> Vmm], NEW p \in Callers, vmm' = VmmAfterReturn(p)
    PROVE  /\ OwnerBecomes(call[p].own, "user")
           /\ \A j \in Insts :
                /\ vmm'[j].disk = vmm[j].disk /\ vmm'[j].state = vmm[j].state
                /\ vmm'[j].given = (vmm[j].given \/ j \in {call[p].own, call[p].conn})
  <1>1. ASSUME NEW j \in Insts
        PROVE  /\ vmm'[j].name = vmm[j].name /\ vmm'[j].ports = vmm[j].ports
               /\ vmm'[j].state = vmm[j].state /\ vmm'[j].disk = vmm[j].disk
               /\ vmm'[j].owner = IF j = call[p].own THEN "user" ELSE vmm[j].owner
               /\ vmm'[j].given = (vmm[j].given \/ j \in {call[p].own, call[p].conn})
    <2> DEFINE o == IF j = call[p].own THEN "user" ELSE vmm[j].owner
               g == vmm[j].given \/ j \in {call[p].own, call[p].conn}
    <2>1. vmm'[j] = [vmm[j] EXCEPT !.owner = o, !.given = g] /\ vmm[j] \in Vmm
      BY Zenon DEF VmmAfterReturn
    <2> HIDE DEF o, g
    <2>2. /\ vmm'[j].name = vmm[j].name /\ vmm'[j].ports = vmm[j].ports
          /\ vmm'[j].state = vmm[j].state /\ vmm'[j].disk = vmm[j].disk
          /\ vmm'[j].owner = o /\ vmm'[j].given = g
      BY <2>1 DEF Vmm
    <2> QED BY <2>2, Zenon DEF o, g
  <1> QED BY <1>1 DEF OwnerBecomes, Live, Listening

(* The process of one caller changes owner while that caller lets it go or *)
(* goes on to wait for it.                                                 *)
LEMMA HandOverStep ==
    ASSUME IInv, TypeOK', NEW p \in Callers, NEW o \in {"user", "none"},
           OwnerBecomes(call[p].own, o),
           \A q \in Callers \ {p} : call'[q] = call[q],
           \/ call'[p].pc = "idle" /\ call'[p].own = NoInst
           \/ /\ call'[p].pc = "wait" /\ call'[p].own = call[p].own
              /\ call'[p].name \in Names /\ o = "user"
    PROVE  IInv'
  <1>0. /\ OwnerBecomes(call[p].own, o)
        /\ \A q \in Callers : call[q].own \in Insts \cup {NoInst}
    BY DEF IInv, TypeOK, Call
  <1> USE DEF OwnerBecomes
  <1>1. Engaged'
    BY DEF IInv, Engaged
  <1>2. Named'
    BY <1>0 DEF IInv, Named
  <1>3. Holds'
    <2> SUFFICES ASSUME NEW q \in Callers, call'[q].own # NoInst
                 PROVE  /\ call'[q].pc \in OwnPcs
                        /\ Live(vmm'[call'[q].own])
                        /\ vmm'[call'[q].own].owner
                              = IF call'[q].pc = "wait" THEN "user" ELSE "run"
      BY DEF Holds
    <2>1. CASE q = p
      BY <1>0, <2>1 DEF IInv, Holds, OwnPcs
    <2>2. CASE q # p
      <3>1. call'[q] = call[q] /\ call[q].own # call[p].own
        BY <2>2 DEF IInv, HoldsAlone
      <3> QED BY <1>0, <3>1 DEF IInv, Holds
    <2> QED BY <2>1, <2>2
  <1>4. HoldsAlone'
    BY DEF IInv, HoldsAlone
  <1>5. OnePerName'
    BY <1>0 DEF IInv, OnePerName
  <1>6. NoOrphan'
    <2> SUFFICES ASSUME NEW j \in Insts, Live(vmm'[j]), vmm'[j].owner = "run"
                 PROVE  \E q \in Callers : /\ call'[q].own = j
                                           /\ call'[q].pc \in RunPcs \ {"undisk", "unsock"}
      BY DEF NoOrphan
    <2>1. j # call[p].own
      BY <1>0
    <2>2. PICK q \in Callers : /\ call[q].own = j
                               /\ call[q].pc \in RunPcs \ {"undisk", "unsock"}
      BY <1>0, <2>1 DEF IInv, NoOrphan
    <2> QED BY <2>1, <2>2
  <1> QED BY <1>1, <1>2, <1>3, <1>4, <1>5, <1>6 DEF IInv

-----------------------------------------------------------------------------
(* Every step of a knaller process keeps the inductive invariant. *)
LEMMA CallerKeepsIInv ==
    ASSUME IInv, TypeOK', NEW p \in Callers, CallerNext(p)
    PROVE  IInv'
  <1>p. /\ call \in [Callers -> Call] /\ call[p] \in Call /\ vmm \in [Insts -> Vmm]
        /\ call[p].own \in Insts \cup {NoInst}
        /\ call[p].pc # "idle" => call[p].name \in Names
        /\ call[p].own # NoInst => call[p].pc \in OwnPcs
    BY DEF IInv, TypeOK, Engaged, Holds, Call
  <1>o. OwnPcs = {"await", "save", "kill", "wait", "boot-source", "drive", "network",
                  "machine", "start", "load", "patch", "resume"}
    BY DEF OwnPcs, ApiPcs, ConfigPcs
  <1>i. Idle.pc = "idle" /\ Idle.own = NoInst
    BY DEF Idle
  <1>v. \A v : SameProcess(v, v)
    BY DEF SameProcess
  (* p goes to pc, or is done, while every process stays the same *)
  <1>g. ASSUME NEW pc \in Pcs, Goto(p, pc), pc # "idle", call[p].pc # "idle",
               \A i \in Insts : SameProcess(vmm[i], vmm'[i]),
               call[p].own # NoInst => pc \in OwnPcs /\ (pc = "wait" <=> call[p].pc = "wait")
        PROVE  IInv'
    <2>1. /\ call'[p].own = call[p].own /\ call'[p].name = call[p].name /\ call'[p].pc = pc
          /\ \A q \in Callers \ {p} : call'[q] = call[q]
      BY <1>p, <1>g DEF Goto, Call
    <2> QED BY <1>p, <1>g, <2>1, SteadyStep
  <1>d. ASSUME Done(p) \/ Failed(p), call[p].own = NoInst, call[p].pc # "idle",
               \A i \in Insts : SameProcess(vmm[i], vmm'[i])
        PROVE  IInv'
    <2>1. /\ call'[p].own = call[p].own
          /\ call'[p].pc # "idle" => call'[p].name \in Names
          /\ \A q \in Callers \ {p} : call'[q] = call[q]
      <3>1. CASE Done(p)
        BY <1>p, <1>i, <1>d, <3>1 DEF Done
      <3>2. CASE Failed(p)
        <4> DEFINE f == [Idle EXCEPT !.pc = "failed", !.name = call[p].name]
        <4>1. f.own = NoInst /\ f.name = call[p].name
          BY DEF Idle
        <4>2. call' = [call EXCEPT ![p] = f]
          BY <3>2 DEF Failed
        <4> HIDE DEF f
        <4> QED BY <1>p, <1>i, <1>d, <4>1, <4>2
      <3> QED BY <1>d, <3>1, <3>2
    <2> QED BY <1>d, <2>1, SteadyStep
  <1>a. ASSUME NEW v \in Vmm, NEW pc \in OwnPcs, Peer(p) \in Insts, Answered(p, v, pc),
               SameProcess(vmm[Peer(p)], v), call[p].pc # "idle",
               pc = "wait" <=> call[p].pc = "wait"
        PROVE  IInv'
    <2>1. \A i \in Insts : SameProcess(vmm[i], vmm'[i])
      BY <1>p, <1>a, <1>v DEF Answered
    <2>2. /\ call'[p].own = call[p].own /\ call'[p].name = call[p].name /\ call'[p].pc = pc
          /\ \A q \in Callers \ {p} : call'[q] = call[q]
      BY <1>p, <1>a DEF Answered, Call
    <2> QED BY <1>p, <1>a, <2>1, <2>2, SteadyStep
  <1>1. ASSUME NEW n \in Names,
               \/ \E boot \in BootKinds, ports \in PortChoices : RunBegin(p, n, boot, ports)
               \/ RmProbe(p, n)
        PROVE  IInv'
    <2>1. /\ call'[p].own = NoInst /\ call'[p].name = n /\ vmm' = vmm
          /\ \A q \in Callers \ {p} : call'[q] = call[q]
          /\ call[p].pc \in Ready
      BY <1>1, <1>p DEF RunBegin, RmProbe, Idle
    <2>2. call[p].own = NoInst
      BY <1>p, <1>o, <2>1 DEF Ready
    <2> QED BY <1>v, <2>1, <2>2, SteadyStep
  <1>2. CASE RunDisk(p) \/ RunDiskFails(p)
    <2>1. /\ \A i \in Insts : SameProcess(vmm[i], vmm'[i])
          /\ call[p].pc = "disk"
      BY <1>2, <1>v, EffectsSame DEF RunDisk, RunDiskFails, IInv
    <2>2. call[p].own = NoInst
      BY <1>p, <1>o, <2>1
    <2>3. Goto(p, "spawn") \/ Failed(p)
      BY <1>2 DEF RunDisk, RunDiskFails
    <2> QED BY <1>g, <1>d, <2>1, <2>2, <2>3 DEF Pcs, RunPcs
  <1>3. CASE RunSpawn(p)
    BY <1>3, SpawnStep
  <1>4. CASE RunSpawnFails(p)
    BY <1>4, <1>p, <1>o, <1>v, <1>g DEF RunSpawnFails, Pcs, RunPcs, CleanupPcs
  <1>5. CASE RunAwait(p) \/ RunAwaitTimeout(p) \/ RunRefused(p)
    <2>1. \E pc \in {"load", "boot-source", "kill"} : Goto(p, pc)
      BY <1>5 DEF RunAwait, RunAwaitTimeout, RunRefused
    <2>2. vmm' = vmm /\ call[p].pc \notin {"idle", "wait"}
      BY <1>5 DEF RunAwait, RunAwaitTimeout, RunRefused, ApiPcs, ConfigPcs
    <2> QED BY <1>g, <1>o, <1>v, <2>1, <2>2 DEF Pcs, RunPcs, ApiPcs, ConfigPcs, CleanupPcs
  <1>6. CASE RunConfigure(p)
    <2>1. call[p].pc \in ConfigItems
      BY <1>6 DEF RunConfigure, ConfigItems, ConfigPcs
    <2>2. /\ AfterConfig(call[p].pc) \in OwnPcs \ {"wait"} /\ call[p].pc \notin {"idle", "wait"}
      BY <1>o, <2>1 DEF ConfigItems, AfterConfig
    <2>3. /\ Configured(vmm[Peer(p)], call[p].pc) \in Vmm
          /\ SameProcess(vmm[Peer(p)], Configured(vmm[Peer(p)], call[p].pc))
      BY <1>6, <1>p, <2>1, EffectsTyped, EffectsSame DEF RunConfigure, IInv
    <2> QED BY <1>6, <1>a, <2>2, <2>3 DEF RunConfigure
  <1>7. CASE RunStart(p)
    <2>1. Started(vmm[Peer(p)]) \in Vmm /\ SameProcess(vmm[Peer(p)], Started(vmm[Peer(p)]))
      BY <1>7, <1>p, EffectsTyped, EffectsSame DEF RunStart, IInv, ConfigItems
    <2> QED BY <1>7, <1>a, <1>o, <2>1 DEF RunStart
  <1>8. CASE RunLoad(p)
    <2>1. Loaded(vmm[Peer(p)]) \in Vmm /\ SameProcess(vmm[Peer(p)], Loaded(vmm[Peer(p)]))
      BY <1>8, <1>p, EffectsTyped, EffectsSame DEF RunLoad, IInv, ConfigItems
    <2> QED BY <1>8, <1>a, <1>o, <2>1 DEF RunLoad
  <1>9. CASE RunPatch(p)
    <2>1. Patched(vmm[Peer(p)]) \in Vmm /\ SameProcess(vmm[Peer(p)], Patched(vmm[Peer(p)]))
      BY <1>9, <1>p, EffectsTyped, EffectsSame DEF RunPatch, IInv, ConfigItems
    <2> QED BY <1>9, <1>a, <1>o, <2>1 DEF RunPatch
  <1>10. CASE RunResume(p)
    <2>1. Resumed(vmm[Peer(p)]) \in Vmm /\ SameProcess(vmm[Peer(p)], Resumed(vmm[Peer(p)]))
      BY <1>10, <1>p, EffectsTyped, EffectsSame DEF RunResume, IInv, ConfigItems
    <2> QED BY <1>10, <1>a, <1>o, <2>1 DEF RunResume
  <1>11. CASE HandleStop(p)
    <2>1. /\ Signalled(vmm[Peer(p)]) \in Vmm
          /\ SameProcess(vmm[Peer(p)], Signalled(vmm[Peer(p)]))
      BY <1>11, <1>p, EffectsTyped, EffectsSame DEF HandleStop, IInv, ConfigItems
    <2> QED BY <1>11, <1>a, <1>o, <2>1 DEF HandleStop
  <1>12. ASSUME NEW attached \in BOOLEAN, RunSave(p, attached) PROVE IInv'
    <2>1. call[p].pc = "save" /\ (Goto(p, "wait") \/ Done(p))
      BY <1>12 DEF RunSave
    <2>2. \A q \in Callers \ {p} : call'[q] = call[q]
      BY <1>p, <2>1 DEF Goto, Done
    <2>3. \/ call'[p].pc = "idle" /\ call'[p].own = NoInst
          \/ /\ call'[p].pc = "wait" /\ call'[p].own = call[p].own /\ call'[p].name \in Names
      BY <1>p, <1>i, <2>1 DEF Goto, Done, Call
    <2>4. vmm' = VmmAfterReturn(p)
      BY <1>12 DEF RunSave
    <2>5. OwnerBecomes(call[p].own, "user")
      BY <1>p, <2>4, ReturnEffect
    <2> QED BY <2>2, <2>3, <2>5, HandOverStep
  <1>13. CASE RunKill(p)
    <2>1. CASE call[p].own = NoInst
      <3>1. Goto(p, "unsock") /\ vmm' = vmm /\ call[p].pc = "kill"
        BY <1>13, <2>1 DEF RunKill
      <3> QED BY <1>g, <1>v, <2>1, <3>1 DEF Pcs, RunPcs, CleanupPcs
    <2>2. CASE call[p].own # NoInst
      <3>1. /\ call[p].own \in Insts /\ vmm' = VmmAfterExit(call[p].own)
            /\ call' = [CallAfterExit(call[p].own) EXCEPT ![p].pc = "unsock"]
        BY <1>13, <1>p, <2>2 DEF RunKill
      <3>2. \A q \in Callers :
              /\ call'[q].name = call[q].name
              /\ call'[q].own = IF call[q].own = call[p].own THEN NoInst ELSE call[q].own
              /\ call'[q].pc = call[q].pc
                   \/ (call[q].own = call[p].own /\ call'[q].pc = "unsock")
        <4>1. \A q \in Callers : /\ call[q] \in Call
                                 /\ CallAfterExit(call[p].own)[q] =
                                      [call[q] EXCEPT
                                        !.own = IF @ = call[p].own THEN NoInst ELSE @,
                                        !.conn = IF @ = call[p].own THEN NoInst ELSE @]
          BY <1>p DEF CallAfterExit
        <4> QED BY <3>1, <4>1, Zenon DEF Call, CallAfterExit
      <3> QED BY <3>1, <3>2, ExitStep
    <2> QED BY <2>1, <2>2
  <1>14. CASE RunUnsock(p) \/ RmStat(p) \/ RmUnsock(p)
    <2>1. /\ call[p].pc \in {"unsock", "rm-stat", "rm-unsock"} /\ vmm' = vmm
          /\ Done(p) \/ \E pc \in {"undisk", "rm-unsock", "rm-disk"} : Goto(p, pc)
      BY <1>14 DEF RunUnsock, RmStat, RmUnsock
    <2>2. call[p].own = NoInst
      BY <1>p, <1>o, <2>1
    <2> QED BY <1>g, <1>d, <1>v, <2>1, <2>2 DEF Pcs, RunPcs, CleanupPcs, RmPcs
  <1>15. CASE RunUndisk(p) \/ RmDisk(p) \/ CleanupDisk(p)
    <2>1. /\ call[p].pc \in {"undisk", "rm-disk", "rmdir"}
          /\ Done(p) \/ Failed(p)
          /\ \A i \in Insts : SameProcess(vmm[i], vmm'[i])
      BY <1>15, EffectsSame DEF RunUndisk, RmDisk, CleanupDisk, RemoveDisk, IInv
    <2>2. call[p].own = NoInst
      BY <1>p, <1>o, <2>1
    <2> QED BY <1>d, <2>1, <2>2
  <1>16. CASE StartFinish(p) \/ CleanupSocket(p)
    <2>1. /\ call[p].pc = "wait" /\ call[p].own = NoInst /\ vmm' = vmm
          /\ Done(p) \/ Goto(p, "rmdir")
      BY <1>16 DEF StartFinish, CleanupSocket
    <2> QED BY <1>g, <1>d, <1>v, <2>1 DEF Pcs, WaitPcs
  <1>17. CASE HandleKill(p)
    <2>1. /\ call[p].own \in Insts /\ vmm' = VmmAfterExit(call[p].own)
          /\ call' = CallAfterExit(call[p].own)
      BY <1>17, <1>p DEF HandleKill
    <2>2. \A q \in Callers :
            /\ call'[q].name = call[q].name /\ call'[q].pc = call[q].pc
            /\ call'[q].own = IF call[q].own = call[p].own THEN NoInst ELSE call[q].own
      BY <1>p, <2>1 DEF CallAfterExit, Call
    <2> QED BY <2>1, <2>2, ExitStep
  <1>18. CASE Crash(p)
    <2>1. /\ Done(p) /\ \A q \in Callers \ {p} : call'[q] = call[q]
          /\ call'[p].pc = "idle" /\ call'[p].own = NoInst
      BY <1>18, <1>p, <1>i DEF Crash, Done
    <2>2. CASE call[p].own # NoInst /\ call[p].pc \in RunPcs
      <3>1. vmm' = IF call[p].own # NoInst
                     THEN [vmm EXCEPT ![call[p].own].owner = "none"] ELSE vmm
        BY <1>18, <2>2 DEF Crash
      <3>2. OwnerBecomes(call[p].own, "none")
        BY <1>p, <3>1, OwnerSet
      <3> QED BY <2>1, <3>2, HandOverStep
    <2>3. CASE call[p].own = NoInst
      <3>1. vmm' = vmm
        BY <1>18, <2>3 DEF Crash
      <3> QED BY <1>18, <1>d, <1>v, <2>1, <2>3, <3>1 DEF Crash, Ready
    <2>4. CASE call[p].own # NoInst /\ call[p].pc \notin RunPcs
      <3>1. vmm' = vmm /\ call[p].pc = "wait" /\ call[p].own \in Insts
        BY <1>18, <1>p, <1>o, <2>4 DEF Crash, RunPcs, ApiPcs, ConfigPcs, CleanupPcs
      <3>2. vmm[call[p].own].owner = "user"
        BY <1>p, <2>4, <3>1 DEF IInv, Holds
      <3>3. OwnerBecomes(call[p].own, "user")
        BY <3>1, <3>2 DEF OwnerBecomes
      <3> QED BY <2>1, <3>3, HandOverStep
    <2> QED BY <2>2, <2>3, <2>4
  <1> QED
    BY <1>1, <1>2, <1>3, <1>4, <1>5, <1>6, <1>7, <1>8, <1>9, <1>10, <1>11, <1>12, <1>13,
       <1>14, <1>15, <1>16, <1>17, <1>18 DEF CallerNext, RunStep, WaitStep, RmStep

(* Every step of the by-name commands and of the processes keeps it. *)
LEMMA HostKeepsIInv ==
    ASSUME IInv, TypeOK',
           \/ \E n \in Names : StopVM(n) \/ PauseVM(n) \/ ResumeVM(n)
           \/ \E i \in Insts : VmmNext(i)
    PROVE  IInv'
  <1>p. call \in [Callers -> Call] /\ vmm \in [Insts -> Vmm]
    BY DEF IInv, TypeOK
  <1>1. ASSUME NEW n \in Names, StopVM(n) \/ PauseVM(n) \/ ResumeVM(n)
        PROVE  IInv'
    <2>1. \A i \in Insts : SameProcess(vmm[i], vmm'[i])
      <3>1. /\ sock[n] \in Insts /\ Booted(vmm[sock[n]])
            /\ \/ vmm' = [vmm EXCEPT ![sock[n]] = Signalled(vmm[sock[n]])]
               \/ vmm' = [vmm EXCEPT ![sock[n]] = Paused(vmm[sock[n]])]
               \/ vmm' = [vmm EXCEPT ![sock[n]] = Resumed(vmm[sock[n]])]
        BY <1>1 DEF StopVM, PauseVM, ResumeVM
      <3>2. \A v : SameProcess(v, v)
        BY DEF SameProcess
      <3> QED BY <1>p, <3>1, <3>2, EffectsSame DEF IInv
    <2>2. call' = call
      BY <1>1 DEF StopVM, PauseVM, ResumeVM
    <2>3. CASE Callers = {}
      BY <2>1, <2>2, <2>3
         DEF IInv, Engaged, Named, Holds, HoldsAlone, OnePerName, NoOrphan, SameProcess
    <2>4. ASSUME NEW p \in Callers PROVE IInv'
      BY <2>1, <2>2, SteadyStep DEF IInv, Engaged, Holds
    <2> QED BY <2>3, <2>4
  <1>2. ASSUME NEW i \in Insts, VmmListen(i) PROVE IInv'
    BY <1>2, ListenStep
  <1>3. ASSUME NEW i \in Insts, VmmExit(i) \/ GuestShutdown(i) PROVE IInv'
    <2>1. vmm' = VmmAfterExit(i) /\ call' = CallAfterExit(i)
      BY <1>3 DEF VmmExit, GuestShutdown
    <2>2. \A q \in Callers :
            /\ call'[q].name = call[q].name /\ call'[q].pc = call[q].pc
            /\ call'[q].own = IF call[q].own = i THEN NoInst ELSE call[q].own
      BY <1>p, <2>1 DEF CallAfterExit, Call
    <2> QED BY <2>1, <2>2, ExitStep
  <1> QED BY <1>1, <1>2, <1>3 DEF VmmNext

-----------------------------------------------------------------------------
(* The initial state satisfies the inductive invariant. *)
LEMMA InitIInv == Init => IInv
  <1> SUFFICES ASSUME Init PROVE IInv
    OBVIOUS
  <1>1. TypeOK
    BY BlanksTyped DEF Init, TypeOK
  <1>2. /\ \A i \in Insts : vmm[i].state = "gone"
        /\ \A p \in Callers : call[p].pc = "idle" /\ call[p].own = NoInst
    BY DEF Init, Blank, Idle
  <1> QED BY <1>1, <1>2
          DEF IInv, Engaged, Named, Holds, HoldsAlone, OnePerName, NoOrphan, Live, Listening

(* Every step, and stuttering, keeps it. *)
LEMMA NextIInv == IInv /\ [Next]_vars => IInv'
  <1> SUFFICES ASSUME IInv, [Next]_vars PROVE IInv'
    OBVIOUS
  <1>0. TypeOK /\ Engaged
    BY DEF IInv
  <1>1. ASSUME NEW p \in Callers, CallerNext(p) PROVE IInv'
    BY <1>0, <1>1, CallerTyped, CallerKeepsIInv
  <1>2. ASSUME \/ \E n \in Names : StopVM(n) \/ PauseVM(n) \/ ResumeVM(n)
               \/ \E i \in Insts : VmmNext(i)
        PROVE  IInv'
    BY <1>0, <1>2, HostStepTyped, HostKeepsIInv
  <1>3. CASE UNCHANGED vars
    BY <1>3 DEF vars, IInv, TypeOK, Engaged, Named, Holds, HoldsAlone, OnePerName, NoOrphan
  <1> QED BY <1>1, <1>2, <1>3 DEF Next

(* The inductive invariant holds in every reachable state. *)
THEOREM Invariance == Spec => []IInv
  BY InitIInv, NextIInv, PTL DEF Spec

(* Every variable keeps its type. *)
THEOREM TypeCorrect == Spec => []TypeOK
  <1>1. IInv => TypeOK
    BY DEF IInv
  <1> QED BY <1>1, Invariance, PTL

(* However many starts of one name race, at most one Firecracker of that   *)
(* name ever listens (vm.go:94, 138-145).                                  *)
THEOREM StartsOnePerName == Spec => []OnePerName
  <1>1. IInv => OnePerName
    BY DEF IInv
  <1> QED BY <1>1, Invariance, PTL

(* No path through Run, its cleanup or the crash of another process        *)
(* forgets a process that Run has started (vm.go:121-130).                 *)
THEOREM RunForgetsNoProcess == Spec => []NoOrphan
  <1>1. IInv => NoOrphan
    BY DEF IInv
  <1> QED BY <1>1, Invariance, PTL

(* A step of one caller does not move another, *)
LEMMA OthersStay ==
    ASSUME TypeOK, NEW p \in Callers, NEW q \in Callers \ {p}, CallerNext(q)
    PROVE  call'[p].pc = call[p].pc
  <1>1. CASE (\E n \in Names, boot \in BootKinds, ports \in PortChoices :
                 RunBegin(q, n, boot, ports))
             \/ (\E n \in Names : RmProbe(q, n))
    BY <1>1 DEF TypeOK, RunBegin, RmProbe
  <1>2. CASE RunDisk(q) \/ RunDiskFails(q) \/ RunSpawnFails(q) \/ RunAwait(q)
             \/ RunAwaitTimeout(q) \/ RunRefused(q) \/ RunUnsock(q) \/ RunUndisk(q)
    BY <1>2 DEF TypeOK, RunDisk, RunDiskFails, RunSpawnFails, RunAwait, RunAwaitTimeout,
                RunRefused, RunUnsock, RunUndisk, Goto, Failed
  <1>3. CASE RunSpawn(q)
    <2>1. \E i \in Insts : call' = [call EXCEPT ![q].pc = "await", ![q].own = i]
      BY <1>3, Zenon DEF RunSpawn
    <2>2. PICK i \in Insts : call' = [call EXCEPT ![q].pc = "await", ![q].own = i]
      BY <2>1
    <2> QED BY <2>2 DEF TypeOK
  <1>4. CASE RunConfigure(q) \/ RunStart(q) \/ RunLoad(q) \/ RunPatch(q) \/ RunResume(q)
             \/ HandleStop(q)
    <2>1. \E v, pc : Answered(q, v, pc)
      BY <1>4, Zenon DEF RunConfigure, RunStart, RunLoad, RunPatch, RunResume, HandleStop
    <2> QED BY <2>1 DEF TypeOK, Answered
  <1>5. CASE (\E attached \in BOOLEAN : RunSave(q, attached)) \/ Crash(q)
             \/ WaitStep(q) \/ RmStep(q)
    <2>1. Done(q) \/ \E pc \in {"wait", "rmdir", "rm-unsock", "rm-disk"} : Goto(q, pc)
      BY <1>5 DEF RunSave, Crash, WaitStep, RmStep, StartFinish, CleanupSocket, CleanupDisk,
                  RmStat, RmUnsock, RmDisk
    <2> QED BY <2>1 DEF TypeOK, Goto, Done
  <1>6. CASE RunKill(q) \/ HandleKill(q)
    <2>1. \/ Goto(q, "unsock")
          \/ \E i : call' = CallAfterExit(i)
          \/ \E i : call' = [CallAfterExit(i) EXCEPT ![q].pc = "unsock"]
      BY <1>6, Zenon DEF RunKill, HandleKill
    <2>2. CASE Goto(q, "unsock")
      BY <2>2 DEF TypeOK, Goto
    <2>3. ASSUME NEW i, \/ call' = CallAfterExit(i)
                       \/ call' = [CallAfterExit(i) EXCEPT ![q].pc = "unsock"]
          PROVE  call'[p].pc = call[p].pc
      <3>1. CallAfterExit(i)[p].pc = call[p].pc
        BY DEF TypeOK, CallAfterExit, Call
      <3>2. call'[p] = CallAfterExit(i)[p]
        BY <2>3 DEF CallAfterExit
      <3> QED BY <3>1, <3>2
    <2> QED BY <2>1, <2>2, <2>3
  <1> QED BY <1>1, <1>2, <1>3, <1>4, <1>5, <1>6 DEF CallerNext, RunStep

(* and one that is about to kill does that or crashes. *)
LEMMA KillIsNext ==
    ASSUME NEW p \in Callers, call[p].pc = "kill", CallerNext(p)
    PROVE  RunKill(p) \/ Crash(p)
  <1>1. ~(\E n \in Names, boot \in BootKinds, ports \in PortChoices :
                 RunBegin(p, n, boot, ports))
        /\ ~(\E n \in Names : RmProbe(p, n))
    BY DEF RunBegin, RmProbe, Ready
  <1>2. ~RunDisk(p) /\ ~RunDiskFails(p) /\ ~RunSpawn(p) /\ ~RunSpawnFails(p)
        /\ ~RunAwait(p) /\ ~RunAwaitTimeout(p)
    BY DEF RunDisk, RunDiskFails, RunSpawn, RunSpawnFails, RunAwait, RunAwaitTimeout
  <1>3. ~RunConfigure(p) /\ ~RunStart(p) /\ ~RunLoad(p) /\ ~RunPatch(p) /\ ~RunResume(p)
        /\ ~RunRefused(p)
    BY DEF RunConfigure, RunStart, RunLoad, RunPatch, RunResume, RunRefused, ApiPcs, ConfigPcs
  <1>4. ~(\E attached \in BOOLEAN : RunSave(p, attached))
        /\ ~RunUnsock(p) /\ ~RunUndisk(p)
    BY DEF RunSave, RunUnsock, RunUndisk
  <1>5. ~WaitStep(p) /\ ~RmStep(p) /\ ~HandleStop(p) /\ ~HandleKill(p)
    BY DEF WaitStep, RmStep, StartFinish, CleanupSocket, CleanupDisk, RmStat, RmUnsock,
           RmDisk, HandleStop, HandleKill
  <1> QED BY <1>1, <1>2, <1>3, <1>4, <1>5 DEF CallerNext, RunStep

(* The kill of a failed Run leaves every VM alive that another Run has     *)
(* started and returned (vm.go:123-127).                                   *)
THEOREM CleanupSparesOthers == Spec => FailedRunSparesOthers
  <1> DEFINE Spares ==
        \A p \in Callers, i \in Insts :
          (/\ call[p].pc = "kill" /\ call'[p].pc = "unsock"
           /\ Live(vmm[i]) /\ vmm[i].owner = "user")
              => Live(vmm'[i])
  <1>1. ASSUME IInv, Next PROVE Spares
    <2> SUFFICES ASSUME NEW p \in Callers, NEW i \in Insts,
                        call[p].pc = "kill", call'[p].pc = "unsock",
                        Live(vmm[i]), vmm[i].owner = "user"
                 PROVE  Live(vmm'[i])
      OBVIOUS
    <2>0. TypeOK /\ call[p] \in Call
      BY <1>1 DEF IInv, TypeOK
    <2>1. CASE CallerNext(p)
      <3>1. CASE RunKill(p)
        <4>1. CASE call[p].own = NoInst
          BY <3>1, <4>1 DEF RunKill
        <4>2. CASE call[p].own # NoInst
          <5>1. vmm[call[p].own].owner = "run" /\ call[p].own # i
            BY <1>1, <4>2 DEF IInv, Holds
          <5>2. vmm' = [vmm EXCEPT ![call[p].own] = Blank]
            BY <3>1, <4>2 DEF RunKill, VmmAfterExit
          <5> QED BY <2>0, <5>1, <5>2 DEF TypeOK
        <4> QED BY <4>1, <4>2
      <3>2. CASE Crash(p)
        BY <2>0, <3>2 DEF TypeOK, Crash, Done, Idle
      <3> QED BY <2>1, <3>1, <3>2, KillIsNext
    <2>2. ASSUME NEW q \in Callers \ {p}, CallerNext(q) PROVE FALSE
      BY <2>0, <2>2, OthersStay
    <2>3. ASSUME NEW n \in Names, StopVM(n) \/ PauseVM(n) \/ ResumeVM(n) PROVE FALSE
      BY <2>3 DEF StopVM, PauseVM, ResumeVM
    <2>4. ASSUME NEW j \in Insts, VmmNext(j) PROVE FALSE
      <3>1. call' = call \/ call' = CallAfterExit(j)
        BY <2>4 DEF VmmNext, VmmListen, VmmExit, GuestShutdown
      <3>2. CallAfterExit(j)[p].pc = call[p].pc
        BY <2>0 DEF CallAfterExit, Call
      <3> QED BY <3>1, <3>2
    <2> QED BY <1>1, <2>1, <2>2, <2>3, <2>4 DEF Next
  <1>2. ASSUME UNCHANGED vars PROVE Spares
    BY <1>2 DEF vars
  <1> HIDE DEF Spares
  <1>3. IInv /\ [Next]_vars => [Spares]_vars
    BY <1>1, <1>2
  <1>4. Spec => [][Spares]_vars
    BY <1>3, Invariance, PTL DEF Spec
  <1> QED BY <1>4 DEF Spares, FailedRunSparesOthers
=============================================================================
