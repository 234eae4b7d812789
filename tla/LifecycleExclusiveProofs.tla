---------------------- MODULE LifecycleExclusiveProofs ----------------------
(***************************************************************************)
(* What holds of Lifecycle when users keep to exclusive use of names and   *)
(* live processes answer RemoveVM in time, for every set of names, callers *)
(* and processes, with crashes or without.                                 *)
(***************************************************************************)
EXTENDS LifecycleProofs

-----------------------------------------------------------------------------
(* What most steps leave alone.                                            *)

(* A caller is through, or stays with its name in the same phase. *)
PhaseKept(q) ==
    \/ call'[q].pc \in Ready
    \/ /\ call'[q].name = call[q].name
       /\ call'[q].pc \in RunPcs => call[q].pc \in RunPcs
       /\ call'[q].pc \in TenantPcs => call[q].pc \in TenantPcs
       /\ call'[q].pc \in RmPcs => call[q].pc \in RmPcs

(* It gets no new process, keeps the one it has as long as that lives, and *)
(* its connection, if any, leads there.                                    *)
CallerKept(q) ==
    /\ PhaseKept(q)
    /\ call'[q].own # NoInst =>
          /\ call'[q].own = call[q].own
          /\ call'[q].name = call[q].name /\ call'[q].ports = call[q].ports
    /\ call'[q].conn # NoInst => call'[q].conn = call'[q].own
    /\ (call'[q].pc \in TenantPcs /\ call[q].own # NoInst /\ Live(vmm'[call[q].own]))
          => call'[q].own = call[q].own

(* A process does not appear; only a start boots it. *)
ProcKept(i) ==
    Live(vmm'[i]) =>
        /\ Live(vmm[i]) /\ vmm'[i].name = vmm[i].name /\ vmm'[i].ports = vmm[i].ports
        /\ Booted(vmm'[i]) =>
              \/ Booted(vmm[i])
              \/ Listening(vmm[i]) /\ \E p \in Callers : call[p].pc \in RunPcs /\ call[p].own = i

(* Program counters: the phases exclude each other. *)
LEMMA Phases ==
    /\ \A pc \in Ready : pc \notin TenantPcs /\ pc \notin RunPcs /\ pc \notin RmPcs
    /\ \A pc \in RmPcs : pc \notin TenantPcs /\ pc \notin RunPcs /\ pc \notin OwnPcs
    /\ \A pc \in RunPcs : pc \in TenantPcs /\ pc \notin WaitPcs
    /\ \A pc \in OwnPcs : pc \in RunPcs \/ pc = "wait"
    /\ RunPcs = {"disk", "spawn", "await", "save", "boot-source", "drive", "network", "machine",
                 "start", "load", "patch", "resume", "kill", "unsock", "undisk"}
    /\ WaitPcs = {"wait", "rmdir"} /\ TenantPcs = RunPcs \cup WaitPcs
  BY DEF Ready, TenantPcs, RunPcs, RmPcs, WaitPcs, OwnPcs, ApiPcs, ConfigPcs, CleanupPcs

(* Such a step keeps what the invariant says of callers and their          *)
(* processes.                                                              *)
LEMMA KeptStep ==
    ASSUME IInv, XInv, IInv',
           \A q \in Callers : CallerKept(q), \A i \in Insts : ProcKept(i)
    PROVE  Tenancy' /\ OwnsAll' /\ OwnMatches' /\ RemovedAreDown'
  <1>0. /\ Tenancy /\ OwnsAll /\ OwnMatches /\ RemovedAreDown
        /\ \A q \in Callers : PhaseKept(q)
        /\ \A q \in Callers : call[q].own \in Insts \cup {NoInst}
                              /\ call'[q].own \in Insts \cup {NoInst}
    BY DEF XInv, CallerKept, IInv, TypeOK, Call
  <1>1. Tenancy'
    BY <1>0, Phases DEF Tenancy, PhaseKept
  <1>2. OwnsAll'
    <2> SUFFICES ASSUME NEW p \in Callers, NEW i \in Insts, call'[p].pc \in TenantPcs,
                        Live(vmm'[i]), vmm'[i].name = call'[p].name
                 PROVE  call'[p].own = i
      BY DEF OwnsAll
    <2>1. /\ call[p].pc \in TenantPcs /\ call'[p].name = call[p].name
          /\ Live(vmm[i]) /\ vmm[i].name = call'[p].name
      BY <1>0, Phases DEF PhaseKept, ProcKept
    <2>2. call[p].own = i
      BY <1>0, <2>1 DEF OwnsAll
    <2> QED BY <2>2, BlanksAssumption DEF CallerKept
  <1>3. OwnMatches'
    <2> SUFFICES ASSUME NEW p \in Callers, call'[p].own # NoInst
                 PROVE  /\ vmm'[call'[p].own].name = call'[p].name
                        /\ vmm'[call'[p].own].ports = call'[p].ports \cup {SSHPort[call'[p].name]}
      BY DEF OwnMatches, CallerKept
    <2>1. Live(vmm'[call'[p].own])
      BY DEF IInv, Holds
    <2>2. /\ call'[p].own = call[p].own /\ call[p].own \in Insts
          /\ call'[p].name = call[p].name /\ call'[p].ports = call[p].ports
      BY <1>0 DEF CallerKept
    <2>3. /\ vmm'[call[p].own].name = vmm[call[p].own].name
          /\ vmm'[call[p].own].ports = vmm[call[p].own].ports
      BY <2>1, <2>2 DEF ProcKept
    <2> QED BY <1>0, <2>2, <2>3 DEF OwnMatches
  <1>4. RemovedAreDown'
    <2> SUFFICES ASSUME NEW p \in Callers, NEW i \in Insts, call'[p].pc \in RmPcs,
                        vmm'[i].name = call'[p].name, Booted(vmm'[i])
                 PROVE  FALSE
      BY DEF RemovedAreDown
    <2>1. call[p].pc \in RmPcs /\ call'[p].name = call[p].name
      BY <1>0, Phases DEF PhaseKept
    <2>2. /\ vmm[i].name = call[p].name
          /\ \/ Booted(vmm[i])
             \/ \E q \in Callers : call[q].pc \in RunPcs /\ call[q].own = i
      BY <2>1 DEF ProcKept, Booted, Live
    <2>3. ASSUME NEW q \in Callers, call[q].pc \in RunPcs, call[q].own = i PROVE FALSE
      BY <1>0, <2>1, <2>2, <2>3, BlanksAssumption DEF OwnMatches, Tenancy
    <2> QED BY <1>0, <2>1, <2>2, <2>3 DEF RemovedAreDown
  <1> QED BY <1>1, <1>2, <1>3, <1>4

-----------------------------------------------------------------------------
(* A request of a tenant reaches its own process. *)
LEMMA PeerIsOwn ==
    ASSUME IInv, XInv, NEW p \in Callers, call[p].pc \in TenantPcs, Peer(p) \in Insts
    PROVE  call[p].own = Peer(p)
  <1>1. CASE call[p].conn # NoInst
    BY <1>1 DEF Peer, XInv, OwnMatches
  <1>2. CASE call[p].conn = NoInst
    <2>1. Peer(p) = sock[call[p].name] /\ call[p].name \in Names
      BY <1>2, Phases DEF Peer, IInv, Engaged, Ready
    <2>2. Listening(vmm[Peer(p)]) /\ vmm[Peer(p)].name = call[p].name
      BY <2>1 DEF XInv, Bound
    <2> QED BY <2>2 DEF XInv, OwnsAll, Listening, Live
  <1> QED BY <1>1, <1>2

-----------------------------------------------------------------------------
(* Sockets.                                                                *)

(* A step that leaves the paths alone, and lets no process begin or cease  *)
(* to listen, keeps them bound.                                            *)
LEMMA SockKept ==
    ASSUME IInv, XInv, IInv', sock' = sock,
           \A q \in Callers : CallerKept(q), \A i \in Insts : ProcKept(i),
           \A i \in Insts : Listening(vmm'[i]) <=> Listening(vmm[i]),
           \A q \in Callers : call'[q].pc = "undisk" => call[q].pc = "undisk"
    PROVE  Bound'
  <1>0. /\ Bound /\ OwnMatches /\ \A i \in Insts : Listening(vmm[i]) => Live(vmm'[i])
        /\ \A q \in Callers : call'[q].own \in Insts \cup {NoInst}
    BY DEF XInv, IInv, TypeOK, Call, Live, Listening
  <1>1. \A n \in Names :
          sock'[n] \in Insts => Listening(vmm'[sock'[n]]) /\ vmm'[sock'[n]].name = n
    BY <1>0 DEF Bound, ProcKept
  <1>2. ASSUME NEW i \in Insts, Booted(vmm'[i]) PROVE sock'[vmm'[i].name] = i
    <2>1. vmm'[i].name = vmm[i].name /\ Listening(vmm[i])
      BY <1>0, <1>2 DEF ProcKept, Booted, Live, Listening
    <2>2. CASE Booted(vmm[i])
      BY <1>0, <2>1, <2>2 DEF Bound
    <2>3. ASSUME NEW p \in Callers, call[p].pc \in RunPcs, call[p].own = i
          PROVE  sock[vmm[i].name] = i
      BY <1>0, <2>1, <2>3, BlanksAssumption DEF Bound, OwnMatches
    <2> QED BY <1>2, <2>1, <2>2, <2>3 DEF ProcKept, Booted, Live
  <1>3. ASSUME NEW p \in Callers
        PROVE  /\ (call'[p].pc \in RunPcs /\ call'[p].own # NoInst
                      /\ Listening(vmm'[call'[p].own])) => sock'[call'[p].name] = call'[p].own
               /\ call'[p].pc = "undisk" => sock'[call'[p].name] = NoSock
    BY <1>0, <1>3, Phases DEF Bound, CallerKept, PhaseKept
  <1> QED BY <1>1, <1>2, <1>3 DEF Bound

(* The path of a name may be removed when nothing is booted under it and   *)
(* nobody is about to use it.                                              *)
LEMMA SockRemoved ==
    ASSUME IInv, XInv, NEW n \in Names, sock' = [sock EXCEPT ![n] = NoSock], vmm' = vmm,
           \A i \in Insts : Booted(vmm[i]) => vmm[i].name # n,
           NEW p \in Callers, call'[p].name = n \/ call'[p].pc \in Ready,
           call'[p].own = NoInst,
           \A q \in Callers \ {p} :
               call'[q] = call[q] /\ (call[q].pc \in RunPcs => call[q].name # n)
    PROVE  Bound'
  <1>0. Bound /\ OwnMatches /\ sock \in [Names -> Insts \cup {NoSock, Stale}]
        /\ \A q \in Callers : call[q].pc \in RunPcs => call[q].name \in Names
    BY Phases DEF XInv, IInv, TypeOK, Engaged, Ready
  <1>1. \A m \in Names :
          sock'[m] \in Insts => Listening(vmm'[sock'[m]]) /\ vmm'[sock'[m]].name = m
    BY <1>0, BlanksAssumption DEF Bound
  <1>2. \A i \in Insts : Booted(vmm'[i]) => sock'[vmm'[i].name] = i
    BY <1>0 DEF Bound, IInv, Named, Booted, Live
  <1>3. ASSUME NEW q \in Callers
        PROVE  /\ (call'[q].pc \in RunPcs /\ call'[q].own # NoInst
                      /\ Listening(vmm'[call'[q].own])) => sock'[call'[q].name] = call'[q].own
               /\ call'[q].pc = "undisk" => sock'[call'[q].name] = NoSock
    <2>1. CASE q = p
      BY <1>0, <2>1, Phases DEF Ready
    <2>2. CASE q # p
      <3>1. call'[q] = call[q] /\ (call[q].pc \in RunPcs => call[q].name # n)
        BY <2>2
      <3> QED BY <1>0, <3>1, Phases DEF Bound
    <2> QED BY <2>1, <2>2
  <1> QED BY <1>1, <1>2, <1>3 DEF Bound

(* Process i exits: its path becomes stale.                                *)
LEMMA SockStale ==
    ASSUME IInv, XInv, IInv', NEW i \in Insts, vmm' = VmmAfterExit(i), sock' = SockAfterExit(i),
           \A q \in Callers :
               /\ call'[q].name = call[q].name
               /\ call'[q].own = IF call[q].own = i THEN NoInst ELSE call[q].own
               /\ call'[q].pc = call[q].pc
                    \/ (call[q].pc \in RunPcs /\ call'[q].pc = "unsock")
    PROVE  Bound'
  <1>0. /\ Bound /\ sock \in [Names -> Insts \cup {NoSock, Stale}]
        /\ ~Live(vmm'[i]) /\ \A j \in Insts \ {i} : vmm'[j] = vmm[j]
        /\ ~Listening(vmm'[i]) /\ ~Booted(vmm'[i])
        /\ \A q \in Callers : call'[q].own \in Insts \cup {NoInst}
    BY DEF XInv, IInv, TypeOK, Call, VmmAfterExit, Blank, Live, Listening, Booted
  <1>1. \A n \in Names : sock'[n] = IF sock[n] = i THEN Stale ELSE sock[n]
    BY <1>0 DEF SockAfterExit
  <1>2. \A n \in Names :
          sock'[n] \in Insts => Listening(vmm'[sock'[n]]) /\ vmm'[sock'[n]].name = n
    BY <1>0, <1>1, BlanksAssumption DEF Bound
  <1>3. \A j \in Insts : Booted(vmm'[j]) => sock'[vmm'[j].name] = j
    <2>1. \A j \in Insts : Live(vmm[j]) => vmm[j].name \in Names
      BY DEF IInv, Named
    <2> QED BY <1>0, <1>1, <2>1 DEF Bound, Booted, Live
  <1>4. ASSUME NEW q \in Callers
        PROVE  /\ (call'[q].pc \in RunPcs /\ call'[q].own # NoInst
                      /\ Listening(vmm'[call'[q].own])) => sock'[call'[q].name] = call'[q].own
               /\ call'[q].pc = "undisk" => sock'[call'[q].name] = NoSock
    <2>1. call[q].pc \in RunPcs => call[q].name \in Names
      BY Phases DEF IInv, Engaged, Ready
    <2>2. call'[q].pc \in RunPcs => call[q].pc \in RunPcs
      OBVIOUS
    <2>3. call'[q].pc = "undisk" => call[q].pc = "undisk" /\ "undisk" \in RunPcs
      BY Phases
    <2> QED BY <1>0, <1>1, <2>1, <2>2, <2>3, BlanksAssumption DEF Bound
  <1> QED BY <1>2, <1>3, <1>4 DEF Bound

(* A process that binds its path finds no other one of its name there.     *)
LEMMA SockBound ==
    ASSUME IInv, XInv, NEW i \in Insts, VmmListen(i)
    PROVE  Bound'
  <1> DEFINE n == vmm[i].name
  <1>0. /\ Bound /\ OwnMatches /\ OwnsAll /\ n \in Names /\ Live(vmm[i]) /\ sock[n] = NoSock
        /\ call' = call /\ sock' = [sock EXCEPT ![n] = i]
        /\ sock \in [Names -> Insts \cup {NoSock, Stale}]
        /\ \A q \in Callers : call[q].own \in Insts \cup {NoInst}
    BY DEF XInv, IInv, TypeOK, Call, Named, VmmListen, Live
  <1>1. /\ vmm'[i].name = n /\ Listening(vmm'[i]) /\ ~Booted(vmm'[i]) /\ ~Listening(vmm[i])
        /\ \A j \in Insts \ {i} : vmm'[j] = vmm[j]
    BY DEF IInv, TypeOK, Vmm, VmmListen, Listening, Booted
  <1>2. \A m \in Names : sock'[m] = IF m = n THEN i ELSE sock[m]
    BY <1>0
  <1> HIDE DEF n
  <1>3. \A m \in Names :
          sock'[m] \in Insts => Listening(vmm'[sock'[m]]) /\ vmm'[sock'[m]].name = m
    BY <1>0, <1>1, <1>2 DEF Bound
  <1>4. \A j \in Insts : Booted(vmm'[j]) => sock'[vmm'[j].name] = j
    <2>1. \A j \in Insts : Live(vmm[j]) => vmm[j].name \in Names
      BY DEF IInv, Named
    <2> QED BY <1>0, <1>1, <1>2, <2>1, BlanksAssumption DEF Bound, Booted, Live
  <1>5. ASSUME NEW q \in Callers
        PROVE  /\ (call'[q].pc \in RunPcs /\ call'[q].own # NoInst
                      /\ Listening(vmm'[call'[q].own])) => sock'[call'[q].name] = call'[q].own
               /\ call'[q].pc = "undisk" => sock'[call'[q].name] = NoSock
    <2>1. call[q].pc \in RunPcs => call[q].name \in Names /\ call[q].pc \in TenantPcs
      BY Phases DEF IInv, Engaged, Ready
    <2>2. CASE call[q].own = i
      <3>1. call[q].name = n /\ call[q].pc # "undisk"
        BY <2>2, BlanksAssumption
           DEF XInv, OwnMatches, n, IInv, Holds, OwnPcs, ApiPcs, ConfigPcs
      <3> QED BY <1>0, <1>2, <2>2, <3>1
    <2>3. CASE call[q].own # i
      <3>1. call[q].pc \in RunPcs => call[q].name # n
        BY <1>0, <2>1, <2>3 DEF OwnsAll, n
      <3>2. call[q].pc = "undisk" => call[q].pc \in RunPcs
        BY Phases
      <3> QED BY <1>0, <1>1, <1>2, <2>1, <2>3, <3>1, <3>2 DEF Bound
    <2> QED BY <2>2, <2>3
  <1> QED BY <1>3, <1>4, <1>5 DEF Bound

-----------------------------------------------------------------------------
(* What a start has got, and what it hands over.                           *)

(* How far the start of q has got. *)
Stage(q) ==
    /\ call[q].own # NoInst =>
          /\ call[q].pc \in {"network", "machine", "start", "resume", "save"} =>
                vmm[call[q].own].disk = "intact"
          /\ call[q].pc = "save" => Booted(vmm[call[q].own])
    /\ call[q].pc \in {"spawn", "await", "save"} \cup ApiPcs => dir[call[q].name].made

(* Process i is about to load a snapshot and get the disk recorded there.  *)
Loading(i) == \E q \in Callers : call[q].own = i /\ call[q].pc = "load"

(* Process i keeps name and ports, its disk, its guest and its standing.   *)
Fine(i) ==
    Live(vmm'[i]) =>
        /\ Live(vmm[i]) /\ vmm'[i].name = vmm[i].name /\ vmm'[i].ports = vmm[i].ports
        /\ (vmm[i].disk = "intact" /\ ~Loading(i)) => vmm'[i].disk = "intact"
        /\ Booted(vmm[i]) => Booted(vmm'[i])
        /\ vmm'[i].owner = "user" => vmm[i].owner = "user"

(* A caller stays where it is, but may lose its process. *)
Waits(q) ==
    /\ call'[q].pc = call[q].pc /\ call'[q].name = call[q].name
    /\ call'[q].own \in {call[q].own, NoInst}

(* Such processes and directories keep what the starts have got ... *)
LEMMA StagesKept ==
    ASSUME IInv, XInv, IInv',
           \A q \in Callers : Stage(q)' \/ Waits(q),
           \A i \in Insts : Fine(i),
           \A q \in Callers : call[q].pc \in RunPcs =>
               (dir[call[q].name].made => dir'[call[q].name].made)
    PROVE  Underway'
  <1> SUFFICES ASSUME NEW q \in Callers PROVE Stage(q)'
    BY DEF Underway, Stage
  <1>1. CASE Waits(q)
    <2>1. Stage(q)
      BY DEF XInv, Underway, Stage
    <2>2. call'[q].own # NoInst => call'[q].own \in Insts /\ Live(vmm'[call'[q].own])
      BY DEF IInv, TypeOK, Call, Holds
    <2>3. call[q].pc \in {"spawn", "await", "save"} \cup ApiPcs => call[q].pc \in RunPcs
      BY Phases DEF ApiPcs, ConfigPcs
    <2>4. /\ call[q].own # NoInst => (Loading(call[q].own) => call[q].pc = "load")
          /\ call'[q].own # NoInst => Fine(call'[q].own)
      BY <2>2 DEF IInv, HoldsAlone, Loading
    <2> QED BY <1>1, <2>1, <2>2, <2>3, <2>4 DEF Waits, Stage, Fine
  <1> QED BY <1>1

(* ... and have handed over. *)
LEMMA HandedKept ==
    ASSUME IInv, XInv,
           \A i \in Insts : Fine(i), \A n \in Names : dir'[n].ports = dir[n].ports
    PROVE  HandedOver'
  <1>1. \A i \in Insts : Live(vmm[i]) => vmm[i].name \in Names
    BY DEF IInv, Named
  <1>2. \A i \in Insts : (Live(vmm[i]) /\ vmm[i].owner = "user") => ~Loading(i)
    BY BlanksAssumption DEF IInv, Holds, Loading
  <1> QED BY <1>1, <1>2 DEF XInv, HandedOver, Fine, Asked

-----------------------------------------------------------------------------
(* The groups of steps.                                                    *)

(* Process i keeps what the host knows of it; only a start boots it.       *)
Steady(i) ==
    /\ Fine(i)
    /\ Listening(vmm'[i]) <=> Listening(vmm[i])
    /\ Booted(vmm'[i]) =>
          \/ Booted(vmm[i])
          \/ Listening(vmm[i]) /\ \E p \in Callers : call[p].pc \in RunPcs /\ call[p].own = i

(* A caller that does nothing is a caller kept. *)
LEMMA IdleKept ==
    ASSUME XInv, NEW q \in Callers, call'[q] = call[q]
    PROVE  CallerKept(q) /\ Waits(q)
  BY DEF XInv, OwnMatches, CallerKept, PhaseKept, Waits

(* A caller that is done, or has failed, holds nothing. *)
LEMMA Dismissed ==
    ASSUME call \in [Callers -> Call], NEW p \in Callers, Done(p) \/ Failed(p)
    PROVE  /\ \A q \in Callers \ {p} : call'[q] = call[q]
           /\ call'[p].pc \in Ready /\ call'[p].own = NoInst /\ call'[p].conn = NoInst
  <1>1. CASE Done(p)
    BY <1>1 DEF Done, Idle, Ready
  <1>2. CASE Failed(p)
    <2>1. call' = [call EXCEPT ![p] = [Idle EXCEPT !.pc = "failed", !.name = call[p].name]]
      BY <1>2 DEF Failed
    <2>2. call'[p] = [Idle EXCEPT !.pc = "failed", !.name = call[p].name]
      BY <2>1
    <2> QED BY <2>1, <2>2 DEF Idle, Ready
  <1> QED BY <1>1, <1>2

(* Caller p moves while paths and processes stay. *)
LEMMA CalmStep ==
    ASSUME IInv, XInv, IInv', NEW p \in Callers, sock' = sock,
           \A q \in Callers \ {p} : call'[q] = call[q],
           CallerKept(p), Stage(p)', call'[p].pc # "undisk",
           \A i \in Insts : Steady(i),
           \A n \in Names : dir[n].made => dir'[n].made,
           \A n \in Names : dir'[n].ports = dir[n].ports
    PROVE  XInv'
  <1>1. \A q \in Callers : CallerKept(q) /\ (Stage(q)' \/ Waits(q))
    BY IdleKept
  <1>2. \A i \in Insts : Fine(i) /\ ProcKept(i)
    BY DEF Steady, Fine, ProcKept
  <1>3. Tenancy' /\ OwnsAll' /\ OwnMatches' /\ RemovedAreDown'
    BY <1>1, <1>2, KeptStep
  <1>4. Bound'
    <2>1. \A q \in Callers : call'[q].pc = "undisk" => call[q].pc = "undisk"
      OBVIOUS
    <2>2. \A i \in Insts : Listening(vmm'[i]) <=> Listening(vmm[i])
      BY DEF Steady
    <2> QED BY <1>1, <1>2, <2>1, <2>2, SockKept
  <1>5. Underway'
    <2>1. \A q \in Callers : call[q].pc \in RunPcs => call[q].name \in Names
      BY Phases DEF IInv, Engaged, Ready
    <2> QED BY <1>1, <1>2, <2>1, StagesKept
  <1>6. HandedOver'
    BY <1>2, HandedKept
  <1> QED BY <1>3, <1>4, <1>5, <1>6 DEF XInv

(* The path of a name is removed that no guest and no other start uses. *)
LEMMA UnsockStep ==
    ASSUME IInv, XInv, IInv', NEW p \in Callers, NEW n \in Names,
           sock' = [sock EXCEPT ![n] = NoSock], vmm' = vmm, dir' = dir,
           \A q \in Callers \ {p} : call'[q] = call[q],
           call[p].name = n, call[p].pc \in {"unsock", "wait", "rm-unsock"},
           call'[p].name = n \/ call'[p].pc \in Ready, call'[p].own = NoInst,
           call[p].own = NoInst, CallerKept(p), Stage(p)'
    PROVE  XInv'
  <1>0. \/ call[p].pc \in TenantPcs
        \/ call[p].pc \in RmPcs
    BY DEF TenantPcs, RunPcs, CleanupPcs, WaitPcs, RmPcs
  <1>1. \A q \in Callers : CallerKept(q) /\ (Stage(q)' \/ Waits(q))
    BY IdleKept
  <1>2. \A i \in Insts : Fine(i) /\ ProcKept(i)
    BY DEF Fine, ProcKept
  <1>3. Tenancy' /\ OwnsAll' /\ OwnMatches' /\ RemovedAreDown'
    BY <1>1, <1>2, KeptStep
  <1>4. \A i \in Insts : Booted(vmm[i]) => vmm[i].name # n
    BY <1>0, BlanksAssumption DEF XInv, OwnsAll, RemovedAreDown, Booted, Live
  <1>5. \A q \in Callers \ {p} : call'[q] = call[q] /\ (call[q].pc \in RunPcs => call[q].name # n)
    BY <1>0, Phases DEF XInv, Tenancy
  <1>6. Bound'
    BY <1>4, <1>5, SockRemoved
  <1> QED BY <1>1, <1>2, <1>3, <1>6, StagesKept, HandedKept DEF XInv

(* Process i exits, and its caller may go on with the cleanup. *)
LEMMA ExitKeepsX ==
    ASSUME IInv, XInv, IInv', NEW i \in Insts, vmm' = VmmAfterExit(i), sock' = SockAfterExit(i),
           dir' = dir,
           \A q \in Callers :
               /\ call'[q].name = call[q].name /\ call'[q].ports = call[q].ports
               /\ call'[q].own = IF call[q].own = i THEN NoInst ELSE call[q].own
               /\ call'[q].conn = IF call[q].conn = i THEN NoInst ELSE call[q].conn
               /\ \/ call'[q].pc = call[q].pc
                  \/ call[q].own = i /\ call[q].pc = "kill" /\ call'[q].pc = "unsock"
    PROVE  XInv'
  <1>0. /\ ~Live(vmm'[i]) /\ \A j \in Insts \ {i} : vmm'[j] = vmm[j]
        /\ "kill" \in RunPcs /\ "unsock" \in RunPcs \ ApiPcs
    BY Phases DEF IInv, TypeOK, VmmAfterExit, Blank, Live, ApiPcs, ConfigPcs
  <1>1. ASSUME NEW q \in Callers PROVE CallerKept(q)
    <2>1. PhaseKept(q)
      BY <1>0, Phases DEF PhaseKept
    <2> QED BY <1>0, <2>1 DEF CallerKept, XInv, OwnMatches
  <1>2. \A q \in Callers : Stage(q)' \/ Waits(q)
    BY <1>0, BlanksAssumption DEF Stage, Waits
  <1>3. \A j \in Insts : Fine(j) /\ ProcKept(j)
    BY <1>0 DEF Fine, ProcKept
  <1>4. Tenancy' /\ OwnsAll' /\ OwnMatches' /\ RemovedAreDown'
    BY <1>1, <1>3, KeptStep
  <1>5. Bound'
    BY <1>0, SockStale
  <1> QED BY <1>2, <1>3, <1>4, <1>5, StagesKept, HandedKept DEF XInv

(* The data directory of a name is removed that no start uses, and no      *)
(* guest that was handed over.                                             *)
LEMMA UndiskStep ==
    ASSUME IInv, XInv, IInv', NEW p \in Callers, call[p].pc \in {"undisk", "rmdir", "rm-disk"},
           RemoveDisk(call[p].name), Done(p) \/ Failed(p), sock' = sock
    PROVE  XInv'
  <1> DEFINE n == call[p].name
  <1>0. /\ call \in [Callers -> Call] /\ n \in Names
        /\ \/ call[p].pc \in TenantPcs /\ call[p].own = NoInst
           \/ call[p].pc \in RmPcs
        /\ vmm \in [Insts -> Vmm] /\ dir \in [Names -> Dir]
    BY DEF IInv, TypeOK, Engaged, Holds, OwnPcs, ApiPcs, ConfigPcs, TenantPcs, RunPcs,
           CleanupPcs, WaitPcs, RmPcs
  <1>1. /\ \A q \in Callers \ {p} : call'[q] = call[q]
        /\ call'[p].pc \in Ready /\ call'[p].own = NoInst /\ call'[p].conn = NoInst
    BY <1>0, Dismissed
  <1>2. \A m \in Names : dir'[m] = IF m = n THEN NoDir ELSE dir[m]
    BY <1>0 DEF RemoveDisk
  <1>3. \A i \in Insts : /\ vmm[i].name # n => vmm'[i] = vmm[i]
                         /\ vmm'[i].name = vmm[i].name /\ vmm'[i].ports = vmm[i].ports
                         /\ vmm'[i].owner = vmm[i].owner /\ vmm'[i].state = vmm[i].state
    <2>1. \A i \in Insts : vmm'[i] = IF vmm[i].name = n /\ vmm[i].disk = "intact"
                                     THEN [vmm[i] EXCEPT !.disk = "unlinked"] ELSE vmm[i]
      BY DEF RemoveDisk, DiskLost
    <2> QED BY <1>0, <2>1 DEF Vmm
  <1>4. \A i \in Insts : Booted(vmm[i]) => vmm[i].name # n
    BY <1>0, BlanksAssumption DEF XInv, OwnsAll, RemovedAreDown, Booted, Live
  <1>5. \A q \in Callers \ {p} : call[q].pc \in RunPcs => call[q].name # n
    BY <1>0, Phases DEF XInv, Tenancy
  <1> HIDE DEF n
  <1>6. \A q \in Callers : CallerKept(q)
    BY <1>1, IdleKept DEF CallerKept, PhaseKept, Ready, TenantPcs, RunPcs, WaitPcs, ApiPcs,
                         ConfigPcs, CleanupPcs
  <1>7. \A i \in Insts : ProcKept(i) /\ (Listening(vmm'[i]) <=> Listening(vmm[i]))
    BY <1>3 DEF ProcKept, Live, Booted, Listening
  <1>8. Tenancy' /\ OwnsAll' /\ OwnMatches' /\ RemovedAreDown'
    BY <1>6, <1>7, KeptStep
  <1>9. Bound'
    <2>1. \A q \in Callers : call'[q].pc = "undisk" => call[q].pc = "undisk"
      BY <1>1 DEF Ready
    <2> QED BY <1>6, <1>7, <2>1, SockKept
  <1>10. Underway'
    <2> SUFFICES ASSUME NEW q \in Callers PROVE Stage(q)'
      BY DEF Underway, Stage
    <2>1. CASE q = p
      BY <1>1, <2>1 DEF Stage, Ready, ApiPcs, ConfigPcs
    <2>2. CASE q # p /\ call[q].pc \in RunPcs
      <3>1. /\ Stage(q) /\ call'[q] = call[q] /\ call[q].name \in Names
            /\ call[q].own \in Insts \cup {NoInst}
        BY <1>1, <2>2, Phases DEF XInv, Underway, Stage, IInv, TypeOK, Call, Engaged, Ready
      <3>2. call[q].own # NoInst => vmm'[call[q].own] = vmm[call[q].own]
        BY <1>3, <1>5, <2>2, <3>1 DEF XInv, OwnMatches
      <3> QED BY <1>2, <1>5, <2>2, <3>1, <3>2 DEF Stage
    <2>3. CASE q # p /\ call[q].pc \notin RunPcs
      BY <1>1, <2>3, Phases DEF Stage, ApiPcs, ConfigPcs
    <2> QED BY <2>1, <2>2, <2>3
  <1>11. HandedOver'
    <2> SUFFICES ASSUME NEW i \in Insts, Live(vmm'[i]), vmm'[i].owner = "user"
                 PROVE  /\ Booted(vmm'[i]) /\ vmm'[i].disk = "intact"
                        /\ Asked(vmm'[i]) # {} =>
                              dir'[vmm'[i].name].ports \ {SSHPort[vmm'[i].name]} = Asked(vmm'[i])
      BY DEF HandedOver
    <2>1. Live(vmm[i]) /\ vmm[i].owner = "user" /\ Booted(vmm[i]) /\ vmm[i].name \in Names
      BY <1>3 DEF Live, XInv, HandedOver, IInv, Named
    <2>2. vmm'[i] = vmm[i] /\ dir'[vmm[i].name] = dir[vmm[i].name]
      BY <1>2, <1>3, <1>4, <2>1
    <2> QED BY <2>1, <2>2 DEF XInv, HandedOver
  <1> QED BY <1>8, <1>9, <1>10, <1>11 DEF XInv

(* A new process of a name that has none. *)
LEMMA SpawnKeepsX ==
    ASSUME IInv, XInv, IInv', NEW p \in Callers, RunSpawn(p)
    PROVE  XInv'
  <1>1. PICK i \in Insts :
          /\ ~Live(vmm[i])
          /\ vmm' = [vmm EXCEPT ![i] =
                       [Blank EXCEPT !.state = "spawned", !.owner = "run",
                          !.name = call[p].name,
                          !.ports = call[p].ports \cup {SSHPort[call[p].name]}]]
          /\ call' = [call EXCEPT ![p].pc = "await", ![p].own = i]
    BY Zenon DEF RunSpawn
  <1>2. /\ call[p].pc = "spawn" /\ call[p].name \in Names /\ sock' = sock /\ dir' = dir
        /\ call[p].pc \in TenantPcs /\ call[p].pc \in RunPcs
    BY Phases DEF RunSpawn, IInv, Engaged
  <1>3. /\ vmm'[i].name = call[p].name /\ vmm'[i].owner = "run"
        /\ vmm'[i].ports = call[p].ports \cup {SSHPort[call[p].name]}
        /\ ~Listening(vmm'[i]) /\ ~Booted(vmm'[i])
        /\ \A j \in Insts \ {i} : vmm'[j] = vmm[j]
    BY <1>1 DEF IInv, TypeOK, Blank, Booted, Listening
  <1>4. /\ call'[p].pc = "await" /\ call'[p].own = i /\ call'[p].name = call[p].name
        /\ call'[p].ports = call[p].ports /\ call'[p].conn = call[p].conn
        /\ \A q \in Callers \ {p} : call'[q] = call[q]
    BY <1>1 DEF IInv, TypeOK, Call
  <1>5. \A q \in Callers : /\ call[q].own # i /\ (q = p => call[q].own = NoInst)
                           /\ call[q].own \in Insts \cup {NoInst}
    BY <1>1, <1>2, BlanksAssumption
       DEF IInv, TypeOK, Call, Holds, OwnPcs, ApiPcs, ConfigPcs
  <1>6. /\ Tenancy /\ OwnsAll /\ OwnMatches /\ Bound /\ RemovedAreDown /\ HandedOver
        /\ ~Listening(vmm[i]) /\ \A q \in Callers : Stage(q)
        /\ "await" \in TenantPcs \ RmPcs
    BY <1>1, Phases DEF XInv, Listening, Live, Underway, Stage, RmPcs
  <1>7. \A j \in Insts : Live(vmm[j]) => vmm[j].name # call[p].name
    BY <1>2, <1>5, <1>6, BlanksAssumption DEF OwnsAll
  <1>8. \A q \in Callers \ {p} : call[q].pc \in TenantPcs => call[q].name # call[p].name
    BY <1>2, <1>6 DEF Tenancy
  <1>9. Tenancy'
    BY <1>2, <1>4, <1>6, Phases DEF Tenancy
  <1>10. OwnsAll'
    BY <1>3, <1>4, <1>6, <1>7, <1>8 DEF OwnsAll
  <1>11. OwnMatches'
    BY <1>3, <1>4, <1>5, <1>6 DEF OwnMatches
  <1>12. Bound'
    <2>1. \A n \in Names :
            sock'[n] \in Insts => Listening(vmm'[sock'[n]]) /\ vmm'[sock'[n]].name = n
      BY <1>2, <1>3, <1>6 DEF Bound
    <2>2. \A j \in Insts : Booted(vmm'[j]) => sock'[vmm'[j].name] = j
      BY <1>2, <1>3, <1>6 DEF Bound
    <2>3. ASSUME NEW q \in Callers
          PROVE  /\ (call'[q].pc \in RunPcs /\ call'[q].own # NoInst
                        /\ Listening(vmm'[call'[q].own])) => sock'[call'[q].name] = call'[q].own
                 /\ call'[q].pc = "undisk" => sock'[call'[q].name] = NoSock
      BY <1>2, <1>3, <1>4, <1>5, <1>6 DEF Bound
    <2> QED BY <2>1, <2>2, <2>3 DEF Bound
  <1>13. RemovedAreDown'
    BY <1>3, <1>4, <1>6 DEF RemovedAreDown
  <1>14. Underway'
    <2> SUFFICES ASSUME NEW q \in Callers PROVE Stage(q)'
      BY DEF Underway, Stage
    <2>1. CASE q = p
      BY <1>2, <1>4, <1>6, <2>1 DEF Stage
    <2>2. CASE q # p
      BY <1>2, <1>3, <1>4, <1>5, <1>6, <2>2 DEF Stage
    <2> QED BY <2>1, <2>2
  <1>15. HandedOver'
    BY <1>2, <1>3, <1>6 DEF HandedOver, Asked
  <1> QED BY <1>9, <1>10, <1>11, <1>12, <1>13, <1>14, <1>15 DEF XInv

(* The start hands its process over, booted on its own disk, and its ports *)
(* have been remembered.                                                   *)
LEMMA SaveKeepsX ==
    ASSUME IInv, XInv, IInv', NEW p \in Callers, NEW attached \in BOOLEAN,
           RunSave(p, attached)
    PROVE  XInv'
  <1> DEFINE n == call[p].name  o == call[p].own
  <1>0. /\ call \in [Callers -> Call] /\ vmm \in [Insts -> Vmm] /\ dir \in [Names -> Dir]
        /\ n \in Names /\ o \in Insts \cup {NoInst} /\ sock' = sock
        /\ call[p].pc = "save" /\ call[p].pc \in RunPcs /\ call[p].pc \in TenantPcs
        /\ OwnsAll /\ OwnMatches /\ Stage(p) /\ HandedOver
    BY Phases DEF IInv, TypeOK, Call, Engaged, RunSave, XInv, Underway, Stage
  <1>1. /\ \A q \in Callers \ {p} : call'[q] = call[q]
        /\ \/ call'[p].pc = "idle" /\ call'[p].own = NoInst /\ call'[p].conn = NoInst
           \/ /\ call'[p].pc = "wait" /\ call'[p].own = o /\ call'[p].conn = call[p].conn
              /\ call'[p].name = n /\ call'[p].ports = call[p].ports
    <2>1. Goto(p, "wait") \/ Done(p)
      BY DEF RunSave
    <2> QED BY <1>0, <2>1 DEF Goto, Done, Idle, Call
  <1>2. \A i \in Insts : /\ vmm'[i].name = vmm[i].name /\ vmm'[i].ports = vmm[i].ports
                         /\ vmm'[i].disk = vmm[i].disk /\ vmm'[i].state = vmm[i].state
                         /\ i # o => vmm'[i].owner = vmm[i].owner
    <2>1. vmm' = VmmAfterReturn(p)
      BY DEF RunSave
    <2> QED BY <1>0, <2>1, ReturnEffect DEF OwnerBecomes
  <1>3. /\ \A m \in Names : dir'[m].made = dir[m].made
        /\ \A m \in Names : m # n => dir'[m].ports = dir[m].ports
        /\ call[p].ports # {} => dir'[n].ports = call[p].ports
    <2>1. dir[n].made
      BY <1>0 DEF Stage
    <2>2. dir' = IF call[p].ports # {} THEN [dir EXCEPT ![n].ports = call[p].ports] ELSE dir
      BY <2>1 DEF RunSave, DirAfterSave
    <2> QED BY <1>0, <2>2 DEF Dir
  <1> HIDE DEF n, o
  <1>4. \A q \in Callers : CallerKept(q)
    <2>1. CallerKept(p)
      BY <1>0, <1>1, Phases DEF CallerKept, PhaseKept, OwnMatches, o, n, Ready, WaitPcs, RmPcs, RunPcs
    <2> QED BY <1>1, <2>1, IdleKept
  <1>5. \A i \in Insts : ProcKept(i) /\ (Listening(vmm'[i]) <=> Listening(vmm[i]))
    BY <1>2 DEF ProcKept, Live, Booted, Listening
  <1>6. Tenancy' /\ OwnsAll' /\ OwnMatches' /\ RemovedAreDown'
    BY <1>4, <1>5, KeptStep
  <1>7. Bound'
    <2>1. \A q \in Callers : call'[q].pc = "undisk" => call[q].pc = "undisk"
      BY <1>1
    <2> QED BY <1>0, <1>4, <1>5, <2>1, SockKept
  <1>8. Underway'
    <2> SUFFICES ASSUME NEW q \in Callers PROVE Stage(q)'
      BY DEF Underway, Stage
    <2>1. CASE q = p
      BY <1>1, <2>1 DEF Stage, ApiPcs, ConfigPcs
    <2>2. CASE q # p
      <3>1. /\ Stage(q) /\ call'[q] = call[q] /\ call[q].own \in Insts \cup {NoInst}
            /\ call[q].pc \in {"spawn", "await", "save"} \cup ApiPcs => call[q].name \in Names
        BY <1>1, <2>2 DEF XInv, Underway, Stage, IInv, TypeOK, Call, Engaged, ApiPcs, ConfigPcs
      <3>2. call[q].own # NoInst => /\ vmm'[call[q].own].disk = vmm[call[q].own].disk
                                     /\ vmm'[call[q].own].state = vmm[call[q].own].state
        BY <1>2, <3>1
      <3>3. call[q].name \in Names => dir'[call[q].name].made = dir[call[q].name].made
        BY <1>3
      <3> QED BY <3>1, <3>2, <3>3 DEF Stage, Booted
    <2> QED BY <2>1, <2>2
  <1>9. HandedOver'
    <2> SUFFICES ASSUME NEW i \in Insts, Live(vmm'[i]), vmm'[i].owner = "user"
                 PROVE  /\ Booted(vmm'[i]) /\ vmm'[i].disk = "intact"
                        /\ Asked(vmm'[i]) # {} =>
                              dir'[vmm'[i].name].ports \ {SSHPort[vmm'[i].name]} = Asked(vmm'[i])
      BY DEF HandedOver
    <2>1. Live(vmm[i]) /\ vmm[i].name \in Names /\ Asked(vmm'[i]) = Asked(vmm[i])
      BY <1>2 DEF Live, IInv, Named, Asked
    <2>2. CASE i = o
      <3>1. /\ vmm[i].name = n /\ vmm[i].ports = call[p].ports \cup {SSHPort[n]}
            /\ Booted(vmm[i]) /\ vmm[i].disk = "intact"
        BY <1>0, <2>2, BlanksAssumption DEF o, n, OwnMatches, Stage
      <3> QED BY <1>2, <1>3, <2>1, <3>1 DEF Booted, Asked
    <2>3. CASE i # o
      <3>1. vmm[i].name # n /\ vmm[i].owner = "user"
        BY <1>0, <1>2, <2>1, <2>3 DEF OwnsAll, o, n
      <3>2. /\ Booted(vmm[i]) /\ vmm[i].disk = "intact"
            /\ Asked(vmm[i]) # {} =>
                  dir[vmm[i].name].ports \ {SSHPort[vmm[i].name]} = Asked(vmm[i])
        BY <1>0, <2>1, <3>1 DEF HandedOver
      <3>3. /\ dir'[vmm[i].name].ports = dir[vmm[i].name].ports
            /\ vmm'[i].name = vmm[i].name /\ vmm'[i].disk = vmm[i].disk
            /\ vmm'[i].state = vmm[i].state
        BY <1>2, <1>3, <2>1, <3>1
      <3> QED BY <2>1, <3>2, <3>3 DEF Booted
    <2> QED BY <2>2, <2>3
  <1> QED BY <1>6, <1>7, <1>8, <1>9 DEF XInv

(* A start begins with a name that nobody is busy with and no process has. *)
LEMMA BeginKeepsX ==
    ASSUME Exclusive, IInv, XInv, IInv', NEW p \in Callers, NEW n \in Names,
           NEW boot \in BootKinds, NEW ports \in PortChoices, RunBegin(p, n, boot, ports)
    PROVE  XInv'
  <1>0. /\ \A q \in Callers : call[q].pc \notin Ready => call[q].name # n
        /\ \A i \in Insts : Live(vmm[i]) => vmm[i].name # n
        /\ sock' = [sock EXCEPT ![n] = NoSock] /\ vmm' = vmm /\ dir' = dir
        /\ call[p].pc \in Ready
    BY DEF RunBegin, MayRun, RemoveSocket
  <1>1. /\ call'[p].pc = "disk" /\ call'[p].name = n
        /\ call'[p].own = NoInst /\ call'[p].conn = NoInst
        /\ \A q \in Callers \ {p} : call'[q] = call[q]
    BY DEF IInv, TypeOK, RunBegin, Idle
  <1>2. /\ Tenancy /\ OwnsAll /\ OwnMatches /\ RemovedAreDown
        /\ \A q \in Callers : call[q].pc \in TenantPcs \cup RmPcs => call[q].pc \notin Ready
        /\ RunPcs \subseteq TenantPcs
    BY Phases DEF XInv
  <1>3. "disk" \in TenantPcs \ RmPcs
    BY Phases DEF RmPcs
  <1>4. Tenancy'
    BY <1>0, <1>1, <1>2, <1>3 DEF Tenancy
  <1>5. OwnsAll'
    BY <1>0, <1>1, <1>2 DEF OwnsAll
  <1>6. OwnMatches'
    BY <1>0, <1>1, <1>2 DEF OwnMatches
  <1>7. RemovedAreDown'
    BY <1>0, <1>1, <1>2, <1>3 DEF RemovedAreDown
  <1>8. Bound'
    <2>1. \A i \in Insts : Booted(vmm[i]) => vmm[i].name # n
      BY <1>0 DEF Booted, Live
    <2>2. \A q \in Callers \ {p} : call'[q] = call[q] /\ (call[q].pc \in RunPcs => call[q].name # n)
      BY <1>0, <1>1, <1>2
    <2> QED BY <1>0, <1>1, <2>1, <2>2, SockRemoved
  <1>9. \A q \in Callers : Stage(q)' \/ Waits(q)
    BY <1>1 DEF Stage, Waits, ApiPcs, ConfigPcs
  <1>10. Underway' /\ HandedOver'
    BY <1>0, <1>9, StagesKept, HandedKept DEF Fine
  <1> QED BY <1>4, <1>5, <1>6, <1>7, <1>8, <1>10 DEF XInv

(* rm begins with a name that no start is busy with and nobody answers for. *)
LEMMA ProbeKeepsX ==
    ASSUME Exclusive, ~SlowAPI, IInv, XInv, IInv', NEW p \in Callers, NEW n \in Names,
           RmProbe(p, n)
    PROVE  XInv'
  <1>0. /\ \A q \in Callers : call[q].pc \in RunPcs => call[q].name # n
        /\ sock[n] \notin Insts /\ sock' = sock /\ vmm' = vmm /\ dir' = dir
        /\ call[p].pc \in Ready
    BY DEF RmProbe, MayRemove
  <1>1. /\ call'[p].pc = "rm-stat" /\ call'[p].name = n
        /\ call'[p].own = NoInst /\ call'[p].conn = NoInst
        /\ \A q \in Callers \ {p} : call'[q] = call[q]
    BY DEF IInv, TypeOK, RmProbe, Idle
  <1>2. /\ Tenancy /\ OwnsAll /\ OwnMatches /\ RemovedAreDown /\ Bound
        /\ "rm-stat" \notin TenantPcs /\ "rm-stat" \notin RunPcs /\ "rm-stat" # "undisk"
    BY Phases DEF XInv, RmPcs
  <1>3. Tenancy'
    BY <1>0, <1>1, <1>2 DEF Tenancy
  <1>4. OwnsAll'
    BY <1>0, <1>1, <1>2 DEF OwnsAll
  <1>5. OwnMatches'
    BY <1>0, <1>1, <1>2 DEF OwnMatches
  <1>6. RemovedAreDown'
    BY <1>0, <1>1, <1>2 DEF RemovedAreDown, Bound
  <1>7. Bound'
    BY <1>0, <1>1, <1>2 DEF Bound
  <1>8. \A q \in Callers : Stage(q)' \/ Waits(q)
    BY <1>1 DEF Stage, Waits, ApiPcs, ConfigPcs
  <1>9. Underway' /\ HandedOver'
    BY <1>0, <1>8, StagesKept, HandedKept DEF Fine
  <1> QED BY <1>3, <1>4, <1>5, <1>6, <1>7, <1>9 DEF XInv

(* A process that listens. *)
LEMMA ListenKeepsX ==
    ASSUME IInv, XInv, IInv', NEW i \in Insts, VmmListen(i)
    PROVE  XInv'
  <1>0. dir' = dir /\ call' = call
    BY DEF VmmListen
  <1>1. \A j \in Insts : Fine(j) /\ ProcKept(j)
    <2>1. vmm' = [vmm EXCEPT ![i] = [vmm[i] EXCEPT !.state = "unbooted"]]
          /\ vmm[i].state = "spawned" /\ vmm \in [Insts -> Vmm]
      BY DEF VmmListen, IInv, TypeOK
    <2> QED BY <2>1 DEF Vmm, Fine, ProcKept, Booted, Live
  <1>2. \A q \in Callers : CallerKept(q) /\ Waits(q)
    BY <1>0, IdleKept
  <1> QED BY <1>0, <1>1, <1>2, KeptStep, SockBound, StagesKept, HandedKept DEF XInv

-----------------------------------------------------------------------------
(* A caller goes on to pc within its phase, and nothing else happens. *)
LEMMA GotoKeepsX ==
    ASSUME IInv, XInv, IInv', NEW p \in Callers, NEW pc, Goto(p, pc),
           UNCHANGED <<vmm, sock, dir>>,
           \/ call[p].pc \in RunPcs /\ pc \in {"load", "boot-source", "kill", "unsock"}
           \/ call[p].pc = "rm-stat" /\ pc = "rm-unsock",
           pc \in {"load", "boot-source"} => call[p].pc = "await"
    PROVE  XInv'
  <1>1. /\ call'[p].pc = pc /\ call'[p].name = call[p].name /\ call'[p].own = call[p].own
        /\ call'[p].ports = call[p].ports /\ call'[p].conn = call[p].conn
        /\ \A q \in Callers \ {p} : call'[q] = call[q]
    BY DEF IInv, TypeOK, Call, Goto
  <1>2. CallerKept(p)
    <2>1. PhaseKept(p)
      BY <1>1, Phases DEF PhaseKept, RmPcs
    <2> QED BY <1>1, <2>1 DEF CallerKept, XInv, OwnMatches
  <1>3. Stage(p)' /\ call'[p].pc # "undisk"
    BY <1>1 DEF XInv, Underway, Stage, ApiPcs, ConfigPcs, RunPcs, RmPcs
  <1>4. \A i \in Insts : Steady(i)
    BY DEF Steady, Fine
  <1> QED BY <1>1, <1>2, <1>3, <1>4, CalmStep

(* A caller is done, or has failed, while processes keep all but the owner *)
(* of its own one, and directories what was remembered there.              *)
LEMMA DoneKeepsX ==
    ASSUME IInv, XInv, IInv', NEW p \in Callers, Done(p) \/ Failed(p), sock' = sock,
           \A i \in Insts : Steady(i),
           \A n \in Names : dir[n].made => dir'[n].made,
           \A n \in Names : dir'[n].ports = dir[n].ports
    PROVE  XInv'
  <1>1. /\ \A q \in Callers \ {p} : call'[q] = call[q]
        /\ call'[p].pc \in Ready /\ call'[p].own = NoInst /\ call'[p].conn = NoInst
    BY Dismissed DEF IInv, TypeOK
  <1>2. CallerKept(p) /\ Stage(p)' /\ call'[p].pc # "undisk"
    BY <1>1, Phases DEF CallerKept, PhaseKept, Stage, Ready, ApiPcs, ConfigPcs
  <1> QED BY <1>1, <1>2, CalmStep

(* A granted request of a tenant keeps the invariant, if what it leaves of *)
(* the tenant's own process is what the next step relies on.               *)
LEMMA AnsweredKeepsX ==
    ASSUME IInv, XInv, IInv', NEW p \in Callers, NEW v, NEW pc, Peer(p) \in Insts,
           Answered(p, v, pc), SameProcess(vmm[Peer(p)], v),
           call[p].pc \in TenantPcs, Listening(vmm[Peer(p)]),
           \/ pc \in ApiPcs \cup {"save"} /\ call[p].pc \in ApiPcs
           \/ pc = "wait" /\ call[p].pc = "wait" /\ v.state = vmm[Peer(p)].state,
           Booted(vmm[Peer(p)]) => Booted(v),
           (vmm[Peer(p)].disk = "intact" /\ call[p].pc # "load") => v.disk = "intact",
           pc \in {"network", "machine", "start", "resume", "save"} => v.disk = "intact",
           pc = "save" => Booted(v)
    PROVE  XInv'
  <1>0. /\ call[p].own = Peer(p) /\ vmm \in [Insts -> Vmm] /\ call \in [Callers -> Call]
        /\ sock' = sock /\ dir' = dir
    BY PeerIsOwn DEF IInv, TypeOK, Answered
  <1>1. /\ call'[p].pc = pc /\ call'[p].name = call[p].name /\ call'[p].own = call[p].own
        /\ call'[p].ports = call[p].ports /\ call'[p].conn = call[p].own
        /\ \A q \in Callers \ {p} : call'[q] = call[q]
    BY <1>0 DEF Call, Answered
  <1>2. /\ vmm'[Peer(p)] = v /\ \A i \in Insts \ {Peer(p)} : vmm'[i] = vmm[i]
    BY <1>0 DEF Answered
  <1>3. "wait" \in TenantPcs \ RmPcs /\ ApiPcs \cup {"save"} \subseteq RunPcs \ {"undisk"}
    BY Phases DEF RmPcs, ApiPcs, ConfigPcs
  <1>4. CallerKept(p)
    <2>1. PhaseKept(p)
      BY <1>1, <1>3, Phases DEF PhaseKept
    <2> QED BY <1>1, <2>1 DEF CallerKept
  <1>5. Stage(p)' /\ call'[p].pc # "undisk"
    <2>1. pc # "wait" => dir[call[p].name].made
      BY DEF XInv, Underway
    <2> QED BY <1>0, <1>1, <1>2, <1>3, <2>1 DEF Stage, ApiPcs, ConfigPcs
  <1>6. \A i \in Insts : Steady(i)
    <2>1. Steady(Peer(p))
      <3>1. Booted(v) => Booted(vmm[Peer(p)])
                         \/ (call[p].pc \in RunPcs /\ call[p].own = Peer(p))
        BY <1>0, <1>3 DEF Booted
      <3>2. call[p].pc = "load" => Loading(Peer(p))
        BY <1>0 DEF Loading
      <3> QED BY <1>2, <3>1, <3>2 DEF Steady, Fine, SameProcess
    <2> QED BY <1>2, <2>1 DEF Steady, Fine
  <1> QED BY <1>0, <1>1, <1>4, <1>5, <1>6, CalmStep

(* The preparation of a disk meets no process that could have it open. *)
LEMMA DiskKeepsX ==
    ASSUME IInv, XInv, IInv', NEW p \in Callers, RunDisk(p) \/ RunDiskFails(p)
    PROVE  XInv'
  <1>0. /\ call[p].pc = "disk" /\ call[p].name \in Names /\ call[p].own = NoInst
        /\ call \in [Callers -> Call] /\ vmm \in [Insts -> Vmm] /\ dir \in [Names -> Dir]
        /\ call[p].pc \in TenantPcs /\ sock' = sock /\ call[p].conn = NoInst
    BY Phases DEF IInv, TypeOK, Call, Engaged, Holds, OwnPcs, ApiPcs, ConfigPcs, RunDisk,
                  RunDiskFails, XInv, OwnMatches
  <1>1. \A i \in Insts : Live(vmm[i]) => vmm[i].name # call[p].name
    BY <1>0, BlanksAssumption DEF XInv, OwnsAll
  <1>2. \A i \in Insts : Steady(i)
    <2>1. vmm' = vmm \/ vmm' = DiskLost(call[p].name, "overwritten")
      BY DEF RunDisk, RunDiskFails
    <2>2. \A i \in Insts : vmm'[i] = vmm[i] \/ (~Live(vmm[i]) /\ vmm'[i].state = vmm[i].state)
      BY <1>0, <1>1, <2>1 DEF DiskLost, Vmm
    <2> QED BY <2>2 DEF Steady, Fine, Live, Listening, Booted
  <1>3. /\ \A n \in Names : dir[n].made => dir'[n].made
        /\ \A n \in Names : dir'[n].ports = dir[n].ports
    BY <1>0 DEF RunDisk, RunDiskFails, Dir
  <1>4. CASE RunDiskFails(p)
    BY <1>0, <1>2, <1>3, <1>4, DoneKeepsX DEF RunDiskFails
  <1>5. CASE RunDisk(p)
    <2>1. /\ call'[p].pc = "spawn" /\ call'[p].name = call[p].name /\ call'[p].own = NoInst
          /\ call'[p].conn = NoInst /\ \A q \in Callers \ {p} : call'[q] = call[q]
      BY <1>0, <1>5 DEF RunDisk, Goto, Call
    <2>2. dir'[call[p].name].made
      BY <1>0, <1>5 DEF RunDisk, Dir
    <2>3. CallerKept(p) /\ Stage(p)' /\ call'[p].pc # "undisk"
      BY <1>0, <2>1, <2>2, Phases DEF CallerKept, PhaseKept, Stage, RmPcs
    <2> QED BY <1>0, <1>2, <1>3, <2>1, <2>3, CalmStep
  <1> QED BY <1>4, <1>5

(* Every step of a knaller process keeps the invariant. *)
LEMMA CallerKeepsX ==
    ASSUME Exclusive, ~SlowAPI, IInv, XInv, IInv', NEW p \in Callers, CallerNext(p)
    PROVE  XInv'
  <1>0. /\ call \in [Callers -> Call] /\ vmm \in [Insts -> Vmm]
        /\ call[p].own \in Insts \cup {NoInst}
        /\ call[p].pc # "idle" => call[p].name \in Names
        /\ call[p].own # NoInst => call[p].pc \in OwnPcs
        /\ Stage(p) /\ Idle.own = NoInst /\ Idle.pc = "idle" /\ Idle.conn = NoInst
        /\ call[p].conn # NoInst => call[p].conn = call[p].own
    BY DEF IInv, TypeOK, Call, Engaged, Holds, XInv, Underway, Stage, Idle, OwnMatches
  <1>v. \A i \in Insts : vmm'[i] = vmm[i] => Steady(i)
    BY DEF Steady, Fine
  <1>p. /\ ApiPcs \subseteq TenantPcs \cap RunPcs
        /\ {"spawn", "await", "kill"} \cup ApiPcs \subseteq RunPcs
        /\ "wait" \in TenantPcs
    BY Phases DEF ApiPcs, ConfigPcs
  <1>1. ASSUME NEW n \in Names, NEW boot \in BootKinds, NEW ports \in PortChoices,
               RunBegin(p, n, boot, ports)
        PROVE  XInv'
    BY <1>1, BeginKeepsX
  <1>2. ASSUME NEW n \in Names, RmProbe(p, n) PROVE XInv'
    BY <1>2, ProbeKeepsX
  <1>3. CASE RunDisk(p) \/ RunDiskFails(p)
    BY <1>3, DiskKeepsX
  <1>4. CASE RunSpawn(p)
    BY <1>4, SpawnKeepsX
  <1>5. CASE RunSpawnFails(p) \/ RunAwait(p) \/ RunAwaitTimeout(p) \/ RunRefused(p)
    <2>1. PICK pc \in {"load", "boot-source", "kill", "unsock"} :
              Goto(p, pc) /\ (pc \in {"load", "boot-source"} => call[p].pc = "await")
      BY <1>5 DEF RunSpawnFails, RunAwait, RunAwaitTimeout, RunRefused
    <2>2. call[p].pc \in RunPcs /\ UNCHANGED <<vmm, sock, dir>>
      BY <1>5, <1>p DEF RunSpawnFails, RunAwait, RunAwaitTimeout, RunRefused
    <2> QED BY <2>1, <2>2, GotoKeepsX
  <1>6. CASE RunConfigure(p)
    <2>1. /\ call[p].pc \in ConfigItems /\ call[p].pc \in ApiPcs
          /\ AfterConfig(call[p].pc) \in ApiPcs
          /\ AfterConfig(call[p].pc) \in {"network", "machine", "start", "resume", "save"} =>
                call[p].pc = "drive" \/ call[p].pc \in {"network", "machine"}
      BY <1>6 DEF RunConfigure, ConfigItems, ApiPcs, ConfigPcs, AfterConfig
    <2>2. /\ SameProcess(vmm[Peer(p)], Configured(vmm[Peer(p)], call[p].pc))
          /\ Listening(vmm[Peer(p)]) /\ Peer(p) \in Insts /\ ~Booted(vmm[Peer(p)])
      BY <1>6, <2>1, EffectsSame DEF RunConfigure, IInv, CanConfigure, Listening, Booted
    <2>3. call[p].own = Peer(p) /\ Peer(p) # NoInst
      BY <1>p, <2>1, <2>2, PeerIsOwn, BlanksAssumption
    <2>4. call[p].pc \in {"network", "machine"} => vmm[Peer(p)].disk = "intact"
      BY <1>0, <2>3 DEF Stage
    <2>5. /\ vmm[Peer(p)].disk = "intact" => Configured(vmm[Peer(p)], call[p].pc).disk = "intact"
          /\ call[p].pc = "drive" => Configured(vmm[Peer(p)], call[p].pc).disk = "intact"
      BY <1>0, <2>2 DEF Configured, Vmm
    <2>6. AfterConfig(call[p].pc) # "save"
      BY <2>1 DEF ConfigItems, AfterConfig
    <2> QED BY <1>6, <1>p, <2>1, <2>2, <2>4, <2>5, <2>6, AnsweredKeepsX DEF RunConfigure
  <1>7. CASE RunStart(p)
    <2>1. /\ SameProcess(vmm[Peer(p)], Started(vmm[Peer(p)])) /\ Peer(p) \in Insts
          /\ Listening(vmm[Peer(p)]) /\ call[p].pc = "start" /\ call[p].pc \in ApiPcs
      BY <1>7, EffectsSame DEF RunStart, IInv, CanStart, Listening, ApiPcs
    <2>2. call[p].own = Peer(p) /\ Peer(p) # NoInst
      BY <1>p, <2>1, PeerIsOwn, BlanksAssumption
    <2>3. Booted(Started(vmm[Peer(p)])) /\ Started(vmm[Peer(p)]).disk = "intact"
      BY <1>0, <2>1, <2>2 DEF Started, Stage, Booted, Vmm
    <2> QED BY <1>7, <1>p, <2>1, <2>3, AnsweredKeepsX DEF RunStart
  <1>8. CASE RunLoad(p)
    <2>1. /\ SameProcess(vmm[Peer(p)], Loaded(vmm[Peer(p)])) /\ Peer(p) \in Insts
          /\ Listening(vmm[Peer(p)]) /\ call[p].pc \in ApiPcs /\ "patch" \in ApiPcs
          /\ ~Booted(vmm[Peer(p)]) /\ CanLoad(vmm[Peer(p)])
      BY <1>8, EffectsSame DEF RunLoad, IInv, CanLoad, Listening, ApiPcs, Booted
    <2>2. call[p].pc = "load"
      BY <1>8 DEF RunLoad
    <2> QED BY <1>8, <1>p, <2>1, <2>2, AnsweredKeepsX DEF RunLoad
  <1>9. CASE RunPatch(p)
    <2>1. /\ SameProcess(vmm[Peer(p)], Patched(vmm[Peer(p)])) /\ Peer(p) \in Insts
          /\ Listening(vmm[Peer(p)]) /\ call[p].pc \in ApiPcs /\ "resume" \in ApiPcs
      BY <1>9, EffectsSame DEF RunPatch, IInv, Booted, Listening, ApiPcs
    <2>2. Patched(vmm[Peer(p)]).disk = "intact"
          /\ (Booted(vmm[Peer(p)]) => Booted(Patched(vmm[Peer(p)])))
      BY <1>0, <2>1 DEF Patched, Booted, Vmm
    <2> QED BY <1>9, <1>p, <2>1, <2>2, AnsweredKeepsX DEF RunPatch
  <1>10. CASE RunResume(p)
    <2>1. /\ SameProcess(vmm[Peer(p)], Resumed(vmm[Peer(p)])) /\ Peer(p) \in Insts
          /\ Listening(vmm[Peer(p)]) /\ call[p].pc = "resume" /\ call[p].pc \in ApiPcs
      BY <1>10, EffectsSame DEF RunResume, IInv, Booted, Listening, ApiPcs
    <2>2. call[p].own = Peer(p) /\ Peer(p) # NoInst
      BY <1>p, <2>1, PeerIsOwn, BlanksAssumption
    <2>3. Booted(Resumed(vmm[Peer(p)])) /\ Resumed(vmm[Peer(p)]).disk = "intact"
      BY <1>0, <2>1, <2>2 DEF Resumed, Stage, Booted, Vmm
    <2> QED BY <1>10, <1>p, <2>1, <2>3, AnsweredKeepsX DEF RunResume
  <1>11. CASE HandleStop(p)
    <2>1. /\ SameProcess(vmm[Peer(p)], Signalled(vmm[Peer(p)])) /\ Peer(p) \in Insts
          /\ Listening(vmm[Peer(p)]) /\ call[p].pc = "wait"
      BY <1>11, EffectsSame DEF HandleStop, IInv, Booted, Listening
    <2>2. /\ Signalled(vmm[Peer(p)]).disk = vmm[Peer(p)].disk
          /\ Signalled(vmm[Peer(p)]).state = vmm[Peer(p)].state
      BY <1>0, <2>1 DEF Signalled, Vmm
    <2> QED BY <1>11, <1>p, <2>1, <2>2, AnsweredKeepsX DEF HandleStop, Booted
  <1>12. ASSUME NEW attached \in BOOLEAN, RunSave(p, attached) PROVE XInv'
    BY <1>12, SaveKeepsX
  <1>13. CASE RunKill(p)
    <2>1. CASE call[p].own = NoInst
      <3>1. Goto(p, "unsock") /\ UNCHANGED <<vmm, sock, dir>> /\ call[p].pc \in RunPcs
        BY <1>13, <1>p, <2>1 DEF RunKill
      <3> QED BY <3>1, GotoKeepsX
    <2>2. CASE call[p].own # NoInst
      <3>1. /\ call[p].own \in Insts /\ vmm' = VmmAfterExit(call[p].own) /\ dir' = dir
            /\ sock' = SockAfterExit(call[p].own) /\ call[p].pc = "kill"
            /\ call' = [CallAfterExit(call[p].own) EXCEPT ![p].pc = "unsock"]
        BY <1>0, <1>13, <2>2 DEF RunKill
      <3>2. ASSUME NEW q \in Callers
            PROVE  /\ call'[q].name = call[q].name /\ call'[q].ports = call[q].ports
                   /\ call'[q].own = IF call[q].own = call[p].own THEN NoInst ELSE call[q].own
                   /\ call'[q].conn = IF call[q].conn = call[p].own THEN NoInst ELSE call[q].conn
                   /\ call'[q].pc = IF q = p THEN "unsock" ELSE call[q].pc
        <4>1. /\ call[q] \in Call
              /\ CallAfterExit(call[p].own)[q] =
                    [call[q] EXCEPT !.own = IF @ = call[p].own THEN NoInst ELSE @,
                                    !.conn = IF @ = call[p].own THEN NoInst ELSE @]
          BY <1>0 DEF CallAfterExit
        <4> QED BY <3>1, <4>1 DEF Call, CallAfterExit
      <3> QED BY <3>1, <3>2, ExitKeepsX
    <2> QED BY <2>1, <2>2
  <1>14. CASE RunUnsock(p) \/ StartFinish(p) \/ CleanupSocket(p) \/ RmUnsock(p)
    <2>1. /\ call[p].pc \in {"unsock", "wait", "rm-unsock"} /\ call[p].own = NoInst
          /\ RemoveSocket(call[p].name) /\ vmm' = vmm /\ dir' = dir
      BY <1>0, <1>14 DEF RunUnsock, StartFinish, CleanupSocket, RmUnsock, OwnPcs, ApiPcs, ConfigPcs
    <2>2. \/ call[p].pc = "unsock" /\ Goto(p, "undisk")
          \/ call[p].pc = "wait" /\ Goto(p, "rmdir")
          \/ call[p].pc = "rm-unsock" /\ Goto(p, "rm-disk")
          \/ Done(p)
      BY <1>14 DEF RunUnsock, StartFinish, CleanupSocket, RmUnsock
    <2>3. /\ \A q \in Callers \ {p} : call'[q] = call[q]
          /\ call'[p].own = NoInst /\ call'[p].conn = NoInst
          /\ \/ /\ call'[p].name = call[p].name
                /\ \/ call[p].pc = "unsock" /\ call'[p].pc = "undisk"
                   \/ call[p].pc = "wait" /\ call'[p].pc = "rmdir"
                   \/ call[p].pc = "rm-unsock" /\ call'[p].pc = "rm-disk"
             \/ call'[p].pc \in Ready
      BY <1>0, <2>1, <2>2 DEF Goto, Done, Call, Ready
    <2>4. CallerKept(p) /\ Stage(p)'
      <3>1. PhaseKept(p)
        BY <2>3, Phases DEF PhaseKept, RmPcs
      <3> QED BY <2>1, <2>3, <3>1 DEF CallerKept, Stage, Ready, ApiPcs, ConfigPcs
    <2> QED BY <1>0, <2>1, <2>3, <2>4, UnsockStep DEF RemoveSocket
  <1>15. CASE RunUndisk(p) \/ CleanupDisk(p) \/ RmDisk(p)
    BY <1>15, UndiskStep DEF RunUndisk, CleanupDisk, RmDisk
  <1>16. CASE RmStat(p)
    <2>1. UNCHANGED <<vmm, sock, dir>> /\ (Goto(p, "rm-unsock") \/ Done(p)) /\ call[p].pc = "rm-stat"
      BY <1>16 DEF RmStat
    <2> QED BY <1>v, <2>1, GotoKeepsX, DoneKeepsX
  <1>17. CASE HandleKill(p)
    <2>1. /\ call[p].own \in Insts /\ vmm' = VmmAfterExit(call[p].own) /\ dir' = dir
          /\ sock' = SockAfterExit(call[p].own) /\ call' = CallAfterExit(call[p].own)
      BY <1>0, <1>17 DEF HandleKill
    <2>2. ASSUME NEW q \in Callers
          PROVE  /\ call'[q].name = call[q].name /\ call'[q].ports = call[q].ports
                 /\ call'[q].own = IF call[q].own = call[p].own THEN NoInst ELSE call[q].own
                 /\ call'[q].conn = IF call[q].conn = call[p].own THEN NoInst ELSE call[q].conn
                 /\ call'[q].pc = call[q].pc
      BY <1>0, <2>1 DEF CallAfterExit, Call
    <2> QED BY <2>1, <2>2, ExitKeepsX
  <1>18. CASE Crash(p)
    <2>1. \A i \in Insts : Steady(i)
      <3>1. CASE vmm' = vmm
        BY <1>v, <3>1
      <3>2. CASE vmm' # vmm
        <4>1. /\ call[p].own \in Insts
              /\ vmm' = [vmm EXCEPT ![call[p].own] = [vmm[call[p].own] EXCEPT !.owner = "none"]]
          BY <1>0, <1>18, <3>2 DEF Crash
        <4> QED BY <1>0, <4>1 DEF Steady, Fine, Vmm, Live, Listening, Booted
      <3> QED BY <3>1, <3>2
    <2> QED BY <1>18, <2>1, DoneKeepsX DEF Crash
  <1> QED
    BY <1>1, <1>2, <1>3, <1>4, <1>5, <1>6, <1>7, <1>8, <1>9, <1>10, <1>11, <1>12, <1>13,
       <1>14, <1>15, <1>16, <1>17, <1>18 DEF CallerNext, RunStep, WaitStep, RmStep

(* So does every by-name command and every step of a process. *)
LEMMA HostKeepsX ==
    ASSUME IInv, XInv, IInv',
           \/ \E n \in Names : StopVM(n) \/ PauseVM(n) \/ ResumeVM(n)
           \/ \E i \in Insts : VmmNext(i)
    PROVE  XInv'
  <1>0. /\ call \in [Callers -> Call] /\ vmm \in [Insts -> Vmm]
    BY DEF IInv, TypeOK
  <1>1. ASSUME NEW n \in Names, StopVM(n) \/ PauseVM(n) \/ ResumeVM(n)
        PROVE  XInv'
    <2>1. /\ sock[n] \in Insts /\ Booted(vmm[sock[n]]) /\ UNCHANGED <<sock, dir, call>>
          /\ \/ vmm' = [vmm EXCEPT ![sock[n]] = Signalled(vmm[sock[n]])]
             \/ vmm' = [vmm EXCEPT ![sock[n]] = Paused(vmm[sock[n]])]
             \/ vmm' = [vmm EXCEPT ![sock[n]] = Resumed(vmm[sock[n]])]
      BY <1>1 DEF StopVM, PauseVM, ResumeVM
    <2>2. \A i \in Insts : Fine(i) /\ ProcKept(i) /\ (Listening(vmm'[i]) <=> Listening(vmm[i]))
      BY <1>0, <2>1
         DEF Fine, ProcKept, Signalled, Paused, Resumed, Vmm, Booted, Listening, Live
    <2>3. \A q \in Callers : CallerKept(q) /\ Waits(q)
      BY <2>1, IdleKept
    <2> QED BY <2>1, <2>2, <2>3, KeptStep, SockKept, StagesKept, HandedKept DEF XInv
  <1>2. ASSUME NEW i \in Insts, VmmListen(i) PROVE XInv'
    BY <1>2, ListenKeepsX
  <1>3. ASSUME NEW i \in Insts, VmmExit(i) \/ GuestShutdown(i) PROVE XInv'
    <2>1. /\ vmm' = VmmAfterExit(i) /\ dir' = dir
          /\ sock' = SockAfterExit(i) /\ call' = CallAfterExit(i)
      BY <1>3 DEF VmmExit, GuestShutdown
    <2>2. ASSUME NEW q \in Callers
          PROVE  /\ call'[q].name = call[q].name /\ call'[q].ports = call[q].ports
                 /\ call'[q].own = IF call[q].own = i THEN NoInst ELSE call[q].own
                 /\ call'[q].conn = IF call[q].conn = i THEN NoInst ELSE call[q].conn
                 /\ call'[q].pc = call[q].pc
      BY <1>0, <2>1 DEF CallAfterExit, Call
    <2> QED BY <2>1, <2>2, ExitKeepsX
  <1> QED BY <1>1, <1>2, <1>3 DEF VmmNext

(* The host is empty at first. *)
LEMMA InitXInv == Init => XInv
  <1> SUFFICES ASSUME Init PROVE XInv
    OBVIOUS
  <1>1. /\ \A i \in Insts : vmm[i].state = "gone" /\ vmm[i].name = NoName
        /\ \A p \in Callers : /\ call[p].pc = "idle" /\ call[p].own = NoInst
                               /\ call[p].conn = NoInst
        /\ \A n \in Names : sock[n] = NoSock
    BY DEF Init, Blank, Idle
  <1>2. "idle" \notin TenantPcs \cup RunPcs \cup RmPcs
    BY Phases DEF RmPcs
  <1>3. Tenancy /\ OwnsAll /\ OwnMatches /\ RemovedAreDown
    BY <1>1, <1>2 DEF Tenancy, OwnsAll, OwnMatches, RemovedAreDown
  <1>4. Bound
    BY <1>1, <1>2, BlanksAssumption DEF Bound, Booted
  <1>5. Underway /\ HandedOver
    BY <1>1 DEF Underway, HandedOver, Live, ApiPcs, ConfigPcs
  <1> QED BY <1>3, <1>4, <1>5 DEF XInv

(* Every step, and stuttering, keeps the invariant. *)
LEMMA NextXInv ==
    ASSUME Exclusive, ~SlowAPI
    PROVE  (IInv /\ XInv) /\ IInv' /\ [Next]_vars => (IInv /\ XInv)'
  <1> SUFFICES ASSUME IInv, XInv, IInv', [Next]_vars PROVE XInv'
    OBVIOUS
  <1>1. ASSUME NEW p \in Callers, CallerNext(p) PROVE XInv'
    BY <1>1, CallerKeepsX
  <1>2. ASSUME \/ \E n \in Names : StopVM(n) \/ PauseVM(n) \/ ResumeVM(n)
               \/ \E i \in Insts : VmmNext(i)
        PROVE  XInv'
    BY <1>2, HostKeepsX
  <1>3. CASE UNCHANGED vars
    <2>1. \A i \in Insts : Fine(i) /\ ProcKept(i) /\ (Listening(vmm'[i]) <=> Listening(vmm[i]))
      BY <1>3 DEF vars, Fine, ProcKept
    <2>2. \A q \in Callers : CallerKept(q) /\ Waits(q)
      BY <1>3, IdleKept DEF vars
    <2> QED BY <1>3, <2>1, <2>2, KeptStep, SockKept, StagesKept, HandedKept DEF XInv, vars
  <1> QED BY <1>1, <1>2, <1>3 DEF Next

-----------------------------------------------------------------------------
(* With exclusive use of names and timely answers the invariant holds in   *)
(* every reachable state.                                                  *)
THEOREM ExclusiveInvariance ==
    ASSUME Exclusive, ~SlowAPI PROVE Spec => [](IInv /\ XInv)
  <1>1. Init => IInv /\ XInv
    BY InitIInv, InitXInv
  <1>2. IInv /\ XInv /\ [Next]_vars => (IInv /\ XInv)'
    BY NextIInv, NextXInv
  <1> QED BY <1>1, <1>2, PTL DEF Spec

-----------------------------------------------------------------------------
(* Who has been given a VM.                                                *)

(* Processes that stay the same keep their standing, *)
LEMMA SameKeepsStanding ==
    ASSUME ReturnedIsOwned, \A i \in Insts : SameProcess(vmm[i], vmm'[i])
    PROVE  ReturnedIsOwned'
  BY DEF ReturnedIsOwned, SameProcess

(* and so do those that are left when one has exited. *)
LEMMA ExitKeepsStanding ==
    ASSUME IInv, ReturnedIsOwned, NEW i \in Insts, vmm' = VmmAfterExit(i)
    PROVE  ReturnedIsOwned'
  <1>1. ~Live(vmm'[i]) /\ \A j \in Insts \ {i} : vmm'[j] = vmm[j]
    BY DEF IInv, TypeOK, VmmAfterExit, Blank, Live
  <1> QED BY <1>1 DEF ReturnedIsOwned

(* Run returns what it has started: its client can be connected to no      *)
(* other process.                                                          *)
LEMMA SaveKeepsStanding ==
    ASSUME IInv, XInv, ReturnedIsOwned, NEW p \in Callers, NEW attached \in BOOLEAN,
           RunSave(p, attached)
    PROVE  ReturnedIsOwned'
  <1>1. /\ vmm \in [Insts -> Vmm] /\ vmm' = VmmAfterReturn(p)
        /\ call[p].conn # NoInst => call[p].conn = call[p].own
    BY DEF IInv, TypeOK, RunSave, XInv, OwnMatches
  <1>2. \A j \in Insts :
          /\ vmm'[j].owner = IF j = call[p].own THEN "user" ELSE vmm[j].owner
          /\ vmm'[j].given = (vmm[j].given \/ j \in {call[p].own, call[p].conn})
          /\ Live(vmm'[j]) <=> Live(vmm[j])
    BY <1>1, ReturnEffect DEF OwnerBecomes
  <1> SUFFICES ASSUME NEW j \in Insts, Live(vmm'[j]), vmm'[j].given
               PROVE  vmm'[j].owner = "user"
    BY DEF ReturnedIsOwned
  <1>3. Live(vmm[j]) /\ (vmm[j].given \/ j \in {call[p].own, call[p].conn})
    BY <1>2, Zenon
  <1>4. CASE vmm[j].given
    BY <1>2, <1>3, <1>4 DEF ReturnedIsOwned
  <1>5. CASE j \in {call[p].own, call[p].conn}
    <2>1. j = call[p].own
      BY <1>1, <1>5, BlanksAssumption
    <2> QED BY <1>2, <2>1
  <1> QED BY <1>3, <1>4, <1>5

(* What a caller leaves behind when it dies half way was not returned. *)
LEMMA CrashKeepsStanding ==
    ASSUME IInv, ReturnedIsOwned, NEW p \in Callers, Crash(p)
    PROVE  ReturnedIsOwned'
  <1>1. CASE vmm' = vmm
    BY <1>1 DEF ReturnedIsOwned
  <1>2. CASE vmm' # vmm
    <2>1. /\ call[p].own # NoInst /\ call[p].pc # "wait" /\ call[p].own \in Insts
          /\ vmm' = [vmm EXCEPT ![call[p].own].owner = "none"]
      BY <1>2, Phases DEF Crash, IInv, TypeOK, Call
    <2>2. vmm[call[p].own].owner = "run" /\ Live(vmm[call[p].own])
      BY <2>1 DEF IInv, Holds
    <2>3. ~vmm[call[p].own].given
      BY <2>1, <2>2 DEF ReturnedIsOwned
    <2>4. /\ vmm'[call[p].own].given = vmm[call[p].own].given
          /\ \A j \in Insts \ {call[p].own} : vmm'[j] = vmm[j]
      BY <2>1 DEF IInv, TypeOK, Vmm
    <2> QED BY <2>3, <2>4 DEF ReturnedIsOwned
  <1> QED BY <1>1, <1>2

(* No step of a caller makes a VM the user's that its Run has not started. *)
LEMMA CallerKeepsStanding ==
    ASSUME IInv, XInv, ReturnedIsOwned, NEW p \in Callers, CallerNext(p)
    PROVE  ReturnedIsOwned'
  <1>v. \A v : SameProcess(v, v)
    BY DEF SameProcess
  <1>t. TypeOK /\ vmm \in [Insts -> Vmm] /\ call[p] \in Call
    BY DEF IInv, TypeOK
  <1>1. CASE vmm' = vmm
    BY <1>1 DEF ReturnedIsOwned
  <1>2. CASE RunDisk(p) \/ RunDiskFails(p) \/ RunUndisk(p) \/ RmDisk(p) \/ CleanupDisk(p)
    <2>1. vmm' = vmm \/ \E how : vmm' = DiskLost(call[p].name, how)
      BY <1>2 DEF RunDisk, RunDiskFails, RunUndisk, RmDisk, CleanupDisk, RemoveDisk
    <2> QED BY <1>t, <1>v, <2>1, EffectsSame, SameKeepsStanding
  <1>3. CASE RunSpawn(p)
    <2>1. PICK i \in Insts :
            vmm' = [vmm EXCEPT ![i] =
                      [Blank EXCEPT !.state = "spawned", !.owner = "run",
                         !.name = call[p].name,
                         !.ports = call[p].ports \cup {SSHPort[call[p].name]}]]
      BY <1>3, Zenon DEF RunSpawn
    <2>2. ~vmm'[i].given /\ \A j \in Insts \ {i} : vmm'[j] = vmm[j]
      BY <1>t, <2>1 DEF Blank
    <2> QED BY <2>2 DEF ReturnedIsOwned
  <1>4. CASE RunConfigure(p) \/ RunStart(p) \/ RunLoad(p) \/ RunPatch(p) \/ RunResume(p)
             \/ HandleStop(p)
    <2>1. PICK v : /\ Peer(p) \in Insts /\ vmm' = [vmm EXCEPT ![Peer(p)] = v]
                   /\ SameProcess(vmm[Peer(p)], v)
      <3>1. CASE RunConfigure(p)
        <4>1. call[p].pc \in ConfigItems
          BY <3>1 DEF RunConfigure, ConfigItems, ConfigPcs
        <4>2. /\ Peer(p) \in Insts
              /\ vmm' = [vmm EXCEPT ![Peer(p)] = Configured(vmm[Peer(p)], call[p].pc)]
              /\ SameProcess(vmm[Peer(p)], Configured(vmm[Peer(p)], call[p].pc))
          BY <1>t, <3>1, <4>1, EffectsSame DEF RunConfigure, Answered
        <4> QED BY <4>2
      <3>2. CASE RunStart(p)
        BY <1>t, <3>2, EffectsSame DEF RunStart, Answered
      <3>3. CASE RunLoad(p)
        BY <1>t, <3>3, EffectsSame DEF RunLoad, Answered
      <3>4. CASE RunPatch(p)
        BY <1>t, <3>4, EffectsSame DEF RunPatch, Answered
      <3>5. CASE RunResume(p)
        BY <1>t, <3>5, EffectsSame DEF RunResume, Answered
      <3>6. CASE HandleStop(p)
        BY <1>t, <3>6, EffectsSame DEF HandleStop, Answered
      <3> QED BY <1>4, <3>1, <3>2, <3>3, <3>4, <3>5, <3>6
    <2>2. \A i \in Insts : SameProcess(vmm[i], vmm'[i])
      BY <1>t, <1>v, <2>1
    <2> QED BY <2>2, SameKeepsStanding
  <1>5. CASE \E attached \in BOOLEAN : RunSave(p, attached)
    BY <1>5, SaveKeepsStanding
  <1>6. CASE RunKill(p) \/ HandleKill(p)
    <2>1. vmm' = vmm \/ (call[p].own \in Insts /\ vmm' = VmmAfterExit(call[p].own))
      BY <1>t, <1>6 DEF RunKill, HandleKill, Call
    <2> QED BY <1>1, <2>1, ExitKeepsStanding
  <1>7. CASE Crash(p)
    BY <1>7, CrashKeepsStanding
  <1>8. CASE \/ \E n \in Names, boot \in BootKinds, ports \in PortChoices :
                  RunBegin(p, n, boot, ports)
             \/ \E n \in Names : RmProbe(p, n)
             \/ RunSpawnFails(p) \/ RunAwait(p) \/ RunAwaitTimeout(p) \/ RunRefused(p)
             \/ RunUnsock(p) \/ StartFinish(p) \/ CleanupSocket(p) \/ RmStat(p) \/ RmUnsock(p)
    BY <1>1, <1>8 DEF RunBegin, RmProbe, RunSpawnFails, RunAwait, RunAwaitTimeout, RunRefused,
                      RunUnsock, StartFinish, CleanupSocket, RmStat, RmUnsock
  <1> QED BY <1>2, <1>3, <1>4, <1>5, <1>6, <1>7, <1>8
          DEF CallerNext, RunStep, WaitStep, RmStep

(* With exclusive use of names and timely answers a VM that a Run has      *)
(* returned is one it has started, for as long as it lives.                *)
THEOREM ReturnsItsOwn ==
    ASSUME Exclusive, ~SlowAPI PROVE Spec => []ReturnedIsOwned
  <1>1. Init => ReturnedIsOwned
    BY DEF Init, ReturnedIsOwned, Blank, Live
  <1>2. ReturnedIsOwned /\ IInv /\ XInv /\ [Next]_vars => ReturnedIsOwned'
    <2> SUFFICES ASSUME ReturnedIsOwned, IInv, XInv, [Next]_vars PROVE ReturnedIsOwned'
      OBVIOUS
    <2>t. TypeOK /\ vmm \in [Insts -> Vmm]
      BY DEF IInv, TypeOK
    <2>1. ASSUME NEW p \in Callers, CallerNext(p) PROVE ReturnedIsOwned'
      BY <2>1, CallerKeepsStanding
    <2>2. ASSUME NEW n \in Names, StopVM(n) \/ PauseVM(n) \/ ResumeVM(n)
          PROVE  ReturnedIsOwned'
      <3>1. /\ sock[n] \in Insts /\ Booted(vmm[sock[n]])
            /\ \/ vmm' = [vmm EXCEPT ![sock[n]] = Signalled(vmm[sock[n]])]
               \/ vmm' = [vmm EXCEPT ![sock[n]] = Paused(vmm[sock[n]])]
               \/ vmm' = [vmm EXCEPT ![sock[n]] = Resumed(vmm[sock[n]])]
        BY <2>2 DEF StopVM, PauseVM, ResumeVM
      <3>2. \A v : SameProcess(v, v)
        BY DEF SameProcess
      <3>3. \A i \in Insts : SameProcess(vmm[i], vmm'[i])
        BY <2>t, <3>1, <3>2, EffectsSame
      <3> QED BY <3>3, SameKeepsStanding
    <2>3. ASSUME NEW i \in Insts, VmmListen(i) PROVE ReturnedIsOwned'
      <3>1. /\ vmm'[i].owner = vmm[i].owner /\ vmm'[i].given = vmm[i].given /\ Live(vmm[i])
            /\ \A j \in Insts \ {i} : vmm'[j] = vmm[j]
        BY <2>t, <2>3 DEF VmmListen, Live, Vmm
      <3> QED BY <3>1 DEF ReturnedIsOwned
    <2>4. ASSUME NEW i \in Insts, VmmExit(i) \/ GuestShutdown(i) PROVE ReturnedIsOwned'
      BY <2>4, ExitKeepsStanding DEF VmmExit, GuestShutdown
    <2>5. CASE UNCHANGED vars
      BY <2>5 DEF vars, ReturnedIsOwned
    <2> QED BY <2>1, <2>2, <2>3, <2>4, <2>5 DEF Next, VmmNext
  <1> QED BY <1>1, <1>2, ExclusiveInvariance, PTL DEF Spec

(* So no failing Run kills a VM that was returned to a user, by whichever  *)
(* Run (vm.go:121-130, 329-342).                                           *)
THEOREM CleanupSparesReturned ==
    ASSUME Exclusive, ~SlowAPI PROVE Spec => FailedRunSparesReturned
  <1> DEFINE Spares ==
        \A p \in Callers, i \in Insts :
          (/\ call[p].pc = "kill" /\ call'[p].pc = "unsock"
           /\ Live(vmm[i]) /\ vmm[i].owner = "user")
              => Live(vmm'[i])
             SparesReturned ==
        \A p \in Callers, i \in Insts :
          (/\ call[p].pc = "kill" /\ call'[p].pc = "unsock"
           /\ Live(vmm[i]) /\ vmm[i].given)
              => Live(vmm'[i])
  <1>1. ReturnedIsOwned /\ [Spares]_vars => [SparesReturned]_vars
    <2>1. ReturnedIsOwned /\ Spares => SparesReturned
      BY DEF ReturnedIsOwned
    <2> HIDE DEF Spares, SparesReturned
    <2> QED BY <2>1
  <1>2. Spec => [][Spares]_vars
    BY CleanupSparesOthers DEF FailedRunSparesOthers
  <1> HIDE DEF Spares, SparesReturned
  <1>3. Spec => [][SparesReturned]_vars
    BY <1>1, <1>2, ReturnsItsOwn, PTL
  <1> QED BY <1>3 DEF SparesReturned, FailedRunSparesReturned

(* A VM that was returned answers at its own path (vm.go:93-97).           *)
THEOREM HandedOverIsReachable ==
    ASSUME Exclusive, ~SlowAPI PROVE Spec => []Reachable
  <1>1. XInv => Reachable
    BY DEF XInv, Bound, Reachable
  <1> QED BY <1>1, ExclusiveInvariance, PTL

(* It runs on its own copy of the rootfs, which nobody overwrites or       *)
(* removes under it (disk.go:19-60, vm.go:489-491).                        *)
THEOREM HandedOverKeepsDisk ==
    ASSUME Exclusive, ~SlowAPI PROVE Spec => []DiskIntact
  <1>1. XInv /\ ReturnedIsOwned => DiskIntact
    BY DEF XInv, HandedOver, ReturnedIsOwned, DiskIntact, Booted, Live
  <1> QED BY <1>1, ExclusiveInvariance, ReturnsItsOwn, PTL

(* Its ports are the remembered ones, for a restored VM as for a fresh one *)
(* (disk.go:149-165).                                                      *)
THEOREM HandedOverKeepsPorts ==
    ASSUME Exclusive, ~SlowAPI PROVE Spec => []PortsKept
  <1>1. XInv /\ ReturnedIsOwned => PortsKept
    BY DEF XInv, HandedOver, ReturnedIsOwned, PortsKept, Booted, Live
  <1> QED BY <1>1, ExclusiveInvariance, ReturnsItsOwn, PTL

-----------------------------------------------------------------------------
(* What a step does to paths, guests and data directories, as "knaller ls" *)
(* sees them.                                                              *)

(* Nothing that a peer could see of process i. *)
Unmoved(i) ==
    \/ vmm'[i].state = vmm[i].state /\ vmm'[i].name = vmm[i].name
    \/ ~Listening(vmm[i]) /\ ~Listening(vmm'[i])

MadeKept == \A n \in Names : dir'[n].made = dir[n].made
NotUp(n) == \A i \in Insts : Booted(vmm[i]) => vmm[i].name # n

Still == sock' = sock /\ MadeKept /\ \A i \in Insts : Unmoved(i)

(* A guest is booted in a directory of its own, or changes its state.      *)
Shifts(i) ==
    /\ sock' = sock /\ MadeKept /\ \A j \in Insts \ {i} : Unmoved(j)
    /\ Booted(vmm'[i]) /\ vmm'[i].name = vmm[i].name
    /\ Booted(vmm[i]) \/ (vmm[i].state = "unbooted" /\ dir[vmm[i].name].made)

(* A path is removed, or a directory made or removed, with no guest there. *)
Unsocked(n) ==
    /\ sock' = [sock EXCEPT ![n] = NoSock] /\ MadeKept
    /\ \A i \in Insts : Unmoved(i)
    /\ NotUp(n)
DirMoves(n) ==
    /\ sock' = sock /\ \A i \in Insts : Unmoved(i)
    /\ \A m \in Names \ {n} : dir'[m].made = dir[m].made
    /\ NotUp(n)

Exits(i) == vmm' = VmmAfterExit(i) /\ sock' = SockAfterExit(i) /\ dir' = dir

Effect ==
    \/ Still
    \/ \E i \in Insts : Shifts(i) \/ Exits(i) \/ VmmListen(i)
    \/ \E n \in Names : Unsocked(n) \/ DirMoves(n)

(* The start that boots its process has a data directory for it. *)
LEMMA BootEffect ==
    ASSUME IInv, XInv, NEW p \in Callers, NEW v, NEW pc, Peer(p) \in Insts,
           Answered(p, v, pc), call[p].pc \in ApiPcs, vmm[Peer(p)].state = "unbooted",
           Booted(v), v.name = vmm[Peer(p)].name
    PROVE  Shifts(Peer(p))
  <1>1. /\ call[p].own = Peer(p) /\ vmm \in [Insts -> Vmm] /\ sock' = sock /\ dir' = dir
    BY PeerIsOwn, Phases DEF IInv, TypeOK, Answered, ApiPcs, ConfigPcs
  <1>2. vmm[Peer(p)].name = call[p].name /\ dir[call[p].name].made
    BY <1>1, BlanksAssumption DEF XInv, OwnMatches, Underway
  <1>3. vmm'[Peer(p)] = v /\ \A j \in Insts \ {Peer(p)} : vmm'[j] = vmm[j]
    BY <1>1 DEF Answered
  <1> QED BY <1>1, <1>2, <1>3 DEF Shifts, MadeKept, Unmoved

(* The steps of the callers. *)
LEMMA CallerEffect ==
    ASSUME Exclusive, ~SlowAPI, IInv, XInv, NEW p \in Callers, CallerNext(p)
    PROVE  Effect
  <1>0. /\ call \in [Callers -> Call] /\ vmm \in [Insts -> Vmm] /\ dir \in [Names -> Dir]
        /\ call[p].own \in Insts \cup {NoInst}
        /\ call[p].pc # "idle" => call[p].name \in Names
        /\ call[p].own # NoInst => call[p].pc \in OwnPcs
    BY DEF IInv, TypeOK, Call, Engaged, Holds
  (* a tenant without a process, and rm, deal with a name that is not up *)
  <1>n. ASSUME \/ call[p].pc \in TenantPcs /\ call[p].own = NoInst
               \/ call[p].pc \in RmPcs
        PROVE  NotUp(call[p].name)
    BY <1>n, BlanksAssumption DEF NotUp, XInv, OwnsAll, RemovedAreDown, Booted, Live
  <1>s. ASSUME UNCHANGED <<vmm, sock, dir>> PROVE Effect
    BY <1>s DEF Effect, Still, MadeKept, Unmoved
  <1>1. ASSUME NEW n \in Names, NEW boot \in BootKinds, NEW ports \in PortChoices,
               RunBegin(p, n, boot, ports)
        PROVE  Effect
    <2>1. NotUp(n)
      BY <1>1 DEF RunBegin, MayRun, NotUp, Booted, Live
    <2> QED BY <1>1, <2>1 DEF RunBegin, RemoveSocket, Effect, Unsocked, MadeKept, Unmoved
  <1>2. CASE (\E n \in Names : RmProbe(p, n)) \/ RunSpawnFails(p) \/ RunAwait(p)
             \/ RunAwaitTimeout(p) \/ RunRefused(p) \/ RmStat(p)
    BY <1>2, <1>s DEF RmProbe, RunSpawnFails, RunAwait, RunAwaitTimeout, RunRefused, RmStat
  <1>3. CASE RunDisk(p) \/ RunDiskFails(p)
    <2>1. call[p].pc = "disk" /\ call[p].own = NoInst /\ call[p].pc \in TenantPcs
      BY <1>0, <1>3, Phases DEF RunDisk, RunDiskFails, OwnPcs, ApiPcs, ConfigPcs
    <2>2. (vmm' = vmm \/ vmm' = DiskLost(call[p].name, "overwritten")) /\ sock' = sock
      BY <1>3 DEF RunDisk, RunDiskFails
    <2>3. \A i \in Insts : Unmoved(i)
      BY <1>0, <2>2 DEF DiskLost, Unmoved, Vmm
    <2>4. \A m \in Names \ {call[p].name} : dir'[m].made = dir[m].made
      BY <1>0, <1>3 DEF RunDisk, RunDiskFails, Dir
    <2>5. DirMoves(call[p].name)
      BY <1>n, <2>1, <2>2, <2>3, <2>4 DEF DirMoves
    <2> QED BY <1>0, <2>1, <2>5 DEF Effect
  <1>4. CASE RunSpawn(p)
    <2>1. PICK i \in Insts :
            /\ ~Live(vmm[i])
            /\ vmm' = [vmm EXCEPT ![i] =
                         [Blank EXCEPT !.state = "spawned", !.owner = "run",
                            !.name = call[p].name,
                            !.ports = call[p].ports \cup {SSHPort[call[p].name]}]]
      BY <1>4, Zenon DEF RunSpawn
    <2>2. ~Listening(vmm[i]) /\ ~Listening(vmm'[i]) /\ \A j \in Insts \ {i} : vmm'[j] = vmm[j]
      BY <1>0, <2>1 DEF Blank, Live, Listening
    <2> QED BY <1>4, <2>2 DEF RunSpawn, Effect, Still, MadeKept, Unmoved
  <1>5. CASE RunConfigure(p) \/ RunPatch(p) \/ HandleStop(p)
    <2>1. PICK v \in {Configured(vmm[Peer(p)], call[p].pc), Patched(vmm[Peer(p)]),
                      Signalled(vmm[Peer(p)])} :
             /\ vmm' = [vmm EXCEPT ![Peer(p)] = v] /\ Peer(p) \in Insts
             /\ sock' = sock /\ dir' = dir
      BY <1>5 DEF RunConfigure, RunPatch, HandleStop, Answered
    <2>2. v.state = vmm[Peer(p)].state /\ v.name = vmm[Peer(p)].name
      BY <1>0, <2>1 DEF Configured, Patched, Signalled, Vmm
    <2> QED BY <1>0, <2>1, <2>2 DEF Effect, Still, MadeKept, Unmoved
  <1>6. CASE RunStart(p)
    <2>1. /\ Booted(Started(vmm[Peer(p)])) /\ Started(vmm[Peer(p)]).name = vmm[Peer(p)].name
          /\ vmm[Peer(p)].state = "unbooted" /\ call[p].pc \in ApiPcs /\ Peer(p) \in Insts
      BY <1>0, <1>6 DEF RunStart, CanStart, Started, Booted, Vmm, ApiPcs
    <2> QED BY <1>6, <2>1, BootEffect DEF RunStart, Effect
  <1>7. CASE RunLoad(p)
    <2>1. /\ Booted(Loaded(vmm[Peer(p)])) /\ Loaded(vmm[Peer(p)]).name = vmm[Peer(p)].name
          /\ vmm[Peer(p)].state = "unbooted" /\ call[p].pc \in ApiPcs /\ Peer(p) \in Insts
      BY <1>0, <1>7 DEF RunLoad, CanLoad, Loaded, Booted, Vmm, ApiPcs
    <2> QED BY <1>7, <2>1, BootEffect DEF RunLoad, Effect
  <1>8. CASE RunResume(p)
    <2>1. /\ vmm' = [vmm EXCEPT ![Peer(p)] = Resumed(vmm[Peer(p)])] /\ Peer(p) \in Insts
          /\ sock' = sock /\ dir' = dir /\ Booted(vmm[Peer(p)])
      BY <1>8 DEF RunResume, Answered
    <2>2. Booted(Resumed(vmm[Peer(p)])) /\ Resumed(vmm[Peer(p)]).name = vmm[Peer(p)].name
      BY <1>0, <2>1 DEF Resumed, Booted, Vmm
    <2>3. Shifts(Peer(p))
      BY <1>0, <2>1, <2>2 DEF Shifts, MadeKept, Unmoved
    <2> QED BY <2>1, <2>3 DEF Effect
  <1>9. ASSUME NEW attached \in BOOLEAN, RunSave(p, attached) PROVE Effect
    <2>1. \A i \in Insts : Unmoved(i)
      <3>1. vmm' = VmmAfterReturn(p)
        BY <1>9 DEF RunSave
      <3> QED BY <1>0, <3>1, ReturnEffect DEF Unmoved, OwnerBecomes
    <2>2. MadeKept
      BY <1>0, <1>9 DEF RunSave, DirAfterSave, MadeKept, Dir
    <2> QED BY <1>9, <2>1, <2>2 DEF RunSave, Effect, Still
  <1>10. CASE RunKill(p) \/ HandleKill(p)
    <2>1. CASE call[p].own = NoInst
      BY <1>10, <1>s, <2>1 DEF RunKill, HandleKill
    <2>2. CASE call[p].own # NoInst
      BY <1>0, <1>10, <2>2 DEF RunKill, HandleKill, Effect, Exits
    <2> QED BY <2>1, <2>2
  <1>11. CASE RunUnsock(p) \/ StartFinish(p) \/ CleanupSocket(p) \/ RmUnsock(p)
    <2>1. /\ call[p].pc \in {"unsock", "wait", "rm-unsock"} /\ call[p].own = NoInst
          /\ RemoveSocket(call[p].name) /\ vmm' = vmm /\ dir' = dir
      BY <1>0, <1>11 DEF RunUnsock, StartFinish, CleanupSocket, RmUnsock, OwnPcs, ApiPcs, ConfigPcs
    <2>2. NotUp(call[p].name)
      BY <1>n, <2>1 DEF TenantPcs, RunPcs, CleanupPcs, WaitPcs, RmPcs
    <2>3. Unsocked(call[p].name)
      BY <2>1, <2>2 DEF RemoveSocket, Unsocked, MadeKept, Unmoved
    <2> QED BY <1>0, <2>1, <2>3 DEF Effect
  <1>12. CASE RunUndisk(p) \/ CleanupDisk(p) \/ RmDisk(p)
    <2>1. /\ call[p].pc \in {"undisk", "rmdir", "rm-disk"} /\ call[p].own = NoInst
          /\ RemoveDisk(call[p].name) /\ sock' = sock
      BY <1>0, <1>12 DEF RunUndisk, CleanupDisk, RmDisk, OwnPcs, ApiPcs, ConfigPcs
    <2>2. NotUp(call[p].name)
      BY <1>n, <2>1 DEF TenantPcs, RunPcs, CleanupPcs, WaitPcs, RmPcs
    <2>3. \A i \in Insts : Unmoved(i)
      BY <1>0, <2>1 DEF RemoveDisk, DiskLost, Unmoved, Vmm
    <2>4. \A m \in Names \ {call[p].name} : dir'[m].made = dir[m].made
      BY <1>0, <2>1 DEF RemoveDisk
    <2>5. DirMoves(call[p].name)
      BY <2>1, <2>2, <2>3, <2>4 DEF DirMoves
    <2> QED BY <1>0, <2>1, <2>5 DEF Effect
  <1>13. CASE Crash(p)
    <2>1. \A i \in Insts : Unmoved(i)
      BY <1>0, <1>13 DEF Crash, Unmoved, Vmm
    <2> QED BY <1>13, <2>1 DEF Crash, Effect, Still, MadeKept
  <1> QED
    BY <1>1, <1>2, <1>3, <1>4, <1>5, <1>6, <1>7, <1>8, <1>9, <1>10, <1>11, <1>12, <1>13
       DEF CallerNext, RunStep, WaitStep, RmStep

(* All steps. *)
LEMMA NextEffect ==
    ASSUME Exclusive, ~SlowAPI, IInv, XInv, [Next]_vars
    PROVE  Effect
  <1>0. vmm \in [Insts -> Vmm]
    BY DEF IInv, TypeOK
  <1>1. ASSUME NEW p \in Callers, CallerNext(p) PROVE Effect
    BY <1>1, CallerEffect
  <1>2. ASSUME NEW n \in Names, StopVM(n) \/ PauseVM(n) \/ ResumeVM(n) PROVE Effect
    <2>1. /\ sock[n] \in Insts /\ Booted(vmm[sock[n]]) /\ UNCHANGED <<sock, dir>>
          /\ \/ vmm' = [vmm EXCEPT ![sock[n]] = Signalled(vmm[sock[n]])]
             \/ vmm' = [vmm EXCEPT ![sock[n]] = Paused(vmm[sock[n]])]
             \/ vmm' = [vmm EXCEPT ![sock[n]] = Resumed(vmm[sock[n]])]
      BY <1>2 DEF StopVM, PauseVM, ResumeVM
    <2>2. Shifts(sock[n])
      BY <1>0, <2>1 DEF Shifts, MadeKept, Unmoved, Signalled, Paused, Resumed, Vmm, Booted
    <2> QED BY <2>1, <2>2 DEF Effect
  <1>3. ASSUME NEW i \in Insts, VmmNext(i) PROVE Effect
    BY <1>3 DEF VmmNext, VmmExit, GuestShutdown, Effect, Exits
  <1>4. CASE UNCHANGED vars
    BY <1>4 DEF vars, Effect, Still, MadeKept, Unmoved
  <1> QED BY <1>1, <1>2, <1>3, <1>4 DEF Next

(* A booted process that lives on keeps its guest and its name. *)
LEMMA BootedStays ==
    ASSUME IInv, Effect, NEW i \in Insts, Booted(vmm[i]), Live(vmm'[i])
    PROVE  Booted(vmm'[i]) /\ vmm'[i].name = vmm[i].name
  <1>0. vmm \in [Insts -> Vmm] /\ Listening(vmm[i])
    BY DEF IInv, TypeOK, Booted, Listening
  <1>1. CASE Unmoved(i)
    BY <1>0, <1>1 DEF Unmoved, Booted
  <1>2. ASSUME NEW j \in Insts, Shifts(j) \/ Exits(j) \/ VmmListen(j), ~Unmoved(i)
        PROVE  Booted(vmm'[i]) /\ vmm'[i].name = vmm[i].name
    BY <1>0, <1>2 DEF Shifts, Exits, VmmAfterExit, VmmListen, Unmoved, Blank, Live, Booted
  <1> QED BY <1>1, <1>2 DEF Effect, Still, Unsocked, DirMoves

(* Its path is removed by nobody while it lives (vm.go:93, start.go:147):   *)
(* by the inductive invariant a path that does not lead to a live, booted   *)
(* process after a step did not lead to one that lives on before it.        *)
THEOREM HandedOverKeepsSocket ==
    ASSUME Exclusive, ~SlowAPI PROVE Spec => LiveSocketKept
  <1> DEFINE Kept == \A n \in Names, i \in Insts :
                       (sock[n] = i /\ vmm[i].given /\ Live(vmm'[i])) => sock'[n] = i
  <1>1. ASSUME IInv, XInv, ReturnedIsOwned, IInv', XInv', [Next]_vars PROVE Kept
    <2> SUFFICES ASSUME NEW n \in Names, NEW i \in Insts,
                        sock[n] = i, vmm[i].given, Live(vmm'[i])
                 PROVE  sock'[n] = i
      OBVIOUS
    <2>1. Listening(vmm[i]) /\ vmm[i].name = n
      BY <1>1 DEF XInv, Bound
    <2>2. Booted(vmm[i])
      BY <1>1, <2>1 DEF XInv, HandedOver, ReturnedIsOwned, Live, Listening
    <2>3. Booted(vmm'[i]) /\ vmm'[i].name = n
      BY <1>1, <2>1, <2>2, NextEffect, BootedStays
    <2> QED BY <1>1, <2>3 DEF XInv, Bound
  <1> HIDE DEF Kept
  <1>2. Spec => [][Kept]_vars
    BY <1>1, ExclusiveInvariance, ReturnsItsOwn, PTL DEF Spec
  <1> QED BY <1>2 DEF Kept, LiveSocketKept

(* rm gets to the data directory of no VM that is running (vm.go:464-465).  *)
THEOREM RemoveSparesRunning ==
    ASSUME Exclusive, ~SlowAPI PROVE Spec => RmSparesRunning
  <1> DEFINE Spares == \A p \in Callers, i \in Insts :
                         (call[p].pc = "rm-disk" /\ call'[p].pc = "idle"
                            /\ Booted(vmm[i]) /\ vmm[i].name = call[p].name)
                             => vmm'[i].disk = vmm[i].disk
  <1>1. XInv => Spares
    BY DEF XInv, RemovedAreDown, RmPcs
  <1> HIDE DEF Spares
  <1>2. Spec => [][Spares]_vars
    BY <1>1, ExclusiveInvariance, PTL DEF Spec
  <1> QED BY <1>2 DEF Spares, RmSparesRunning

(* A caller at the last step of cleanup() takes it or crashes. *)
LEMMA UndiskIsNext ==
    ASSUME NEW p \in Callers, call[p].pc = "undisk", CallerNext(p)
    PROVE  RunUndisk(p) \/ Crash(p)
  <1>1. ~(\E n \in Names, boot \in BootKinds, ports \in PortChoices :
                 RunBegin(p, n, boot, ports))
        /\ ~(\E n \in Names : RmProbe(p, n))
    BY DEF RunBegin, RmProbe, Ready
  <1>2. ~RunDisk(p) /\ ~RunDiskFails(p) /\ ~RunSpawn(p) /\ ~RunSpawnFails(p)
        /\ ~RunAwait(p) /\ ~RunAwaitTimeout(p)
    BY DEF RunDisk, RunDiskFails, RunSpawn, RunSpawnFails, RunAwait, RunAwaitTimeout
  <1>3. ~RunConfigure(p) /\ ~RunStart(p) /\ ~RunLoad(p) /\ ~RunPatch(p) /\ ~RunResume(p)
        /\ ~RunRefused(p)
    BY DEF RunConfigure, RunStart, RunLoad, RunPatch, RunResume, RunRefused, ApiPcs, ConfigPcs
  <1>4. ~(\E attached \in BOOLEAN : RunSave(p, attached))
        /\ ~RunUnsock(p) /\ ~RunKill(p)
    BY DEF RunSave, RunUnsock, RunKill
  <1>5. ~WaitStep(p) /\ ~RmStep(p) /\ ~HandleStop(p) /\ ~HandleKill(p)
    BY DEF WaitStep, RmStep, StartFinish, CleanupSocket, CleanupDisk, RmStat, RmUnsock,
           RmDisk, HandleStop, HandleKill
  <1> QED BY <1>1, <1>2, <1>3, <1>4, <1>5 DEF CallerNext, RunStep

(* A Run that fails after its disk was made leaves no process, no path and *)
(* no data directory of its VM (vm.go:121-130).                            *)
THEOREM FailedRunLeavesNothing ==
    ASSUME Exclusive, ~SlowAPI PROVE Spec => FailureIsClean
  <1> DEFINE Clean(p) == /\ sock'[call[p].name] = NoSock
                         /\ ~dir'[call[p].name].made
                         /\ \A i \in Insts : Live(vmm'[i]) => vmm'[i].name # call[p].name
             AllClean == \A p \in Callers :
                           (call[p].pc = "undisk" /\ call'[p].pc = "failed") => Clean(p)
  <1>1. ASSUME IInv, XInv, Next PROVE AllClean
    <2> SUFFICES ASSUME NEW p \in Callers, call[p].pc = "undisk", call'[p].pc = "failed"
                 PROVE  Clean(p)
      OBVIOUS
    <2>0. /\ TypeOK /\ call[p] \in Call /\ call[p].name \in Names
          /\ vmm \in [Insts -> Vmm] /\ dir \in [Names -> Dir]
      BY <1>1 DEF IInv, TypeOK, Engaged
    <2>1. CASE CallerNext(p)
      <3>1. CASE RunUndisk(p)
        <4>1. sock'[call[p].name] = NoSock
          BY <1>1, <3>1 DEF RunUndisk, XInv, Bound
        <4>2. ~dir'[call[p].name].made
          BY <2>0, <3>1 DEF RunUndisk, RemoveDisk, NoDir
        <4>3. call[p].own = NoInst /\ call[p].pc \in TenantPcs
          BY <1>1, Phases DEF IInv, Holds, OwnPcs, ApiPcs, ConfigPcs
        <4>4. \A i \in Insts : Live(vmm[i]) => vmm[i].name # call[p].name
          BY <1>1, <4>3, BlanksAssumption DEF XInv, OwnsAll
        <4>5. \A i \in Insts : vmm'[i].state = vmm[i].state /\ vmm'[i].name = vmm[i].name
          BY <2>0, <3>1 DEF RunUndisk, RemoveDisk, DiskLost, Vmm
        <4> QED BY <4>1, <4>2, <4>4, <4>5 DEF Live
      <3>2. CASE Crash(p)
        BY <2>0, <3>2 DEF TypeOK, Crash, Done, Idle
      <3> QED BY <2>1, <3>1, <3>2, UndiskIsNext
    <2>2. ASSUME NEW q \in Callers \ {p}, CallerNext(q) PROVE FALSE
      BY <2>0, <2>2, OthersStay
    <2>3. ASSUME NEW n \in Names, StopVM(n) \/ PauseVM(n) \/ ResumeVM(n) PROVE FALSE
      BY <2>3 DEF StopVM, PauseVM, ResumeVM
    <2>4. ASSUME NEW j \in Insts, VmmNext(j) PROVE FALSE
      <3>1. call' = call \/ call' = CallAfterExit(j)
        BY <2>4 DEF VmmNext, VmmListen, VmmExit, GuestShutdown
      <3>2. CallAfterExit(j)[p].pc = call[p].pc
        BY <2>0 DEF CallAfterExit, Call
      <3> QED BY <3>1, <3>2
    <2> QED BY <1>1, <2>1, <2>2, <2>3, <2>4 DEF Next
  <1>2. ASSUME UNCHANGED vars PROVE AllClean
    BY <1>2 DEF vars
  <1> HIDE DEF AllClean
  <1>3. IInv /\ XInv /\ [Next]_vars => [AllClean]_vars
    BY <1>1, <1>2
  <1>4. Spec => [][AllClean]_vars
    BY <1>3, ExclusiveInvariance, PTL DEF Spec
  <1> QED BY <1>4 DEF AllClean, FailureIsClean

-----------------------------------------------------------------------------
(* The refinement: every step is a permitted move of one name.             *)

(* A booted process has the data directory of its name. *)
Housed == \A i \in Insts : Booted(vmm[i]) => dir[vmm[i].name].made

LEMMA HousedKept ==
    ASSUME IInv, XInv, Housed, Effect PROVE Housed'
  <1> SUFFICES ASSUME NEW i \in Insts, Booted(vmm'[i]) PROVE dir'[vmm'[i].name].made
    BY DEF Housed
  <1>0. /\ \A j \in Insts : Live(vmm[j]) => vmm[j].name \in Names
        /\ vmm \in [Insts -> Vmm]
    BY DEF IInv, TypeOK, Named
  <1>1. ASSUME Unmoved(i) PROVE Booted(vmm[i]) /\ vmm'[i].name = vmm[i].name
    BY <1>1 DEF Unmoved, Booted, Listening
  <1>2. CASE Still
    BY <1>0, <1>1, <1>2 DEF Still, MadeKept, Housed, Booted, Live
  <1>3. ASSUME NEW j \in Insts, Shifts(j) PROVE dir'[vmm'[i].name].made
    BY <1>0, <1>1, <1>3 DEF Shifts, MadeKept, Housed, Booted, Live
  <1>4. ASSUME NEW j \in Insts, Exits(j) PROVE dir'[vmm'[i].name].made
    BY <1>0, <1>4 DEF Exits, VmmAfterExit, Blank, Housed, Booted
  <1>5. ASSUME NEW j \in Insts, VmmListen(j) PROVE dir'[vmm'[i].name].made
    BY <1>0, <1>5 DEF VmmListen, Housed, Booted, Vmm
  <1>6. ASSUME NEW n \in Names, Unsocked(n) PROVE dir'[vmm'[i].name].made
    BY <1>0, <1>1, <1>6 DEF Unsocked, MadeKept, Housed, Booted, Live
  <1>7. ASSUME NEW n \in Names, DirMoves(n) PROVE dir'[vmm'[i].name].made
    BY <1>0, <1>1, <1>7 DEF DirMoves, NotUp, Housed, Booted, Live
  <1> QED BY <1>2, <1>3, <1>4, <1>5, <1>6, <1>7 DEF Effect

(* The moves that the registry permits. *)
Permitted == {<<"absent", "stopped">>, <<"stopped", "absent">>, <<"stopped", "unbooted">>,
              <<"absent", "unbooted">>, <<"unbooted", "absent">>, <<"unbooted", "stopped">>,
              <<"unbooted", "running">>, <<"unbooted", "paused">>, <<"running", "paused">>,
              <<"paused", "running">>, <<"running", "stopped">>, <<"paused", "stopped">>}

LEMMA PermittedMoves ==
    ASSUME NEW n \in Names, \A m \in Names \ {n} : Status(m)' = Status(m),
           Status(n)' = Status(n) \/ <<Status(n), Status(n)'>> \in Permitted
    PROVE  [Registry!Next]_([m \in Names |-> Status(m)])
  <1> DEFINE st == [m \in Names |-> Status(m)]
  <1>1. CASE Status(n)' = Status(n)
    <2>1. \A m \in Names : Status(m)' = Status(m)
      BY <1>1
    <2>2. [m \in Names |-> Status(m)]' = [m \in Names |-> Status(m)]
      BY <2>1
    <2> QED BY <2>2
  <1>2. CASE <<Status(n), Status(n)'>> \in Permitted
    <2>1. st' = [st EXCEPT ![n] = Status(n)']
      OBVIOUS
    <2>2. st[n] = Status(n)
      OBVIOUS
    <2>3. \A a, b : (Status(n) = a /\ Status(n)' = b) => Registry!Move(n, a, b)
      BY <2>1, <2>2 DEF Registry!Move
    <2>4. Registry!Next
      BY <1>2, <2>3 DEF Permitted, Registry!Next, Registry!Create, Registry!Launch,
         Registry!Boot, Registry!Restore, Registry!Pause, Registry!Resume, Registry!Exit,
         Registry!Remove, Registry!Surface, Registry!Vanish
    <2> QED BY <2>4
  <1> QED BY <1>1, <1>2

(* What List reports moves as the registry permits. *)
LEMMA EffectPermitted ==
    ASSUME IInv, XInv, XInv', Housed, Effect
    PROVE  [Registry!Next]_([m \in Names |-> Status(m)])
  <1> DEFINE Same(m) == Status(m)' = Status(m)
             Goes(n) == /\ \A m \in Names \ {n} : Status(m)' = Status(m)
                        /\ Status(n)' = Status(n) \/ <<Status(n), Status(n)'>> \in Permitted
  <1>0. /\ Bound /\ Bound' /\ vmm \in [Insts -> Vmm]
        /\ sock \in [Names -> Insts \cup {NoSock, Stale}]
        /\ \A i \in Insts : Live(vmm[i]) => vmm[i].name \in Names
    BY DEF XInv, IInv, TypeOK, Named
  <1>g. ASSUME NEW n \in Names, Goes(n) PROVE [Registry!Next]_([m \in Names |-> Status(m)])
    BY <1>g, PermittedMoves
  <1>s. ASSUME \A m \in Names : Same(m) PROVE [Registry!Next]_([m \in Names |-> Status(m)])
    <2>1. [m \in Names |-> Status(m)]' = [m \in Names |-> Status(m)]
      BY <1>s
    <2> QED BY <2>1
  (* what a path that stays leads to, stays *)
  <1>k. ASSUME NEW m \in Names, sock'[m] = sock[m], dir'[m].made = dir[m].made,
               sock[m] \in Insts => Unmoved(sock[m])
        PROVE  Same(m)
    BY <1>0, <1>k DEF Status, Bound, Unmoved
  <1>1. CASE Still
    BY <1>0, <1>1, <1>k, <1>s DEF Still, MadeKept
  <1>2. ASSUME NEW i \in Insts, Shifts(i)
        PROVE  [Registry!Next]_([m \in Names |-> Status(m)])
    <2>1. PICK n \in Names : vmm[i].name = n /\ vmm'[i].name = n
      BY <1>0, <1>2 DEF Shifts, Booted, Live
    <2>2. \A m \in Names \ {n} : Same(m)
      BY <1>0, <1>2, <1>k, <2>1 DEF Shifts, MadeKept, Bound
    <2>3. CASE sock[n] = i
      <3>1. Status(n) = vmm[i].state /\ vmm[i].state \in {"unbooted", "running", "paused"}
        BY <1>2, <2>3 DEF Status, Shifts, Booted
      <3>2. Status(n)' = vmm'[i].state /\ vmm'[i].state \in {"running", "paused"}
        BY <1>2, <2>3 DEF Status, Shifts, Booted
      <3>3. Goes(n)
        BY <2>2, <3>1, <3>2 DEF Permitted
      <3> QED BY <1>g, <3>3
    <2>4. CASE sock[n] # i
      <3>1. Same(n)
        BY <1>2, <1>k, <2>4 DEF Shifts, MadeKept
      <3> QED BY <1>s, <2>2, <3>1
    <2> QED BY <2>3, <2>4
  <1>3. ASSUME NEW i \in Insts, Exits(i)
        PROVE  [Registry!Next]_([m \in Names |-> Status(m)])
    <2>1. /\ \A m \in Names : sock'[m] = IF sock[m] = i THEN Stale ELSE sock[m]
          /\ \A j \in Insts \ {i} : vmm'[j] = vmm[j]
          /\ dir' = dir
      BY <1>0, <1>3 DEF Exits, SockAfterExit, VmmAfterExit
    <2>2. ASSUME NEW m \in Names, sock[m] # i PROVE Same(m)
      BY <1>k, <2>1, <2>2 DEF Unmoved
    <2>3. ASSUME NEW n \in Names, sock[n] = i PROVE Goes(n)
      <3>1. \A m \in Names \ {n} : Same(m)
        BY <1>0, <2>2, <2>3 DEF Bound
      <3>2. /\ Status(n) = vmm[i].state /\ vmm[i].state \in {"unbooted", "running", "paused"}
            /\ vmm[i].name = n
        BY <1>0, <2>3 DEF Status, Bound, Listening
      <3>3. Status(n)' = IF dir[n].made THEN "stopped" ELSE "absent"
        BY <2>1, <2>3, BlanksAssumption DEF Status
      <3>4. vmm[i].state # "unbooted" => dir[n].made
        BY <3>2 DEF Housed, Booted
      <3> QED BY <3>1, <3>2, <3>3, <3>4 DEF Permitted
    <2>4. CASE \E n \in Names : sock[n] = i
      BY <1>g, <2>3, <2>4
    <2>5. CASE ~\E n \in Names : sock[n] = i
      BY <1>s, <2>2, <2>5
    <2> QED BY <2>4, <2>5
  <1>4. ASSUME NEW i \in Insts, VmmListen(i)
        PROVE  [Registry!Next]_([m \in Names |-> Status(m)])
    <2>0. PICK n \in Names : vmm[i].name = n
      BY <1>0, <1>4 DEF VmmListen, Live
    <2>1. /\ sock[n] = NoSock /\ sock' = [sock EXCEPT ![n] = i] /\ dir' = dir
          /\ vmm' = [vmm EXCEPT ![i] = [vmm[i] EXCEPT !.state = "unbooted"]]
          /\ vmm[i].state = "spawned"
      BY <1>4, <2>0 DEF VmmListen
    <2>2. ASSUME NEW m \in Names \ {n} PROVE Same(m)
      <3>1. sock'[m] = sock[m] /\ (sock[m] \in Insts => sock[m] # i)
        BY <1>0, <2>1 DEF Bound, Listening
      <3> QED BY <1>0, <1>k, <2>1, <3>1 DEF Unmoved
    <2>3. Status(n) \in {"stopped", "absent"}
      BY <2>1, BlanksAssumption DEF Status
    <2>4. Status(n)' = "unbooted"
      <3>1. sock'[n] = i /\ vmm'[i].state = "unbooted"
        BY <1>0, <2>1 DEF Vmm
      <3> QED BY <3>1 DEF Status
    <2>5. Goes(n)
      BY <2>2, <2>3, <2>4 DEF Permitted
    <2> QED BY <1>g, <2>5
  <1>5. ASSUME NEW n \in Names, Unsocked(n)
        PROVE  [Registry!Next]_([m \in Names |-> Status(m)])
    <2>1. \A m \in Names \ {n} : Same(m)
      BY <1>0, <1>5, <1>k DEF Unsocked, MadeKept
    <2>2. Status(n)' = IF dir[n].made THEN "stopped" ELSE "absent"
      BY <1>0, <1>5, BlanksAssumption DEF Unsocked, MadeKept, Status
    <2>3. CASE sock[n] \in Insts
      <3>1. Status(n) = "unbooted"
        BY <1>0, <1>5, <2>3 DEF Status, Bound, Unsocked, NotUp, Listening, Booted
      <3>2. Goes(n)
        BY <2>1, <2>2, <3>1 DEF Permitted
      <3> QED BY <1>g, <3>2
    <2>4. CASE sock[n] \notin Insts
      <3>1. Same(n)
        BY <2>2, <2>4 DEF Status
      <3> QED BY <1>s, <2>1, <3>1
    <2> QED BY <2>3, <2>4
  <1>6. ASSUME NEW n \in Names, DirMoves(n)
        PROVE  [Registry!Next]_([m \in Names |-> Status(m)])
    <2>1. \A m \in Names \ {n} : Same(m)
      BY <1>6, <1>k DEF DirMoves
    <2>2. CASE sock[n] \in Insts
      <3>1. Status(n)' = Status(n)
        BY <1>0, <1>6, <2>2 DEF Status, Bound, DirMoves, Unmoved
      <3> QED BY <1>s, <2>1, <3>1
    <2>3. CASE sock[n] \notin Insts
      <3>1. /\ Status(n) \in {"stopped", "absent"} /\ Status(n)' \in {"stopped", "absent"}
        BY <1>6, <2>3 DEF Status, DirMoves
      <3>2. Goes(n)
        BY <2>1, <3>1 DEF Permitted
      <3> QED BY <1>g, <3>2
    <2> QED BY <2>2, <2>3
  <1> QED BY <1>1, <1>2, <1>3, <1>4, <1>5, <1>6 DEF Effect

(* What "knaller ls" shows of a name follows the registry: no interleaving *)
(* of users who keep to exclusive use removes a VM that is up, or shows    *)
(* one as up that was not configured (vm.go:464-465, 521-524).             *)
THEOREM LifecycleImplementsRegistry ==
    ASSUME Exclusive, ~SlowAPI PROVE Spec => ImplementsRegistry
  <1>1. Init => Registry!Init
    <2> SUFFICES ASSUME Init PROVE \A n \in Names : Status(n) = "absent"
      BY DEF Registry!Init
    <2> QED BY BlanksAssumption DEF Init, Status, NoDir
  <1>2. Spec => []Housed
    <2>1. Init => Housed
      BY DEF Init, Housed, Blank, Booted
    <2>2. (IInv /\ XInv) /\ Housed /\ [Next]_vars => Housed'
      BY NextEffect, HousedKept
    <2> QED BY <2>1, <2>2, ExclusiveInvariance, PTL DEF Spec
  <1> DEFINE shown == [n \in Names |-> Status(n)]
             Step == Registry!Next
  <1>3. IInv /\ XInv /\ XInv' /\ Housed /\ [Next]_vars => [Step]_shown
    BY NextEffect, EffectPermitted
  <1>4. Spec => Registry!Spec
    BY <1>1, <1>2, <1>3, ExclusiveInvariance, PTL DEF Spec, Registry!Spec
  <1> QED BY <1>4 DEF ImplementsRegistry
=============================================================================
