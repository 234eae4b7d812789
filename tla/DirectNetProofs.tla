-------------------------- MODULE DirectNetProofs --------------------------
(***************************************************************************)
(* What holds of DirectNet for every set of names, callers and ports.      *)
(***************************************************************************)
EXTENDS DirectNet, NetDeriveProofs

-----------------------------------------------------------------------------
(* Types.                                                                  *)

(* The blank records are records of their types. *)
LEMMA DirectBlanksTyped ==
    /\ NoBox \in Box /\ NoRules \in Chain
    /\ NoPorts \in Mappings /\ Gone \in VM /\ Idle \in Job
  <1>1. 22 \in GuestPorts
    BY DEF GuestPorts
  <1>2. NoPorts \in [{} -> GuestPorts]
    BY DEF NoPorts
  <1>3. NoPorts \in Mappings
    BY <1>2 DEF Mappings
  <1>4. Gone \in VM
    BY <1>3 DEF Gone, VM
  <1>5. Idle \in Job
    BY <1>3 DEF Idle, Job
  <1> QED BY <1>3, <1>4, <1>5 DEF NoBox, Box, NoRules, Chain

(* The merged ports of two requests are host ports that users ask for. *)
LEMMA MergedTyped ==
    ASSUME NEW a \in PortLists, NEW b \in PortLists
    PROVE  AsMapping(MergeUniquePorts(a, b)) \in Mappings
  <1>1. ASSUME NEW l \in PortLists
        PROVE  /\ l \in Seq(PortMapping)
               /\ HostsOf(l) \subseteq UserPorts /\ GuestsOf(l) \subseteq GuestPorts
    <2>1. CASE l \in Fwds
      BY <2>1, FwdsAssumption DEF UserPorts, GuestPorts
    <2>2. CASE l = <<>>
      BY <2>2 DEF HostsOf, GuestsOf
    <2> QED BY <1>1, <2>1, <2>2 DEF PortLists
  <1>2. AsMapping(MergeUniquePorts(a, b))
          \in [HostsOf(a) \cup HostsOf(b) -> GuestsOf(a) \cup GuestsOf(b)]
    BY <1>1, MappingOfMerged
  <1>3. /\ HostsOf(a) \cup HostsOf(b) \in SUBSET UserPorts
        /\ GuestsOf(a) \cup GuestsOf(b) \subseteq GuestPorts
    BY <1>1
  <1> DEFINE D == HostsOf(a) \cup HostsOf(b)
             G == GuestsOf(a) \cup GuestsOf(b)
             f == AsMapping(MergeUniquePorts(a, b))
  <1> HIDE DEF D, G, f
  <1>4. f \in [D -> G] /\ D \in SUBSET UserPorts /\ G \subseteq GuestPorts
    BY <1>2, <1>3 DEF D, G, f
  <1>5. f \in [D -> GuestPorts]
    BY <1>4
  <1>6. f \in Mappings
    BY <1>4, <1>5 DEF Mappings
  <1> QED BY <1>6 DEF f

(* Mappings are functions on some of the users' ports. *)
LEMMA MappingsAre ==
    ASSUME NEW f \in Mappings
    PROVE  /\ DOMAIN f \subseteq UserPorts
           /\ \A h \in DOMAIN f : f[h] \in GuestPorts
  BY DEF Mappings

(* Each rule of hostRules is a rule for a chain. *)
LEMMA HostRulesTyped ==
    /\ DOMAIN HostRules = 1..5
    /\ \A i \in 1..5 : HostRules[i][1] \in Chains /\ HostRules[i][2] \in Rules
  BY DEF HostRules, Chains, Rules

(* What the steps of a job do to it and to the box of its name. *)
LEMMA GotoEffect ==
    ASSUME DirectTypeOK, NEW p \in Callers, NEW pc, Goto(p, pc)
    PROVE  \A q \in Callers :
              /\ job'[q].pc = IF q = p THEN pc ELSE job[q].pc
              /\ job'[q].name = job[q].name
              /\ job'[q].fwd = job[q].fwd
              /\ job'[q].rule = job[q].rule
              /\ job'[q].todo = job[q].todo
  BY DEF DirectTypeOK, Goto, Job

LEMMA ReturnEffect ==
    ASSUME DirectTypeOK, NEW p \in Callers, Return(p)
    PROVE  \A q \in Callers : job'[q] = IF q = p THEN Idle ELSE job[q]
  BY DEF DirectTypeOK, Return

LEMMA GotoTyped ==
    ASSUME DirectTypeOK, NEW p \in Callers,
           NEW pc \in {"idle"} \cup SetupPcs \cup BootPcs \cup TeardownPcs, Goto(p, pc)
    PROVE  job' \in [Callers -> Job]
  BY DEF DirectTypeOK, Goto, Job

LEMMA SetBoxEffect ==
    ASSUME DirectTypeOK, NEW p \in Callers, job[p].name \in Names, NEW b, SetBox(p, b)
    PROVE  \A n \in Names : box'[n] = IF n = job[p].name THEN b ELSE box[n]
  BY DEF DirectTypeOK, SetBox

LEMMA SetBoxTyped ==
    ASSUME DirectTypeOK, NEW p \in Callers, NEW b, SetBox(p, b),
           job[p].name \in Names => b \in Box
    PROVE  box' \in [Names -> Box]
  BY DEF DirectTypeOK, SetBox

(* A target is one of a name and a guest port. *)
LEMMA TargetTyped ==
    ASSUME NEW n \in Names, NEW g \in GuestPorts
    PROVE  [ip |-> VethGuestIP(Idx[n]), port |-> g] \in Target
  BY DEF Target

LEMMA AppendedTyped ==
    ASSUME DirectTypeOK, NEW h, NEW t, h \in HostPorts => t \in Target
    PROVE  Appended(h, t) \in [HostPorts -> Target \cup {NoTarget}]
  BY DEF DirectTypeOK, Appended

(* Whoever is busy is so with a name. *)
LEMMA BusyNamed ==
    ASSUME DirectTypeOK, JobInv, NEW p \in Callers, job[p].pc # "idle"
    PROVE  job[p].name \in Names
  BY DEF DirectTypeOK, JobInv, Job

(* Every step keeps the types. *)
LEMMA DirectTypeStep ==
    ASSUME DirectTypeOK, JobInv, [Next]_vars
    PROVE  DirectTypeOK'
  <1> USE DirectBlanksTyped
  <1> DEFINE Pcs == {"idle"} \cup SetupPcs \cup BootPcs \cup TeardownPcs
  <1>0. /\ box \in [Names -> Box] /\ vm \in [Names -> VM]
        /\ chain \in [Chains -> Chain]
        /\ dnat \in [HostPorts -> Target \cup {NoTarget}]
        /\ job \in [Callers -> Job] /\ last \in [Chains -> Callers \cup {Nobody}]
    BY DEF DirectTypeOK
  <1>a. ASSUME NEW p \in Callers, Return(p) PROVE job' \in [Callers -> Job]
    BY <1>a, <1>0 DEF Return
  <1>b. ASSUME NEW p \in Callers, NEW f \in Mappings, NEW n \in Names, NEW pc \in Pcs
        PROVE  [Idle EXCEPT !.pc = pc, !.name = n, !.fwd = f] \in Job
    BY DEF Idle, Job
  <1>1. ASSUME NEW p \in Callers, NEW n \in Names, NEW r \in PortLists, NEW a \in PortLists,
               RunDirect(p, n, r, a)
        PROVE DirectTypeOK'
    <2>1. job' \in [Callers -> Job]
      BY <1>1, <1>0, <1>b, MergedTyped DEF RunDirect, SetupPcs
    <2> QED BY <1>1, <1>0, <2>1 DEF RunDirect, DirectTypeOK
  <1>2. ASSUME NEW p \in Callers, NEW n \in Names, Teardown(p, n) PROVE DirectTypeOK'
    <2>1. [Idle EXCEPT !.pc = "td-ns", !.name = n] \in Job
      BY DEF Idle, Job, TeardownPcs
    <2> QED BY <1>2, <1>0, <2>1 DEF Teardown, DirectTypeOK
  <1>3. ASSUME NEW p \in Callers, DelNetns(p) \/ TdNetns(p) PROVE DirectTypeOK'
    <2>1. job[p].name \in Names => WithoutNetns(box[job[p].name]) \in Box
      BY <1>0 DEF WithoutNetns, Box
    <2>2. box' \in [Names -> Box]
      BY <1>3, <2>1, SetBoxTyped DEF DelNetns, TdNetns
    <2>3. job' \in [Callers -> Job]
      BY <1>3, GotoTyped DEF DelNetns, TdNetns, SetupPcs, TeardownPcs
    <2> QED BY <1>3, <1>0, <2>2, <2>3 DEF DelNetns, TdNetns, DirectTypeOK
  <1>4. ASSUME NEW p \in Callers, DelVeth(p) \/ TdVeth(p) PROVE DirectTypeOK'
    <2>1. job[p].name \in Names => [box[job[p].name] EXCEPT !.veth = "none"] \in Box
      BY <1>0 DEF Box
    <2>2. box' \in [Names -> Box]
      BY <1>4, <2>1, SetBoxTyped DEF DelVeth, TdVeth
    <2>3. job' \in [Callers -> Job]
      BY <1>4, <1>a, GotoTyped DEF DelVeth, TdVeth, SetupPcs
    <2> QED BY <1>4, <1>0, <2>2, <2>3 DEF DelVeth, TdVeth, DirectTypeOK
  <1>5. ASSUME NEW p \in Callers, AddNetns(p) \/ AddVeth(p) PROVE DirectTypeOK'
    <2>1. job[p].name \in Names =>
            /\ [box[job[p].name] EXCEPT !.netns = TRUE] \in Box
            /\ [box[job[p].name] EXCEPT !.veth = "made"] \in Box
      BY <1>0 DEF Box
    <2>2. box' \in [Names -> Box]
      BY <1>5, <2>1, SetBoxTyped DEF AddNetns, AddVeth
    <2>3. job' \in [Callers -> Job]
      BY <1>5, GotoTyped DEF AddNetns, AddVeth, SetupPcs
    <2> QED BY <1>5, <1>0, <2>2, <2>3 DEF AddNetns, AddVeth, DirectTypeOK
  <1>6. ASSUME NEW p \in Callers, Wire(p) \/ WireFails(p) PROVE DirectTypeOK'
    <2>1. {22} \cup {job[p].fwd[h] : h \in DOMAIN job[p].fwd} \subseteq GuestPorts
      <3>1. job[p].fwd \in Mappings
        BY <1>0 DEF Job
      <3> QED BY <3>1, MappingsAre DEF GuestPorts
    <2>2. \A nat \in SUBSET GuestPorts, veth \in {"made", "moved", "up"} :
            job[p].name \in Names =>
                [box[job[p].name] EXCEPT !.veth = veth, !.nat = nat] \in Box
      BY <1>0 DEF Box
    <2>3. CASE Wire(p)
      <3>1. box' \in [Names -> Box]
        BY <2>1, <2>2, <2>3, SetBoxTyped, Zenon DEF Wire
      <3>2. job' \in [Callers -> Job]
        BY <2>3, GotoTyped DEF Wire, SetupPcs
      <3> QED BY <2>3, <1>0, <3>1, <3>2 DEF Wire, DirectTypeOK
    <2>4. CASE WireFails(p)
      <3>1. PICK veth \in {"made", "moved", "up"},
                 nat \in SUBSET ({22} \cup {job[p].fwd[h] : h \in DOMAIN job[p].fwd}) :
              SetBox(p, [box[job[p].name] EXCEPT !.veth = veth, !.nat = nat])
        BY <2>4, Zenon DEF WireFails
      <3>2. box' \in [Names -> Box]
        BY <3>1, <2>1, <2>2, SetBoxTyped, Zenon
      <3> QED BY <2>4, <1>0, <1>a, <3>2 DEF WireFails, DirectTypeOK
    <2> QED BY <1>6, <2>3, <2>4
  <1>7. ASSUME NEW p \in Callers, FlushForward(p) \/ FlushInput(p) PROVE DirectTypeOK'
    <2>1. job' \in [Callers -> Job]
      BY <1>7, <1>0, GotoTyped DEF FlushForward, FlushInput, SetupPcs, Job
    <2> QED BY <1>7, <1>0, <2>1 DEF FlushForward, FlushInput, Flush, DirectTypeOK
  <1>8. ASSUME NEW p \in Callers, AddRule(p) PROVE DirectTypeOK'
    <2>1. job[p].rule \in 1..5
      BY <1>0 DEF Job
    <2>2. ASSUME NEW c \in Chain, NEW r \in Rules PROVE WithRule(c, r) \in Chain
      BY <2>2 DEF WithRule, Chain
    <2>3. chain' \in [Chains -> Chain]
      BY <1>8, <1>0, <2>1, <2>2, HostRulesTyped DEF AddRule
    <2>4. job' \in [Callers -> Job]
      <3>1. CASE job[p].rule = 5
        BY <1>8, <1>0, <3>1 DEF AddRule, SetupPcs, Job
      <3>2. CASE job[p].rule # 5
        <4>1. job' = [job EXCEPT ![p].rule = @ + 1]
          BY <1>8, <3>2 DEF AddRule
        <4>2. job[p].rule + 1 \in 1..5
          BY <2>1, <3>2
        <4>3. [job[p] EXCEPT !.rule = job[p].rule + 1] \in Job
          BY <1>0, <4>2 DEF Job
        <4> QED BY <4>1, <4>3, <1>0
      <3> QED BY <3>1, <3>2
    <2> QED BY <1>8, <1>0, <2>3, <2>4 DEF AddRule, DirectTypeOK
  <1>9. ASSUME NEW p \in Callers, MapSSH(p) PROVE DirectTypeOK'
    <2>1. DOMAIN job[p].fwd \subseteq UserPorts
      <3>1. job[p].fwd \in Mappings
        BY <1>0 DEF Job
      <3> QED BY <3>1, MappingsAre
    <2>2. \A todo \in SUBSET UserPorts, pc \in {"spawn", "ports"} :
            [job[p] EXCEPT !.pc = pc, !.todo = todo] \in Job
      BY <1>0 DEF Job, SetupPcs, BootPcs
    <2>3. job' \in [Callers -> Job]
      BY <1>9, <1>0, <2>1, <2>2 DEF MapSSH
    <2>4. dnat' \in [HostPorts -> Target \cup {NoTarget}]
      <3>1. job[p].name \in Names
        BY <1>9, BusyNamed DEF MapSSH
      <3>2. SshTarget(job[p].name) \in Target
        BY <3>1, TargetTyped DEF SshTarget, GuestPorts
      <3> QED BY <1>9, <3>2, AppendedTyped DEF MapSSH
    <2> QED BY <1>9, <1>0, <2>3, <2>4 DEF MapSSH, DirectTypeOK
  <1>10. ASSUME NEW p \in Callers, MapPort(p) PROVE DirectTypeOK'
    <2>1. PICK h \in job[p].todo :
            /\ dnat' = Appended(h, [ip |-> VethGuestIP(Idx[job[p].name]),
                                     port |-> job[p].fwd[h]])
            /\ job' = [job EXCEPT ![p].pc = IF job[p].todo = {h} THEN "spawn" ELSE "ports",
                                   ![p].todo = @ \ {h}]
      BY <1>10 DEF MapPort
    <2>2. \A pc \in {"spawn", "ports"} :
            [job[p] EXCEPT !.pc = pc, !.todo = job[p].todo \ {h}] \in Job
      BY <1>0 DEF Job, SetupPcs, BootPcs
    <2>3. job' \in [Callers -> Job]
      BY <1>0, <2>1, <2>2
    <2>4. job[p].name \in Names
      BY <1>10, BusyNamed DEF MapPort
    <2>5. job[p].fwd[h] \in GuestPorts
      BY <1>0, MappingsAre DEF Job, JobInv
    <2>6. dnat' \in [HostPorts -> Target \cup {NoTarget}]
      BY <2>1, <2>4, <2>5, TargetTyped, AppendedTyped
    <2> QED BY <1>10, <1>0, <2>3, <2>6 DEF MapPort, DirectTypeOK
  <1>11. ASSUME NEW p \in Callers, SetupFails(p) \/ Crash(p) PROVE DirectTypeOK'
    <2>1. last' \in [Chains -> Callers \cup {Nobody}]
      BY <1>11, <1>0 DEF SetupFails, Crash, LastAfter
    <2> QED BY <1>11, <1>0, <1>a, <2>1 DEF SetupFails, Crash, DirectTypeOK
  <1>12. ASSUME NEW p \in Callers, Spawn(p) \/ SpawnFails(p) PROVE DirectTypeOK'
    <2>1. job' \in [Callers -> Job]
      BY <1>12, GotoTyped DEF Spawn, SpawnFails, BootPcs, TeardownPcs
    <2>2. [state |-> "spawned", fwd |-> job[p].fwd] \in VM
      BY <1>0 DEF VM, Job
    <2>3. vm' \in [Names -> VM]
      BY <1>12, <1>0, <2>2 DEF Spawn, SpawnFails
    <2> QED BY <1>12, <1>0, <2>1, <2>3 DEF Spawn, SpawnFails, DirectTypeOK
  <1>13. ASSUME NEW p \in Callers, Boot(p) \/ BootFails(p) PROVE DirectTypeOK'
    <2>1. job' \in [Callers -> Job]
      BY <1>13, <1>a, GotoTyped DEF Boot, BootFails, TeardownPcs
    <2>2. vm' \in [Names -> VM]
      BY <1>13, <1>0 DEF Boot, BootFails, VM
    <2> QED BY <1>13, <1>0, <2>1, <2>2 DEF Boot, BootFails, DirectTypeOK
  <1>14. ASSUME NEW n \in Names, VmExit(n) PROVE DirectTypeOK'
    BY <1>14, <1>0 DEF VmExit, DirectTypeOK
  <1>15. CASE UNCHANGED vars
    BY <1>15, <1>0 DEF vars, DirectTypeOK
  <1> QED
    BY <1>1, <1>2, <1>3, <1>4, <1>5, <1>6, <1>7, <1>8, <1>9, <1>10, <1>11, <1>12,
       <1>13, <1>14, <1>15 DEF Next, SetupStep, BootStep, TeardownStep

-----------------------------------------------------------------------------
(* Nobody else works for a name.                                           *)

(* What each step does to the jobs, as far as JobInv is concerned. *)
LEMMA JobStep ==
    ASSUME DirectTypeOK, JobInv, [Next]_vars
    PROVE  JobInv'
  <1>0. job \in [Callers -> Job]
    BY DEF DirectTypeOK
  <1>a. ASSUME NEW p \in Callers, NEW pc, pc # "idle", job[p].pc # "idle", Goto(p, pc)
        PROVE  JobInv'
    BY <1>a, GotoEffect DEF JobInv
  <1>b. ASSUME NEW p \in Callers, Return(p) PROVE JobInv'
    <2>1. Idle.pc = "idle" /\ Idle.name = NoName /\ Idle.todo = {}
      BY DEF Idle
    <2> QED BY <1>b, <2>1, ReturnEffect DEF JobInv
  <1>c. ASSUME NEW p \in Callers, NEW n \in Names, Unused(n), NEW j,
               j.pc # "idle", j.name = n, j.todo = {}, job' = [job EXCEPT ![p] = j]
        PROVE  JobInv'
    <2>1. \A q \in Callers : job'[q] = IF q = p THEN j ELSE job[q]
      BY <1>c, <1>0
    <2>2. n # NoName
      BY DirectBlanksAssumption
    <2> QED BY <1>c, <2>1, <2>2 DEF JobInv, Unused
  <1>1. ASSUME NEW p \in Callers, NEW n \in Names, NEW r \in PortLists, NEW a \in PortLists,
               RunDirect(p, n, r, a)
        PROVE JobInv'
    <2> DEFINE j == [Idle EXCEPT !.pc = "del-ns", !.name = n,
                                 !.fwd = AsMapping(MergeUniquePorts(r, a))]
    <2>1. j.pc = "del-ns" /\ j.name = n /\ j.todo = {}
      BY DEF Idle
    <2> QED BY <1>1, <2>1, <1>c DEF RunDirect
  <1>2. ASSUME NEW p \in Callers, NEW n \in Names, Teardown(p, n) PROVE JobInv'
    <2> DEFINE j == [Idle EXCEPT !.pc = "td-ns", !.name = n]
    <2>1. j.pc = "td-ns" /\ j.name = n /\ j.todo = {}
      BY DEF Idle
    <2> QED BY <1>2, <2>1, <1>c DEF Teardown
  <1>3. ASSUME NEW p \in Callers,
               DelNetns(p) \/ DelVeth(p) \/ AddNetns(p) \/ AddVeth(p) \/ Wire(p)
                 \/ FlushForward(p) \/ Spawn(p) \/ SpawnFails(p) \/ BootFails(p) \/ TdNetns(p)
        PROVE  JobInv'
    BY <1>3, <1>a DEF DelNetns, DelVeth, AddNetns, AddVeth, Wire, FlushForward, Spawn,
                      SpawnFails, BootFails, TdNetns
  <1>4. ASSUME NEW p \in Callers,
               WireFails(p) \/ SetupFails(p) \/ Boot(p) \/ TdVeth(p) \/ Crash(p)
        PROVE  JobInv'
    BY <1>4, <1>b, Zenon DEF WireFails, SetupFails, Boot, TdVeth, Crash
  <1>5. ASSUME NEW p \in Callers, FlushInput(p) \/ AddRule(p) \/ MapSSH(p) \/ MapPort(p)
        PROVE  JobInv'
    <2>0. job[p] \in Job
      BY <1>0
    <2> DEFINE Keeps(j) == /\ j.name = job[p].name /\ j.fwd = job[p].fwd /\ j.pc # "idle"
                           /\ j.todo \subseteq DOMAIN job[p].fwd
    <2>1. job[p].pc # "idle" /\ job[p].todo \subseteq DOMAIN job[p].fwd
      BY <1>5 DEF FlushInput, AddRule, MapSSH, MapPort, JobInv
    <2>2. ASSUME NEW j, Keeps(j), job' = [job EXCEPT ![p] = j] PROVE JobInv'
      <3>1. \A q \in Callers : job'[q] = IF q = p THEN j ELSE job[q]
        BY <2>2, <1>0
      <3> QED BY <3>1, <2>1, <2>2 DEF JobInv
    <2>3. CASE FlushInput(p)
      <3>1. Keeps([job[p] EXCEPT !.pc = "rule", !.rule = 1])
        BY <2>0, <2>1 DEF Job
      <3> QED BY <2>3, <3>1, <2>2 DEF FlushInput
    <2>4. CASE AddRule(p)
      <3>1. Keeps([job[p] EXCEPT !.pc = "ssh"])
        BY <2>0, <2>1 DEF Job
      <3>2. Keeps([job[p] EXCEPT !.rule = job[p].rule + 1])
        BY <2>0, <2>1 DEF Job
      <3> QED BY <2>4, <3>1, <3>2, <2>2 DEF AddRule
    <2>5. CASE MapSSH(p)
      <3>1. \A pc \in {"spawn", "ports"} :
              Keeps([job[p] EXCEPT !.pc = pc, !.todo = DOMAIN job[p].fwd])
        BY <2>0, <2>1 DEF Job
      <3> QED BY <2>5, <3>1, <2>2 DEF MapSSH
    <2>6. CASE MapPort(p)
      <3>1. \A h : \A pc \in {"spawn", "ports"} :
              Keeps([job[p] EXCEPT !.pc = pc, !.todo = job[p].todo \ {h}])
        BY <2>0, <2>1 DEF Job
      <3>2. PICK h \in job[p].todo :
              job' = [job EXCEPT ![p].pc = IF job[p].todo = {h} THEN "spawn" ELSE "ports",
                                 ![p].todo = @ \ {h}]
        BY <2>6, Zenon DEF MapPort
      <3> QED BY <3>1, <3>2, <2>2
    <2> QED BY <1>5, <2>3, <2>4, <2>5, <2>6
  <1>6. CASE UNCHANGED job
    BY <1>6 DEF JobInv
  <1> QED
    BY <1>1, <1>2, <1>3, <1>4, <1>5, <1>6
    DEF Next, SetupStep, BootStep, TeardownStep, VmExit, vars

LEMMA JobInvariance == Spec => [](DirectTypeOK /\ JobInv)
  <1>1. Init => DirectTypeOK /\ JobInv
    <2>1. ASSUME Init PROVE DirectTypeOK
      BY <2>1, DirectBlanksTyped DEF Init, DirectTypeOK
    <2>2. ASSUME Init PROVE JobInv
      BY <2>2 DEF Init, JobInv, Idle
    <2> QED BY <2>1, <2>2
  <1>2. DirectTypeOK /\ JobInv /\ [Next]_vars => (DirectTypeOK /\ JobInv)'
    BY DirectTypeStep, JobStep
  <1> QED BY <1>1, <1>2, PTL DEF Spec

(* Every variable keeps its type. *)
THEOREM DirectTypeCorrect == Spec => []DirectTypeOK
  BY JobInvariance, PTL

-----------------------------------------------------------------------------
(* The box of a name.                                                      *)

(* Whatever a caller does leaves the jobs of the others alone. *)
LEMMA OthersJobs ==
    ASSUME DirectTypeOK, NEW p \in Callers,
           \/ \E n \in Names, r, a \in PortLists : RunDirect(p, n, r, a)
           \/ \E n \in Names : Teardown(p, n)
           \/ SetupStep(p) \/ BootStep(p) \/ TeardownStep(p) \/ Crash(p)
    PROVE  \A q \in Callers : q # p => job'[q] = job[q]
  <1>1. \E j : job' = [job EXCEPT ![p] = j]
    BY Zenon DEF RunDirect, Teardown, SetupStep, BootStep, TeardownStep, Crash, Goto, Return,
           DelNetns, DelVeth, AddNetns, AddVeth, Wire, WireFails, FlushForward, FlushInput,
           AddRule, MapSSH, MapPort, SetupFails, Spawn, SpawnFails, Boot, BootFails,
           TdNetns, TdVeth
  <1>2. PICK j : job' = [job EXCEPT ![p] = j]
    BY <1>1
  <1>3. job \in [Callers -> Job]
    BY DEF DirectTypeOK
  <1>4. ASSUME NEW q \in Callers, q # p PROVE job'[q] = job[q]
    BY <1>2, <1>3, <1>4
  <1> QED BY <1>4, Zenon

(* Adding the DNAT rules changes nothing in a job but where it is and what *)
(* is left to do.                                                          *)
LEMMA MapEffect ==
    ASSUME DirectTypeOK, NEW p \in Callers, MapSSH(p) \/ MapPort(p)
    PROVE  job'[p].name = job[p].name /\ job'[p].pc \in {"spawn", "ports"}
  <1>1. job \in [Callers -> Job]
    BY DEF DirectTypeOK
  <1>2. ASSUME NEW pc \in {"spawn", "ports"}, NEW todo,
               job' = [job EXCEPT ![p] = [job[p] EXCEPT !.pc = pc, !.todo = todo]]
        PROVE  job'[p].name = job[p].name /\ job'[p].pc \in {"spawn", "ports"}
    BY <1>1, <1>2 DEF Job
  <1>3. CASE MapSSH(p)
    <2> DEFINE todo == DOMAIN job[p].fwd
               pc == IF todo = {} THEN "spawn" ELSE "ports"
    <2>1. job' = [job EXCEPT ![p] = [job[p] EXCEPT !.pc = pc, !.todo = todo]]
      BY <1>3 DEF MapSSH
    <2>2. pc \in {"spawn", "ports"}
      OBVIOUS
    <2> HIDE DEF pc, todo
    <2> QED BY <2>1, <2>2, <1>2, Zenon
  <1>4. CASE MapPort(p)
    <2>1. PICK h : job' = [job EXCEPT ![p].pc = IF job[p].todo = {h} THEN "spawn" ELSE "ports",
                                      ![p].todo = @ \ {h}]
      BY <1>4, Zenon DEF MapPort
    <2> DEFINE todo == job[p].todo \ {h}
               pc == IF job[p].todo = {h} THEN "spawn" ELSE "ports"
    <2>2. job' = [job EXCEPT ![p] = [job[p] EXCEPT !.pc = pc, !.todo = todo]]
      BY <2>1
    <2>3. pc \in {"spawn", "ports"}
      OBVIOUS
    <2> HIDE DEF pc, todo
    <2> QED BY <2>2, <2>3, <1>2, Zenon
  <1> QED BY <1>3, <1>4

(* A set-up finds its box as its earlier steps have left it. *)
LEMMA BoxStep ==
    ASSUME DirectTypeOK, JobInv, BoxInv, [Next]_vars
    PROVE  BoxInv'
  <1>0. job \in [Callers -> Job] /\ box \in [Names -> Box]
    BY DEF DirectTypeOK
  <1>a. ASSUME NEW p \in Callers, \A q \in Callers : q # p => job'[q] = job[q],
               \A n \in Names : n = job[p].name \/ box'[n] = box[n],
               BoxAt(p)'
        PROVE  BoxInv'
    <2>1. ASSUME NEW q \in Callers, q # p PROVE BoxAt(q)'
      <3>1. CASE job[q].pc = "idle"
        BY <1>a, <2>1, <3>1 DEF BoxAt, BuiltPcs, BootPcs
      <3>2. CASE job[q].pc # "idle"
        <4>1. job[q].name \in Names /\ job[q].name # job[p].name
          BY <2>1, <3>2, BusyNamed DEF JobInv
        <4> QED BY <1>a, <2>1, <4>1 DEF BoxInv, BoxAt, Wired
      <3> QED BY <3>1, <3>2
    <2> QED BY <1>a, <2>1 DEF BoxInv
  <1>b. ASSUME NEW p \in Callers, Return(p),
               \A n \in Names : n = job[p].name \/ box'[n] = box[n]
        PROVE  BoxInv'
    <2>1. \A q \in Callers : job'[q] = IF q = p THEN Idle ELSE job[q]
      BY <1>b, ReturnEffect
    <2>2. BoxAt(p)'
      BY <2>1 DEF Idle, BoxAt, BuiltPcs, BootPcs
    <2> QED BY <1>a, <1>b, <2>1, <2>2
  <1>c. ASSUME NEW p \in Callers, \A q \in Callers : q # p => job'[q] = job[q], UNCHANGED box,
               job'[p].pc \in BuiltPcs => /\ job[p].pc \in BuiltPcs \/ Wired(job[p].name)
                                         /\ job'[p].name = job[p].name,
               job'[p].pc \notin {"del-veth", "add-ns", "add-veth", "wire"}
        PROVE  BoxInv'
    <2>1. BoxAt(p)'
      BY <1>c DEF BoxInv, BoxAt, Wired
    <2> QED BY <1>a, <1>c, <2>1
  <1>1. ASSUME NEW p \in Callers, NEW n \in Names, NEW r \in PortLists, NEW a \in PortLists,
               RunDirect(p, n, r, a)
        PROVE  BoxInv'
    <2>1. job'[p].pc = "del-ns"
      BY <1>1, <1>0 DEF RunDirect, Idle
    <2> QED BY <1>1, <1>c, <2>1, OthersJobs DEF RunDirect, BuiltPcs, BootPcs
  <1>2. ASSUME NEW p \in Callers, NEW n \in Names, Teardown(p, n) PROVE BoxInv'
    <2>1. job'[p].pc = "td-ns"
      BY <1>2, <1>0 DEF Teardown, Idle
    <2> QED BY <1>2, <1>c, <2>1, OthersJobs DEF Teardown, BuiltPcs, BootPcs
  <1>3. ASSUME NEW p \in Callers,
               DelNetns(p) \/ DelVeth(p) \/ AddNetns(p) \/ AddVeth(p) \/ Wire(p) \/ TdNetns(p)
        PROVE  BoxInv'
    <2> DEFINE n == job[p].name
    <2>0. n \in Names
      BY <1>3, BusyNamed DEF DelNetns, DelVeth, AddNetns, AddVeth, Wire, TdNetns
    <2>1. BoxAt(p) /\ box[n] \in Box
      BY <2>0, <1>0 DEF BoxInv
    <2>2. \A m \in Names : m = n \/ box'[m] = box[m]
      BY <1>3, <2>0, SetBoxEffect DEF DelNetns, DelVeth, AddNetns, AddVeth, Wire, TdNetns
    <2>3. \A q \in Callers : q # p => job'[q] = job[q]
      BY <1>3, OthersJobs DEF SetupStep, TeardownStep
    <2>4. job'[p].name = n
      BY <1>3, GotoEffect DEF DelNetns, DelVeth, AddNetns, AddVeth, Wire, TdNetns
    <2>5. CASE DelNetns(p)
      <3>1. box'[n] = WithoutNetns(box[n]) /\ job'[p].pc = "del-veth"
        BY <2>5, <2>0, SetBoxEffect, GotoEffect DEF DelNetns
      <3>2. ~box'[n].netns /\ box'[n].nat = {}
        BY <3>1 DEF WithoutNetns
      <3> QED BY <1>a, <2>2, <2>3, <2>4, <3>1, <3>2 DEF BoxAt, BuiltPcs, BootPcs
    <2>6. CASE DelVeth(p)
      <3>1. box'[n] = [box[n] EXCEPT !.veth = "none"] /\ job'[p].pc = "add-ns"
        BY <2>6, <2>0, SetBoxEffect, GotoEffect DEF DelVeth
      <3>2. ~box[n].netns /\ box[n].nat = {}
        BY <2>6, <2>1 DEF DelVeth, BoxAt
      <3>3. box'[n] = NoBox
        BY <3>1, <3>2, <2>1 DEF Box, NoBox
      <3> QED BY <1>a, <2>2, <2>3, <2>4, <3>1, <3>3 DEF BoxAt, BuiltPcs, BootPcs
    <2>7. CASE AddNetns(p)
      <3>1. box'[n] = [box[n] EXCEPT !.netns = TRUE] /\ job'[p].pc = "add-veth"
        BY <2>7, <2>0, SetBoxEffect, GotoEffect DEF AddNetns
      <3>2. box'[n].veth = "none" /\ box'[n].netns
        BY <2>7, <2>1, <3>1 DEF AddNetns, BoxAt, NoBox, Box
      <3>3. BoxAt(p)'
        BY <2>4, <3>1, <3>2 DEF BoxAt, BuiltPcs, BootPcs
      <3> QED BY <1>a, <2>2, <2>3, <3>3
    <2>8. CASE AddVeth(p)
      <3>1. job'[p].pc = "wire" /\ box'[n] = [box[n] EXCEPT !.veth = "made"]
        BY <2>8, <2>0, SetBoxEffect, GotoEffect DEF AddVeth
      <3>2. box[n].netns
        BY <2>8, <2>1 DEF AddVeth, BoxAt
      <3>3. box'[n].netns
        BY <3>1, <3>2, <2>1 DEF Box
      <3> QED BY <1>a, <2>2, <2>3, <2>4, <3>1, <3>3 DEF BoxAt, BuiltPcs, BootPcs
    <2>9. CASE TdNetns(p)
      <3>1. job'[p].pc = "td-veth"
        BY <2>9, GotoEffect DEF TdNetns
      <3> QED BY <1>a, <2>2, <2>3, <3>1 DEF BoxAt, BuiltPcs, BootPcs
    <2>10. CASE Wire(p)
      <3>1. job'[p].pc = "flush-forward"
        BY <2>10, GotoEffect DEF Wire
      <3>2. box'[n] = [box[n] EXCEPT !.veth = "up",
                         !.nat = {22} \cup {job[p].fwd[h] : h \in DOMAIN job[p].fwd}]
        BY <2>10, <2>0, SetBoxEffect DEF Wire
      <3>3. box[n].netns
        BY <2>10, <2>1 DEF Wire, BoxAt
      <3>4. box'[n].netns /\ Wired(n)'
        BY <2>1, <2>4, <3>2, <3>3 DEF Wired, Box
      <3> QED BY <1>a, <2>2, <2>3, <2>4, <3>1, <3>4 DEF BoxAt, BuiltPcs, BootPcs
    <2> QED BY <1>3, <2>5, <2>6, <2>7, <2>8, <2>9, <2>10
  <1>4. ASSUME NEW p \in Callers, WireFails(p) \/ TdVeth(p) PROVE BoxInv'
    <2>1. job[p].name \in Names
      BY <1>4, BusyNamed, Zenon DEF WireFails, TdVeth
    <2> QED BY <1>4, <1>b, <2>1, SetBoxEffect, Zenon DEF WireFails, TdVeth
  <1>5. ASSUME NEW p \in Callers, SetupFails(p) \/ Crash(p) \/ Boot(p) PROVE BoxInv'
    BY <1>5, <1>b DEF SetupFails, Crash, Boot
  <1>6. ASSUME NEW p \in Callers,
               FlushForward(p) \/ FlushInput(p) \/ AddRule(p) \/ MapSSH(p) \/ MapPort(p)
                 \/ Spawn(p) \/ SpawnFails(p) \/ BootFails(p)
        PROVE  BoxInv'
    <2>1. \A q \in Callers : q # p => job'[q] = job[q]
      BY <1>6, OthersJobs DEF SetupStep, BootStep
    <2>2. job[p].pc \in BuiltPcs /\ UNCHANGED box
      BY <1>6 DEF FlushForward, FlushInput, AddRule, MapSSH, MapPort, Spawn, SpawnFails,
                  BootFails, BuiltPcs, BootPcs
    <2>3. job'[p].name = job[p].name /\ job'[p].pc \notin {"del-veth", "add-ns", "add-veth", "wire"}
      <3>1. CASE FlushForward(p) \/ Spawn(p) \/ SpawnFails(p) \/ BootFails(p)
        BY <3>1, GotoEffect DEF FlushForward, Spawn, SpawnFails, BootFails
      <3>2. CASE FlushInput(p)
        BY <3>2, <1>0 DEF FlushInput, Job
      <3>3. CASE AddRule(p)
        BY <3>3, <1>0 DEF AddRule, Job
      <3>4. CASE MapSSH(p)
        BY <3>4, <1>0 DEF MapSSH, Job
      <3>5. CASE MapPort(p)
        BY <3>5, <1>0 DEF MapPort, Job
      <3> QED BY <1>6, <3>1, <3>2, <3>3, <3>4, <3>5
    <2> QED BY <1>c, <2>1, <2>2, <2>3
  <1>7. CASE UNCHANGED <<box, job>>
    BY <1>7 DEF BoxInv, BoxAt, Wired
  <1> QED
    BY <1>1, <1>2, <1>3, <1>4, <1>5, <1>6, <1>7
    DEF Next, SetupStep, BootStep, TeardownStep, VmExit, vars

-----------------------------------------------------------------------------
(* SSH ports.                                                              *)

(* The first rule for a port stays. *)
LEMMA AppendedEffect ==
    ASSUME DirectTypeOK, NEW h, NEW t, NEW g \in HostPorts
    PROVE  Appended(h, t)[g] = IF g = h /\ dnat[g] = NoTarget THEN t ELSE dnat[g]
  BY DEF DirectTypeOK, Appended

(* SSH ports are host ports, one for each name and none of the users'. *)
LEMMA SshPorts ==
    ASSUME NEW n \in Names
    PROVE  /\ SSH[n] \in HostPorts /\ SSH[n] \notin UserPorts
           /\ \A m \in Names : SSH[m] = SSH[n] => m = n
  BY UserPortsAssumption, HashAssumption DEF HostPorts, SSH

(* Nobody but a set-up of the name takes its SSH port. *)
LEMMA DnatStep ==
    ASSUME DirectTypeOK, JobInv, DnatInv, [Next]_vars
    PROVE  DnatInv'
  <1>0. job \in [Callers -> Job]
    BY DEF DirectTypeOK
  <1> DEFINE Late == {"ports"} \cup BootPcs
  <1>a. ASSUME NEW p \in Callers, \A q \in Callers : q # p => job'[q] = job[q],
               UNCHANGED dnat,
               job'[p].pc \in Late => job[p].pc \in Late /\ job'[p].name = job[p].name
        PROVE  DnatInv'
    BY <1>a DEF DnatInv
  <1>b. ASSUME NEW p \in Callers, Return(p), UNCHANGED dnat PROVE DnatInv'
    BY <1>a, <1>b, ReturnEffect DEF Idle, BootPcs
  <1>1. ASSUME NEW p \in Callers, NEW n \in Names, NEW r \in PortLists, NEW a \in PortLists,
               RunDirect(p, n, r, a)
        PROVE  DnatInv'
    <2>1. job'[p].pc = "del-ns"
      BY <1>1, <1>0 DEF RunDirect, Idle
    <2> QED BY <1>1, <1>a, <2>1, OthersJobs DEF RunDirect, BootPcs
  <1>2. ASSUME NEW p \in Callers, NEW n \in Names, Teardown(p, n) PROVE DnatInv'
    <2>1. job'[p].pc = "td-ns"
      BY <1>2, <1>0 DEF Teardown, Idle
    <2> QED BY <1>2, <1>a, <2>1, OthersJobs DEF Teardown, BootPcs
  <1>3. ASSUME NEW p \in Callers,
               DelNetns(p) \/ DelVeth(p) \/ AddNetns(p) \/ AddVeth(p) \/ Wire(p)
                 \/ FlushForward(p) \/ Spawn(p) \/ SpawnFails(p) \/ BootFails(p) \/ TdNetns(p)
        PROVE  DnatInv'
    <2>1. \A q \in Callers : q # p => job'[q] = job[q]
      BY <1>3, OthersJobs DEF SetupStep, BootStep, TeardownStep
    <2>2. UNCHANGED dnat
      BY <1>3 DEF DelNetns, DelVeth, AddNetns, AddVeth, Wire, FlushForward, Spawn,
                  SpawnFails, BootFails, TdNetns
    <2>3. job'[p].name = job[p].name /\ (job'[p].pc \in Late => job[p].pc \in Late)
      BY <1>3, GotoEffect DEF DelNetns, DelVeth, AddNetns, AddVeth, Wire, FlushForward, Spawn,
                              SpawnFails, BootFails, TdNetns, BootPcs
    <2> QED BY <1>a, <2>1, <2>2, <2>3
  <1>4. ASSUME NEW p \in Callers, FlushInput(p) \/ AddRule(p) PROVE DnatInv'
    <2>1. job'[p].pc \notin Late
      BY <1>4, <1>0 DEF FlushInput, AddRule, BootPcs, Job
    <2> QED BY <1>4, <1>a, <2>1, OthersJobs DEF SetupStep, FlushInput, AddRule
  <1>5. ASSUME NEW p \in Callers,
               WireFails(p) \/ SetupFails(p) \/ Boot(p) \/ TdVeth(p) \/ Crash(p)
        PROVE  DnatInv'
    BY <1>5, <1>b, Zenon DEF WireFails, SetupFails, Boot, TdVeth, Crash
  <1>6. ASSUME NEW p \in Callers, MapSSH(p) PROVE DnatInv'
    <2> DEFINE n == job[p].name
    <2>1. n \in Names
      BY <1>6, BusyNamed DEF MapSSH
    <2>2. \A m \in Names : dnat'[SSH[m]] =
            IF m = n /\ dnat[SSH[m]] = NoTarget THEN SshTarget(n) ELSE dnat[SSH[m]]
      BY <1>6, <2>1, SshPorts, AppendedEffect DEF MapSSH
    <2>3. dnat'[SSH[n]] = SshTarget(n)
      BY <2>1, <2>2 DEF DnatInv
    <2>4. \A m \in Names : dnat'[SSH[m]] \in {NoTarget, SshTarget(m)}
      BY <2>2, <2>3 DEF DnatInv
    <2>5. job'[p].name = n /\ \A q \in Callers : q # p => job'[q] = job[q]
      BY <1>6, <1>0 DEF MapSSH, Job
    <2>6. ASSUME NEW q \in Callers, job'[q].pc \in Late
          PROVE  dnat'[SSH[job'[q].name]] = SshTarget(job'[q].name)
      <3>1. CASE q = p
        BY <3>1, <2>3, <2>5
      <3>2. CASE q # p
        <4>1. job[q].pc \in Late /\ job[q].name \in Names
          BY <2>5, <2>6, <3>2, BusyNamed DEF BootPcs
        <4>2. job[q].name # n
          BY <1>6, <4>1, <3>2 DEF JobInv, BootPcs
        <4> QED BY <4>1, <4>2, <2>2, <2>5, <3>2 DEF DnatInv
      <3> QED BY <3>1, <3>2
    <2> QED BY <2>4, <2>6 DEF DnatInv, SshTarget
  <1>7. ASSUME NEW p \in Callers, MapPort(p) PROVE DnatInv'
    <2>1. PICK h \in job[p].todo :
            dnat' = Appended(h, [ip |-> VethGuestIP(Idx[job[p].name]),
                                 port |-> job[p].fwd[h]])
      BY <1>7 DEF MapPort
    <2>2. h \in UserPorts
      BY <1>0 DEF Job
    <2>3. \A m \in Names : dnat'[SSH[m]] = dnat[SSH[m]]
      BY <2>1, <2>2, SshPorts, AppendedEffect
    <2>4. job'[p].name = job[p].name /\ \A q \in Callers : q # p => job'[q] = job[q]
      BY <1>7, <1>0 DEF MapPort, Job
    <2>5. job[p].pc = "ports"
      BY <1>7 DEF MapPort
    <2>6. ASSUME NEW q \in Callers, job'[q].pc \in Late
          PROVE  dnat'[SSH[job'[q].name]] = SshTarget(job'[q].name)
      <3>1. job[q].pc \in Late /\ job'[q].name = job[q].name
        BY <2>4, <2>5, <2>6
      <3>2. job[q].name \in Names
        BY <3>1, BusyNamed DEF BootPcs
      <3> QED BY <3>1, <3>2, <2>3 DEF DnatInv
    <2> QED BY <2>3, <2>6 DEF DnatInv, SshTarget
  <1>8. CASE UNCHANGED <<dnat, job>>
    BY <1>8 DEF DnatInv
  <1> QED
    BY <1>1, <1>2, <1>3, <1>4, <1>5, <1>6, <1>7, <1>8
    DEF Next, SetupStep, BootStep, TeardownStep, VmExit, vars

(* A VM has the box and the port that its set-up has made. *)
LEMMA VmStep ==
    ASSUME DirectTypeOK, JobInv, BoxInv, DnatInv, VmInv, [Next]_vars
    PROVE  VmInv'
  <1>0. job \in [Callers -> Job] /\ vm \in [Names -> VM]
    BY DEF DirectTypeOK
  <1> DEFINE Good(n) == Wired(n) /\ dnat[SSH[n]] = SshTarget(n)
             Kept(n) == box'[n] = box[n] /\ dnat'[SSH[n]] = dnat[SSH[n]]
  <1>a. ASSUME NEW p \in Callers, \A q \in Callers : q # p => job'[q] = job[q],
               job'[p].pc \notin {"idle", "boot"} => vm'[job'[p].name].state = "gone",
               \A n \in Names : n # job[p].name =>
                  /\ vm[n].state = "gone" => vm'[n].state = "gone"
                  /\ vm'[n].state # "gone" => Kept(n),
               \A n \in Names : n = job[p].name => vm'[n].state = "gone" \/ Good(n)'
        PROVE  VmInv'
    <2>1. ASSUME NEW n \in Names, vm'[n].state # "gone" PROVE Good(n)'
      <3>1. CASE n = job[p].name
        BY <1>a, <2>1, <3>1
      <3>2. CASE n # job[p].name
        <4>1. vm[n].state # "gone" /\ Kept(n)
          BY <1>a, <2>1, <3>2
        <4> QED BY <4>1 DEF VmInv, Wired, SshTarget
      <3> QED BY <3>1, <3>2
    <2>2. ASSUME NEW q \in Callers, job'[q].pc \notin {"idle", "boot"}
          PROVE  vm'[job'[q].name].state = "gone"
      <3>1. CASE q = p
        BY <1>a, <2>2, <3>1
      <3>2. CASE q # p
        <4>1. job'[q] = job[q]
          BY <1>a, <3>2
        <4>2. job[q].name \in Names /\ job[q].name # job[p].name
          BY <2>2, <3>2, <4>1, BusyNamed DEF JobInv
        <4>3. vm[job[q].name].state = "gone"
          BY <2>2, <4>1 DEF VmInv
        <4> QED BY <1>a, <4>1, <4>2, <4>3
      <3> QED BY <3>1, <3>2
    <2> QED BY <2>1, <2>2 DEF VmInv
  <1>1. ASSUME NEW p \in Callers, NEW n \in Names, job[p].pc = "idle",
               vm[n].state = "gone", NEW j, j.name = n, job' = [job EXCEPT ![p] = j],
               UNCHANGED <<box, vm, dnat>>
        PROVE  VmInv'
    <2>1. \A q \in Callers : job'[q] = IF q = p THEN j ELSE job[q]
      BY <1>1, <1>0
    <2>2. job[p].name \notin Names
      BY <1>1, DirectBlanksAssumption DEF JobInv
    <2> QED BY <1>a, <1>1, <2>1, <2>2
  <1>2. ASSUME NEW p \in Callers, NEW n \in Names, NEW r \in PortLists, NEW a \in PortLists,
               RunDirect(p, n, r, a)
        PROVE  VmInv'
    <2> DEFINE j == [Idle EXCEPT !.pc = "del-ns", !.name = n,
                                 !.fwd = AsMapping(MergeUniquePorts(r, a))]
    <2>1. j.name = n
      BY DEF Idle
    <2> QED BY <1>1, <1>2, <2>1 DEF RunDirect
  <1>3. ASSUME NEW p \in Callers, NEW n \in Names, Teardown(p, n) PROVE VmInv'
    <2> DEFINE j == [Idle EXCEPT !.pc = "td-ns", !.name = n]
    <2>1. j.name = n
      BY DEF Idle
    <2> QED BY <1>1, <1>3, <2>1 DEF Teardown
  <1>b. ASSUME NEW p \in Callers, job[p].pc \notin {"idle", "boot"},
               \A q \in Callers : q # p => job'[q] = job[q],
               job'[p].pc = "idle" \/ job'[p].name = job[p].name,
               UNCHANGED vm,
               \A n \in Names : n # job[p].name => Kept(n)
        PROVE  VmInv'
    <2>1. job[p].name \in Names /\ vm[job[p].name].state = "gone"
      BY <1>b, BusyNamed DEF VmInv
    <2> QED BY <1>a, <1>b, <2>1
  <1>4. ASSUME NEW p \in Callers,
               DelNetns(p) \/ DelVeth(p) \/ AddNetns(p) \/ AddVeth(p) \/ Wire(p)
                 \/ WireFails(p) \/ TdNetns(p) \/ TdVeth(p)
        PROVE  VmInv'
    <2>1. \A q \in Callers : q # p => job'[q] = job[q]
      BY <1>4, OthersJobs DEF SetupStep, TeardownStep
    <2>2. job[p].pc \notin {"idle", "boot"} /\ UNCHANGED <<vm, dnat>>
      BY <1>4, Zenon DEF DelNetns, DelVeth, AddNetns, AddVeth, Wire, WireFails, TdNetns, TdVeth
    <2>3. job'[p].pc = "idle" \/ job'[p].name = job[p].name
      <3>1. CASE WireFails(p) \/ TdVeth(p)
        <4>1. Return(p)
          BY <3>1, Zenon DEF WireFails, TdVeth
        <4> QED BY <4>1, ReturnEffect DEF Idle
      <3>2. CASE ~(WireFails(p) \/ TdVeth(p))
        BY <1>4, <3>2, GotoEffect DEF DelNetns, DelVeth, AddNetns, AddVeth, Wire, TdNetns
      <3> QED BY <3>1, <3>2
    <2>4. \E b : SetBox(p, b)
      BY <1>4, Zenon DEF DelNetns, DelVeth, AddNetns, AddVeth, Wire, WireFails, TdNetns, TdVeth
    <2>5. \A n \in Names : n # job[p].name => Kept(n)
      BY <2>2, <2>4, BusyNamed, SetBoxEffect
    <2> QED BY <1>b, <2>1, <2>2, <2>3, <2>5
  <1>5. ASSUME NEW p \in Callers, FlushForward(p) \/ FlushInput(p) \/ AddRule(p)
        PROVE  VmInv'
    <2>1. \A q \in Callers : q # p => job'[q] = job[q]
      BY <1>5, OthersJobs DEF SetupStep
    <2>2. job[p].pc \notin {"idle", "boot"} /\ UNCHANGED <<box, vm, dnat>>
      BY <1>5 DEF FlushForward, FlushInput, AddRule
    <2>3. job'[p].name = job[p].name
      BY <1>5, <1>0, GotoEffect DEF FlushForward, FlushInput, AddRule, Job
    <2> QED BY <1>b, <2>1, <2>2, <2>3
  <1>6. ASSUME NEW p \in Callers, MapSSH(p) \/ MapPort(p) PROVE VmInv'
    <2>1. \A q \in Callers : q # p => job'[q] = job[q]
      BY <1>6, OthersJobs DEF SetupStep
    <2>2. job[p].pc \notin {"idle", "boot"} /\ UNCHANGED <<box, vm>>
      BY <1>6 DEF MapSSH, MapPort
    <2>3. job'[p].name = job[p].name
      BY <1>6, MapEffect
    <2>4. job[p].name \in Names
      BY <2>2, BusyNamed
    <2>5. ASSUME NEW n \in Names, n # job[p].name PROVE dnat'[SSH[n]] = dnat[SSH[n]]
      <3>1. CASE MapSSH(p)
        BY <2>4, <2>5, <3>1, SshPorts, AppendedEffect DEF MapSSH
      <3>2. CASE MapPort(p)
        <4>1. job[p].todo \subseteq UserPorts
          BY <1>0 DEF Job
        <4> QED BY <2>5, <3>2, <4>1, SshPorts, AppendedEffect DEF MapPort
      <3> QED BY <1>6, <3>1, <3>2
    <2> QED BY <1>b, <2>1, <2>2, <2>3, <2>5
  <1>7. ASSUME NEW p \in Callers, SetupFails(p) \/ Crash(p) \/ SpawnFails(p) PROVE VmInv'
    <2>1. \A q \in Callers : q # p => job'[q] = job[q]
      BY <1>7, OthersJobs DEF SetupStep, BootStep
    <2>2. job[p].pc # "idle" /\ UNCHANGED <<box, vm, dnat>>
      BY <1>7 DEF SetupFails, Crash, SpawnFails
    <2>3. job'[p].pc = "idle" \/ (job'[p].name = job[p].name /\ job[p].pc = "spawn")
      BY <1>7, GotoEffect, ReturnEffect DEF SetupFails, Crash, SpawnFails, Idle
    <2>5. \A n \in Names : vm[n].state = "gone" \/ Good(n)'
      BY <2>2 DEF VmInv, Wired, SshTarget
    <2>6. job'[p].pc \notin {"idle", "boot"} => vm'[job'[p].name].state = "gone"
      BY <2>2, <2>3 DEF VmInv
    <2> QED BY <1>a, <2>1, <2>2, <2>5, <2>6
  <1>8. ASSUME NEW p \in Callers, Spawn(p) \/ Boot(p) \/ BootFails(p) PROVE VmInv'
    <2>1. \A q \in Callers : q # p => job'[q] = job[q]
      BY <1>8, OthersJobs DEF BootStep
    <2>2. job[p].pc \in BootPcs /\ UNCHANGED <<box, dnat>>
      BY <1>8 DEF Spawn, Boot, BootFails, BootPcs
    <2>3. PICK n \in Names : n = job[p].name
      BY <2>2, BusyNamed DEF BootPcs
    <2>4. Good(n)
      BY <2>2, <2>3 DEF BoxInv, BoxAt, BuiltPcs, DnatInv
    <2>5. Good(n)'
      BY <2>2, <2>4 DEF Wired, SshTarget
    <2>6. \A m \in Names : m # n => vm'[m] = vm[m]
      BY <1>8, <1>0, <2>3 DEF Spawn, Boot, BootFails
    <2>7. job'[p].pc \notin {"idle", "boot"} => vm'[job'[p].name].state = "gone"
      <3>1. CASE Spawn(p)
        BY <3>1, GotoEffect DEF Spawn
      <3>2. CASE Boot(p)
        BY <3>2, ReturnEffect DEF Boot, Idle
      <3>3. CASE BootFails(p)
        BY <3>3, <1>0, <2>3, GotoEffect DEF BootFails, Gone
      <3> QED BY <1>8, <3>1, <3>2, <3>3
    <2> QED BY <1>a, <2>1, <2>2, <2>3, <2>5, <2>6, <2>7
  <1>9. ASSUME NEW n \in Names, VmExit(n) PROVE VmInv'
    <2>1. \A m \in Names : vm'[m] = vm[m] \/ vm'[m].state = "gone"
      BY <1>9, <1>0 DEF VmExit, Gone
    <2>2. UNCHANGED <<box, dnat, job>>
      BY <1>9 DEF VmExit
    <2>3. \A p \in Callers : job[p].pc # "idle" => job[p].name \in Names
      BY BusyNamed
    <2> QED BY <2>1, <2>2, <2>3 DEF VmInv, Wired, SshTarget
  <1>10. CASE UNCHANGED vars
    BY <1>10 DEF vars, VmInv, Wired, SshTarget
  <1> QED
    BY <1>2, <1>3, <1>4, <1>5, <1>6, <1>7, <1>8, <1>9, <1>10
    DEF Next, SetupStep, BootStep, TeardownStep

(* The inductive invariant of direct mode. *)
LEMMA DirectInvariance == Spec => [](DirectTypeOK /\ DirectInv)
  <1>1. Init => DirectInv
    <2>1. ASSUME Init PROVE JobInv
      BY <2>1 DEF Init, JobInv, Idle
    <2>2. ASSUME Init PROVE BoxInv
      BY <2>2 DEF Init, BoxInv, BoxAt, Idle, BuiltPcs, BootPcs
    <2>3. ASSUME Init PROVE DnatInv
      BY <2>3, SshPorts DEF Init, DnatInv, Idle, BootPcs
    <2>4. ASSUME Init PROVE VmInv
      BY <2>4 DEF Init, VmInv, Idle, Gone
    <2> QED BY <2>1, <2>2, <2>3, <2>4 DEF DirectInv
  <1>2. DirectTypeOK /\ DirectInv /\ [Next]_vars => DirectInv'
    BY JobStep, BoxStep, DnatStep, VmStep DEF DirectInv
  <1> QED BY <1>1, <1>2, DirectTypeCorrect, PTL DEF Spec

(* What a set-up or tear-down cut short at any step has left of a name's   *)
(* namespace and veth pair never stops the next set-up.                    *)
THEOREM SetupFindsNothing == Spec => []NothingLeft
  <1>1. DirectTypeOK /\ DirectInv => NothingLeft
    BY DEF DirectInv, BoxInv, BoxAt, NothingLeft
  <1> QED BY <1>1, DirectInvariance, PTL

(* The SSH port of a running VM leads to its own guest, over the only veth  *)
(* pair with that subnet, whatever else was set up, torn down or killed.   *)
THEOREM SshLeadsHome == Spec => []SshReaches
  <1>1. ASSUME DirectTypeOK, DirectInv PROVE SshReaches
    <2>1. \A m, n \in Names : Own30(m, n) <=> m = n
      BY IdxAssumption, VethSubnetsDiffer DEF Own30
    <2>2. ASSUME NEW n \in Names, vm[n].state = "up"
          PROVE  Wired(n) /\ dnat[SSH[n]] = SshTarget(n)
      BY <1>1, <2>2 DEF DirectInv, VmInv
    <2> QED BY <2>1, <2>2 DEF SshReaches, Wired
  <1> QED BY <1>1, DirectInvariance, PTL

-----------------------------------------------------------------------------
(* The filter chains.                                                      *)

(* What p has still to add does not depend on what others do. *)
LEMMA PendingSame ==
    ASSUME NEW p \in Callers, NEW c \in Chains,
           \/ job'[p] = job[p]
           \/ /\ job[p].pc \notin {"flush-input", "rule"}
              /\ job'[p].pc \notin {"flush-input", "rule"}
    PROVE  Pending(p, c)' = Pending(p, c)
  BY DEF Pending

(* The rules of the chains do not change, and nobody's pending ones do. *)
LEMMA FilterFrame ==
    ASSUME FilterComplete, UNCHANGED chain,
           \A c \in Chains : last'[c] = last[c] \/ last'[c] = Nobody,
           \A p \in Callers, c \in Chains :
              last'[c] = p => Pending(p, c)' = Pending(p, c),
           last \in [Chains -> Callers \cup {Nobody}]
    PROVE  FilterComplete'
  <1>1. ASSUME NEW c \in Chains, NEW i \in DOMAIN HostRules, HostRules[i][1] = c,
               HostRules[i][2] \notin chain'[c].rules, last'[c] # Nobody
        PROVE  \E p \in Callers : last'[c] = p /\ HostRules[i][2] \in Pending(p, c)'
    <2>1. last'[c] = last[c]
      BY <1>1
    <2>2. PICK p \in Callers : last[c] = p /\ HostRules[i][2] \in Pending(p, c)
      BY <1>1, <2>1 DEF FilterComplete
    <2>3. Pending(p, c)' = Pending(p, c)
      BY <2>1, <2>2
    <2> QED BY <2>1, <2>2, <2>3
  <1> QED BY <1>1 DEF FilterComplete

(* Concurrent refills lose no rule between them. *)
LEMMA FilterStep ==
    ASSUME DirectTypeOK, JobInv, FilterComplete, [Next]_vars
    PROVE  FilterComplete'
  <1>0. /\ job \in [Callers -> Job] /\ chain \in [Chains -> Chain]
        /\ last \in [Chains -> Callers \cup {Nobody}]
    BY DEF DirectTypeOK
  <1>a. ASSUME NEW p \in Callers, \A q \in Callers : q # p => job'[q] = job[q],
               job[p].pc \notin {"flush-input", "rule"},
               job'[p].pc \notin {"flush-input", "rule"},
               UNCHANGED chain,
               \A c \in Chains : last'[c] = last[c] \/ last'[c] = Nobody
        PROVE  FilterComplete'
    <2>1. \A q \in Callers, c \in Chains : Pending(q, c)' = Pending(q, c)
      BY <1>a, PendingSame
    <2> QED BY <1>0, <1>a, <2>1, FilterFrame
  <1>b. ASSUME NEW p \in Callers, Return(p), UNCHANGED chain, last' = LastAfter(p)
        PROVE  FilterComplete'
    <2>1. \A q \in Callers : job'[q] = IF q = p THEN Idle ELSE job[q]
      BY <1>b, ReturnEffect
    <2>2. \A c \in Chains : last'[c] = last[c] \/ last'[c] = Nobody
      BY <1>b DEF LastAfter
    <2>3. ASSUME NEW q \in Callers, NEW c \in Chains, last'[c] = q
          PROVE  Pending(q, c)' = Pending(q, c)
      <3>1. CASE q # p
        BY <2>1, <3>1, PendingSame
      <3>2. CASE q = p
        <4>1. Pending(p, c)' = {}
          BY <2>1 DEF Pending, Idle
        <4>2. Pending(p, c) = {}
          BY <1>b, <2>3, <3>2, DirectBlanksAssumption DEF LastAfter
        <4> QED BY <3>2, <4>1, <4>2
      <3> QED BY <3>1, <3>2
    <2> QED BY <1>0, <1>b, <2>2, <2>3, FilterFrame
  <1>1. ASSUME NEW p \in Callers, NEW n \in Names,
               (\E r, a \in PortLists : RunDirect(p, n, r, a)) \/ Teardown(p, n)
        PROVE  FilterComplete'
    <2>1. job'[p].pc \in {"del-ns", "td-ns"} /\ job[p].pc = "idle" /\ UNCHANGED <<chain, last>>
      BY <1>1, <1>0, Zenon DEF RunDirect, Teardown, Idle
    <2> QED BY <1>1, <1>a, <2>1, OthersJobs
  <1>2. ASSUME NEW p \in Callers,
               DelNetns(p) \/ DelVeth(p) \/ AddNetns(p) \/ AddVeth(p) \/ Wire(p)
                 \/ Spawn(p) \/ SpawnFails(p) \/ BootFails(p) \/ TdNetns(p)
        PROVE  FilterComplete'
    <2>1. /\ job[p].pc \notin {"flush-input", "rule"} /\ UNCHANGED <<chain, last>>
          /\ job'[p].pc \notin {"flush-input", "rule"}
      BY <1>2, GotoEffect DEF DelNetns, DelVeth, AddNetns, AddVeth, Wire, Spawn, SpawnFails,
                              BootFails, TdNetns
    <2>2. \A q \in Callers : q # p => job'[q] = job[q]
      BY <1>2, OthersJobs DEF SetupStep, BootStep, TeardownStep
    <2> QED BY <1>a, <2>1, <2>2
  <1>3. ASSUME NEW p \in Callers, WireFails(p) \/ Boot(p) \/ TdVeth(p) PROVE FilterComplete'
    <2>1. /\ job[p].pc \notin {"flush-input", "rule"} /\ UNCHANGED <<chain, last>>
          /\ Return(p)
      BY <1>3, Zenon DEF WireFails, Boot, TdVeth
    <2>2. \A q \in Callers : job'[q] = IF q = p THEN Idle ELSE job[q]
      BY <2>1, ReturnEffect
    <2>3. job'[p].pc \notin {"flush-input", "rule"} /\ \A q \in Callers : q # p => job'[q] = job[q]
      BY <2>2 DEF Idle
    <2> QED BY <1>a, <2>1, <2>3
  <1>4. ASSUME NEW p \in Callers, SetupFails(p) \/ Crash(p) PROVE FilterComplete'
    BY <1>4, <1>b DEF SetupFails, Crash
  <1>5. ASSUME NEW p \in Callers, MapSSH(p) \/ MapPort(p) PROVE FilterComplete'
    <2>1. /\ job[p].pc \notin {"flush-input", "rule"} /\ UNCHANGED <<chain, last>>
      BY <1>5 DEF MapSSH, MapPort
    <2>2. job'[p].pc \notin {"flush-input", "rule"}
      BY <1>5, MapEffect
    <2>3. \A q \in Callers : q # p => job'[q] = job[q]
      BY <1>5, OthersJobs DEF SetupStep
    <2> QED BY <1>a, <2>1, <2>2, <2>3
  <1>6. ASSUME NEW p \in Callers, FlushForward(p) PROVE FilterComplete'
    <2>1. /\ \A q \in Callers : q # p => job'[q] = job[q]
          /\ job[p].pc = "flush-forward" /\ job'[p].pc = "flush-input"
      BY <1>6, GotoEffect, OthersJobs DEF SetupStep, FlushForward
    <2>2. /\ last'["forward"] = p /\ last'["input"] = last["input"]
          /\ chain'["input"] = chain["input"]
      BY <1>6, <1>0 DEF FlushForward, Flush, Chains
    <2>3. Pending(p, "forward")' = Rules
      BY <2>1 DEF Pending
    <2>4. \A q \in Callers : Pending(q, "input")' = Pending(q, "input")
      <3>1. Pending(p, "input")' = {} /\ Pending(p, "input") = {}
        BY <2>1 DEF Pending
      <3> QED BY <2>1, <3>1, PendingSame DEF Chains
    <2> QED BY <2>2, <2>3, <2>4, HostRulesTyped DEF FilterComplete, Chains
  <1>7. ASSUME NEW p \in Callers, FlushInput(p) PROVE FilterComplete'
    <2>1. /\ \A q \in Callers : q # p => job'[q] = job[q]
          /\ job[p].pc = "flush-input" /\ job'[p].pc = "rule" /\ job'[p].rule = 1
      BY <1>7, <1>0, OthersJobs, Zenon DEF SetupStep, FlushInput, Job
    <2>2. /\ last'["input"] = p /\ last'["forward"] = last["forward"]
          /\ chain'["forward"] = chain["forward"]
      BY <1>7, <1>0 DEF FlushInput, Flush, Chains
    <2>3. \A i \in DOMAIN HostRules, c \in Chains :
            HostRules[i][1] = c => HostRules[i][2] \in Pending(p, c)'
      BY <2>1, HostRulesTyped DEF Pending
    <2>4. \A q \in Callers : q # p => Pending(q, "forward")' = Pending(q, "forward")
      BY <2>1, PendingSame DEF Chains
    <2> QED BY <2>2, <2>3, <2>4 DEF FilterComplete, Chains
  <1>8. ASSUME NEW p \in Callers, AddRule(p) PROVE FilterComplete'
    <2> DEFINE k == job[p].rule
    <2>0. k \in 1..5 /\ job[p].pc = "rule" /\ UNCHANGED last
      BY <1>8, <1>0 DEF AddRule, Job
    <2>1. \A q \in Callers : q # p => job'[q] = job[q]
      BY <1>8, OthersJobs DEF SetupStep
    <2>2. \A c \in Chains :
            /\ chain[c].rules \subseteq chain'[c].rules
            /\ HostRules[k][1] = c => HostRules[k][2] \in chain'[c].rules
      BY <1>8, <1>0, <2>0, HostRulesTyped DEF AddRule, WithRule, Chain
    <2>3. \/ job'[p].pc = "rule" /\ job'[p].rule = k + 1
          \/ job'[p].pc = "ssh" /\ k = 5
      BY <1>8, <1>0 DEF AddRule, Job
    <2>4. ASSUME NEW c \in Chains, NEW i \in DOMAIN HostRules, HostRules[i][1] = c,
                 HostRules[i][2] \in Pending(p, c), HostRules[i][2] \notin chain'[c].rules
          PROVE  HostRules[i][2] \in Pending(p, c)'
      <3>1. PICK j \in k..5 : HostRules[j][1] = c /\ HostRules[j][2] = HostRules[i][2]
        BY <2>0, <2>4 DEF Pending
      <3>2. j # k
        BY <2>2, <2>4, <3>1
      <3>3. j \in (k + 1)..5 /\ k # 5
        BY <2>0, <3>1, <3>2
      <3> QED BY <2>3, <3>1, <3>3 DEF Pending
    <2>5. ASSUME NEW q \in Callers, q # p, NEW c \in Chains
          PROVE  Pending(q, c)' = Pending(q, c)
      BY <2>1, <2>5, PendingSame
    <2> QED BY <2>0, <2>2, <2>4, <2>5 DEF FilterComplete
  <1>9. CASE UNCHANGED <<chain, job, last>>
    <2>1. \A q \in Callers, c \in Chains : Pending(q, c)' = Pending(q, c)
      BY <1>9, PendingSame
    <2> QED BY <1>0, <1>9, <2>1, FilterFrame
  <1> QED
    BY <1>1, <1>2, <1>3, <1>4, <1>5, <1>6, <1>7, <1>8, <1>9
    DEF Next, SetupStep, BootStep, TeardownStep, VmExit, vars

(* However many set-ups refill the shared chains at once, and wherever they *)
(* stop, the last to have flushed a chain completes it or has given up.    *)
THEOREM RefillsLoseNothing == Spec => []FilterComplete
  <1>1. Init => FilterComplete
    BY DEF Init, FilterComplete
  <1>2. DirectTypeOK /\ JobInv /\ FilterComplete /\ [Next]_vars => FilterComplete'
    BY FilterStep
  <1> QED BY <1>1, <1>2, JobInvariance, PTL DEF Spec
=============================================================================
