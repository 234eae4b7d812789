----------------------- MODULE DirectDisciplineProofs -----------------------
(***************************************************************************)
(* With one refill at a time the filter chains are in order; with host     *)
(* ports reserved for names they lead where they should.                   *)
(***************************************************************************)
EXTENDS DirectDiscipline, DirectNetProofs

-----------------------------------------------------------------------------
(* The filter chains.                                                      *)

(* What makes ChainsOrdered inductive: the reject of a chain is not in it  *)
(* before its turn.                                                        *)
OrderAt(p) ==
    /\ job[p].pc = "flush-input" => "reject" \notin chain["forward"].rules
    /\ job[p].pc = "rule" =>
         \A i \in job[p].rule..5 : "reject" \notin chain[HostRules[i][1]].rules

OrderInv == ChainsOrdered /\ \A p \in Callers : OrderAt(p)

(* The chains after a rule was added. *)
LEMMA AddRuleEffect ==
    ASSUME DirectTypeOK, NEW p \in Callers, AddRule(p)
    PROVE  LET k == job[p].rule IN
           /\ k \in 1..5
           /\ \A c \in Chains :
                IF HostRules[k][1] = c
                  THEN chain'[c] = WithRule(chain[c], HostRules[k][2])
                  ELSE chain'[c] = chain[c]
           /\ \/ job'[p].pc = "rule" /\ job'[p].rule = k + 1 /\ k # 5
              \/ job'[p].pc = "ssh"
  <1>1. /\ job \in [Callers -> Job] /\ chain \in [Chains -> Chain]
        /\ job[p].rule \in 1..5
    BY DEF DirectTypeOK, Job
  <1>2. HostRules[job[p].rule][1] \in Chains
    BY <1>1, HostRulesTyped
  <1>3. \A c \in Chains :
          IF HostRules[job[p].rule][1] = c
            THEN chain'[c] = WithRule(chain[c], HostRules[job[p].rule][2])
            ELSE chain'[c] = chain[c]
    BY <1>1, <1>2 DEF AddRule
  <1>4. \/ job'[p].pc = "rule" /\ job'[p].rule = job[p].rule + 1 /\ job[p].rule # 5
        \/ job'[p].pc = "ssh"
    BY <1>1 DEF AddRule, Job
  <1> QED BY <1>1, <1>3, <1>4

(* The reject is the last rule of its chain, and is added once. *)
LEMMA RejectIsLast ==
    /\ \A k \in 1..5 : HostRules[k][2] # "reject" =>
          \E i \in k..5 : HostRules[i] = <<HostRules[k][1], "reject">>
    /\ \A k \in 1..5 : HostRules[k][2] = "reject" =>
          \A i \in (k + 1)..5 : HostRules[i][1] # HostRules[k][1]
  BY DEF HostRules

(* Steps that add no rule leave the chains alone or empty one; who begins  *)
(* to refill has emptied the chain.                                        *)
LEMMA CalmChains ==
    ASSUME DirectTypeOK, JobInv, [Next]_vars, ~(\E p \in Callers : AddRule(p))
    PROVE  /\ \A c \in Chains : chain'[c] = chain[c] \/ chain'[c] = NoRules
           /\ \A p \in Callers :
                 \/ job'[p] = job[p] 
                 \/ ~Refilling(p)'
                 \/ job'[p].pc = "flush-input" /\ chain'["forward"] = NoRules
                 \/ /\ job[p].pc = "flush-input" /\ job'[p].pc = "rule"
                    /\ job'[p].rule = 1 /\ chain'["input"] = NoRules
                    /\ chain'["forward"] = chain["forward"]
  <1>0. job \in [Callers -> Job] /\ chain \in [Chains -> Chain]
    BY DEF DirectTypeOK
  <1> DEFINE Calm(p) ==
        /\ \A c \in Chains : chain'[c] = chain[c] \/ chain'[c] = NoRules
        /\ \A q \in Callers : q # p => job'[q] = job[q]
        /\ \/ ~Refilling(p)'
           \/ job'[p].pc = "flush-input" /\ chain'["forward"] = NoRules
           \/ /\ job[p].pc = "flush-input" /\ job'[p].pc = "rule"
              /\ job'[p].rule = 1 /\ chain'["input"] = NoRules
              /\ chain'["forward"] = chain["forward"]
  <1> SUFFICES (\E p \in Callers : Calm(p)) \/ UNCHANGED <<chain, job>>
    OBVIOUS
  <1>1. ASSUME NEW p \in Callers, NEW n \in Names,
               (\E r, a \in PortLists : RunDirect(p, n, r, a)) \/ Teardown(p, n)
        PROVE  Calm(p)
    <2>1. job'[p].pc \in {"del-ns", "td-ns"} /\ UNCHANGED chain
      BY <1>1, <1>0, Zenon DEF RunDirect, Teardown, Idle
    <2> QED BY <1>1, <2>1, OthersJobs DEF Refilling
  <1>2. ASSUME NEW p \in Callers,
               DelNetns(p) \/ DelVeth(p) \/ AddNetns(p) \/ AddVeth(p) \/ Wire(p)
                 \/ Spawn(p) \/ SpawnFails(p) \/ BootFails(p) \/ TdNetns(p)
        PROVE  Calm(p)
    <2>1. UNCHANGED chain /\ job'[p].pc \notin {"flush-input", "rule"}
      BY <1>2, GotoEffect DEF DelNetns, DelVeth, AddNetns, AddVeth, Wire, Spawn, SpawnFails,
                              BootFails, TdNetns
    <2>2. \A q \in Callers : q # p => job'[q] = job[q]
      BY <1>2, OthersJobs DEF SetupStep, BootStep, TeardownStep
    <2> QED BY <2>1, <2>2 DEF Refilling
  <1>3. ASSUME NEW p \in Callers,
               WireFails(p) \/ Boot(p) \/ TdVeth(p) \/ SetupFails(p) \/ Crash(p)
        PROVE  Calm(p)
    <2>1. UNCHANGED chain /\ Return(p)
      BY <1>3, Zenon DEF WireFails, Boot, TdVeth, SetupFails, Crash
    <2>2. \A q \in Callers : job'[q] = IF q = p THEN Idle ELSE job[q]
      BY <2>1, ReturnEffect
    <2> QED BY <2>1, <2>2 DEF Refilling, Idle
  <1>4. ASSUME NEW p \in Callers, MapSSH(p) \/ MapPort(p) PROVE Calm(p)
    <2>1. UNCHANGED chain
      BY <1>4 DEF MapSSH, MapPort
    <2>2. job'[p].pc \notin {"flush-input", "rule"}
      BY <1>4, MapEffect
    <2>3. \A q \in Callers : q # p => job'[q] = job[q]
      BY <1>4, OthersJobs DEF SetupStep
    <2> QED BY <2>1, <2>2, <2>3 DEF Refilling
  <1>5. ASSUME NEW p \in Callers, FlushForward(p) PROVE Calm(p)
    <2>1. job'[p].pc = "flush-input" /\ \A q \in Callers : q # p => job'[q] = job[q]
      BY <1>5, GotoEffect, OthersJobs DEF SetupStep, FlushForward
    <2>2. chain'["forward"] = NoRules /\ chain'["input"] = chain["input"]
      BY <1>5, <1>0 DEF FlushForward, Flush, Chains
    <2> QED BY <2>1, <2>2 DEF Chains
  <1>6. ASSUME NEW p \in Callers, FlushInput(p) PROVE Calm(p)
    <2>1. /\ \A q \in Callers : q # p => job'[q] = job[q]
          /\ job[p].pc = "flush-input" /\ job'[p].pc = "rule" /\ job'[p].rule = 1
      BY <1>6, <1>0, OthersJobs, Zenon DEF SetupStep, FlushInput, Job
    <2>2. chain'["input"] = NoRules /\ chain'["forward"] = chain["forward"]
      BY <1>6, <1>0 DEF FlushInput, Flush, Chains
    <2> QED BY <2>1, <2>2 DEF Chains
  <1>7. ASSUME NEW n \in Names, VmExit(n) PROVE UNCHANGED <<chain, job>>
    BY <1>7 DEF VmExit
  <1>8. CASE UNCHANGED vars
    BY <1>8 DEF vars
  <1> QED
    BY <1>1, <1>2, <1>3, <1>4, <1>5, <1>6, <1>7, <1>8
    DEF Next, SetupStep, BootStep, TeardownStep

(* One refill at a time keeps the order. *)
LEMMA OrderStep ==
    ASSUME DirectTypeOK, JobInv, NoOverlap, OrderInv, [Next]_vars
    PROVE  OrderInv'
  <1>a. "forward" \in Chains /\ "input" \in Chains
    BY DEF Chains
  <1>b. NoRules.late = {} /\ NoRules.rules = {}
    BY DEF NoRules
  <1>1. ASSUME NEW p \in Callers, AddRule(p) PROVE OrderInv'
    <2> DEFINE k == job[p].rule
               c == HostRules[k][1]
               r == HostRules[k][2]
    <2>1. /\ k \in 1..5 /\ job[p].pc = "rule" /\ c \in Chains
          /\ chain'[c] = WithRule(chain[c], r)
          /\ \A d \in Chains : d # c => chain'[d] = chain[d]
      BY <1>1, AddRuleEffect, HostRulesTyped DEF AddRule
    <2>2. \/ job'[p].pc = "rule" /\ job'[p].rule = k + 1 /\ k # 5
          \/ job'[p].pc = "ssh"
      BY <1>1, AddRuleEffect
    <2>3. \A i \in k..5 : "reject" \notin chain[HostRules[i][1]].rules
      BY <2>1 DEF OrderInv, OrderAt
    <2>4. "reject" \notin chain[c].rules
      BY <2>1, <2>3
    <2>5. /\ chain'[c].late = chain[c].late
          /\ "reject" \in chain'[c].rules => r = "reject"
      <3>1. chain[c] \in Chain
        BY <2>1 DEF DirectTypeOK
      <3> HIDE DEF c, r
      <3> QED BY <2>1, <2>4, <3>1 DEF WithRule, Chain
    <2>6. ChainsOrdered'
      BY <2>1, <2>5 DEF OrderInv, ChainsOrdered
    <2>7. ASSUME NEW q \in Callers, q # p PROVE OrderAt(q)'
      <3>1. job'[q] = job[q]
        BY <1>1, <2>7, OthersJobs DEF SetupStep
      <3>2. ~Refilling(q)
        BY <2>1, <2>7 DEF NoOverlap, Refilling
      <3> QED BY <3>1, <3>2 DEF OrderAt, Refilling
    <2>8. ASSUME NEW i \in (k + 1)..5 PROVE "reject" \notin chain'[HostRules[i][1]].rules
      <3>1. i \in k..5 /\ i \in 1..5 /\ HostRules[i][1] \in Chains
        BY <2>1, <2>8, HostRulesTyped
      <3>2. CASE HostRules[i][1] # c
        BY <2>1, <2>3, <3>1, <3>2
      <3>3. CASE HostRules[i][1] = c
        <4>1. r # "reject"
          BY <2>1, <2>8, <3>3, RejectIsLast
        <4> QED BY <2>5, <3>3, <4>1
      <3> QED BY <3>2, <3>3
    <2>9. OrderAt(p)'
      BY <2>2, <2>8 DEF OrderAt
    <2> QED BY <2>6, <2>7, <2>9 DEF OrderInv
  <1>2. ASSUME ~(\E p \in Callers : AddRule(p)) PROVE OrderInv'
    <2>1. \A c \in Chains : chain'[c] = chain[c] \/ chain'[c] = NoRules
      BY <1>2, CalmChains
    <2>2. ChainsOrdered'
      BY <1>b, <2>1 DEF OrderInv, ChainsOrdered
    <2>3. \A c \in Chains : "reject" \notin chain[c].rules => "reject" \notin chain'[c].rules
      BY <1>b, <2>1
    <2>4. ASSUME NEW p \in Callers PROVE OrderAt(p)'
      <3>1. CASE job'[p] = job[p]
        <4>1. job[p].rule \in 1..5
          BY DEF DirectTypeOK, Job
        <4>2. \A i \in job[p].rule..5 : HostRules[i][1] \in Chains
          BY <4>1, HostRulesTyped
        <4> QED BY <1>a, <2>3, <3>1, <4>2 DEF OrderInv, OrderAt
      <3>2. CASE ~Refilling(p)'
        BY <3>2 DEF Refilling, OrderAt
      <3>3. CASE job'[p].pc = "flush-input" /\ chain'["forward"] = NoRules
        BY <1>b, <3>3 DEF OrderAt
      <3>4. CASE /\ job[p].pc = "flush-input" /\ job'[p].pc = "rule"
                 /\ job'[p].rule = 1 /\ chain'["input"] = NoRules
                 /\ chain'["forward"] = chain["forward"]
        <4>1. "reject" \notin chain["forward"].rules
          BY <3>4 DEF OrderInv, OrderAt
        <4>2. \A c \in Chains : "reject" \notin chain'[c].rules
          BY <1>b, <3>4, <4>1 DEF Chains
        <4>3. \A i \in 1..5 : HostRules[i][1] \in Chains
          BY HostRulesTyped
        <4> QED BY <3>4, <4>2, <4>3 DEF OrderAt
      <3> QED BY <1>2, <3>1, <3>2, <3>3, <3>4, CalmChains
    <2> QED BY <2>2, <2>4 DEF OrderInv
  <1> QED BY <1>1, <1>2

(* Set-ups that refill the shared chains one at a time never leave a rule  *)
(* behind a reject, whichever of them are cut short.                       *)
THEOREM RefillsAloneKeepOrder == AloneSpec => []ChainsOrdered
  <1>1. Init => NoOverlap /\ OrderInv
    BY DEF Init, NoOverlap, Refilling, OrderInv, OrderAt, ChainsOrdered, Idle, NoRules
  <1>2. [Next /\ NoOverlap']_vars => [Next]_vars
    OBVIOUS
  <1>3. NoOverlap /\ [Next /\ NoOverlap']_vars => NoOverlap'
    BY DEF vars, NoOverlap, Refilling
  <1>4. DirectTypeOK /\ JobInv /\ NoOverlap /\ OrderInv /\ [Next]_vars => OrderInv'
    BY OrderStep
  <1>5. OrderInv => ChainsOrdered
    BY DEF OrderInv
  <1> QED BY <1>1, <1>2, <1>3, <1>4, <1>5, JobInvariance, PTL DEF AloneSpec, Spec

-----------------------------------------------------------------------------
(* The ports of the users.                                                 *)

(* What makes PortReaches inductive: the only target a host port ever gets *)
(* is its own, and a job has reached the ports that it need not map.       *)
HomeTarget(h) == [ip |-> VethGuestIP(Idx[Owner[h]]), port |-> Guest[h]]

Mapped(n, f, D) == \A h \in D : n = Owner[h] /\ f[h] = Guest[h] /\ dnat[h] = HomeTarget(h)

MappedPcs == {"ports"} \cup BootPcs

PortInv ==
    /\ \A h \in UserPorts : dnat[h] \in {NoTarget, HomeTarget(h)}
    /\ \A p \in Callers :
         job[p].pc \in MappedPcs =>
             /\ Mapped(job[p].name, job[p].fwd, DOMAIN job[p].fwd \ job[p].todo)
             /\ job[p].pc # "ports" => job[p].todo = {}
    /\ \A n \in Names :
         vm[n].state # "gone" => Mapped(n, vm[n].fwd, DOMAIN vm[n].fwd)

(* With reserved ports, a step leaves the rule of a user's port as it is,  *)
(* or gives it the port's own target.                                      *)
LEMMA UserPortsEffect ==
    ASSUME DirectTypeOK, JobInv, PortsReserved, [Next]_vars
    PROVE  \A h \in UserPorts : dnat'[h] = dnat[h] \/ dnat'[h] = HomeTarget(h)
  <1>0. UserPorts \subseteq HostPorts
    BY DEF HostPorts
  <1>1. ASSUME NEW p \in Callers, MapSSH(p), NEW h \in UserPorts PROVE dnat'[h] = dnat[h]
    <2>1. job[p].name \in Names
      BY <1>1, BusyNamed DEF MapSSH
    <2>2. h # SSH[job[p].name]
      BY <1>1, <2>1, SshPorts
    <2> QED BY <1>0, <1>1, <2>2, AppendedEffect DEF MapSSH
  <1>2. ASSUME NEW p \in Callers, MapPort(p), NEW h \in UserPorts
        PROVE  dnat'[h] = dnat[h] \/ dnat'[h] = HomeTarget(h)
    <2>1. PICK g \in job[p].todo :
            dnat' = Appended(g, [ip |-> VethGuestIP(Idx[job[p].name]), port |-> job[p].fwd[g]])
      BY <1>2 DEF MapPort
    <2>2. g \in DOMAIN job[p].fwd
      BY DEF JobInv
    <2>3. [ip |-> VethGuestIP(Idx[job[p].name]), port |-> job[p].fwd[g]] = HomeTarget(g)
      BY <2>2 DEF PortsReserved, HomeTarget
    <2> QED BY <1>0, <1>2, <2>1, <2>3, AppendedEffect
  <1>3. (\E p \in Callers : MapSSH(p) \/ MapPort(p)) \/ UNCHANGED dnat
    BY Zenon DEF Next, SetupStep, BootStep, TeardownStep, VmExit, vars, RunDirect, Teardown,
       DelNetns, DelVeth, AddNetns, AddVeth, Wire, WireFails, FlushForward, FlushInput,
       AddRule, SetupFails, Spawn, SpawnFails, Boot, BootFails, TdNetns, TdVeth, Crash
  <1> QED BY <1>1, <1>2, <1>3

(* A step that adds the rule of a port maps what it takes off the job.     *)
LEMMA MapDone ==
    ASSUME DirectTypeOK, JobInv, PortsReserved, PortInv, NEW p \in Callers,
           MapSSH(p) \/ MapPort(p)
    PROVE  /\ job'[p].name = job[p].name /\ job'[p].fwd = job[p].fwd
           /\ job'[p].pc # "ports" => job'[p].todo = {}
           /\ \A h \in DOMAIN job[p].fwd \ job'[p].todo :
                 \/ job[p].pc = "ports" /\ h \notin job[p].todo
                 \/ dnat'[h] = HomeTarget(h)
  <1>0. job \in [Callers -> Job] /\ job[p].fwd \in Mappings /\ UserPorts \subseteq HostPorts
    BY DEF DirectTypeOK, Job, HostPorts
  <1>1. ASSUME NEW pc, NEW todo,
               job' = [job EXCEPT ![p] = [job[p] EXCEPT !.pc = pc, !.todo = todo]]
        PROVE  /\ job'[p].name = job[p].name /\ job'[p].fwd = job[p].fwd
               /\ job'[p].pc = pc /\ job'[p].todo = todo
    BY <1>0, <1>1 DEF Job
  <1>2. CASE MapSSH(p)
    <2> DEFINE todo == DOMAIN job[p].fwd
               pc == IF todo = {} THEN "spawn" ELSE "ports"
    <2>1. job' = [job EXCEPT ![p] = [job[p] EXCEPT !.pc = pc, !.todo = todo]]
      BY <1>2 DEF MapSSH
    <2>2. pc # "ports" => todo = {}
      OBVIOUS
    <2>3. todo = DOMAIN job[p].fwd
      OBVIOUS
    <2> HIDE DEF pc, todo
    <2>4. /\ job'[p].name = job[p].name /\ job'[p].fwd = job[p].fwd
          /\ job'[p].pc = pc /\ job'[p].todo = todo
      BY <1>1, <2>1, Zenon
    <2> QED BY <2>2, <2>3, <2>4
  <1>3. CASE MapPort(p)
    <2>1. PICK g \in job[p].todo :
            /\ dnat' = Appended(g, [ip |-> VethGuestIP(Idx[job[p].name]),
                                    port |-> job[p].fwd[g]])
            /\ job' = [job EXCEPT ![p].pc = IF job[p].todo = {g} THEN "spawn" ELSE "ports",
                                  ![p].todo = @ \ {g}]
      BY <1>3, Zenon DEF MapPort
    <2> DEFINE todo == job[p].todo \ {g}
               pc == IF job[p].todo = {g} THEN "spawn" ELSE "ports"
    <2>2. job' = [job EXCEPT ![p] = [job[p] EXCEPT !.pc = pc, !.todo = todo]]
      BY <2>1
    <2>3. pc # "ports" => todo = {}
      OBVIOUS
    <2>4. todo = job[p].todo \ {g}
      OBVIOUS
    <2>5. g \in DOMAIN job[p].fwd /\ g \in UserPorts
      BY <1>0, MappingsAre DEF JobInv
    <2>6. [ip |-> VethGuestIP(Idx[job[p].name]), port |-> job[p].fwd[g]] = HomeTarget(g)
      BY <2>5 DEF PortsReserved, HomeTarget
    <2>7. dnat[g] \in {NoTarget, HomeTarget(g)}
      BY <2>5 DEF PortInv
    <2>8. dnat'[g] = HomeTarget(g)
      BY <1>0, <2>1, <2>5, <2>6, <2>7, AppendedEffect
    <2>9. job[p].pc = "ports"
      BY <1>3 DEF MapPort
    <2> HIDE DEF pc, todo
    <2>10. /\ job'[p].name = job[p].name /\ job'[p].fwd = job[p].fwd
           /\ job'[p].pc = pc /\ job'[p].todo = todo
      BY <1>1, <2>2, Zenon
    <2> QED BY <2>3, <2>4, <2>8, <2>9, <2>10
  <1> QED BY <1>2, <1>3

(* What was mapped stays so. *)
LEMMA MappedStays ==
    ASSUME DirectTypeOK, JobInv, PortsReserved, [Next]_vars,
           NEW n, NEW f \in Mappings, NEW D \in SUBSET DOMAIN f, Mapped(n, f, D)
    PROVE  \A h \in D : n = Owner[h] /\ f[h] = Guest[h] /\ dnat'[h] = HomeTarget(h)
  <1>1. D \subseteq UserPorts
    BY MappingsAre
  <1> QED BY <1>1, UserPortsEffect DEF Mapped

(* The ports that a job has mapped, and those of a VM. *)
JobPorts(p) ==
    job[p].pc \in MappedPcs =>
        /\ Mapped(job[p].name, job[p].fwd, DOMAIN job[p].fwd \ job[p].todo)
        /\ job[p].pc # "ports" => job[p].todo = {}

VmPorts(n) == vm[n].state # "gone" => Mapped(n, vm[n].fwd, DOMAIN vm[n].fwd)

(* A job that is not at its ports, or does not move on from them. *)
LEMMA JobPortsKept ==
    ASSUME DirectTypeOK, JobInv, PortsReserved, [Next]_vars, NEW p \in Callers, JobPorts(p),
           \/ job'[p].pc \notin MappedPcs
           \/ /\ job[p].pc \in MappedPcs /\ job'[p].name = job[p].name
              /\ job'[p].fwd = job[p].fwd /\ job'[p].todo = job[p].todo
              /\ job[p].pc = "ports" => job'[p].pc = "ports"
    PROVE  JobPorts(p)'
  <1>1. CASE job'[p].pc \notin MappedPcs
    BY <1>1 DEF JobPorts
  <1>2. CASE job'[p].pc \in MappedPcs
    <2>1. job[p].fwd \in Mappings
      BY DEF DirectTypeOK, Job
    <2>2. Mapped(job[p].name, job[p].fwd, DOMAIN job[p].fwd \ job[p].todo)
      BY <1>2 DEF JobPorts
    <2>3. \A h \in DOMAIN job[p].fwd \ job[p].todo :
             job[p].name = Owner[h] /\ job[p].fwd[h] = Guest[h] /\ dnat'[h] = HomeTarget(h)
      BY <2>1, <2>2, MappedStays
    <2> QED BY <1>2, <2>3 DEF JobPorts, Mapped, HomeTarget
  <1> QED BY <1>1, <1>2

(* A VM that lives on. *)
LEMMA VmPortsKept ==
    ASSUME DirectTypeOK, JobInv, PortsReserved, [Next]_vars, NEW n \in Names, VmPorts(n),
           vm'[n].state # "gone" => vm[n].state # "gone" /\ vm'[n].fwd = vm[n].fwd
    PROVE  VmPorts(n)'
  <1>1. vm[n].fwd \in Mappings
    BY DEF DirectTypeOK, VM
  <1>2. CASE vm'[n].state # "gone"
    <2>1. Mapped(n, vm[n].fwd, DOMAIN vm[n].fwd)
      BY <1>2 DEF VmPorts
    <2>2. \A h \in DOMAIN vm[n].fwd :
             n = Owner[h] /\ vm[n].fwd[h] = Guest[h] /\ dnat'[h] = HomeTarget(h)
      BY <1>1, <2>1, MappedStays
    <2> QED BY <1>2, <2>2 DEF VmPorts, Mapped, HomeTarget
  <1> QED BY <1>2 DEF VmPorts

(* Reserved ports keep leading home. *)
LEMMA PortStep ==
    ASSUME DirectTypeOK, JobInv, PortsReserved, PortsReserved', PortInv, [Next]_vars
    PROVE  PortInv'
  <1>0. /\ job \in [Callers -> Job] /\ vm \in [Names -> VM]
        /\ \A p \in Callers : JobPorts(p)
        /\ \A n \in Names : VmPorts(n)
    BY DEF DirectTypeOK, PortInv, JobPorts, VmPorts
  <1>a. \A h \in UserPorts : dnat'[h] \in {NoTarget, HomeTarget(h)}
    BY UserPortsEffect DEF PortInv
  <1>b. ASSUME \A p \in Callers : JobPorts(p)', \A n \in Names : VmPorts(n)'
        PROVE  PortInv'
    BY <1>a, <1>b DEF PortInv, JobPorts, VmPorts, HomeTarget
  <1>c. ASSUME NEW p \in Callers, \A q \in Callers : q # p => job'[q] = job[q],
               JobPorts(p)', UNCHANGED vm
        PROVE  PortInv'
    <2>1. \A n \in Names : VmPorts(n)'
      BY <1>0, <1>c, VmPortsKept
    <2>2. \A q \in Callers : q # p => JobPorts(q)'
      BY <1>0, <1>c, JobPortsKept
    <2> QED BY <1>b, <1>c, <2>1, <2>2
  <1>d. ASSUME NEW p \in Callers, \A q \in Callers : q # p => job'[q] = job[q],
               job'[p].pc \notin MappedPcs,
               \A n \in Names : vm'[n].state # "gone" =>
                   vm[n].state # "gone" /\ vm'[n].fwd = vm[n].fwd
        PROVE  PortInv'
    <2>1. \A n \in Names : VmPorts(n)'
      BY <1>0, <1>d, VmPortsKept
    <2>2. \A q \in Callers : JobPorts(q)'
      BY <1>0, <1>d, JobPortsKept
    <2> QED BY <1>b, <2>1, <2>2
  <1>1. ASSUME NEW p \in Callers, NEW n \in Names,
               (\E r, a \in PortLists : RunDirect(p, n, r, a)) \/ Teardown(p, n)
        PROVE  PortInv'
    <2>1. job'[p].pc \in {"del-ns", "td-ns"} /\ UNCHANGED vm
      BY <1>0, <1>1, Zenon DEF RunDirect, Teardown, Idle
    <2>2. job'[p].pc \notin MappedPcs
      BY <2>1 DEF MappedPcs, BootPcs
    <2>3. \A q \in Callers : q # p => job'[q] = job[q]
      BY <1>1, OthersJobs
    <2> QED BY <1>d, <2>1, <2>2, <2>3
  <1>2. ASSUME NEW p \in Callers,
               DelNetns(p) \/ DelVeth(p) \/ AddNetns(p) \/ AddVeth(p) \/ Wire(p)
                 \/ FlushForward(p) \/ SpawnFails(p) \/ TdNetns(p)
        PROVE  PortInv'
    <2>1. UNCHANGED vm /\ job'[p].pc \notin MappedPcs
      BY <1>2, GotoEffect DEF DelNetns, DelVeth, AddNetns, AddVeth, Wire, FlushForward,
                              SpawnFails, TdNetns, MappedPcs, BootPcs
    <2>2. \A q \in Callers : q # p => job'[q] = job[q]
      BY <1>2, OthersJobs DEF SetupStep, BootStep, TeardownStep
    <2> QED BY <1>d, <2>1, <2>2
  <1>3. ASSUME NEW p \in Callers,
               WireFails(p) \/ TdVeth(p) \/ SetupFails(p) \/ Crash(p)
        PROVE  PortInv'
    <2>1. UNCHANGED vm /\ Return(p)
      BY <1>3, Zenon DEF WireFails, TdVeth, SetupFails, Crash
    <2>2. \A q \in Callers : job'[q] = IF q = p THEN Idle ELSE job[q]
      BY <2>1, ReturnEffect
    <2>3. job'[p].pc \notin MappedPcs
      BY <2>2 DEF Idle, MappedPcs, BootPcs
    <2> QED BY <1>d, <2>1, <2>2, <2>3
  <1>4. ASSUME NEW p \in Callers, FlushInput(p) \/ AddRule(p) PROVE PortInv'
    <2>1. UNCHANGED vm /\ \A q \in Callers : q # p => job'[q] = job[q]
      BY <1>4, OthersJobs DEF FlushInput, AddRule, SetupStep
    <2>2. CASE FlushInput(p)
      <3>1. job'[p].pc = "rule"
        BY <1>0, <2>2 DEF FlushInput, Job
      <3> QED BY <1>d, <2>1, <3>1 DEF MappedPcs, BootPcs
    <2>3. CASE AddRule(p)
      <3>1. job'[p].pc \in {"rule", "ssh"}
        BY <2>3, AddRuleEffect
      <3> QED BY <1>d, <2>1, <3>1 DEF MappedPcs, BootPcs
    <2> QED BY <1>4, <2>2, <2>3
  <1>5. ASSUME NEW p \in Callers, MapSSH(p) \/ MapPort(p) PROVE PortInv'
    <2>1. UNCHANGED vm /\ \A q \in Callers : q # p => job'[q] = job[q]
      BY <1>5, OthersJobs DEF MapSSH, MapPort, SetupStep
    <2>2. /\ job'[p].name = job[p].name /\ job'[p].fwd = job[p].fwd
          /\ job'[p].pc # "ports" => job'[p].todo = {}
      BY <1>5, MapDone
    <2>3. ASSUME NEW h \in DOMAIN job[p].fwd \ job'[p].todo
          PROVE  dnat'[h] = HomeTarget(h)
      <3>1. CASE job[p].pc = "ports" /\ h \notin job[p].todo
        <4>1. Mapped(job[p].name, job[p].fwd, DOMAIN job[p].fwd \ job[p].todo)
          BY <1>0, <3>1 DEF JobPorts, MappedPcs
        <4>2. job[p].fwd \in Mappings
          BY <1>0 DEF Job
        <4> QED BY <2>3, <3>1, <4>1, <4>2, MappedStays
      <3>2. CASE ~(job[p].pc = "ports" /\ h \notin job[p].todo)
        BY <1>5, <2>3, <3>2, MapDone
      <3> QED BY <3>1, <3>2
    <2>4. \A h \in DOMAIN job[p].fwd : job[p].name = Owner[h] /\ job[p].fwd[h] = Guest[h]
      BY DEF PortsReserved
    <2>5. JobPorts(p)'
      BY <2>2, <2>3, <2>4 DEF JobPorts, Mapped, HomeTarget
    <2> QED BY <1>c, <2>1, <2>5
  <1>6. ASSUME NEW p \in Callers, Spawn(p) PROVE PortInv'
    <2>1. \A q \in Callers : q # p => job'[q] = job[q]
      BY <1>6, OthersJobs DEF BootStep
    <2>2. /\ job'[p].pc = "boot" /\ job'[p].name = job[p].name
          /\ job'[p].fwd = job[p].fwd /\ job'[p].todo = job[p].todo
      BY <1>6, GotoEffect DEF Spawn
    <2>3. job[p].pc = "spawn" /\ job[p].pc \in MappedPcs /\ job[p].fwd \in Mappings
      BY <1>0, <1>6 DEF Spawn, MappedPcs, BootPcs, Job
    <2>4. JobPorts(p)'
      BY <1>0, <2>2, <2>3, JobPortsKept
    <2>5. \A q \in Callers : q # p => JobPorts(q)'
      BY <1>0, <2>1, JobPortsKept
    <2>6. PICK n \in Names : n = job[p].name
      BY <2>3, BusyNamed
    <2>7. /\ vm'[n] = [state |-> "spawned", fwd |-> job[p].fwd]
          /\ \A m \in Names \ {n} : vm'[m] = vm[m]
      BY <1>0, <1>6, <2>6 DEF Spawn
    <2>8. Mapped(n, job[p].fwd, DOMAIN job[p].fwd)
      BY <1>0, <2>3, <2>6 DEF JobPorts
    <2>9. \A h \in DOMAIN job[p].fwd :
             n = Owner[h] /\ job[p].fwd[h] = Guest[h] /\ dnat'[h] = HomeTarget(h)
      BY <2>3, <2>8, MappedStays
    <2>10. VmPorts(n)'
      BY <2>7, <2>9 DEF VmPorts, Mapped, HomeTarget
    <2>11. \A m \in Names : m # n => VmPorts(m)'
      BY <1>0, <2>7, VmPortsKept
    <2> QED BY <1>b, <2>4, <2>5, <2>10, <2>11
  <1>7. ASSUME NEW p \in Callers, Boot(p) \/ BootFails(p) PROVE PortInv'
    <2>1. \A q \in Callers : q # p => job'[q] = job[q]
      BY <1>7, OthersJobs DEF BootStep
    <2>2. job[p].name \in Names
      BY <1>7, BusyNamed DEF Boot, BootFails
    <2>3. \A n \in Names : vm'[n].state # "gone" =>
             vm[n].state # "gone" /\ vm'[n].fwd = vm[n].fwd
      BY <1>0, <1>7, <2>2 DEF Boot, BootFails, Gone, VM
    <2>4. job'[p].pc \in {"idle", "td-ns"}
      BY <1>7, GotoEffect, ReturnEffect DEF Boot, BootFails, Idle
    <2> QED BY <1>d, <2>1, <2>3, <2>4 DEF MappedPcs, BootPcs
  <1>8. ASSUME NEW n \in Names, VmExit(n) PROVE PortInv'
    <2>1. \A m \in Names : vm'[m].state # "gone" => vm'[m] = vm[m]
      BY <1>0, <1>8 DEF VmExit, Gone
    <2>2. job' = job
      BY <1>8 DEF VmExit
    <2>3. \A m \in Names : VmPorts(m)'
      BY <1>0, <2>1, VmPortsKept
    <2>4. \A p \in Callers : JobPorts(p)'
      BY <1>0, <2>2, JobPortsKept
    <2> QED BY <1>b, <2>3, <2>4
  <1>9. CASE UNCHANGED vars
    <2>1. job' = job /\ vm' = vm /\ dnat' = dnat
      BY <1>9 DEF vars
    <2> QED BY <2>1 DEF PortInv, Mapped, HomeTarget
  <1> QED
    BY <1>1, <1>2, <1>3, <1>4, <1>5, <1>6, <1>7, <1>8, <1>9
    DEF Next, SetupStep, BootStep, TeardownStep

(* If every host port is asked for by one name only and always for one     *)
(* guest port, it leads there while the VM is up, although rules of        *)
(* earlier lives are never removed: then they are "harmless".              *)
THEOREM ReservedPortsLeadHome == ReservedSpec => []PortReaches
  <1>1. Init => PortsReserved /\ PortInv
    <2>1. ASSUME Init PROVE PortsReserved
      BY <2>1 DEF Init, PortsReserved, Idle, NoPorts
    <2>2. ASSUME Init PROVE PortInv
      <3>1. UserPorts \subseteq HostPorts
        BY DEF HostPorts
      <3> QED BY <2>2, <3>1 DEF Init, PortInv, Idle, Gone, MappedPcs, BootPcs
    <2> QED BY <2>1, <2>2
  <1>2. [Next /\ PortsReserved']_vars => [Next]_vars
    OBVIOUS
  <1>3. PortsReserved /\ [Next /\ PortsReserved']_vars => PortsReserved'
    BY DEF vars, PortsReserved
  <1>4. DirectTypeOK /\ JobInv /\ PortsReserved /\ PortsReserved' /\ PortInv /\ [Next]_vars
          => PortInv'
    BY PortStep
  <1>5. PortInv => PortReaches
    BY DEF PortInv, PortReaches, Mapped, HomeTarget
  <1> QED BY <1>1, <1>2, <1>3, <1>4, <1>5, JobInvariance, PTL DEF ReservedSpec, Spec
=============================================================================
