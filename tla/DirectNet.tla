----------------------------- MODULE DirectNet -----------------------------
(***************************************************************************)
(* Direct mode (vm_direct.go): RunDirect builds a kernel network namespace *)
(* per VM and shares one nftables table, knaller_host, with every other    *)
(* RunDirect on the host.  Each action is one ip or nft command, or a run  *)
(* of them that touches only what belongs to the caller's own VM.          *)
(*                                                                         *)
(* A name is used by one caller at a time (Lifecycle has the races on one  *)
(* name); what callers race on here is the shared table.  Rules of the nat *)
(* chains are only ever appended and the first match wins, so a host port  *)
(* is described by the target of its first rule.                           *)
(***************************************************************************)
EXTENDS NetDerive

CONSTANTS
    Names,      \* the VM names
    Callers,    \* goroutines or processes that run RunDirect
    Idx,        \* vethSubnetIndex of each name
    Hash,       \* the bits that sshPort of each name is derived from
    Fwds,       \* port lists that users ask for
    AllowCrash, \* a caller may die between two steps
    NoName, Nobody, NoTarget

SSH == [n \in Names |-> SSHPortOf(Hash[n])]
UserPorts == UNION {HostsOf(l) : l \in Fwds}
GuestPorts == {22} \cup UNION {GuestsOf(l) : l \in Fwds}
HostPorts == UserPorts \cup {SSH[n] : n \in Names}
PortLists == Fwds \cup {<<>>}

(* No two names share an index or an SSH port, and no user asks for a port *)
(* that is the SSH port of a name: the code checks none of this.           *)
ASSUME IdxAssumption ==
    /\ Idx \in [Names -> Indices]
    /\ \A m, n \in Names : Idx[m] = Idx[n] => m = n
ASSUME HashAssumption ==
    /\ Hash \in [Names -> Hashes]
    /\ \A m, n \in Names : SSH[m] = SSH[n] => m = n
ASSUME FwdsAssumption == \A l \in Fwds : l \in Seq(PortMapping)
ASSUME UserPortsAssumption == \A n \in Names : SSH[n] \notin UserPorts
ASSUME DirectBlanksAssumption ==
    NoName \notin Names /\ Nobody \notin Callers /\ AllowCrash \in BOOLEAN

VARIABLES
    box,    \* each name's namespace and veth pair
    vm,     \* each name's Firecracker
    chain,  \* the filter chains of knaller_host
    dnat,   \* its nat chains: the first target of each host port
    job,    \* what each caller is doing
    last    \* (history) who flushed each chain last; Nobody once that one
            \* has given up with rules of it still to add

vars == <<box, vm, chain, dnat, job, last>>

-----------------------------------------------------------------------------
(* A namespace with its nat rules goes as a whole.  The veth pair is made,  *)
(* its guest end moved into the namespace, and both given addresses.       *)
Box == [netns: BOOLEAN, veth: {"none", "made", "moved", "up"}, nat: SUBSET GuestPorts]
NoBox == [netns |-> FALSE, veth |-> "none", nat |-> {}]

(* Partial functions from UserPorts to GuestPorts. *)
Mappings == UNION {[D -> GuestPorts] : D \in SUBSET UserPorts}
NoPorts == [h \in {} |-> 22]

VM == [state: {"gone", "spawned", "up"}, fwd: Mappings]
Gone == [state |-> "gone", fwd |-> NoPorts]

(* Of a chain: the kinds of rules in it, and those that come only after a  *)
(* reject rule.  Once there, a rule gains nothing by being added again.    *)
Chains == {"forward", "input"}
Rules == {"established", "dns", "reject"}
Chain == [rules: SUBSET Rules, late: SUBSET Rules]
NoRules == [rules |-> {}, late |-> {}]

(* hostRules, in order; the two dns rules and the six rejects of the       *)
(* forward chain stand as one each.                                        *)
HostRules == << <<"forward", "established">>, <<"forward", "dns">>,
                <<"forward", "reject">>, <<"input", "established">>,
                <<"input", "reject">> >>

Target == [ip: {VethGuestIP(Idx[n]) : n \in Names}, port: GuestPorts]

SetupPcs == {"del-ns", "del-veth", "add-ns", "add-veth", "wire",
             "flush-forward", "flush-input", "rule", "ssh", "ports"}
BootPcs == {"spawn", "boot"}
TeardownPcs == {"td-ns", "td-veth"}

(* rule is the next of HostRules, todo the host ports still to be mapped.  *)
Job == [pc: {"idle"} \cup SetupPcs \cup BootPcs \cup TeardownPcs,
        name: Names \cup {NoName}, fwd: Mappings,
        rule: 1..5, todo: SUBSET UserPorts]
Idle == [pc |-> "idle", name |-> NoName, fwd |-> NoPorts,
         rule |-> 1, todo |-> {}]

Init ==
    /\ box = [n \in Names |-> NoBox]
    /\ vm = [n \in Names |-> Gone]
    /\ chain = [c \in Chains |-> NoRules]
    /\ dnat = [h \in HostPorts |-> NoTarget]
    /\ job = [p \in Callers |-> Idle]
    /\ last = [c \in Chains |-> Nobody]

-----------------------------------------------------------------------------
Goto(p, pc) == job' = [job EXCEPT ![p].pc = pc]
Return(p) == job' = [job EXCEPT ![p] = Idle]

Unused(n) == \A q \in Callers : job[q].name # n

-----------------------------------------------------------------------------
(* RunDirect up to the network.  A restore merges the recorded ports with  *)
(* those asked for.  (A fresh start, recorded = <<>>, takes the list as it *)
(* is; that it names a host port twice only adds rules behind the first of *)
(* that port, which no packet to the port reaches, and they are left out.) *)
(* The socket and the disk, unless the user brings a raw one, are prepared *)
(* and removed as in Lifecycle's Run.                                      *)

RunDirect(p, n, recorded, asked) ==
    /\ job[p].pc = "idle" /\ Unused(n)
    /\ vm[n].state = "gone"
    /\ job' = [job EXCEPT ![p] =
                 [Idle EXCEPT !.pc = "del-ns", !.name = n,
                              !.fwd = AsMapping(MergeUniquePorts(recorded, asked))]]
    /\ UNCHANGED <<box, vm, chain, dnat, last>>

-----------------------------------------------------------------------------
(* setupBoxNetns: the caller's own namespace and veth pair.                *)

(* "ip netns del" takes what is in the namespace along; the host's end of  *)
(* the veth pair, if the guest's had been moved in, goes with it.          *)
WithoutNetns(b) ==
    [netns |-> FALSE, nat |-> {},
     veth |-> IF b.veth \in {"moved", "up"} THEN "none" ELSE b.veth]

SetBox(p, b) == box' = [box EXCEPT ![job[p].name] = b]

(* mutant: the leftovers of an earlier VM are not removed *)
DelNetns_Skipped(p) ==
    /\ job[p].pc = "del-ns"
    /\ Goto(p, "del-veth")
    /\ UNCHANGED <<box, vm, chain, dnat, last>>

DelNetns(p) ==
    /\ job[p].pc = "del-ns"
    /\ SetBox(p, WithoutNetns(box[job[p].name]))
    /\ Goto(p, "del-veth")
    /\ UNCHANGED <<vm, chain, dnat, last>>

DelVeth(p) ==
    /\ job[p].pc = "del-veth"
    /\ SetBox(p, [box[job[p].name] EXCEPT !.veth = "none"])
    /\ Goto(p, "add-ns")
    /\ UNCHANGED <<vm, chain, dnat, last>>

(* "ip netns add" and "ip link add" fail if the name is taken. *)
AddNetns(p) ==
    /\ job[p].pc = "add-ns"
    /\ ~box[job[p].name].netns
    /\ SetBox(p, [box[job[p].name] EXCEPT !.netns = TRUE])
    /\ Goto(p, "add-veth")
    /\ UNCHANGED <<vm, chain, dnat, last>>

AddVeth(p) ==
    /\ job[p].pc = "add-veth"
    /\ box[job[p].name].veth = "none"
    /\ SetBox(p, [box[job[p].name] EXCEPT !.veth = "made"])
    /\ Goto(p, "wire")
    /\ UNCHANGED <<vm, chain, dnat, last>>

(* The guest end moves in, both get their addresses and are set up, then   *)
(* the routes, the TAP device, the sysctls, and the table knaller_box_nat, *)
(* which sends inbound ports to the guest's address.                       *)
Wire(p) ==
    /\ job[p].pc = "wire"
    /\ SetBox(p, [box[job[p].name] EXCEPT
                    !.veth = "up",
                    !.nat = {22} \cup {job[p].fwd[h] : h \in DOMAIN job[p].fwd}])
    /\ Goto(p, "flush-forward")
    /\ UNCHANGED <<vm, chain, dnat, last>>

(* One of these commands fails: what the others made stays. *)
WireFails(p) ==
    /\ job[p].pc = "wire"
    /\ \E veth \in {"made", "moved", "up"},
          nat \in SUBSET ({22} \cup {job[p].fwd[h] : h \in DOMAIN job[p].fwd}) :
         /\ nat # {} => veth = "up"
         /\ SetBox(p, [box[job[p].name] EXCEPT !.veth = veth, !.nat = nat])
    /\ Return(p)
    /\ UNCHANGED <<vm, chain, dnat, last>>

-----------------------------------------------------------------------------
(* setupBoxNetns: the shared table.                                        *)

Flush(p, c) ==
    /\ chain' = [chain EXCEPT ![c] = NoRules]
    /\ last' = [last EXCEPT ![c] = p]

FlushForward(p) ==
    /\ job[p].pc = "flush-forward"
    /\ Flush(p, "forward")
    /\ Goto(p, "flush-input")
    /\ UNCHANGED <<box, vm, dnat>>

(* mutant: the first rule has number 0 *)
FlushInput_Zero(p) ==
    /\ job[p].pc = "flush-input"
    /\ Flush(p, "input")
    /\ job' = [job EXCEPT ![p].pc = "rule", ![p].rule = 0]
    /\ UNCHANGED <<box, vm, dnat>>

FlushInput(p) ==
    /\ job[p].pc = "flush-input"
    /\ Flush(p, "input")
    /\ job' = [job EXCEPT ![p].pc = "rule", ![p].rule = 1]
    /\ UNCHANGED <<box, vm, dnat>>

(* "nft add rule": at the end of the chain. *)
WithRule(c, r) ==
    IF r \in c.rules THEN c
    ELSE [rules |-> c.rules \cup {r},
          late |-> IF "reject" \in c.rules THEN c.late \cup {r} ELSE c.late]

(* mutant: the last rule of the input chain is forgotten *)
AddRule_LastMissing(p) ==
    LET c == HostRules[job[p].rule][1] IN
    /\ job[p].pc = "rule"
    /\ chain' = [chain EXCEPT ![c] = WithRule(@, HostRules[job[p].rule][2])]
    /\ job' = IF job[p].rule = 4 THEN [job EXCEPT ![p].pc = "ssh"]
              ELSE [job EXCEPT ![p].rule = @ + 1]
    /\ UNCHANGED <<box, vm, dnat, last>>

AddRule(p) ==
    LET c == HostRules[job[p].rule][1] IN
    /\ job[p].pc = "rule"
    /\ chain' = [chain EXCEPT ![c] = WithRule(@, HostRules[job[p].rule][2])]
    /\ job' = IF job[p].rule = 5 THEN [job EXCEPT ![p].pc = "ssh"]
              ELSE [job EXCEPT ![p].rule = @ + 1]
    /\ UNCHANGED <<box, vm, dnat, last>>

(* Where the SSH port of n leads: port 22 at the namespace's end of its veth. *)
SshTarget(n) == [ip |-> VethGuestIP(Idx[n]), port |-> 22]

(* A DNAT rule for host port h is appended: it matches if it is the first. *)
Appended(h, target) ==
    [dnat EXCEPT ![h] = IF @ = NoTarget THEN target ELSE @]

(* perBox: the SSH port first, then the ports of the Config.  (The per-VM  *)
(* masquerade repeats itself harmlessly and is left out.)                  *)
MapSSH(p) ==
    LET n == job[p].name
        todo == DOMAIN job[p].fwd
    IN
    /\ job[p].pc = "ssh"
    /\ dnat' = Appended(SSH[n], SshTarget(n))
    /\ job' = [job EXCEPT ![p].pc = IF todo = {} THEN "spawn" ELSE "ports",
                          ![p].todo = todo]
    /\ UNCHANGED <<box, vm, chain, last>>

MapPort(p) ==
    /\ job[p].pc = "ports"
    /\ \E h \in job[p].todo :
         /\ dnat' = Appended(h, [ip |-> VethGuestIP(Idx[job[p].name]),
                                 port |-> job[p].fwd[h]])
         /\ job' = [job EXCEPT ![p].pc = IF job[p].todo = {h} THEN "spawn" ELSE "ports",
                               ![p].todo = @ \ {h}]
    /\ UNCHANGED <<box, vm, chain, last>>

(* The rules that p has still to add to chain c after its flush of it. *)
Pending(p, c) ==
    CASE job[p].pc = "flush-input" /\ c = "forward" -> Rules
      [] job[p].pc = "rule" ->
           {HostRules[i][2] : i \in {j \in job[p].rule..5 : HostRules[j][1] = c}}
      [] OTHER -> {}

(* p does not go on: the chains it has not completed stay as they are. *)
LastAfter(p) ==
    [c \in Chains |-> IF last[c] = p /\ Pending(p, c) # {} THEN Nobody ELSE last[c]]

(* Another command fails: RunDirect returns without tearing the box down.  *)
SetupFails(p) ==
    /\ job[p].pc \in {"add-ns", "add-veth", "rule", "ssh", "ports"}
    /\ last' = LastAfter(p)
    /\ Return(p)
    /\ UNCHANGED <<box, vm, chain, dnat>>

-----------------------------------------------------------------------------
(* RunDirect after the network.                                            *)

(* nsenter execs Firecracker inside the namespace. *)
Spawn(p) ==
    LET n == job[p].name IN
    /\ job[p].pc = "spawn"
    /\ vm' = [vm EXCEPT ![n] = [state |-> "spawned", fwd |-> job[p].fwd]]
    /\ Goto(p, "boot")
    /\ UNCHANGED <<box, chain, dnat, last>>

SpawnFails(p) ==
    /\ job[p].pc = "spawn"
    /\ Goto(p, "td-ns")
    /\ UNCHANGED <<box, vm, chain, dnat, last>>

(* The socket appears and the API requests succeed (Lifecycle has them one *)
(* by one), ...                                                            *)
Boot(p) ==
    /\ job[p].pc = "boot"
    /\ vm[job[p].name].state = "spawned"
    /\ vm' = [vm EXCEPT ![job[p].name].state = "up"]
    /\ Return(p)
    /\ UNCHANGED <<box, chain, dnat, last>>

(* ... or not: the process is killed and cleanup() follows.                *)
BootFails(p) ==
    /\ job[p].pc = "boot"
    /\ vm' = [vm EXCEPT ![job[p].name] = Gone]
    /\ Goto(p, "td-ns")
    /\ UNCHANGED <<box, chain, dnat, last>>

-----------------------------------------------------------------------------
(* teardownBoxNetns, called by cleanup() and, as TeardownBoxNetns, by      *)
(* whoever ends a VM's life.                                               *)

Teardown(p, n) ==
    /\ job[p].pc = "idle" /\ Unused(n)
    /\ vm[n].state = "gone"
    /\ job' = [job EXCEPT ![p] = [Idle EXCEPT !.pc = "td-ns", !.name = n]]
    /\ UNCHANGED <<box, vm, chain, dnat, last>>

TdNetns(p) ==
    /\ job[p].pc = "td-ns"
    /\ SetBox(p, WithoutNetns(box[job[p].name]))
    /\ Goto(p, "td-veth")
    /\ UNCHANGED <<vm, chain, dnat, last>>

TdVeth(p) ==
    /\ job[p].pc = "td-veth"
    /\ SetBox(p, [box[job[p].name] EXCEPT !.veth = "none"])
    /\ Return(p)
    /\ UNCHANGED <<vm, chain, dnat, last>>

-----------------------------------------------------------------------------
(* Firecracker exits; namespace, veth pair and rules stay. *)
VmExit(n) ==
    /\ vm[n].state # "gone"
    /\ vm' = [vm EXCEPT ![n] = Gone]
    /\ UNCHANGED <<box, chain, dnat, job, last>>

(* The caller dies in the middle of what it does. *)
Crash(p) ==
    /\ AllowCrash
    /\ job[p].pc # "idle"
    /\ last' = LastAfter(p)
    /\ Return(p)
    /\ UNCHANGED <<box, vm, chain, dnat>>

-----------------------------------------------------------------------------
SetupStep(p) ==
    \/ DelNetns(p) \/ DelVeth(p) \/ AddNetns(p) \/ AddVeth(p)
    \/ Wire(p) \/ WireFails(p) \/ FlushForward(p) \/ FlushInput(p) \/ AddRule(p)
    \/ MapSSH(p) \/ MapPort(p) \/ SetupFails(p)

BootStep(p) == Spawn(p) \/ SpawnFails(p) \/ Boot(p) \/ BootFails(p)

TeardownStep(p) == TdNetns(p) \/ TdVeth(p)

Next ==
    \/ \E p \in Callers :
         \/ \E n \in Names, recorded, asked \in PortLists :
              RunDirect(p, n, recorded, asked)
         \/ \E n \in Names : Teardown(p, n)
         \/ SetupStep(p) \/ BootStep(p) \/ TeardownStep(p) \/ Crash(p)
    \/ \E n \in Names : VmExit(n)

Spec == Init /\ [][Next]_vars

-----------------------------------------------------------------------------
(* Every variable has its type. *)
DirectTypeOK ==
    /\ box \in [Names -> Box]
    /\ vm \in [Names -> VM]
    /\ chain \in [Chains -> Chain]
    /\ dnat \in [HostPorts -> Target \cup {NoTarget}]
    /\ job \in [Callers -> Job]
    /\ last \in [Chains -> Callers \cup {Nobody}]

(* The host's end of m's veth pair is in the /30 of n's guest end. *)
Own30(m, n) == Base30(VethHostIP(Idx[m])) = Base30(VethGuestIP(Idx[n]))

(* The SSH port of a VM that is up leads into its own namespace and from   *)
(* there to its guest: whatever rules and boxes earlier VMs, failed or     *)
(* killed set-ups have left, and although rules are never removed          *)
(* (vm_direct.go:537-557).                                                 *)
SshReaches ==
    \A n \in Names :
        vm[n].state = "up" =>
            /\ dnat[SSH[n]] = SshTarget(n)
            /\ \A m \in Names : (Own30(m, n) /\ box[m].veth = "up") <=> m = n
            /\ box[n].netns /\ 22 \in box[n].nat

(* Set-ups that flush and refill the shared filter chains at the same time *)
(* lose no rule between them: what is missing from a chain is still to be  *)
(* added by the caller that flushed it last, unless nobody has flushed it  *)
(* or that caller has given up half way (vm_direct.go:383-385, 490-535).   *)
FilterComplete ==
    \A c \in Chains, i \in DOMAIN HostRules :
        (HostRules[i][1] = c /\ HostRules[i][2] \notin chain[c].rules) =>
            \/ last[c] = Nobody
            \/ \E p \in Callers : last[c] = p /\ HostRules[i][2] \in Pending(p, c)

(* At whatever step earlier set-ups or tear-downs of the name were cut      *)
(* short, what they left is gone when a new set-up makes its own namespace *)
(* and veth pair: it never stops the new one (vm_direct.go:387-390).  This *)
(* assumes that the two deletions, whose errors are dropped there, succeed *)
(* whenever there is something to delete.                                  *)
NothingLeft ==
    \A p \in Callers :
        /\ job[p].pc = "add-ns" => box[job[p].name] = NoBox
        /\ job[p].pc = "add-veth" => box[job[p].name].veth = "none"

(* What makes these inductive: only its own job touches the box of a name, *)
(* and only while it has no VM.                                            *)
Wired(n) == box[n].netns /\ box[n].veth = "up" /\ 22 \in box[n].nat

JobInv ==
    /\ \A p \in Callers :
         /\ job[p].name = NoName <=> job[p].pc = "idle"
         /\ job[p].todo \subseteq DOMAIN job[p].fwd
    /\ \A p, q \in Callers :
         (job[p].name = job[q].name /\ job[p].pc # "idle") => p = q

BuiltPcs == {"flush-forward", "flush-input", "rule", "ssh", "ports"} \cup BootPcs

BoxAt(p) ==
    LET b == box[job[p].name] IN
    /\ job[p].pc = "del-veth" => ~b.netns /\ b.nat = {}
    /\ job[p].pc = "add-ns" => b = NoBox
    /\ job[p].pc = "add-veth" => b.veth = "none"
    /\ job[p].pc \in {"add-veth", "wire"} => b.netns
    /\ job[p].pc \in BuiltPcs => Wired(job[p].name)

BoxInv == \A p \in Callers : BoxAt(p)

DnatInv ==
    /\ \A n \in Names : dnat[SSH[n]] \in {NoTarget, SshTarget(n)}
    /\ \A p \in Callers :
         job[p].pc \in {"ports"} \cup BootPcs =>
             dnat[SSH[job[p].name]] = SshTarget(job[p].name)

VmInv ==
    /\ \A n \in Names :
         vm[n].state # "gone" => Wired(n) /\ dnat[SSH[n]] = SshTarget(n)
    /\ \A p \in Callers :
         job[p].pc \notin {"idle", "boot"} => vm[job[p].name].state = "gone"

DirectInv == JobInv /\ BoxInv /\ DnatInv /\ VmInv

(* When all VMs have been set up successfully, the rules that accept come  *)
(* before the ones that reject ("so ordering stays correct",               *)
(* vm_direct.go:474-478).                                                  *)
FilterOrdered ==
    (\A n \in Names : vm[n].state = "up") =>
        \A c \in Chains : chain[c].late = {}

(* Every forwarded host port of a VM that is up leads to that VM's guest   *)
(* port: rules of an earlier life "are harmless, and will be replaced"     *)
(* (vm_direct.go:554-557).  Where a first rule still names the guest port  *)
(* of an earlier life, and the new namespace has rules for the present     *)
(* ones only, the host port is dead.                                       *)
PortReaches ==
    \A n \in Names :
        vm[n].state = "up" =>
            \A h \in DOMAIN vm[n].fwd :
                dnat[h] = [ip |-> VethGuestIP(Idx[n]), port |-> vm[n].fwd[h]]
=============================================================================
