----------------------------- MODULE Discovery -----------------------------
(***************************************************************************)
(* List (vm.go:521-606) beside the knaller processes of Lifecycle: one     *)
(* "knaller ls" reads the socket directory, asks each socket in turn, then *)
(* reads the data directory, while VMs start, stop and are removed.        *)
(***************************************************************************)
EXTENDS Lifecycle

VARIABLES
    ls,     \* the List in progress, or the result of the last one
    was     \* (history) what there was to see of each name since List began

allVars == <<vmm, sock, dir, call, ls, was>>

NotListed == "none"

ListType == [pc: {"idle", "probe", "done"}, todo: SUBSET Names,
             seen: [Names -> {NotListed, "unbooted", "running", "paused", "stopped"}]]

(* A process that answers to nobody: its Run died before it returned.      *)
Orphaned(n) == \E i \in Insts : Live(vmm[i]) /\ vmm[i].name = n /\ vmm[i].owner = "none"

Witnessed(n) == {Status(n)} \cup (IF Orphaned(n) THEN {"orphaned"} ELSE {})

ListInit ==
    /\ Init
    /\ ls = [pc |-> "idle", todo |-> {}, seen |-> [n \in Names |-> NotListed]]
    /\ was = [n \in Names |-> {}]

(* os.ReadDir(socketDir): the names whose sockets will be asked. *)
ListSockets ==
    /\ ls.pc \in {"idle", "done"}
    /\ ls' = [pc |-> "probe", todo |-> {n \in Names : sock[n] # NoSock},
              seen |-> [n \in Names |-> NotListed]]
    /\ was' = [n \in Names |-> Witnessed(n)]
    /\ UNCHANGED vars

(* GetInfo answers with the state, or fails and the socket is skipped. *)
ListProbe(n) ==
    /\ ls.pc = "probe" /\ n \in ls.todo
    /\ \/ /\ sock[n] \in Insts
          /\ ls' = [ls EXCEPT !.todo = @ \ {n}, !.seen[n] = vmm[sock[n]].state]
       \/ /\ sock[n] \in Insts => SlowAPI
          /\ ls' = [ls EXCEPT !.todo = @ \ {n}]
    /\ UNCHANGED <<vars, was>>

(* mutants: every directory is a stopped VM; only those without a socket    *)
(* file are; a name that is nowhere gets a status                          *)
ListDirs_All ==
    /\ ls.pc = "probe" /\ ls.todo = {}
    /\ ls' = [ls EXCEPT !.pc = "done",
                !.seen = [n \in Names |-> IF dir[n].made THEN "stopped" ELSE @[n]]]
    /\ UNCHANGED <<vars, was>>
ListDirs_NoFile ==
    /\ ls.pc = "probe" /\ ls.todo = {}
    /\ ls' = [ls EXCEPT !.pc = "done",
                !.seen = [n \in Names |-> IF @[n] = NotListed /\ dir[n].made
                                                /\ sock[n] = NoSock
                                            THEN "stopped" ELSE @[n]]]
    /\ UNCHANGED <<vars, was>>
ListDirs_Unknown ==
    /\ ls.pc = "probe" /\ ls.todo = {}
    /\ ls' = [ls EXCEPT !.pc = "done",
                !.seen = [n \in Names |-> IF @[n] = NotListed
                                            THEN "unknown" ELSE @[n]]]
    /\ UNCHANGED <<vars, was>>

(* os.ReadDir(vmsDir): directories of names that did not answer. *)
ListDirs ==
    /\ ls.pc = "probe" /\ ls.todo = {}
    /\ ls' = [ls EXCEPT !.pc = "done",
                !.seen = [n \in Names |-> IF @[n] = NotListed /\ dir[n].made
                                            THEN "stopped" ELSE @[n]]]
    /\ UNCHANGED <<vars, was>>

ListStep == ListSockets \/ (\E n \in Names : ListProbe(n)) \/ ListDirs

(* The rest of the system goes on, and what it shows is recorded until the *)
(* result is there.                                                        *)
OthersStep ==
    /\ Next
    /\ was' = IF ls.pc = "probe"
                THEN [n \in Names |-> was[n] \cup Witnessed(n)'] ELSE was
    /\ UNCHANGED ls

ListNext == ListStep \/ OthersStep

ListSpec == ListInit /\ [][ListNext]_allVars

-----------------------------------------------------------------------------
(* Every variable of List has its type. *)
ListTypeOK ==
    /\ ls \in ListType
    /\ was \in [Names -> SUBSET (Registry!Statuses \cup {"orphaned"})]

(* Although the two directories and the sockets are read one after the     *)
(* other, the status List reports for a VM was its status at some moment   *)
(* while List ran (vm.go:521-524).                                         *)
ReportedWasTrue ==
    ls.pc = "done" =>
        \A n \in Names : ls.seen[n] # NotListed => ls.seen[n] \in was[n]

(* Even when starters die and leave processes behind, a VM whose guest has *)
(* been up all the time while List ran is reported: one that is not was    *)
(* absent or not yet booted at some moment (vm.go:521-606).                *)
UpIsListed ==
    ls.pc = "done" =>
        \A n \in Names :
            ls.seen[n] = NotListed => was[n] \cap {"absent", "unbooted"} # {}

(* List discovers all VMs (vm.go:521): a name it does not report was absent *)
(* at some moment while List ran, or had a process whose Run had died: such *)
(* a process may lose its directory to rm before its guest is booted.      *)
ListComplete ==
    ls.pc = "done" =>
        \A n \in Names :
            ls.seen[n] = NotListed => was[n] \cap {"absent", "orphaned"} # {}
=============================================================================
