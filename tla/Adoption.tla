------------------------------ MODULE Adoption ------------------------------
(***************************************************************************)
(* A supervisor that outlives its container: it starts VMs with RunDirect, *)
(* moves them out of its control group (EscapeContainerCgroup), writes     *)
(* their PIDs down, and after a restart takes them over again with AdoptVM *)
(* (vm.go, vm_direct.go; README "Adopting a running VM").  Process ids are *)
(* reused by VMs and by processes that have nothing to do with knaller.    *)
(***************************************************************************)
CONSTANTS
    Names,      \* the VM names
    Pids,       \* process ids
    Careful,    \* the supervisor forgets a PID before it starts the VM anew
    NoName, NoPid, Stale

ASSUME CarefulAssumption == Careful \in BOOLEAN
ASSUME AdoptionBlanksAssumption ==
    NoName \notin Names /\ NoPid \notin Pids /\ Stale \notin Pids /\ NoPid # Stale

VARIABLES
    proc,   \* the processes of the host
    sock,   \* the socket path of each name: absent, or its binder, or Stale
    record, \* the PID that the supervisor has written down for each name
    handle  \* the *VM that it holds of each name

vars == <<proc, sock, record, handle>>

-----------------------------------------------------------------------------
(* A process is dead from its exit until it is reaped: by Wait if it is a  *)
(* child of the supervisor, by init otherwise.                             *)
Proc == [kind: {"none", "vm", "other"}, name: Names \cup {NoName},
         escaped: BOOLEAN, child: BOOLEAN, dead: BOOLEAN]
NoProc == [kind |-> "none", name |-> NoName, escaped |-> FALSE,
           child |-> FALSE, dead |-> FALSE]

(* kind: inside RunDirect or AdoptVM, or what they returned.  conn is the  *)
(* process at the other end of the client's connection.  (history) same:   *)
(* the process that had the PID when the handle was made has not been      *)
(* reaped; for the process that Wait has opened, pin says so.              *)
HandleKinds == {"none", "spawned", "listening", "child", "adopting", "adopted"}
Handle == [kind: HandleKinds, pid: Pids \cup {NoPid}, conn: Pids \cup {NoPid},
           same: BOOLEAN, wait: {"no", "polling", "done"}, pin: BOOLEAN]
NoHandle == [kind |-> "none", pid |-> NoPid, conn |-> NoPid, same |-> FALSE,
             wait |-> "no", pin |-> FALSE]

Init ==
    /\ proc = [i \in Pids |-> NoProc]
    /\ sock = [n \in Names |-> NoPid]
    /\ record = [n \in Names |-> NoPid]
    /\ handle = [n \in Names |-> NoHandle]

Alive(i) == proc[i].kind # "none" /\ ~proc[i].dead
SetHandle(n, v) == handle' = [handle EXCEPT ![n] = v]

-----------------------------------------------------------------------------
(* What the ends of processes do to the rest of the host.                  *)

(* Process i exits: its sockets close. *)
ProcAfterExit(i) == [proc EXCEPT ![i].dead = TRUE]
SockAfterExit(i) == [n \in Names |-> IF sock[n] = i THEN Stale ELSE sock[n]]
HandleAfterExit(i) ==
    [n \in Names |-> [handle[n] EXCEPT !.conn = IF @ = i THEN NoPid ELSE @]]

Exits(i) ==
    /\ proc' = ProcAfterExit(i)
    /\ sock' = SockAfterExit(i)

(* Process i is reaped: its PID is free for others. *)
ProcAfterReap(i) == [proc EXCEPT ![i] = NoProc]
HandleAfterReap(i) ==
    [n \in Names |-> IF handle[n].pid = i
                       THEN [handle[n] EXCEPT !.same = FALSE, !.pin = FALSE]
                       ELSE handle[n]]

-----------------------------------------------------------------------------
(* RunDirect, as far as the process goes; the supervisor calls it for a    *)
(* name of which it holds nothing.                                         *)

Spawn(n, i) ==
    /\ handle[n].kind = "none"
    /\ proc[i].kind = "none"
    /\ sock' = [sock EXCEPT ![n] = NoPid]
    /\ record' = IF Careful THEN [record EXCEPT ![n] = NoPid] ELSE record
    /\ proc' = [proc EXCEPT ![i] =
                  [NoProc EXCEPT !.kind = "vm", !.name = n, !.child = TRUE]]
    /\ SetHandle(n, [NoHandle EXCEPT !.kind = "spawned", !.pid = i, !.same = TRUE])

(* EscapeContainerCgroup, whose error is dropped, and the socket, bound by *)
(* the process: one step, as that takes milliseconds, and the container    *)
(* takes longer to come back.                                              *)
EscapeAndListen(n) ==
    LET i == handle[n].pid IN
    /\ handle[n].kind = "spawned"
    /\ Alive(i)
    /\ \E escaped \in BOOLEAN : proc' = [proc EXCEPT ![i].escaped = escaped]
    /\ sock' = [sock EXCEPT ![n] = i]
    /\ SetHandle(n, [handle[n] EXCEPT !.kind = "listening"])
    /\ UNCHANGED record

(* mutant: the API requests are not waited for *)
RunReturns_Blind(n) ==
    /\ handle[n].kind = "listening"
    /\ SetHandle(n, [handle[n] EXCEPT !.kind = "child", !.conn = sock[n]])
    /\ UNCHANGED <<proc, sock, record>>

RunReturns(n) ==
    /\ handle[n].kind = "listening"
    /\ sock[n] \in Pids
    /\ SetHandle(n, [handle[n] EXCEPT !.kind = "child", !.conn = sock[n]])
    /\ UNCHANGED <<proc, sock, record>>

(* An error: Process.Kill without Wait, then cleanup().  The process stays *)
(* a zombie for as long as the supervisor lives.                           *)
RunFails(n) ==
    LET i == handle[n].pid IN
    /\ handle[n].kind \in {"spawned", "listening"}
    /\ proc' = ProcAfterExit(i)
    /\ sock' = [sock EXCEPT ![n] = NoPid]
    /\ SetHandle(n, NoHandle)
    /\ UNCHANGED record

(* The supervisor writes the PID down. *)
Persist(n) ==
    /\ handle[n].kind = "child" /\ handle[n].wait = "no"
    /\ record' = [record EXCEPT ![n] = handle[n].pid]
    /\ UNCHANGED <<proc, sock, handle>>

-----------------------------------------------------------------------------
(* AdoptVM: kill -0, then stat and GetInfo.                                *)

AdoptSignal(n) ==
    /\ handle[n].kind = "none"
    /\ record[n] \in Pids
    /\ proc[record[n]].kind # "none"
    /\ SetHandle(n, [NoHandle EXCEPT !.kind = "adopting", !.pid = record[n], !.same = TRUE])
    /\ UNCHANGED <<proc, sock, record>>

(* mutant: the socket file is enough *)
AdoptProbe_StatOnly(n) ==
    /\ handle[n].kind = "adopting"
    /\ sock[n] # NoPid
    /\ SetHandle(n, [handle[n] EXCEPT !.kind = "adopted",
                                      !.conn = IF sock[n] \in Pids THEN sock[n] ELSE NoPid])
    /\ UNCHANGED <<proc, sock, record>>

AdoptProbe(n) ==
    /\ handle[n].kind = "adopting"
    /\ sock[n] \in Pids
    /\ SetHandle(n, [handle[n] EXCEPT !.kind = "adopted", !.conn = sock[n]])
    /\ UNCHANGED <<proc, sock, record>>

(* One of the checks fails, the two-second timeout included. *)
AdoptFails(n) ==
    /\ handle[n].kind = "adopting"
    /\ SetHandle(n, NoHandle)
    /\ UNCHANGED <<proc, sock, record>>

-----------------------------------------------------------------------------
(* Wait and Kill, of a child or of an adopted VM.                          *)

Held(n) == handle[n].kind \in {"child", "adopted"}

(* mutant: without a child process there is nothing to wait for *)
WaitBegins_Adopted(n) ==
    /\ Held(n) /\ handle[n].wait = "no"
    /\ SetHandle(n, [handle[n] EXCEPT
                       !.wait = IF handle[n].kind = "adopted" THEN "done" ELSE "polling",
                       !.pin = TRUE])
    /\ UNCHANGED <<proc, sock, record>>

(* os.FindProcess opens whatever process has the PID now. *)
WaitBegins(n) ==
    /\ Held(n) /\ handle[n].wait = "no"
    /\ SetHandle(n, [handle[n] EXCEPT !.wait = "polling",
                                      !.pin = proc[handle[n].pid].kind # "none"])
    /\ UNCHANGED <<proc, sock, record>>

(* A child is reaped by its own Wait: the PID is free when Wait returns.   *)
WaitChild(n) ==
    LET i == handle[n].pid IN
    /\ handle[n].kind = "child" /\ handle[n].wait = "polling"
    /\ proc[i].dead
    /\ proc' = ProcAfterReap(i)
    /\ handle' = [HandleAfterReap(i) EXCEPT ![n].wait = "done"]
    /\ UNCHANGED <<sock, record>>

(* mutant: looks the PID up again in each round *)
WaitAdopted_ByPid(n) ==
    /\ handle[n].kind = "adopted" /\ handle[n].wait = "polling"
    /\ proc[handle[n].pid].kind = "none"
    /\ SetHandle(n, [handle[n] EXCEPT !.wait = "done"])
    /\ UNCHANGED <<proc, sock, record>>

(* For an adopted VM, signal 0 goes to the process opened at the start: it *)
(* fails once that one is reaped, whoever has the PID by then.             *)
WaitAdopted(n) ==
    /\ handle[n].kind = "adopted" /\ handle[n].wait = "polling"
    /\ ~handle[n].pin
    /\ SetHandle(n, [handle[n] EXCEPT !.wait = "done"])
    /\ UNCHANGED <<proc, sock, record>>

(* mutant: kills by number, as if the VM were adopted *)
KillTarget_ByPid(n) == handle[n].pid

(* The process that Kill signals: none through the handle of a child that  *)
(* was reaped, whoever has the number otherwise.                           *)
KillTarget(n) ==
    IF handle[n].kind = "child" /\ handle[n].wait = "done" THEN NoPid ELSE handle[n].pid

Kill(n) ==
    LET i == KillTarget(n) IN
    /\ Held(n)
    /\ i \in Pids /\ Alive(i)
    /\ Exits(i)
    /\ handle' = HandleAfterExit(i)
    /\ UNCHANGED record

(* The supervisor is through with a VM: it drops handle and record. *)
Release(n) ==
    /\ Held(n) /\ handle[n].wait = "done"
    /\ record' = [record EXCEPT ![n] = NoPid]
    /\ SetHandle(n, NoHandle)
    /\ UNCHANGED <<proc, sock>>

-----------------------------------------------------------------------------
(* What happens by itself.                                                 *)

Exit(i) ==
    /\ Alive(i)
    /\ Exits(i)
    /\ handle' = HandleAfterExit(i)
    /\ UNCHANGED record

(* init reaps what has no other parent. *)
Reap(i) ==
    /\ proc[i].dead /\ ~proc[i].child
    /\ proc' = ProcAfterReap(i)
    /\ handle' = HandleAfterReap(i)
    /\ UNCHANGED <<sock, record>>

OtherStarts(i) ==
    /\ proc[i].kind = "none"
    /\ proc' = [proc EXCEPT ![i] = [NoProc EXCEPT !.kind = "other"]]
    /\ UNCHANGED <<sock, record, handle>>

(* The supervisor's container restarts: what is in its control group is    *)
(* killed, the rest is reparented, and all handles are lost.               *)
Dies(i) == proc[i].kind = "vm" /\ proc[i].child /\ ~proc[i].escaped

Restart ==
    /\ proc' = [i \in Pids |->
                  IF Dies(i) THEN NoProc ELSE [proc[i] EXCEPT !.child = FALSE]]
    /\ sock' = [n \in Names |->
                  IF sock[n] \in Pids /\ Dies(sock[n]) THEN Stale ELSE sock[n]]
    /\ handle' = [n \in Names |-> NoHandle]
    /\ UNCHANGED record

-----------------------------------------------------------------------------
HandleStep(n) ==
    \/ \E i \in Pids : Spawn(n, i)
    \/ EscapeAndListen(n) \/ RunReturns(n) \/ RunFails(n) \/ Persist(n)
    \/ AdoptSignal(n) \/ AdoptProbe(n) \/ AdoptFails(n)
    \/ WaitBegins(n) \/ WaitChild(n) \/ WaitAdopted(n)
    \/ Kill(n) \/ Release(n)

Next ==
    \/ \E n \in Names : HandleStep(n)
    \/ \E i \in Pids : Exit(i) \/ Reap(i) \/ OtherStarts(i)
    \/ Restart

Spec == Init /\ [][Next]_vars

(* The goroutine that waits gets to run, and init reaps its zombies. *)
Fairness ==
    /\ \A n \in Names : WF_vars(WaitChild(n)) /\ WF_vars(WaitAdopted(n))
    /\ \A i \in Pids : WF_vars(Reap(i))

FairSpec == Spec /\ Fairness

-----------------------------------------------------------------------------
(* Every variable has its type. *)
AdoptionTypeOK ==
    /\ proc \in [Pids -> Proc]
    /\ sock \in [Names -> Pids \cup {NoPid, Stale}]
    /\ record \in [Names -> Pids \cup {NoPid}]
    /\ handle \in [Names -> Handle]

IsVM(i, n) == proc[i].kind = "vm" /\ proc[i].name = n

(* What AdoptVM returns is one VM: as long as the process with the adopted *)
(* PID has not been reaped it is that name's Firecracker, and a connection *)
(* leads to it and to no other.  AdoptVM checks the PID and the socket one *)
(* after the other and never one against the other (vm.go:403-412), so     *)
(* this rests on the supervisor's care, on sockets that close with their   *)
(* process, and on RunDirect's removal of the path.                        *)
AdoptedIsTheVM ==
    \A n \in Names :
        (handle[n].kind = "adopted" /\ handle[n].same) =>
            /\ IsVM(handle[n].pid, n)
            /\ handle[n].conn \in {handle[n].pid, NoPid}

(* When Wait has returned, the process that the handle was made for is     *)
(* gone, child or not, and whoever has its number since (vm.go:352-369).   *)
WaitMeansGone ==
    \A n \in Names : handle[n].wait = "done" => ~handle[n].same

(* Whatever has exited and been reaped in the meantime, Kill on a VM that  *)
(* RunDirect has started ends this VM or nothing (vm.go:378-380).          *)
ChildKillHitsItsVM ==
    [][\A n \in Names :
          (Kill(n) /\ handle[n].kind = "child") =>
              handle[n].same /\ IsVM(handle[n].pid, n)]_vars

(* "Kill SIGKILLs the firecracker process" (vm.go:371): of an adopted VM   *)
(* as well.                                                                *)
KillHitsItsVM ==
    [][\A n \in Names : Kill(n) => handle[n].same]_vars

(* Wait ends once the process has exited, even if its number is in use by  *)
(* then (vm.go:359-368).                                                   *)
WaitEnds ==
    \A n \in Names :
        (handle[n].wait = "polling" /\ handle[n].same /\ proc[handle[n].pid].dead)
            ~> handle[n].wait # "polling"

-----------------------------------------------------------------------------
(* What makes the safety properties inductive.                             *)

(* While the process of a handle has not been reaped, its number is taken, *)
(* and a Wait in progress has it open.                                     *)
Tracked ==
    \A n \in Names :
        handle[n].same =>
            /\ handle[n].pid \in Pids /\ proc[handle[n].pid].kind # "none"
            /\ handle[n].wait = "polling" => handle[n].pin

(* Nobody but its own Wait reaps a child.                                  *)
ChildTracked ==
    \A n \in Names :
        (\/ handle[n].kind \in {"spawned", "listening"}
         \/ handle[n].kind = "child" /\ handle[n].wait # "done") =>
            /\ handle[n].same /\ handle[n].pid \in Pids
            /\ IsVM(handle[n].pid, n) /\ proc[handle[n].pid].child

(* A socket that somebody listens on is bound by its name's VM. *)
SockBound ==
    \A n \in Names :
        sock[n] \in Pids => IsVM(sock[n], n) /\ ~proc[sock[n]].dead

(* The VM that listens is the one that is written down and held.           *)
RecordFresh ==
    \A n \in Names :
        /\ (record[n] \in Pids /\ sock[n] \in Pids) => sock[n] = record[n]
        /\ handle[n].kind \in {"adopting", "adopted"} =>
              record[n] = handle[n].pid /\ handle[n].pid \in Pids
        /\ handle[n].kind \in {"spawned", "listening", "child"} =>
              record[n] \in {NoPid, handle[n].pid}
        /\ handle[n].kind = "spawned" => sock[n] \notin Pids
        /\ handle[n].kind \in {"listening", "child"} /\ sock[n] \in Pids =>
              sock[n] = handle[n].pid

(* For every supervisor, and for a careful one. *)
WaitInv == AdoptionTypeOK /\ Tracked /\ ChildTracked /\ WaitMeansGone
AdoptInv == WaitInv /\ SockBound /\ RecordFresh /\ AdoptedIsTheVM
=============================================================================
