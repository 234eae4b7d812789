---------------------------- MODULE VMRegistry ----------------------------
(***************************************************************************)
(* What knaller promises its users about a VM name, seen through           *)
(* "knaller ls": the name is absent, or its VM is stopped, unbooted        *)
(* ("Not started"), running or paused, and it moves between these only as  *)
(* below.  In particular a VM that has been booted is removed only after   *)
(* it has stopped, and a name shows up as running or paused only after an  *)
(* unbooted process was configured for it.                                 *)
(***************************************************************************)
CONSTANT Names

VARIABLE status

Statuses == {"absent", "stopped", "unbooted", "running", "paused"}

TypeOK == status \in [Names -> Statuses]

Init == status = [n \in Names |-> "absent"]

Move(n, from, to) ==
    /\ status[n] = from
    /\ status' = [status EXCEPT ![n] = to]

Create(n) == Move(n, "absent", "stopped")
Launch(n) == Move(n, "stopped", "unbooted")
Boot(n) == Move(n, "unbooted", "running")
Restore(n) == Move(n, "unbooted", "paused")
Pause(n) == Move(n, "running", "paused")
Resume(n) == Move(n, "paused", "running")
Exit(n) == \E from \in {"unbooted", "running", "paused"} : Move(n, from, "stopped")
Remove(n) == Move(n, "stopped", "absent")

(* A start that died before its Firecracker was up leaves a process that   *)
(* rm does not see: the name can be removed, show up once more without a   *)
(* data directory, and vanish again; it is never booted.                   *)
Surface(n) == Move(n, "absent", "unbooted")
Vanish(n) == Move(n, "unbooted", "absent")

Next ==
    \E n \in Names :
        \/ Create(n) \/ Launch(n) \/ Boot(n) \/ Restore(n)
        \/ Pause(n) \/ Resume(n) \/ Exit(n) \/ Remove(n)
        \/ Surface(n) \/ Vanish(n)

Spec == Init /\ [][Next]_status
=============================================================================
