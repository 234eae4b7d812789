-------------------------- MODULE DirectDiscipline --------------------------
(***************************************************************************)
(* What the callers of RunDirect have to keep to for two promises of       *)
(* vm_direct.go that DirectNet alone does not fulfil.  The code enforces   *)
(* neither discipline; each specification is DirectNet's, restricted to    *)
(* the steps that keep to one.                                             *)
(***************************************************************************)
EXTENDS DirectNet

CONSTANTS
    Owner,  \* the name that each host port is kept for
    Guest   \* the guest port that it always leads to

-----------------------------------------------------------------------------
(* One caller at a time, of all processes, is between the flush of the     *)
(* forward chain and the last rule of the input chain.                     *)
Refilling(p) == job[p].pc \in {"flush-input", "rule"}

NoOverlap == \A p, q \in Callers : Refilling(p) /\ Refilling(q) => p = q

AloneSpec == Init /\ [][Next /\ NoOverlap']_vars

(* In a chain that is refilled by one caller at a time no rule comes after *)
(* a reject that should come before it, at any step, whether earlier       *)
(* refills were completed or cut short: the flush of the next one is what  *)
(* "ordering stays correct" (vm_direct.go:474-478, 490-535) rests on.      *)
ChainsOrdered == \A c \in Chains : chain[c].late = {}

-----------------------------------------------------------------------------
(* A host port is asked for by one name only, and always for the same      *)
(* guest port; a restore merges in nothing but such ports.                 *)
PortsReserved ==
    \A p \in Callers : \A h \in DOMAIN job[p].fwd :
        job[p].name = Owner[h] /\ job[p].fwd[h] = Guest[h]

ReservedSpec == Init /\ [][Next /\ PortsReserved']_vars
=============================================================================
