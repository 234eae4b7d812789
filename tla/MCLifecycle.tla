---------------------------- MODULE MCLifecycle ----------------------------
(* Small instances of Lifecycle for TLC.                                   *)
EXTENDS Lifecycle, TLC

CONSTANT Web   \* a port that users ask for, distinct from the SSH ports

(* Model values stand for names, and a name for its own SSH port, so that  *)
(* permuting the names permutes the SSH ports with them.                   *)
MCPorts == Names \cup {Web}
MCSSHPort == [n \in Names |-> n]
MCPortChoices == {{}, {Web}}
MCNoPorts == {{}}

Symmetry == Permutations(Names) \cup Permutations(Callers) \cup Permutations(Insts)

(* Without the names: the callers and the processes are interchangeable.   *)
CallerSymmetry == Permutations(Callers) \cup Permutations(Insts)
=============================================================================
