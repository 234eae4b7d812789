---------------------------- MODULE MCSnapshots ----------------------------
(* Small instances of Snapshots for TLC.                                   *)
EXTENDS Snapshots, TLC

(* Each name has a TAP device of its own, the name standing for it. *)
MCTaps == Names
MCTap == [n \in Names |-> n]

Symmetry == Permutations(Names) \cup Permutations(Callers) \cup Permutations(Snaps)
=============================================================================
