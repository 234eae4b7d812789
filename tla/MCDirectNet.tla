---------------------------- MODULE MCDirectNet ----------------------------
(* Small instances of DirectNet for TLC.                                   *)
EXTENDS DirectNet, TLC

(* Two veth indices that differ only above bit 5, the bits that network.go *)
(* would cut off; the two hashes give neighbouring SSH ports.              *)
MCIdx == CHOOSE f \in [Names -> {5, 69}] : \A m, n \in Names : f[m] = f[n] => m = n
MCHash == [n \in Names |-> MCIdx[n]]

(* No port, or one; and a host port that leads to one or another guest port *)
To(guest) == <<[host |-> 8080, guest |-> guest]>>
MCFwds == {<<>>, To(80)}
MCNoFwds == {<<>>}
MCTwoFwds == {To(80), To(90)}

(* mergeUniquePorts as it is written: the two loops, seen being the hosts   *)
(* that are in the result.                                                 *)
SX == INSTANCE SequencesExt
MergeLoop(a, b) ==
    SX!FoldLeft(LAMBDA result, p : IF p.host \in HostsOf(result) THEN result
                                   ELSE Append(result, p), <<>>, a \o b)

(* Its result has the entries of MergeUniquePorts, each of them once.      *)
MCLists == SX!BoundedSeq([host: {1, 2, 3}, guest: {1, 2}], 2)
ASSUME MergeIsTheLoop ==
    \A a, b \in MCLists :
        LET result == MergeLoop(a, b) IN
        /\ {result[i] : i \in DOMAIN result} = MergeUniquePorts(a, b)
        /\ \A i, j \in DOMAIN result : result[i].host = result[j].host => i = j

Symmetry == Permutations(Callers)
=============================================================================
