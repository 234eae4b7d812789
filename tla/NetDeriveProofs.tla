-------------------------- MODULE NetDeriveProofs --------------------------
(***************************************************************************)
(* What the derived addresses and ports guarantee, for every name.         *)
(***************************************************************************)
EXTENDS NetDerive, TLAPS, WellFoundedInduction

-----------------------------------------------------------------------------
(* An index is a multiple of 64 and a rest of six bits. *)
Digits(i, q, r) ==
    /\ q \in 0..255 /\ r \in 0..63
    /\ i = 64 * q + r /\ i \div 64 = q /\ i % 64 = r

LEMMA IndexDigits ==
    ASSUME NEW i \in Indices
    PROVE  \E q, r : Digits(i, q, r)
  <1>1. i \in Nat /\ i < 16384
    BY DEF Indices
  <1>2. i % 64 \in 0..63 /\ i \div 64 \in Nat /\ i = 64 * (i \div 64) + (i % 64)
    BY <1>1
  <1>3. i \div 64 \in 0..255
    BY <1>1, <1>2
  <1>4. Digits(i, i \div 64, i % 64)
    BY <1>2, <1>3 DEF Digits
  <1> QED BY <1>4

(* A byte is not cut off. *)
LEMMA ByteOfByte == \A x \in 0..255 : Byte(x) = x
  BY DEF Byte

(* Four times an index, cut down to a byte, forgets all but its rest. *)
LEMMA ByteOfFour ==
    ASSUME NEW i, NEW q, NEW r, Digits(i, q, r)
    PROVE  /\ r \in 0..63
           /\ Byte(4 * i + 1) = 4 * r + 1
           /\ Byte(4 * i + 2) = 4 * r + 2
  <1>1. q \in 0..255 /\ r \in 0..63 /\ i = 64 * q + r
    BY DEF Digits
  <1>2. 4 * i + 1 = 256 * q + (4 * r + 1) /\ 4 * i + 2 = 256 * q + (4 * r + 2)
    BY <1>1
  <1>3. \A x \in 0..255 : (256 * q + x) % 256 = x
    BY <1>1
  <1>4. 4 * r + 1 \in 0..255 /\ 4 * r + 2 \in 0..255
    BY <1>1
  <1>5. (4 * i + 1) % 256 = 4 * r + 1 /\ (4 * i + 2) % 256 = 4 * r + 2
    BY <1>2, <1>3, <1>4
  <1> QED BY <1>1, <1>5 DEF Byte

(* The lowest two bits of a byte of either kind are its host part. *)
LEMMA HostBits ==
    ASSUME NEW r \in 0..63
    PROVE  /\ (4 * r + 1) - ((4 * r + 1) % 4) = 4 * r
           /\ (4 * r + 2) - ((4 * r + 2) % 4) = 4 * r
  OBVIOUS

(* Nothing of a veth index is cut off. *)
VethParts(i, q, r) ==
    /\ q \in 0..255 /\ r \in 0..63 /\ i = 64 * q + r
    /\ VethHostIP(i) = <<172, 20, q, 4 * r + 1>>
    /\ VethGuestIP(i) = <<172, 20, q, 4 * r + 2>>

LEMMA VethBytes ==
    ASSUME NEW i \in Indices
    PROVE  \E q, r : VethParts(i, q, r)
  <1>1. PICK q, r : Digits(i, q, r)
    BY IndexDigits
  <1>2. /\ q \in 0..255 /\ r \in 0..63
        /\ i = 64 * q + r /\ i \div 64 = q /\ i % 64 = r
    BY <1>1 DEF Digits
  <1>3. 4 * r + 1 \in 0..255 /\ 4 * r + 2 \in 0..255
    BY <1>2
  <1>4. Byte(q) = q /\ Byte(4 * r + 1) = 4 * r + 1 /\ Byte(4 * r + 2) = 4 * r + 2
    BY <1>2, <1>3, ByteOfByte
  <1>5. VethHostIP(i) = <<172, 20, q, 4 * r + 1>> /\ VethGuestIP(i) = <<172, 20, q, 4 * r + 2>>
    BY <1>2, <1>4 DEF VethHostIP, VethGuestIP
  <1>6. VethParts(i, q, r)
    BY <1>2, <1>5 DEF VethParts
  <1> QED BY <1>6

-----------------------------------------------------------------------------
(* Two veth pairs share an address only if they share the index: 14 bits   *)
(* make 16384 pairs (vm_direct.go:357-373).                                *)
THEOREM VethAddressesDiffer ==
    ASSUME NEW i \in Indices, NEW j \in Indices
    PROVE  /\ VethHostIP(i) = VethHostIP(j) => i = j
           /\ VethGuestIP(i) = VethGuestIP(j) => i = j
           /\ VethHostIP(i) # VethGuestIP(j)
  <1>1. PICK q, r : VethParts(i, q, r)
    BY VethBytes
  <1>2. PICK k, t : VethParts(j, k, t)
    BY VethBytes
  <1>3. \A x, y \in 0..63 : 4 * x + 1 # 4 * y + 2
    OBVIOUS
  <1> QED BY <1>1, <1>2, <1>3 DEF VethParts

(* The /30 of a host end holds the guest end of the same pair and no other: *)
(* its address leads into one namespace (vm_direct.go:357-366, 525-527).   *)
THEOREM VethSubnetsDiffer ==
    ASSUME NEW i \in Indices, NEW j \in Indices
    PROVE  Base30(VethHostIP(i)) = Base30(VethGuestIP(j)) <=> i = j
  <1>1. PICK q, r : VethParts(i, q, r)
    BY VethBytes
  <1>2. PICK k, t : VethParts(j, k, t)
    BY VethBytes
  <1>3. Base30(VethHostIP(i)) = <<172, 20, q, 4 * r>>
    BY <1>1, HostBits DEF VethParts, Base30
  <1>4. Base30(VethGuestIP(j)) = <<172, 20, k, 4 * t>>
    BY <1>2, HostBits DEF VethParts, Base30
  <1> QED BY <1>1, <1>2, <1>3, <1>4 DEF VethParts

(* The two ends of a guest's own link differ and lie in one /30, apart from *)
(* all veth pairs (network.go:32-44, vm_direct.go:352-356).                *)
THEOREM GuestLinkIsOneSubnet ==
    ASSUME NEW s \in Indices
    PROVE  /\ HostIP(s) # GuestIP(s)
           /\ Base30(HostIP(s)) = Base30(GuestIP(s))
           /\ \A i \in Indices : HostIP(s) # VethHostIP(i) /\ GuestIP(s) # VethGuestIP(i)
  <1>1. PICK q, r : Digits(s, q, r)
    BY IndexDigits
  <1> DEFINE b == Byte(s \div 256)
  <1>a. r \in 0..63 /\ Byte(4 * s + 1) = 4 * r + 1 /\ Byte(4 * s + 2) = 4 * r + 2
    BY <1>1, ByteOfFour, Zenon
  <1>2. HostIP(s) = <<172, 16, b, 4 * r + 1>> /\ GuestIP(s) = <<172, 16, b, 4 * r + 2>>
    BY <1>a DEF HostIP, GuestIP
  <1> HIDE DEF b
  <1>3. Base30(HostIP(s)) = <<172, 16, b, 4 * r>> /\ Base30(GuestIP(s)) = <<172, 16, b, 4 * r>>
    BY <1>a, <1>2, HostBits DEF Base30
  <1>4. HostIP(s) # GuestIP(s)
    BY <1>a, <1>2
  <1>5. ASSUME NEW i \in Indices
        PROVE  HostIP(s) # VethHostIP(i) /\ GuestIP(s) # VethGuestIP(i)
    <2>1. PICK k, t : VethParts(i, k, t)
      BY <1>5, VethBytes
    <2>2. HostIP(s)[2] = 16 /\ VethHostIP(i)[2] = 20
      BY <1>2, <2>1 DEF VethParts
    <2>3. GuestIP(s)[2] = 16 /\ VethGuestIP(i)[2] = 20
      BY <1>2, <2>1 DEF VethParts
    <2>4. 16 # 20
      OBVIOUS
    <2> QED BY <2>2, <2>3, <2>4
  <1> QED BY <1>3, <1>4, <1>5

(* Of the 14 bits of a guest's subnet two do not count: indices that       *)
(* differ in bits 6 and 7 only have the same addresses.  There are 4096    *)
(* subnets, not "16384 possible subnets" (network.go:35-36, 116-117).      *)
THEOREM GuestSubnetsRepeat ==
    ASSUME NEW s \in Indices, NEW t \in Indices,
           s \div 256 = t \div 256, s % 64 = t % 64
    PROVE  HostIP(s) = HostIP(t) /\ GuestIP(s) = GuestIP(t)
  <1>1. PICK q, r : Digits(s, q, r)
    BY IndexDigits
  <1>2. PICK k, u : Digits(t, k, u)
    BY IndexDigits
  <1>3. Byte(4 * s + 1) = 4 * r + 1 /\ Byte(4 * s + 2) = 4 * r + 2
    BY <1>1, ByteOfFour, Zenon
  <1>4. Byte(4 * t + 1) = 4 * u + 1 /\ Byte(4 * t + 2) = 4 * u + 2
    BY <1>2, ByteOfFour, Zenon
  <1>5. r = u
    <2>1. s % 64 = r
      BY <1>1 DEF Digits
    <2>2. t % 64 = u
      BY <1>2 DEF Digits
    <2> QED BY <2>1, <2>2
  <1> QED BY <1>3, <1>4, <1>5 DEF HostIP, GuestIP

(* Every SSH port is one that an unprivileged user may bind and below the  *)
(* maximum, ...                                                            *)
THEOREM SSHPortRange ==
    ASSUME NEW h \in Nat
    PROVE  SSHPortOf(h) \in Nat /\ 10000 <= SSHPortOf(h) /\ SSHPortOf(h) < 60000
  <1>1. h % 50000 \in Nat /\ h % 50000 < 50000
    OBVIOUS
  <1> QED BY <1>1 DEF SSHPortOf

(* ... but it is not "unique" (network.go:107-114): two hashes of 16 bits   *)
(* share their port exactly when they are 50000 apart, 15536 pairs of them. *)
THEOREM SSHPortsShared ==
    ASSUME NEW g \in Nat, NEW h \in Nat, g < h, h < 65536
    PROVE  SSHPortOf(g) = SSHPortOf(h) <=> h = g + 50000
  <1>1. g % 50000 = h % 50000 <=> h = g + 50000
    OBVIOUS
  <1>2. g % 50000 \in Nat /\ h % 50000 \in Nat
    OBVIOUS
  <1> QED BY <1>1, <1>2 DEF SSHPortOf

-----------------------------------------------------------------------------
(* Merged port lists.                                                      *)

LEMMA LeastIndex ==
    ASSUME NEW S \in SUBSET Nat, S # {}
    PROVE  \E i \in S : \A j \in S : i <= j
  <1>1. PICK i \in S : \A j \in S : <<j, i>> \notin OpToRel(<, Nat)
    BY NatLessThanWellFounded, WFMin, Zenon
  <1>2. \A j \in S : ~(j < i)
    BY <1>1 DEF OpToRel
  <1> QED BY <1>2

(* Every host port of a list is met for a first time. *)
LEMMA FirstOf ==
    ASSUME NEW l \in Seq(PortMapping), NEW h \in HostsOf(l)
    PROVE  \E i \in DOMAIN l : l[i].host = h /\ \A j \in 1..(i - 1) : l[j].host # h
  <1> DEFINE S == {i \in DOMAIN l : l[i].host = h}
  <1>1. S \in SUBSET Nat /\ S # {}
    BY DEF HostsOf
  <1>2. PICK i \in S : \A j \in S : i <= j
    BY <1>1, LeastIndex
  <1>3. ASSUME NEW j \in 1..(i - 1) PROVE l[j].host # h
    BY <1>1, <1>2
  <1> QED BY <1>2, <1>3

(* An entry survives exactly if it is the first of its host port. *)
First(e, l, i) == i \in DOMAIN l /\ l[i] = e /\ \A j \in 1..(i - 1) : l[j].host # e.host

LEMMA MergedAre ==
    ASSUME NEW a \in Seq(PortMapping), NEW b \in Seq(PortMapping), NEW e
    PROVE  e \in MergeUniquePorts(a, b) <=>
             \/ \E i : First(e, a, i)
             \/ e.host \notin HostsOf(a) /\ \E i : First(e, b, i)
  BY DEF MergeUniquePorts, Unseen, First

LEMMA FirstIsOne ==
    ASSUME NEW l \in Seq(PortMapping), NEW e, NEW f, NEW i, NEW j,
           First(e, l, i), First(f, l, j), e.host = f.host
    PROVE  e = f
  <1>1. i \in Nat \ {0} /\ j \in Nat \ {0}
    BY DEF First
  <1>2. ~(i < j) /\ ~(j < i)
    BY <1>1 DEF First
  <1>3. i = j
    BY <1>1, <1>2
  <1> QED BY <1>3 DEF First

(* A restored VM's merged port list maps no host port twice and loses none *)
(* of either list; a host port that the snapshot recorded keeps the guest  *)
(* port of its first entry there, whatever the user asks for, and any      *)
(* other gets that of its first entry in the user's list (vm.go:688-706).  *)
THEOREM MergeKeepsRecorded ==
    ASSUME NEW a \in Seq(PortMapping), NEW b \in Seq(PortMapping)
    PROVE  /\ \A e, f \in MergeUniquePorts(a, b) : e.host = f.host => e = f
           /\ {e.host : e \in MergeUniquePorts(a, b)} = HostsOf(a) \cup HostsOf(b)
           /\ \A e \in MergeUniquePorts(a, b) :
                \E i : First(e, IF e.host \in HostsOf(a) THEN a ELSE b, i)
  <1> DEFINE M == MergeUniquePorts(a, b)
  <1>1. ASSUME NEW e, NEW l \in Seq(PortMapping), NEW i, First(e, l, i)
        PROVE  e.host \in HostsOf(l)
    BY <1>1 DEF First, HostsOf
  <1>2. ASSUME NEW e \in M
        PROVE  \E i : First(e, IF e.host \in HostsOf(a) THEN a ELSE b, i)
    <2>1. CASE \E i : First(e, a, i)
      BY <2>1, <1>1
    <2>2. CASE e.host \notin HostsOf(a) /\ \E i : First(e, b, i)
      BY <2>2
    <2> QED BY <1>2, <2>1, <2>2, MergedAre
  <1>3. ASSUME NEW e \in M, NEW f \in M, e.host = f.host PROVE e = f
    <2>1. CASE e.host \in HostsOf(a)
      <3>1. (\E i : First(e, a, i)) /\ (\E j : First(f, a, j))
        BY <1>2, <1>3, <2>1
      <3> QED BY <1>3, <3>1, FirstIsOne
    <2>2. CASE e.host \notin HostsOf(a)
      <3>1. (\E i : First(e, b, i)) /\ (\E j : First(f, b, j))
        BY <1>2, <1>3, <2>2
      <3> QED BY <1>3, <3>1, FirstIsOne
    <2> QED BY <2>1, <2>2
  <1>4. ASSUME NEW e \in M PROVE e.host \in HostsOf(a) \cup HostsOf(b)
    BY <1>1, <1>2, <1>4
  <1>5. ASSUME NEW h \in HostsOf(a) \cup HostsOf(b) PROVE \E e \in M : e.host = h
    <2>1. CASE h \in HostsOf(a)
      <3>1. PICK i \in DOMAIN a : a[i].host = h /\ \A j \in 1..(i - 1) : a[j].host # h
        BY <2>1, FirstOf
      <3>2. First(a[i], a, i)
        BY <3>1 DEF First
      <3> QED BY <3>1, <3>2, MergedAre
    <2>2. CASE h \notin HostsOf(a)
      <3>1. PICK i \in DOMAIN b : b[i].host = h /\ \A j \in 1..(i - 1) : b[j].host # h
        BY <1>5, <2>2, FirstOf
      <3>2. First(b[i], b, i)
        BY <3>1 DEF First
      <3> QED BY <2>2, <3>1, <3>2, MergedAre
    <2> QED BY <2>1, <2>2
  <1>6. {e.host : e \in M} = HostsOf(a) \cup HostsOf(b)
    BY <1>4, <1>5
  <1> QED BY <1>2, <1>3, <1>6

(* What the rules are made of: the merged list as a function. *)
LEMMA MappingOfMerged ==
    ASSUME NEW a \in Seq(PortMapping), NEW b \in Seq(PortMapping)
    PROVE  AsMapping(MergeUniquePorts(a, b))
             \in [HostsOf(a) \cup HostsOf(b) -> GuestsOf(a) \cup GuestsOf(b)]
  <1> DEFINE M == MergeUniquePorts(a, b)
  <1>1. {e.host : e \in M} = HostsOf(a) \cup HostsOf(b)
    BY MergeKeepsRecorded
  <1>2. ASSUME NEW e \in M PROVE e.guest \in GuestsOf(a) \cup GuestsOf(b)
    BY <1>2, MergedAre DEF First, GuestsOf
  <1> HIDE DEF M
  <1>3. ASSUME NEW h \in {e.host : e \in M}
        PROVE  (CHOOSE e \in M : e.host = h).guest \in GuestsOf(a) \cup GuestsOf(b)
    <2>1. (CHOOSE e \in M : e.host = h) \in M
      BY <1>3
    <2> QED BY <1>2, <2>1
  <1> QED BY <1>1, <1>3 DEF AsMapping, M
=============================================================================
