----------------------------- MODULE NetDerive -----------------------------
(***************************************************************************)
(* What knaller derives from a VM name without asking anybody (network.go, *)
(* vm_direct.go): addresses and ports are functions of a few bits of a     *)
(* SHA-256, which stand here for the name.  Bytes wrap at 256, and the     *)
(* shifts and masks of the code are written as arithmetic.                 *)
(***************************************************************************)
EXTENDS Integers, Sequences

(* 14 bits of the hash: subnetIndex and vethSubnetIndex; 16 for the port.  *)
Indices == 0..16383
Hashes == 0..65535

Byte(x) == x % 256

(* The two ends of the guest's /30 inside the VM's namespace: the index    *)
(* shifted by two, with 1 or 2 in the free bits, cut down to a byte.       *)
HostIP(s) == <<172, 16, Byte(s \div 256), Byte(4 * s + 1)>>
GuestIP(s) == <<172, 16, Byte(s \div 256), Byte(4 * s + 2)>>

(* mutant: the third byte as in HostIP *)
VethGuestIP_Bytes(i) == <<172, 20, Byte(i \div 256), Byte(4 * (i % 64) + 2)>>

(* The two ends of the veth pair that direct mode makes. *)
VethHostIP(i) == <<172, 20, Byte(i \div 64), Byte(4 * (i % 64) + 1)>>
VethGuestIP(i) == <<172, 20, Byte(i \div 64), Byte(4 * (i % 64) + 2)>>

(* The network address of the /30 that contains ip. *)
Base30(ip) == <<ip[1], ip[2], ip[3], ip[4] - (ip[4] % 4)>>

(* The host port that leads to the guest's SSH server. *)
SSHPortOf(h) == (h % 50000) + 10000

(* Port lists: what the user asks for, or a snapshot recorded, in any order *)
(* and with any host port in it more than once.                            *)
PortMapping == [host: Nat, guest: Nat]

HostsOf(l) == {l[i].host : i \in DOMAIN l}
GuestsOf(l) == {l[i].guest : i \in DOMAIN l}

(* Where a loop over l meets a host port for the first time, the ports in  *)
(* seen having been met before it.                                         *)
Unseen(l, seen) ==
    {i \in DOMAIN l :
       l[i].host \notin seen /\ \A j \in 1..(i - 1) : l[j].host # l[i].host}

(* The entries of the merged list.  (Their order is left out: they differ  *)
(* in their host ports.)                                                   *)
MergeUniquePorts(a, b) ==
    {a[i] : i \in Unseen(a, {})} \cup {b[i] : i \in Unseen(b, HostsOf(a))}

(* Entries with different host ports as a function of the host port. *)
AsMapping(E) ==
    [h \in {e.host : e \in E} |-> (CHOOSE e \in E : e.host = h).guest]
=============================================================================
