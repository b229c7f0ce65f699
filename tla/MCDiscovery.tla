---------------------------- MODULE MCDiscovery ----------------------------
(* Instances of Discovery for TLC.                                         *)
EXTENDS Discovery, TLC

Anywhere == [a \in Addr |-> Node]

(* Devices, addresses and requests may be exchanged for one another.       *)
Alike == Permutations(Node) \union Permutations(Addr) \union Permutations(Request)
=============================================================================
