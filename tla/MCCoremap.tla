----------------------------- MODULE MCCoremap ------------------------------
(* Instances of CoremapClients for TLC. *)
EXTENDS CoremapClients, TLC

Symmetry == Permutations(Handles) \cup Permutations(AddrSpaces)
=============================================================================
