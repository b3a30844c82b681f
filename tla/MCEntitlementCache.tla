-------------------------- MODULE MCEntitlementCache --------------------------
(* Bounded instances of EntitlementCache for TLC. *)
EXTENDS EntitlementCache, TLC

Symmetry == Permutations(Readers) \cup Permutations(Callers)
=============================================================================
