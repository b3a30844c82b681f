------------------------------ MODULE MCBilling ------------------------------
(* Bounded instances of Billing for TLC. *)
EXTENDS Billing, TLC

Symmetry == Permutations(Orders) \cup Permutations(Keys) \cup Permutations(Handlers)
=============================================================================
