---------------------------- MODULE MCCandidateLink ----------------------------
(* Bounded instances of CandidateLink for TLC. *)
EXTENDS CandidateLink, TLC

Symmetry == Permutations(Requests) \cup Permutations(Workers)
                \cup Permutations(Urls) \cup Permutations(Versions)
=============================================================================
