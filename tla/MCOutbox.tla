------------------------------- MODULE MCOutbox -------------------------------
(* The bounded instance of Outbox for TLC.  Its run checks liveness, so it   *)
(* takes no symmetry set: TLC's symmetry reduction is sound for safety only. *)
EXTENDS Outbox
=============================================================================
