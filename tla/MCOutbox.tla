------------------------------ MODULE MCOutbox ------------------------------
(* Small instances of Outbox for TLC: two workers that may be replicas. *)
EXTENDS Outbox, TLC

CONSTANTS w1, w2
=============================================================================
