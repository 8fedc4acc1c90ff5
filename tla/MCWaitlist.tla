----------------------------- MODULE MCWaitlist -----------------------------
(* Model values for the run of Waitlist. *)
EXTENDS Waitlist, TLC
=============================================================================
