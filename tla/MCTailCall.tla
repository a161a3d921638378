---------------------------- MODULE MCTailCall ----------------------------
(* TailCall run on the guest programs of Guests. *)
EXTENDS TailCall, Guests
============================================================================
