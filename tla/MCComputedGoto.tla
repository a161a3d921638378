-------------------------- MODULE MCComputedGoto --------------------------
(* ComputedGoto run on the guest programs of Guests. *)
EXTENDS ComputedGoto, Guests
============================================================================
