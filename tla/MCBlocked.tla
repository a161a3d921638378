----------------------------- MODULE MCBlocked -----------------------------
(* BlockedInterpreter run on the guest programs of Guests. *)
EXTENDS BlockedProperties, Guests
============================================================================
