----------------------------- MODULE MCSwitch -----------------------------
(* SwitchInterpreter run on the guest programs of Guests. *)
EXTENDS SwitchInterpreter, Guests
============================================================================
