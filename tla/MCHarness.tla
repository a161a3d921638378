----------------------------- MODULE MCHarness -----------------------------
(* Harness with three cores, four tasks and up to two interrupts. *)
EXTENDS Harness
============================================================================
