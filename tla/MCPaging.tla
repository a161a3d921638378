------------------------------ MODULE MCPaging ------------------------------
(* Paging with two tables of two pages of two bytes. *)
EXTENDS Paging
============================================================================
