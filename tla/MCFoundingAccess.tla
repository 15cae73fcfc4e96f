-------------------------- MODULE MCFoundingAccess --------------------------
(* An instance of FoundingAccess for TLC: one page, opened by one visitor. *)
EXTENDS FoundingAccess, TLC
=============================================================================
