--------------------------- MODULE MCConsoleAccess ---------------------------
(* An instance of ConsoleAccess for TLC: an organization with two owners. *)
EXTENDS ConsoleAccess

MCFounderRole == [u \in Founders |-> "owner"]
=============================================================================
