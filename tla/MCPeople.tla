------------------------------ MODULE MCPeople ------------------------------
(* A small instance of People for TLC. *)
EXTENDS People, TLC

CONSTANTS t1, o1

MCTeamOrg == (t1 :> o1)
\* Repository 2 is a fork of 1.
MCForkOf == (1 :> Unset) @@ (2 :> 1)
=============================================================================
