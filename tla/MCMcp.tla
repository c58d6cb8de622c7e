------------------------------- MODULE MCMcp -------------------------------
(***************************************************************************)
(* A small instance of Mcp: two bodies, one agent.                          *)
(***************************************************************************)
EXTENDS Mcp

MCBodies == 0 .. 1
MCContentHash == [b \in MCBodies |-> b + 1]
=============================================================================
