------------------------------ MODULE MCPipes ------------------------------
(***************************************************************************)
(* Small instances of Pipes for TLC.                                       *)
(***************************************************************************)
EXTENDS Pipes
=============================================================================
