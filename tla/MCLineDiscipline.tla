-------------------------- MODULE MCLineDiscipline --------------------------
(***************************************************************************)
(* Small instances of LineDiscipline for TLC.                              *)
(***************************************************************************)
EXTENDS LineDiscipline
=============================================================================
