------------------------------ MODULE MCPortal ------------------------------
(***************************************************************************)
(* Portal for TLC.                                                         *)
(***************************************************************************)
EXTENDS Portal

=============================================================================
