--------------------------- MODULE MCFloatingPool ---------------------------
(***************************************************************************)
(* FloatingPool for TLC.  Users are interchangeable, and so are the API    *)
(* requests that end sessions; desktops are not: connect takes the lowest  *)
(* VMID.                                                                   *)
(***************************************************************************)
EXTENDS FloatingPool, TLC

Symmetry == Permutations(Users) \cup Permutations(Enders)

=============================================================================
