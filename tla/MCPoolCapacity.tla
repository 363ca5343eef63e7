--------------------------- MODULE MCPoolCapacity ---------------------------
(***************************************************************************)
(* PoolCapacity for TLC: the invariants need no order among the calls of   *)
(* provision_desktop, the requests and the cascades.                       *)
(***************************************************************************)
EXTENDS PoolCapacity, TLC

Symmetry == Permutations(Requests) \cup Permutations(Cascades)

=============================================================================
