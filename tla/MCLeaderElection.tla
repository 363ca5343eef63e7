-------------------------- MODULE MCLeaderElection --------------------------
(***************************************************************************)
(* LeaderElection for TLC: brokers are interchangeable.                    *)
(***************************************************************************)
EXTENDS LeaderElection, TLC

Symmetry == Permutations(Brokers)

=============================================================================
