--------------------------- MODULE MCDesktopTasks ---------------------------
(***************************************************************************)
(* DesktopTasks for TLC: requests, connects, calls of provision_desktop    *)
(* and trackers are interchangeable.                                       *)
(***************************************************************************)
EXTENDS DesktopTasks, TLC

Symmetry == Permutations(Requests) \cup Permutations(Connects)
              \cup Permutations(Provisions) \cup Permutations(Trackers)

=============================================================================
