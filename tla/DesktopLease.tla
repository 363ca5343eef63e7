---------------------------- MODULE DesktopLease ----------------------------
(***************************************************************************)
(* What a non-persistent pool promises its users: a desktop on offer is    *)
(* granted to one session, that session keeps it to itself until it ends,  *)
(* and then the desktop is on offer again.  A session holds one desktop,   *)
(* once.                                                                   *)
(***************************************************************************)
CONSTANTS Desktops, Sessions

VARIABLES
    holders,   \* the sessions that hold each desktop
    offered,   \* the desktops on offer
    past       \* the sessions that hold or have held one

vars == <<holders, offered, past>>

Init ==
    /\ holders = [d \in Desktops |-> {}]
    /\ offered = Desktops
    /\ past = {}

Grant(d, s) ==
    /\ d \in offered
    /\ s \notin past
    /\ holders' = [holders EXCEPT ![d] = {s}]
    /\ offered' = offered \ {d}
    /\ past' = past \cup {s}

End(d, s) ==
    /\ holders[d] = {s}
    /\ holders' = [holders EXCEPT ![d] = {}]
    /\ offered' = offered \cup {d}
    /\ UNCHANGED past

Next == \E d \in Desktops, s \in Sessions : Grant(d, s) \/ End(d, s)

Spec == Init /\ [][Next]_vars

=============================================================================
