------------------------------ MODULE VmidSpace ------------------------------
(***************************************************************************)
(* What the broker promises of VMIDs, as an abstract specification: a      *)
(* desktop holds at most one number, a number is held by at most one       *)
(* desktop, and it is given back before another desktop gets it.           *)
(***************************************************************************)
CONSTANTS
    Desktops,
    VMIDs,
    NoVMID      \* a desktop without a number

VARIABLE holds  \* the number each desktop holds

Init == holds = [d \in Desktops |-> NoVMID]

Claim(d, v) ==
    /\ holds[d] = NoVMID
    /\ \A e \in Desktops : holds[e] # v
    /\ holds' = [holds EXCEPT ![d] = v]

Release(d) ==
    /\ holds[d] # NoVMID
    /\ holds' = [holds EXCEPT ![d] = NoVMID]

Next == \E d \in Desktops : Release(d) \/ \E v \in VMIDs : Claim(d, v)

Spec == Init /\ [][Next]_holds

=============================================================================
