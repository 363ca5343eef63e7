-------------------------- MODULE ProviderContract --------------------------
(***************************************************************************)
(* What the provider interface promises of one virtual machine, as the     *)
(* callers in the broker rely on it.  A call that answers has seen, since  *)
(* it was made, what it answers: the effect of its operation, a machine    *)
(* that was not there, a power state.  A call that raises anything else    *)
(* promises nothing: its operation may have had its effect, may have it    *)
(* later, and may have it twice.                                           *)
(***************************************************************************)
CONSTANTS Calls, Ops, NoOp

VARIABLES
    vm,       \* the machine: is it there, does it run, has it the base snapshot
    asked,    \* operations that were ever asked for
    pending,  \* the operation of each call
    facts,    \* what was the case at some time since the call was made
    outcome   \* of the last call

vars == <<vm, asked, pending, facts, outcome>>

Outcomes == {"none", "ok", "missing", "running", "stopped", "unknown", "data", "true", "false",
             "auth", "lock", "timeout", "task", "capability", "error"}

Absent == [there |-> FALSE, on |-> FALSE, snap |-> FALSE]

Effect(op, m) ==
    IF op = "clone" THEN [Absent EXCEPT !.there = TRUE]
    ELSE IF op = "destroy" THEN Absent
    ELSE IF op \in {"start", "reboot"} THEN [m EXCEPT !.on = TRUE]
    ELSE IF op \in {"stop", "shutdown", "rollback"} THEN [m EXCEPT !.on = FALSE]
    ELSE IF op = "snapshot" THEN [m EXCEPT !.snap = TRUE]
    ELSE m

Facts(m) == IF ~ m.there THEN {"missing"} ELSE IF m.on THEN {"running"} ELSE {"stopped"}

\* What the outcome says must have been the case.  What a clone misses is its template.
Needs(op, r) ==
    IF r \in {"ok", "running", "stopped"} \/ (r = "missing" /\ op # "clone") THEN {r}
    ELSE IF r = "true" THEN {"running"} ELSE {}

Init ==
    /\ vm \in {Absent, [Absent EXCEPT !.there = TRUE]}
    /\ asked = {}
    /\ pending = [c \in Calls |-> NoOp]
    /\ facts = [c \in Calls |-> {}]
    /\ outcome = [c \in Calls |-> "none"]

Ask(c, op) ==
    /\ pending[c] = NoOp
    /\ asked' = asked \cup {op}
    /\ pending' = [pending EXCEPT ![c] = op]
    /\ facts' = [facts EXCEPT ![c] = Facts(vm)]
    /\ outcome' = [outcome EXCEPT ![c] = "none"]
    /\ UNCHANGED vm

Act(op) ==
    /\ op \in asked
    /\ vm' = Effect(op, vm)
    /\ facts' = [c \in Calls |-> IF pending[c] = NoOp THEN facts[c]
                    ELSE facts[c] \cup Facts(vm') \cup (IF pending[c] = op THEN {"ok"} ELSE {})]
    /\ UNCHANGED <<asked, pending, outcome>>

Return(c, r) ==
    /\ pending[c] # NoOp /\ Needs(pending[c], r) \subseteq facts[c]
    /\ pending' = [pending EXCEPT ![c] = NoOp]
    /\ facts' = [facts EXCEPT ![c] = {}]
    /\ outcome' = [outcome EXCEPT ![c] = r]
    /\ UNCHANGED <<vm, asked>>

Next == \/ \E c \in Calls : (\E op \in Ops : Ask(c, op)) \/ (\E r \in Outcomes \ {"none"} : Return(c, r))
        \/ \E op \in Ops : Act(op)

Spec == Init /\ [][Next]_vars

=============================================================================
