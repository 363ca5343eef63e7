--------------------------- MODULE ProxmoxProvider ---------------------------
(***************************************************************************)
(* The Proxmox provider: operations on one virtual machine, each of them   *)
(* one or more HTTP requests that are retried when they time out, meet a   *)
(* network error, a lock or an error of the server, and then, for those    *)
(* that Proxmox performs as a task, a poll of the task until it stops or   *)
(* a deadline passes.  A request that is given up may still be performed.  *)
(***************************************************************************)
EXTENDS Naturals, FiniteSets

CONSTANTS
    Calls,      \* coroutines of the broker that use the provider
    NoOp,       \* a call that makes none
    Ops,        \* the operations they perform
    Attempts,   \* max_retries, and the attempts of destroy_vm (both 3)
    MaxPolls,   \* polls of wait_for_task before its deadline
    MaxFaults,  \* bound: faults of the network and the hypervisor
    MaxAsks,    \* bound: operations in a behaviour
    Faults      \* kinds of replies: "timeout", "network", "busy", "auth", "garbled"

ASSUME AttemptsAssumption == Attempts \in Nat \ {0} /\ MaxPolls \in Nat
ASSUME BoundAssumption == MaxFaults \in Nat /\ MaxAsks \in Nat
ASSUME FaultsAssumption == Faults \subseteq {"timeout", "network", "busy", "auth", "garbled"}

VARIABLES
    vm,       \* the machine, on the hypervisor
    task,     \* the tasks of the hypervisor
    late,     \* operations whose requests were given up, and may yet be performed
    call,     \* the coroutines: where they are in the client and the provider
    asked, facts, outcome,  \* for the contract: history
    faults, asks            \* so far (bounds)

hyper == <<vm, task, late>>
hist  == <<asked, facts>>
vars  == <<vm, task, late, call, asked, facts, outcome, faults, asks>>

Tasked == {"clone", "start", "stop", "shutdown", "reboot", "destroy", "configure",
           "snapshot", "rollback"}
Reads  == {"status", "list", "ping", "agent_ping", "agent_users", "console", "spice"}
ASSUME OpsAssumption == Ops \subseteq Tasked \cup Reads /\ NoOp \notin Ops

TaskIds == 1 .. Cardinality(Calls) + 1      \* enough: one task runs, others are looked at
NoTask  == 0
TaskState == {"free", "running", "OK", "failed", "no exitstatus"}
Task == [op : Ops \cup {NoOp}, state : TaskState]

\* What a request is for, in the course of the operation.
Purpose == {"check", "operation", "poll"}
Replies == {"none", "upid", "data", "running", "stopped", "missing", "lock", "client", "true",
            "busy", "template", "OK", "failed", "no exitstatus"} \cup Faults
Call == [op : Ops \cup {NoOp}, at : {"idle", "send", "answered"}, for : Purpose,
         attempt : 0 .. Attempts - 1, outer : 0 .. Attempts - 1, polls : 0 .. MaxPolls,
         reply : Replies, handle : TaskIds \cup {NoTask}]
Idle == [op |-> NoOp, at |-> "idle", for |-> "operation", attempt |-> 0, outer |-> 0, polls |-> 0,
         reply |-> "none", handle |-> NoTask]

Contract == INSTANCE ProviderContract WITH pending <- [c \in Calls |-> call[c].op]

\* A call that polls polls a task that the hypervisor keeps, and one task runs at a time.
TypeOK ==
    /\ vm \in [there : BOOLEAN, on : BOOLEAN, snap : BOOLEAN]
    /\ task \in [TaskIds -> Task]
    /\ \A t, u \in TaskIds : task[t].state = "running" /\ task[u].state = "running" => t = u
    /\ late \subseteq Ops /\ asked \subseteq Ops
    /\ call \in [Calls -> Call]
    /\ \A c \in Calls : call[c].for = "poll" =>
        call[c].handle # NoTask /\ task[call[c].handle].state # "free"
    /\ facts \in [Calls -> SUBSET Contract!Outcomes]
    /\ outcome \in [Calls -> Contract!Outcomes]
    /\ faults \in 0 .. MaxFaults /\ asks \in 0 .. MaxAsks

Init ==
    /\ vm \in {Contract!Absent, [Contract!Absent EXCEPT !.there = TRUE]}
    /\ task = [t \in TaskIds |-> [op |-> NoOp, state |-> "free"]]
    /\ late = {} /\ asked = {}
    /\ call = [c \in Calls |-> Idle]
    /\ facts = [c \in Calls |-> {}]
    /\ outcome = [c \in Calls |-> "none"]
    /\ faults = 0 /\ asks = 0

----------------------------------------------------------------------------
(***************************************************************************)
(* The hypervisor, as the code and its tests expect it                     *)
(***************************************************************************)
Locked   == \E t \in TaskIds : task[t].state = "running"
FreeTask == {t \in TaskIds : task[t].state = "free"}
\* A stopped task that no call looks at is as good as a free one.
Tidy(tasks, calls) == [t \in TaskIds |->
    IF tasks[t].state # "running" /\ \A c \in Calls : calls[c].handle # t
    THEN [op |-> NoOp, state |-> "free"] ELSE tasks[t]]

Refusal(op) ==      \* of a request for a task, or "none"
    IF op # "clone" /\ ~ vm.there THEN "missing"
    ELSE IF Locked THEN "lock"
    ELSE IF \/ op = "clone" /\ vm.there
            \/ op \in {"start", "destroy"} /\ vm.on
            \/ op \in {"stop", "shutdown", "reboot"} /\ ~ vm.on
         THEN "client" ELSE "none"

Accept(op, t) == task' = [task EXCEPT ![t] = [op |-> op, state |-> "running"]]

ReadReply(op) ==
    IF op = "list" \/ op = "ping" THEN "data"
    ELSE IF ~ vm.there THEN "missing"
    ELSE IF op = "status" THEN IF vm.on THEN "running" ELSE "stopped"
    ELSE IF op \in {"agent_ping", "agent_users"} /\ ~ vm.on THEN "busy"    \* 500: no agent
    ELSE IF op = "agent_ping" THEN "true"
    ELSE "data"

Sending(c)         == call[c].at = "send" /\ call[c].op # "spice"
Answered(c, reply) == call' = [call EXCEPT ![c] = [@ EXCEPT !.at = "answered", !.reply = reply]]

Performed(c) ==         \* a request reaches the hypervisor, and its reply the client
    LET op == call[c].op IN
    /\ Sending(c)
    /\ CASE call[c].for = "check" ->
              \E reply \in {"template", "stopped", "missing"} : Answered(c, reply) /\ UNCHANGED task
         [] call[c].for = "poll" -> Answered(c, task[call[c].handle].state) /\ UNCHANGED task
         [] call[c].for = "operation" /\ op \in Reads -> Answered(c, ReadReply(op)) /\ UNCHANGED task
         [] OTHER ->
              IF Refusal(op) # "none" THEN Answered(c, Refusal(op)) /\ UNCHANGED task
              ELSE \E t \in FreeTask :
                    /\ \A u \in FreeTask : t <= u
                    /\ Accept(op, t)
                    /\ call' = [call EXCEPT ![c] =
                                   [@ EXCEPT !.at = "answered", !.reply = "upid", !.handle = t]]
    /\ UNCHANGED <<vm, late, hist, outcome, faults, asks>>

Fault == faults < MaxFaults /\ faults' = faults + 1

Lost(c) ==              \* a request is lost, refused by an error, or late
    /\ Sending(c) /\ Fault
    /\ \E reply \in Faults \ {"garbled"} :
        /\ Answered(c, reply)
        /\ \/ UNCHANGED late
           \/ /\ reply \in {"timeout", "network"}
              /\ call[c].for = "operation" /\ call[c].op \in Tasked
              /\ late' = late \cup {call[c].op}
    /\ UNCHANGED <<vm, task, hist, outcome, asks>>

ReplyLost(c) ==         \* the request was performed; its reply is lost or not JSON
    /\ call[c].at = "answered" /\ call[c].reply \notin Faults /\ Fault
    /\ \E reply \in Faults \cap {"timeout", "network", "garbled"} :
        LET handle == IF call[c].for = "poll" THEN call[c].handle ELSE NoTask
            calls  == [call EXCEPT ![c] = [@ EXCEPT !.reply = reply, !.handle = handle]] IN
        call' = calls /\ task' = Tidy(task, calls)
    /\ UNCHANGED <<vm, late, hist, outcome, asks>>

Arrives(op) ==          \* a request that was given up long ago is performed
    /\ op \in late
    /\ late' = late \ {op}
    /\ IF Refusal(op) # "none" THEN UNCHANGED task
       ELSE \E t \in FreeTask : (\A u \in FreeTask : t <= u) /\ Accept(op, t)
    /\ UNCHANGED <<vm, call, hist, outcome, faults, asks>>

Stops(t, state) == LET tasks == [task EXCEPT ![t].state = state] IN task' = Tidy(tasks, call)

TaskWorks(t) ==
    LET op == task[t].op IN
    /\ task[t].state = "running" /\ (op = "rollback" => vm.snap)
    /\ vm' = Contract!Effect(op, vm)
    /\ \E state \in {"OK", "no exitstatus"} : Stops(t, state)
    /\ facts' = [c \in Calls |-> IF call[c].op = NoOp THEN facts[c]
                    ELSE facts[c] \cup Contract!Facts(vm') \cup (IF call[c].op = op THEN {"ok"} ELSE {})]
    /\ UNCHANGED <<late, call, asked, outcome, faults, asks>>

TaskFails(t) ==
    /\ task[t].state = "running"
    /\ \E state \in {"failed", "no exitstatus"} : Stops(t, state)
    /\ UNCHANGED <<vm, late, call, hist, outcome, faults, asks>>

----------------------------------------------------------------------------
(***************************************************************************)
(* The client: one request with its retries                                *)
(***************************************************************************)
Ask(c, op) ==
    /\ call[c].op = NoOp /\ asks < MaxAsks /\ asks' = asks + 1
    /\ call' = [call EXCEPT ![c] = [Idle EXCEPT !.op = op, !.at = "send",
                                                !.for = IF op = "clone" THEN "check" ELSE "operation"]]
    /\ asked' = asked \cup {op}
    /\ facts' = [facts EXCEPT ![c] = Contract!Facts(vm)]
    /\ outcome' = [outcome EXCEPT ![c] = "none"]
    /\ UNCHANGED <<hyper, faults>>

Continue(c, new) ==
    /\ call' = [call EXCEPT ![c] = new]
    /\ UNCHANGED <<hyper, hist, outcome, faults, asks>>

Retryable == {"timeout", "network", "busy", "lock"}
MaxRetries(c) == IF call[c].op = "agent_ping" THEN 1 ELSE Attempts

\* Mutant of Retries: one attempt too many.
RetriesOnceMore(c) ==
    /\ call[c].at = "answered" /\ call[c].reply \in Retryable
    /\ call[c].attempt < MaxRetries(c)
    /\ Continue(c, [call[c] EXCEPT !.at = "send", !.attempt = @ + 1])

Retries(c) ==       \* after a backoff, and whatever the method
    /\ call[c].at = "answered" /\ call[c].reply \in Retryable
    /\ call[c].attempt < MaxRetries(c) - 1
    /\ Continue(c, [call[c] EXCEPT !.at = "send", !.attempt = @ + 1])

Fails(c) == call[c].reply \in Retryable => call[c].attempt >= MaxRetries(c) - 1

\* The exceptions that come of a reply: "error" is ProxmoxError.
Raised(reply) == CASE reply \in {"auth", "lock", "timeout", "missing"} -> reply
                   [] OTHER -> "error"

Return(c, r) ==
    LET calls == [call EXCEPT ![c] = Idle] IN
    /\ call' = calls /\ task' = Tidy(task, calls)
    /\ outcome' = [outcome EXCEPT ![c] = r]
    /\ facts' = [facts EXCEPT ![c] = {}]
    /\ UNCHANGED <<vm, late, asked, faults, asks>>

Errors == Retryable \cup {"auth", "missing", "client", "garbled"}
Raises(c) ==        \* out of the request, and of the operations that do not catch it
    /\ call[c].at = "answered" /\ call[c].reply \in Errors /\ Fails(c)
    /\ call[c].op \notin {"ping", "agent_ping"}
    /\ ~ (call[c].op = "destroy" /\ call[c].for = "operation" /\ call[c].reply = "lock"
            /\ call[c].outer < Attempts - 1)
    /\ Return(c, Raised(call[c].reply))

----------------------------------------------------------------------------
(***************************************************************************)
(* The provider's operations                                               *)
(***************************************************************************)
DestroyRetries(c) ==    \* a lock that outlasts the client's retries
    /\ call[c].at = "answered" /\ call[c].reply = "lock" /\ Fails(c)
    /\ call[c].op = "destroy" /\ call[c].for = "operation" /\ call[c].outer < Attempts - 1
    /\ Continue(c, [call[c] EXCEPT !.outer = @ + 1, !.attempt = 0, !.at = "send"])

CloneChecked(c) ==      \* the source must be a template
    /\ call[c].at = "answered" /\ call[c].for = "check"
    /\ \/ /\ call[c].reply = "template"
          /\ Continue(c, [call[c] EXCEPT !.for = "operation", !.attempt = 0, !.at = "send"])
       \/ call[c].reply = "stopped" /\ Return(c, "capability")

Ping(c) ==              \* ping, agent_ping: only a refusal of the credentials raises
    /\ call[c].at = "answered" /\ call[c].op \in {"ping", "agent_ping"}
    /\ call[c].reply \in Errors => Fails(c)
    /\ Return(c, IF call[c].reply = "auth" THEN "auth"
                 ELSE IF call[c].reply \in Errors THEN "false"
                 ELSE IF call[c].op = "ping" THEN "data" ELSE "true")

ReadAnswers(c) ==
    /\ call[c].at = "answered" /\ call[c].op \in {"status", "list", "agent_users", "console"}
    /\ call[c].reply \in {"data", "running", "stopped"}
    /\ \E r \in IF call[c].op = "status" THEN {call[c].reply, "unknown"} ELSE {"data"} : Return(c, r)

SpiceTicket(c) ==       \* declared among the console kinds, and a stub
    /\ call[c].op = "spice" /\ call[c].at = "send"
    /\ Return(c, "capability")

TaskHandle(c) ==        \* the operation returns, its caller waits for the task
    /\ call[c].at = "answered" /\ call[c].reply = "upid"
    /\ Continue(c, [call[c] EXCEPT !.for = "poll", !.attempt = 0, !.at = "send"])

\* Mutant of TaskStatus: a stopped task without an exit status has succeeded.
TaskStatusTrusting(reply) == IF reply \in {"OK", "no exitstatus"} THEN "ok" ELSE "task"

TaskStatus(reply) == IF reply = "OK" THEN "ok" ELSE "task"

WaitStopped(c) ==
    /\ call[c].at = "answered" /\ call[c].for = "poll"
    /\ call[c].reply \in {"OK", "failed", "no exitstatus"}
    /\ Return(c, TaskStatus(call[c].reply))

\* Mutant of WaitRunning: the deadline is not looked at.
WaitRunningForever(c) ==
    /\ call[c].at = "answered" /\ call[c].for = "poll" /\ call[c].reply = "running"
    /\ Continue(c, [call[c] EXCEPT !.attempt = 0, !.at = "send"])

WaitRunning(c) ==
    /\ call[c].at = "answered" /\ call[c].for = "poll" /\ call[c].reply = "running"
    /\ IF call[c].polls = MaxPolls THEN Return(c, "timeout")
       ELSE Continue(c, [call[c] EXCEPT !.polls = @ + 1, !.attempt = 0, !.at = "send"])

----------------------------------------------------------------------------
Client(c) == Performed(c) \/ Retries(c) \/ Raises(c)

Operation(c) ==
    \/ DestroyRetries(c) \/ CloneChecked(c) \/ Ping(c) \/ ReadAnswers(c) \/ SpiceTicket(c)
    \/ TaskHandle(c) \/ WaitStopped(c) \/ WaitRunning(c)

Network(c) == Lost(c) \/ ReplyLost(c)

Next ==
    \/ \E c \in Calls : Client(c) \/ Operation(c) \/ Network(c) \/ \E op \in Ops : Ask(c, op)
    \/ \E op \in Ops : Arrives(op)
    \/ \E t \in TaskIds : TaskWorks(t) \/ TaskFails(t)

Spec == Init /\ [][Next]_vars

\* A request is answered or times out, and the event loop runs every coroutine.  No
\* fairness of the tasks: one may hang.
FairSpec == Spec /\ \A c \in Calls : WF_vars(Client(c) \/ Operation(c))

----------------------------------------------------------------------------
\* What the callers rely on.
ContractSpec == Contract!Spec

\* Every operation returns or raises, whatever the network and the tasks do: retries,
\* the retries around them and polls all have an end.
EveryCallEnds == \A c \in Calls : call[c].op # NoOp ~> call[c].op = NoOp

\* An operation that raises has not been performed, and will not be.
ErrorsAreFinal == \A op \in Ops :
    (\A c \in Calls : call[c].op # op) => op \notin late /\ \A t \in TaskIds : task[t].op # op

=============================================================================
