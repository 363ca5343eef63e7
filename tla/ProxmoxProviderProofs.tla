----------------------- MODULE ProxmoxProviderProofs -----------------------
(***************************************************************************)
(* The provider keeps its contract, for every number of coroutines,        *)
(* attempts, polls and faults, and every call goes forward.                *)
(***************************************************************************)
EXTENDS ProxmoxProvider, TLAPS

(***************************************************************************)
(* The inductive invariant                                                 *)
(***************************************************************************)

\* What is performed, now or late, was asked for.
AskedInv ==
    /\ late \subseteq asked
    /\ \A t \in TaskIds : task[t].state # "free" => task[t].op \in asked
    /\ \A c \in Calls : call[c].op = NoOp \/ call[c].op \in asked

\* Where a call is in its operation.
CourseInv ==
    \A c \in Calls :
        /\ call[c].at # "idle" => call[c].op # NoOp
        /\ call[c].for = "check" => call[c].op = "clone"
        /\ call[c].for = "poll" => call[c].op \in Tasked
        /\ call[c].at = "answered" /\ call[c].reply = "upid" =>
             call[c].handle # NoTask /\ call[c].op \in Tasked /\ call[c].for = "operation"

\* A call's handle is that of a task of its operation, dispatched since it was asked.
HandleInv ==
    \A c \in Calls : call[c].handle # NoTask =>
        LET t == task[call[c].handle] IN
        /\ t.state # "free" /\ t.op = call[c].op
        /\ t.state = "OK" => "ok" \in facts[c]

\* What an answer says of the machine and the task, the call has seen.
Seen(k, known) ==
    k.at = "answered" =>
        /\ k.reply = "missing" /\ k.op # "clone" => "missing" \in known
        /\ k.op = "status" /\ k.reply \in {"running", "stopped"} => k.reply \in known
        /\ k.op = "agent_ping" /\ k.reply \notin Errors => "running" \in known
        /\ k.for = "poll" /\ k.reply = "OK" => "ok" \in known

SeenInv ==
    \A c \in Calls : /\ call[c].op # NoOp => Contract!Facts(vm) \subseteq facts[c]
                     /\ Seen(call[c], facts[c])

IInv == TypeOK /\ AskedInv /\ CourseInv /\ HandleInv /\ SeenInv

(***************************************************************************)
(* The operators                                                           *)
(***************************************************************************)

\* Tidying frees stopped tasks that no call looks at, and leaves the others alone.
LEMMA TidyEffect ==
    ASSUME NEW tasks \in [TaskIds -> Task], NEW calls \in [Calls -> Call]
    PROVE  /\ Tidy(tasks, calls) \in [TaskIds -> Task]
           /\ \A t \in TaskIds :
                \/ Tidy(tasks, calls)[t] = tasks[t]
                \/ /\ Tidy(tasks, calls)[t].state = "free"
                   /\ \A c \in Calls : calls[c].handle # t
BY DEF Tidy, Task, TaskState

LEMMA IdleCall == Idle \in Call /\ NoTask \notin TaskIds
BY AttemptsAssumption DEF Idle, Call, Purpose, Replies, TaskIds, NoTask

LEMMA FactsEffect ==
    /\ \A m : Contract!Facts(m) \subseteq {"missing", "running", "stopped"}
    /\ {"missing", "running", "stopped", "ok"} \subseteq Contract!Outcomes
BY DEF Contract!Facts, Contract!Outcomes

LEMMA EffectType ==
    ASSUME NEW m \in [there : BOOLEAN, on : BOOLEAN, snap : BOOLEAN], NEW op
    PROVE  Contract!Effect(op, m) \in [there : BOOLEAN, on : BOOLEAN, snap : BOOLEAN]
BY DEF Contract!Effect, Contract!Absent

LEMMA InitIInv == Init => IInv
<1> SUFFICES ASSUME Init PROVE IInv
  OBVIOUS
<1>1. TypeOK
  <2>1. vm \in [there : BOOLEAN, on : BOOLEAN, snap : BOOLEAN]
    <3>1. /\ Contract!Absent \in [there : BOOLEAN, on : BOOLEAN, snap : BOOLEAN]
          /\ [Contract!Absent EXCEPT !.there = TRUE] \in [there : BOOLEAN, on : BOOLEAN, snap : BOOLEAN]
      BY DEF Contract!Absent
    <3>2. QED
      BY <3>1 DEF Init
  <2>2. /\ [op |-> NoOp, state |-> "free"] \in Task
        /\ [op |-> NoOp, state |-> "free"].state = "free"
    BY DEF Task, TaskState
  <2>3. "none" \in Contract!Outcomes
    BY DEF Contract!Outcomes
  <2>4. Idle.for = "operation"
    BY DEF Idle
  <2>5. QED
    BY <2>1, <2>2, <2>3, <2>4, IdleCall, BoundAssumption DEF Init, TypeOK
<1>2. AskedInv /\ CourseInv /\ HandleInv /\ SeenInv
  BY DEF Init, Idle, AskedInv, CourseInv, HandleInv, SeenInv, Seen
<1>3. QED
  BY <1>1, <1>2 DEF IInv

(***************************************************************************)
(* Steps                                                                   *)
(***************************************************************************)

\* A call that goes on with a request, or its answer, for the same operation.
LEMMA Continues ==
    ASSUME IInv, NEW c \in Calls, NEW new \in Call,
           call' = [call EXCEPT ![c] = new], UNCHANGED <<vm, task, asked, facts, outcome>>,
           late' \subseteq late \cup {call[c].op}, late' \subseteq Ops,
           faults' \in 0 .. MaxFaults, asks' \in 0 .. MaxAsks,
           new.op = call[c].op, new.op # NoOp, new.handle = call[c].handle,
           new.for = "check" => new.op = "clone",
           new.for = "poll" => new.op \in Tasked /\ new.handle # NoTask,
           new.at # "answered" \/ (new.reply # "upid" /\ Seen(new, facts[c]))
    PROVE  IInv'
<1>1. TypeOK'
  BY DEF IInv, TypeOK, HandleInv
<1>2. AskedInv' /\ CourseInv' /\ HandleInv' /\ SeenInv'
  BY DEF IInv, TypeOK, AskedInv, CourseInv, HandleInv, SeenInv, Seen
<1>3. QED
  BY <1>1, <1>2 DEF IInv

LEMMA ReturnsStep ==
    ASSUME IInv, NEW c \in Calls, NEW r \in Contract!Outcomes, Return(c, r)
    PROVE  IInv'
<1> DEFINE calls == [call EXCEPT ![c] = Idle]
<1>1. /\ call' = calls /\ task' = Tidy(task, calls)
      /\ outcome' = [outcome EXCEPT ![c] = r] /\ facts' = [facts EXCEPT ![c] = {}]
      /\ UNCHANGED <<vm, late, asked, faults, asks>>
  BY DEF Return
<1>2. calls \in [Calls -> Call] /\ \A d \in Calls : calls[d] = IF d = c THEN Idle ELSE call[d]
  BY IdleCall DEF IInv, TypeOK
<1> HIDE DEF calls
<1>3. /\ task' \in [TaskIds -> Task]
      /\ \A t \in TaskIds : \/ task'[t] = task[t]
                            \/ task'[t].state = "free" /\ \A d \in Calls : calls[d].handle # t
  <2>1. task \in [TaskIds -> Task]
    BY DEF IInv, TypeOK
  <2>2. QED
    BY <1>1, <1>2, <2>1, TidyEffect
<1>4. TypeOK'
  <2>1. \A d \in Calls : calls[d].for = "poll" =>
            calls[d].handle # NoTask /\ task'[calls[d].handle].state # "free"
    BY <1>2, <1>3 DEF IInv, TypeOK, Call, Idle
  <2>2. \A t, u \in TaskIds :
            task'[t].state = "running" /\ task'[u].state = "running" => t = u
    BY <1>3 DEF IInv, TypeOK
  <2>3. /\ facts' \in [Calls -> SUBSET Contract!Outcomes]
        /\ outcome' \in [Calls -> Contract!Outcomes]
    BY <1>1 DEF IInv, TypeOK
  <2>4. QED
    BY <1>1, <1>2, <1>3, <2>1, <2>2, <2>3 DEF IInv, TypeOK
<1>5. AskedInv' /\ CourseInv'
  BY <1>1, <1>2, <1>3, IdleCall DEF IInv, AskedInv, CourseInv, Idle
<1>6. HandleInv'
  <2> SUFFICES ASSUME NEW d \in Calls, calls[d].handle # NoTask
               PROVE  LET t == task'[calls[d].handle] IN
                      /\ t.state # "free" /\ t.op = calls[d].op
                      /\ t.state = "OK" => "ok" \in facts'[d]
    BY <1>1 DEF HandleInv
  <2>1. d # c /\ calls[d] = call[d] /\ call[d].handle \in TaskIds
    BY <1>2 DEF Idle, Call
  <2>2. task'[call[d].handle] = task[call[d].handle] /\ facts'[d] = facts[d]
    BY <1>1, <1>3, <2>1 DEF IInv, TypeOK
  <2>3. QED
    BY <2>1, <2>2 DEF IInv, HandleInv
<1>7. SeenInv'
  BY <1>1, <1>2 DEF IInv, TypeOK, SeenInv, Seen, Idle
<1>8. QED
  BY <1>4, <1>5, <1>6, <1>7 DEF IInv

\* The hypervisor accepts a request, of a call that keeps the handle or of nobody's.
LEMMA AcceptsStep ==
    ASSUME IInv, NEW op \in asked, NEW t \in FreeTask, Refusal(op) = "none", Accept(op, t),
           \/ UNCHANGED call
           \/ \E c \in Calls :
                /\ call[c].op = op /\ call[c].for = "operation" /\ op \notin Reads
                /\ call' = [call EXCEPT ![c] =
                               [@ EXCEPT !.at = "answered", !.reply = "upid", !.handle = t]],
           late' \subseteq late, UNCHANGED <<vm, asked, facts, outcome, faults, asks>>
    PROVE  IInv'
<1> DEFINE new == [op |-> op, state |-> "running"]
<1>1. t \in TaskIds /\ task[t].state = "free" /\ op \in Ops
  BY DEF FreeTask, IInv, TypeOK
<1>2. \A u \in TaskIds : task[u].state # "running"
  BY DEF Refusal, Locked
<1>3. new \in Task /\ new.op = op /\ new.state = "running"
  BY <1>1 DEF Task, TaskState
<1>4. task' = [task EXCEPT ![t] = new]
  BY DEF Accept
<1> HIDE DEF new
<1>5. \A c \in Calls : call[c].handle # t
  BY <1>1, IdleCall DEF IInv, HandleInv
<1>6. /\ call' \in [Calls -> Call]
      /\ \A c \in Calls : \/ call'[c] = call[c]
                           \/ /\ call'[c].op = op /\ call[c].op = op /\ call'[c].for = "operation"
                              /\ call'[c].handle = t /\ call'[c].reply = "upid" /\ op \notin Reads
  <2>1. CASE UNCHANGED call
    BY <2>1 DEF IInv, TypeOK
  <2>2. ASSUME NEW c \in Calls, call[c].op = op, call[c].for = "operation", op \notin Reads, NEW told,
               told = [call[c] EXCEPT !.at = "answered", !.reply = "upid", !.handle = t],
               call' = [call EXCEPT ![c] = told]
        PROVE  <1>6
    <3>1. call[c] \in Call
      BY DEF IInv, TypeOK
    <3>2. /\ told \in Call /\ told.op = op /\ told.for = "operation"
          /\ told.handle = t /\ told.reply = "upid"
      BY ONLY <1>1, <2>2, <3>1 DEF Call, Replies
    <3>3. QED
      BY <2>2, <3>2 DEF IInv, TypeOK
  <2>3. QED
    BY <2>1, <2>2
<1>7. op \in Tasked \cup Reads /\ op # NoOp
  BY <1>1, OpsAssumption
<1>8. TypeOK'
  <2>1. task' \in [TaskIds -> Task]
    BY <1>1, <1>3, <1>4 DEF IInv, TypeOK
  <2>2. \A u, v \in TaskIds :
            task'[u].state = "running" /\ task'[v].state = "running" => u = v
    BY <1>1, <1>2, <1>4 DEF IInv, TypeOK
  <2>3. \A c \in Calls : call'[c].for = "poll" =>
            call'[c].handle # NoTask /\ task'[call'[c].handle].state # "free"
    <3> SUFFICES ASSUME NEW c \in Calls, call'[c].for = "poll"
                 PROVE  call[c].handle # NoTask /\ task'[call[c].handle].state # "free"
      BY <1>6
    <3>1. call[c].for = "poll" /\ call[c].handle # NoTask /\ task[call[c].handle].state # "free"
      BY <1>6 DEF IInv, TypeOK
    <3>2. call[c].handle \in TaskIds \ {t}
      BY <1>5, <3>1 DEF IInv, TypeOK, Call
    <3>3. QED
      BY <1>4, <3>1, <3>2 DEF IInv, TypeOK
  <2>4. QED
    BY <1>6, <2>1, <2>2, <2>3 DEF IInv, TypeOK
<1>9. AskedInv'
  BY <1>1, <1>3, <1>4, <1>6 DEF IInv, TypeOK, AskedInv
<1>10. CourseInv'
  BY <1>1, <1>6, <1>7, IdleCall DEF IInv, CourseInv
<1>11. HandleInv'
  <2> SUFFICES ASSUME NEW c \in Calls, call'[c].handle # NoTask
               PROVE  LET u == task'[call'[c].handle] IN
                      /\ u.state # "free" /\ u.op = call'[c].op
                      /\ u.state = "OK" => "ok" \in facts[c]
    BY DEF HandleInv
  <2>1. task'[t] = new
    BY <1>1, <1>4 DEF IInv, TypeOK
  <2>2. CASE call'[c] = call[c]
    <3>1. call[c].handle \in TaskIds \ {t}
      BY <1>5, <2>2 DEF IInv, TypeOK, Call
    <3>2. task'[call[c].handle] = task[call[c].handle]
      BY <1>4, <3>1 DEF IInv, TypeOK
    <3>3. /\ task[call[c].handle].state # "free" /\ task[call[c].handle].op = call[c].op
          /\ task[call[c].handle].state = "OK" => "ok" \in facts[c]
      BY <2>2 DEF IInv, HandleInv
    <3>4. QED
      BY <2>2, <3>2, <3>3
  <2>3. CASE call'[c] # call[c]
    BY <1>3, <1>6, <2>1, <2>3
  <2>4. QED
    BY <2>2, <2>3
<1>12. SeenInv'
  <2>1. ASSUME NEW c \in Calls
        PROVE  /\ Seen(call'[c], facts[c])
               /\ call'[c].op # NoOp => Contract!Facts(vm) \subseteq facts[c]
    <3>1. CASE call'[c] = call[c]
      BY <3>1 DEF IInv, SeenInv
    <3>2. CASE call'[c] # call[c]
      <4>1. /\ call'[c].op = op /\ call[c].op = op /\ op \notin Reads
            /\ call'[c].for = "operation" /\ call'[c].reply = "upid"
        BY <1>6, <3>2
      <4>2. Seen(call'[c], facts[c])
        BY <4>1 DEF Seen, Reads
      <4>3. QED
        BY <1>7, <4>1, <4>2 DEF IInv, SeenInv
    <3>3. QED
      BY <3>1, <3>2
  <2>2. UNCHANGED <<vm, facts>>
    OBVIOUS
  <2> HIDE DEF SeenInv
  <2>3. QED
    BY ONLY <2>1, <2>2 DEF SeenInv
<1>13. QED
  BY <1>8, <1>9, <1>10, <1>11, <1>12 DEF IInv

\* An answer that says what the call has seen.
LEMMA AnswersStep ==
    ASSUME IInv, NEW c \in Calls, Sending(c), NEW reply \in Replies \ {"upid"},
           Answered(c, reply), UNCHANGED <<vm, task, asked, facts, outcome, asks>>,
           late' \subseteq late \cup {call[c].op}, late' \subseteq Ops,
           faults' \in 0 .. MaxFaults,
           reply = "missing" /\ call[c].op # "clone" => "missing" \in facts[c],
           call[c].op = "status" /\ reply \in {"running", "stopped"} => reply \in facts[c],
           call[c].op = "agent_ping" /\ reply \notin Errors => "running" \in facts[c],
           call[c].for = "poll" /\ reply = "OK" => "ok" \in facts[c]
    PROVE  IInv'
<1> DEFINE new == [call[c] EXCEPT !.at = "answered", !.reply = reply]
<1>1. call[c] \in Call /\ call[c].at = "send"
  BY DEF IInv, TypeOK, Sending
<1>2. /\ new \in Call /\ new.op = call[c].op /\ new.for = call[c].for
      /\ new.handle = call[c].handle /\ new.at = "answered" /\ new.reply = reply
  BY ONLY <1>1, reply \in Replies DEF Call
<1>3. call' = [call EXCEPT ![c] = new]
  BY DEF Answered
<1> HIDE DEF new
<1>4. Seen(new, facts[c])
  BY <1>2 DEF Seen
<1>5. /\ new.op # NoOp
      /\ new.for = "check" => new.op = "clone"
      /\ new.for = "poll" => new.op \in Tasked /\ new.handle # NoTask
  BY <1>1, <1>2 DEF IInv, TypeOK, CourseInv
<1>6. asks' \in 0 .. MaxAsks
  BY DEF IInv, TypeOK
<1>7. QED
  BY <1>2, <1>3, <1>4, <1>5, <1>6, Continues

LEMMA PerformedStep ==
    ASSUME IInv, NEW c \in Calls, Performed(c)
    PROVE  IInv'
<1> DEFINE op == call[c].op
<1>1. /\ Sending(c) /\ call[c].at = "send" /\ call[c] \in Call /\ op # NoOp /\ op \in Ops
      /\ Contract!Facts(vm) \subseteq facts[c]
      /\ vm \in [there : BOOLEAN, on : BOOLEAN, snap : BOOLEAN]
      /\ UNCHANGED <<vm, late, asked, facts, outcome, faults, asks>>
  BY DEF Performed, Sending, hist, IInv, TypeOK, CourseInv, SeenInv, Call
<1>2. late' \subseteq late \cup {op} /\ late' \subseteq Ops /\ faults' \in 0 .. MaxFaults
  BY <1>1 DEF IInv, TypeOK
<1>3. /\ call[c].for = "check" => op = "clone"
      /\ call[c].for = "poll" => op \in Tasked /\ call[c].handle \in TaskIds
      /\ call[c].for \in {"check", "operation", "poll"}
  BY <1>1 DEF IInv, TypeOK, CourseInv, Call, Purpose
<1>4. CASE call[c].for = "check"
  <2>1. PICK reply \in {"template", "stopped", "missing"} : Answered(c, reply) /\ UNCHANGED task
    BY <1>4 DEF Performed
  <2>2. reply \in Replies \ {"upid"}
    BY DEF Replies
  <2>3. QED
    BY <1>1, <1>2, <1>3, <1>4, <2>1, <2>2, AnswersStep
<1>5. CASE call[c].for = "poll"
  <2> DEFINE reply == task[call[c].handle].state
  <2>1. Answered(c, reply) /\ UNCHANGED task
    BY <1>5 DEF Performed
  <2>2. reply \in {"running", "OK", "failed", "no exitstatus"} /\ reply \in Replies \ {"upid"}
    BY <1>3, <1>5 DEF IInv, TypeOK, Task, TaskState, Replies
  <2>3. reply = "OK" => "ok" \in facts[c]
    BY <1>3, <1>5, IdleCall DEF IInv, HandleInv
  <2> HIDE DEF reply
  <2>4. op \notin {"status", "agent_ping"}
    BY <1>3, <1>5 DEF Tasked
  <2>5. QED
    BY <1>1, <1>2, <2>1, <2>2, <2>3, <2>4, AnswersStep
<1>6. CASE call[c].for = "operation" /\ op \in Reads
  <2>1. Answered(c, ReadReply(op)) /\ UNCHANGED task
    BY <1>6 DEF Performed
  <2>2. /\ ReadReply(op) \in {"data", "missing", "running", "stopped", "busy", "true"}
        /\ ReadReply(op) = "missing" => ~ vm.there
        /\ op = "status" /\ ReadReply(op) # "missing" => vm.there
        /\ ReadReply(op) = "running" => vm.on
        /\ ReadReply(op) = "stopped" => ~ vm.on
        /\ op = "agent_ping" /\ ReadReply(op) \notin {"missing", "busy"} => vm.there /\ vm.on
    BY DEF ReadReply
  <2> DEFINE reply == ReadReply(op)
  <2>3. reply \in Replies \ {"upid"} /\ {"missing", "busy"} \subseteq Errors
    BY <2>2 DEF Replies, Errors, Retryable
  <2>4. /\ reply = "missing" => "missing" \in facts[c]
        /\ op = "status" /\ reply \in {"running", "stopped"} => reply \in facts[c]
        /\ op = "agent_ping" /\ reply \notin {"missing", "busy"} => "running" \in facts[c]
    BY <1>1, <2>2 DEF Contract!Facts
  <2> HIDE DEF reply
  <2>5. Answered(c, reply) /\ UNCHANGED task
    BY <2>1 DEF reply
  <2>6. QED
    BY <1>1, <1>2, <1>6, <2>3, <2>4, <2>5, AnswersStep
<1>7. CASE call[c].for = "operation" /\ op \notin Reads
  <2>1. CASE Refusal(op) # "none"
    <3> DEFINE reply == Refusal(op)
    <3>1. Answered(c, reply) /\ UNCHANGED task
      BY <1>7, <2>1 DEF Performed
    <3>2. /\ reply \in {"missing", "lock", "client"}
          /\ reply = "missing" => ~ vm.there
      BY <2>1 DEF Refusal
    <3>3. reply \in Replies \ {"upid"}
      BY <3>2 DEF Replies
    <3>4. reply = "missing" => "missing" \in facts[c]
      BY <1>1, <3>2 DEF Contract!Facts
    <3> HIDE DEF reply
    <3>5. op \notin {"status", "agent_ping"}
      BY <1>7 DEF Reads
    <3>6. QED
      BY <1>1, <1>2, <1>7, <3>1, <3>2, <3>3, <3>4, <3>5, AnswersStep
  <2>2. CASE Refusal(op) = "none"
    <3>1. PICK t \in FreeTask :
              /\ Accept(op, t)
              /\ call' = [call EXCEPT ![c] =
                            [@ EXCEPT !.at = "answered", !.reply = "upid", !.handle = t]]
      BY <1>7, <2>2 DEF Performed
    <3>2. op \in asked
      BY <1>1 DEF IInv, AskedInv
    <3>3. QED
      BY <1>1, <1>7, <2>2, <3>1, <3>2, AcceptsStep
  <2>3. QED
    BY <2>1, <2>2
<1>8. QED
  BY <1>3, <1>4, <1>5, <1>6, <1>7

\* What goes wrong on the network says nothing of the machine.
LEMMA NetworkStep ==
    ASSUME IInv, NEW c \in Calls, Network(c)
    PROVE  IInv'
<1>1. /\ call[c].op # NoOp /\ call[c].op \in Ops /\ call[c] \in Call
      /\ faults' \in 0 .. MaxFaults /\ asks' \in 0 .. MaxAsks
      /\ UNCHANGED <<vm, asked, facts, outcome, asks>>
  <2>1. /\ call[c].at # "idle" /\ Fault
        /\ UNCHANGED <<vm, asked, facts, outcome, asks>>
    BY DEF Network, Lost, ReplyLost, Sending, hist
  <2>2. call[c] \in Call /\ call[c].op # NoOp /\ call[c].op \in Ops
    BY <2>1 DEF IInv, TypeOK, CourseInv, Call
  <2>3. QED
    BY <2>1, <2>2, BoundAssumption DEF Fault, IInv, TypeOK
<1>2. \A reply \in Faults : /\ reply \in Replies \ {"upid", "missing", "running", "stopped", "OK"}
                            /\ reply \in Errors
  BY FaultsAssumption DEF Replies, Errors, Retryable
<1>3. CASE Lost(c)
  <2>1. PICK reply \in Faults : Answered(c, reply)
    BY <1>3 DEF Lost
  <2>2. Sending(c) /\ UNCHANGED task
    BY <1>3 DEF Lost
  <2>3. late' \subseteq late \cup {call[c].op} /\ late' \subseteq Ops
    BY <1>1, <1>3 DEF Lost, IInv, TypeOK
  <2>4. QED
    BY <1>1, <1>2, <2>1, <2>2, <2>3, AnswersStep
<1>4. CASE ReplyLost(c)
  <2> DEFINE handle == IF call[c].for = "poll" THEN call[c].handle ELSE NoTask
  <2>1. PICK reply \in Faults :
          LET calls == [call EXCEPT ![c] = [@ EXCEPT !.reply = reply, !.handle = handle]] IN
          call' = calls /\ task' = Tidy(task, calls)
    BY <1>4 DEF ReplyLost
  <2> DEFINE new == [call[c] EXCEPT !.reply = reply, !.handle = handle]
  <2>2. call[c].at = "answered" /\ UNCHANGED late
    BY <1>4 DEF ReplyLost
  <2>3. handle \in {call[c].handle, NoTask} /\ (call[c].for = "poll" => handle = call[c].handle)
    OBVIOUS
  <2> HIDE DEF handle
  <2>4. /\ new \in Call /\ new.op = call[c].op /\ new.for = call[c].for /\ new.at = "answered"
        /\ new.reply = reply /\ new.handle = handle
    BY <1>1, <1>2, <2>2, <2>3 DEF Call
  <2> DEFINE calls == [call EXCEPT ![c] = new]
  <2>5. call' = calls /\ task' = Tidy(task, calls)
    BY <2>1
  <2> HIDE DEF new
  <2>6. /\ calls \in [Calls -> Call] /\ task \in [TaskIds -> Task]
        /\ \A d \in Calls : calls[d] = IF d = c THEN new ELSE call[d]
    BY <2>4 DEF IInv, TypeOK
  <2> HIDE DEF calls
  <2>7. /\ task' \in [TaskIds -> Task]
        /\ \A t \in TaskIds : \/ task'[t] = task[t]
                              \/ task'[t].state = "free" /\ \A d \in Calls : calls[d].handle # t
    BY <2>5, <2>6, TidyEffect
  <2>8. \A d \in Calls : calls[d].handle # NoTask =>
            calls[d].handle = call[d].handle /\ task'[call[d].handle] = task[call[d].handle]
    BY <2>3, <2>4, <2>6, <2>7 DEF Call
  <2>9. TypeOK'
    <3>1. \A d \in Calls : calls[d].for = "poll" =>
              calls[d].handle # NoTask /\ task'[calls[d].handle].state # "free"
      BY <2>3, <2>4, <2>6, <2>8 DEF IInv, TypeOK
    <3>2. \A t, u \in TaskIds :
              task'[t].state = "running" /\ task'[u].state = "running" => t = u
      BY <2>7 DEF IInv, TypeOK
    <3>3. QED
      BY <1>1, <2>2, <2>5, <2>6, <2>7, <3>1, <3>2 DEF IInv, TypeOK
  <2>10. AskedInv'
    BY <1>1, <2>2, <2>4, <2>5, <2>6, <2>7 DEF IInv, AskedInv
  <2>11. CourseInv'
    BY <1>1, <1>2, <2>4, <2>5, <2>6 DEF IInv, CourseInv
  <2>12. HandleInv'
    BY <1>1, <2>3, <2>4, <2>5, <2>6, <2>8 DEF IInv, HandleInv
  <2>13. Seen(new, facts[c])
    BY <1>2, <2>4 DEF Seen
  <2>14. SeenInv'
    BY <1>1, <2>4, <2>5, <2>6, <2>13 DEF IInv, SeenInv
  <2>15. QED
    BY <2>9, <2>10, <2>11, <2>12, <2>14 DEF IInv
<1>5. QED
  BY <1>3, <1>4 DEF Network

\* A task that stops has its exit status, or is forgotten when nobody polls it.
LEMMA StopsEffect ==
    ASSUME TypeOK, NEW t \in TaskIds, NEW state \in {"OK", "failed", "no exitstatus"},
           Stops(t, state)
    PROVE  /\ task' \in [TaskIds -> Task]
           /\ \A u \in TaskIds :
                \/ /\ task'[u].state = "free" /\ \A c \in Calls : call[c].handle # u
                \/ /\ task'[u].op = task[u].op
                   /\ task'[u].state = IF u = t THEN state ELSE task[u].state
<1> DEFINE new == [task[t] EXCEPT !.state = state]
           tasks == [task EXCEPT ![t] = new]
<1>1. task' = Tidy(tasks, call)
  BY DEF Stops
<1>2. new \in Task /\ new.op = task[t].op /\ new.state = state
  BY DEF TypeOK, Task, TaskState
<1> HIDE DEF new
<1>3. /\ tasks \in [TaskIds -> Task] /\ call \in [Calls -> Call]
      /\ \A u \in TaskIds : tasks[u] = IF u = t THEN new ELSE task[u]
  BY <1>2 DEF TypeOK
<1> HIDE DEF tasks
<1>4. /\ task' \in [TaskIds -> Task]
      /\ \A u \in TaskIds : \/ task'[u] = tasks[u]
                            \/ task'[u].state = "free" /\ \A c \in Calls : call[c].handle # u
  BY <1>1, <1>3, TidyEffect
<1>5. QED
  BY <1>2, <1>3, <1>4

\* Every task step that keeps what the calls have seen, and adds to it.
LEMMA StoppedStep ==
    ASSUME IInv, NEW t \in TaskIds, NEW state \in {"OK", "failed", "no exitstatus"},
           task[t].state = "running", Stops(t, state),
           UNCHANGED <<late, call, asked, outcome, faults, asks>>,
           vm' \in [there : BOOLEAN, on : BOOLEAN, snap : BOOLEAN],
           facts' \in [Calls -> SUBSET Contract!Outcomes],
           \A c \in Calls : call[c].op # NoOp =>
               /\ facts[c] \cup Contract!Facts(vm') \subseteq facts'[c]
               /\ state = "OK" /\ call[c].op = task[t].op => "ok" \in facts'[c]
    PROVE  IInv'
<1>1. /\ task' \in [TaskIds -> Task]
      /\ \A u \in TaskIds :
           \/ /\ task'[u].state = "free" /\ \A c \in Calls : call[c].handle # u
           \/ /\ task'[u].op = task[u].op
              /\ task'[u].state = IF u = t THEN state ELSE task[u].state
  BY StopsEffect DEF IInv
<1>2. TypeOK'
  <2>1. \A u, v \in TaskIds :
            task'[u].state = "running" /\ task'[v].state = "running" => u = v
    <3>1. \A u \in TaskIds : task'[u].state = "running" => task[u].state = "running"
      BY <1>1
    <3>2. QED
      BY <3>1 DEF IInv, TypeOK
  <2>2. \A c \in Calls : call[c].for = "poll" =>
            call[c].handle # NoTask /\ task'[call[c].handle].state # "free"
    BY <1>1 DEF IInv, TypeOK, Call
  <2>3. QED
    BY <1>1, <2>1, <2>2 DEF IInv, TypeOK
<1>3. AskedInv' /\ CourseInv'
  BY <1>1 DEF IInv, AskedInv, CourseInv
<1>4. \A c \in Calls : call[c].handle # NoTask => call[c].op # NoOp
  <2> SUFFICES ASSUME NEW c \in Calls, call[c].handle # NoTask
               PROVE  call[c].op # NoOp
    OBVIOUS
  <2>1. call[c].handle \in TaskIds
    BY DEF IInv, TypeOK, Call
  <2>2. call[c].op \in asked /\ asked \subseteq Ops
    BY <2>1 DEF IInv, TypeOK, HandleInv, AskedInv
  <2>3. QED
    BY <2>2, OpsAssumption
<1>5. HandleInv'
  <2> SUFFICES ASSUME NEW c \in Calls, call[c].handle # NoTask
               PROVE  LET h == task'[call[c].handle] IN
                      /\ h.state # "free" /\ h.op = call[c].op
                      /\ h.state = "OK" => "ok" \in facts'[c]
    BY DEF HandleInv
  <2>1. call[c].handle \in TaskIds /\ call[c].op # NoOp
    BY <1>4 DEF IInv, TypeOK, Call
  <2>2. QED
    BY <1>1, <2>1 DEF IInv, HandleInv
<1>6. SeenInv'
  <2> SUFFICES ASSUME NEW c \in Calls
               PROVE  /\ call[c].op # NoOp => Contract!Facts(vm') \subseteq facts'[c]
                      /\ Seen(call[c], facts'[c])
    BY DEF SeenInv
  <2>1. CASE call[c].op = NoOp
    BY <2>1 DEF IInv, CourseInv, Seen
  <2>2. CASE call[c].op # NoOp
    <3>1. facts[c] \subseteq facts'[c] /\ Contract!Facts(vm') \subseteq facts'[c]
      BY <2>2
    <3>2. QED
      BY <3>1 DEF IInv, SeenInv, Seen
  <2>3. QED
    BY <2>1, <2>2
<1>7. QED
  BY <1>2, <1>3, <1>5, <1>6 DEF IInv

LEMMA TaskStep ==
    ASSUME IInv, NEW t \in TaskIds, TaskWorks(t) \/ TaskFails(t)
    PROVE  IInv'
<1>1. CASE TaskWorks(t)
  <2>1. /\ task[t].state = "running" /\ vm' = Contract!Effect(task[t].op, vm)
        /\ UNCHANGED <<late, call, asked, outcome, faults, asks>>
    BY <1>1 DEF TaskWorks
  <2>2. PICK state \in {"OK", "no exitstatus"} : Stops(t, state)
    BY <1>1 DEF TaskWorks
  <2>3. facts' = [c \in Calls |-> IF call[c].op = NoOp THEN facts[c]
                    ELSE facts[c] \cup Contract!Facts(vm')
                           \cup (IF call[c].op = task[t].op THEN {"ok"} ELSE {})]
    BY <1>1 DEF TaskWorks
  <2>4. vm' \in [there : BOOLEAN, on : BOOLEAN, snap : BOOLEAN]
    BY <2>1, EffectType DEF IInv, TypeOK
  <2>5. facts' \in [Calls -> SUBSET Contract!Outcomes]
    BY <2>3, FactsEffect DEF IInv, TypeOK
  <2>6. QED
    BY <2>1, <2>2, <2>3, <2>4, <2>5, StoppedStep
<1>2. CASE TaskFails(t)
  <2>1. /\ task[t].state = "running"
        /\ UNCHANGED <<vm, late, call, asked, facts, outcome, faults, asks>>
    BY <1>2 DEF TaskFails, hist
  <2>2. PICK state \in {"failed", "no exitstatus"} : Stops(t, state)
    BY <1>2 DEF TaskFails
  <2>3. /\ vm' \in [there : BOOLEAN, on : BOOLEAN, snap : BOOLEAN]
        /\ facts' \in [Calls -> SUBSET Contract!Outcomes]
        /\ \A c \in Calls : call[c].op # NoOp =>
               facts[c] \cup Contract!Facts(vm') \subseteq facts'[c]
    BY <2>1 DEF IInv, TypeOK, SeenInv
  <2>4. QED
    BY <2>1, <2>2, <2>3, StoppedStep
<1>3. QED
  BY <1>1, <1>2

LEMMA AskStep ==
    ASSUME IInv, NEW c \in Calls, NEW op \in Ops, Ask(c, op)
    PROVE  IInv'
<1> DEFINE for == IF op = "clone" THEN "check" ELSE "operation"
           new == [Idle EXCEPT !.op = op, !.at = "send", !.for = for]
<1>1. /\ call[c].op = NoOp /\ asks < MaxAsks /\ asks' = asks + 1
      /\ call' = [call EXCEPT ![c] = new]
      /\ asked' = asked \cup {op}
      /\ facts' = [facts EXCEPT ![c] = Contract!Facts(vm)]
      /\ outcome' = [outcome EXCEPT ![c] = "none"]
      /\ UNCHANGED <<vm, task, late, faults>>
  BY DEF Ask, hyper
<1>2. for \in {"check", "operation"} /\ (for = "check" => op = "clone")
  OBVIOUS
<1> HIDE DEF for
<1>3. /\ new \in Call /\ new.op = op /\ new.at = "send" /\ new.for = for
      /\ new.handle = NoTask
  BY <1>2, IdleCall DEF Idle, Call, Purpose
<1> HIDE DEF new
<1>4. "none" \in Contract!Outcomes /\ Contract!Facts(vm) \subseteq Contract!Outcomes
  BY FactsEffect DEF Contract!Outcomes
<1>5. TypeOK'
  BY <1>1, <1>2, <1>3, <1>4, BoundAssumption DEF IInv, TypeOK
<1>6. AskedInv' /\ CourseInv'
  BY <1>1, <1>2, <1>3, OpsAssumption DEF IInv, TypeOK, AskedInv, CourseInv
<1>7. HandleInv'
  BY <1>1, <1>3 DEF IInv, TypeOK, HandleInv
<1>8. SeenInv'
  <2>1. Seen(new, Contract!Facts(vm))
    BY <1>3 DEF Seen
  <2>2. QED
    BY <1>1, <1>3, <2>1 DEF IInv, TypeOK, SeenInv
<1>9. QED
  BY <1>5, <1>6, <1>7, <1>8 DEF IInv

(***************************************************************************)
(* What a call does with an answer                                         *)
(***************************************************************************)

\* It sends another request of the same operation, ...
SendsAgain(c, new) ==
    /\ Continue(c, new)
    /\ new.op = call[c].op /\ new.op # NoOp /\ new.at = "send" /\ new.handle = call[c].handle
    /\ new.for = "check" => new.op = "clone"
    /\ new.for = "poll" => new.op \in Tasked /\ new.handle # NoTask

\* ... or it is over, with an outcome that it has seen.
IsOver(c, r) ==
    /\ Return(c, r)
    /\ call[c].op # NoOp /\ Contract!Needs(call[c].op, r) \subseteq facts[c]

LEMMA NothingNeeded ==
    \A op, r : r \notin {"ok", "running", "stopped", "missing", "true"}
                 => Contract!Needs(op, r) = {}
BY DEF Contract!Needs

LEMMA Outcomes ==
    {"ok", "missing", "running", "stopped", "unknown", "data", "true", "false", "auth", "lock",
     "timeout", "task", "capability", "error"} = Contract!Outcomes \ {"none"}
BY DEF Contract!Outcomes

LEMMA RetriesAnswer ==
    ASSUME IInv, NEW c \in Calls, Retries(c) \/ DestroyRetries(c)
    PROVE  \E new \in Call : SendsAgain(c, new)
<1>1. call[c] \in Call /\ call[c].at = "answered" /\ call[c].op # NoOp
  BY DEF IInv, TypeOK, CourseInv, Retries, DestroyRetries
<1>2. /\ call[c].for = "check" => call[c].op = "clone"
      /\ call[c].for = "poll" => call[c].op \in Tasked /\ call[c].handle # NoTask
  BY DEF IInv, TypeOK, CourseInv
<1>3. CASE Retries(c)
  <2> DEFINE attempt == call[c].attempt + 1
             new == [call[c] EXCEPT !.at = "send", !.attempt = attempt]
  <2>1. attempt \in 0 .. Attempts - 1
    BY <1>1, <1>3, AttemptsAssumption DEF Retries, MaxRetries, Call
  <2>2. Continue(c, new)
    BY <1>3 DEF Retries
  <2> HIDE DEF attempt
  <2>3. /\ new \in Call /\ new.op = call[c].op /\ new.for = call[c].for
        /\ new.handle = call[c].handle /\ new.at = "send"
    BY <1>1, <2>1 DEF Call
  <2> HIDE DEF new
  <2>4. QED
    BY <1>1, <1>2, <2>2, <2>3 DEF SendsAgain
<1>4. CASE DestroyRetries(c)
  <2> DEFINE outer == call[c].outer + 1
             new == [call[c] EXCEPT !.outer = outer, !.attempt = 0, !.at = "send"]
  <2>1. outer \in 0 .. Attempts - 1 /\ 0 \in 0 .. Attempts - 1
    BY <1>1, <1>4, AttemptsAssumption DEF DestroyRetries, Call
  <2>2. Continue(c, new)
    BY <1>4 DEF DestroyRetries
  <2> HIDE DEF outer
  <2>3. /\ new \in Call /\ new.op = call[c].op /\ new.for = call[c].for
        /\ new.handle = call[c].handle /\ new.at = "send"
    BY <1>1, <2>1 DEF Call
  <2> HIDE DEF new
  <2>4. QED
    BY <1>1, <1>2, <2>2, <2>3 DEF SendsAgain
<1>5. QED
  BY <1>3, <1>4

LEMMA CallEnds ==
    ASSUME IInv, NEW c \in Calls,
           Raises(c) \/ Ping(c) \/ ReadAnswers(c) \/ SpiceTicket(c) \/ WaitStopped(c)
    PROVE  \E r \in Contract!Outcomes \ {"none"} : IsOver(c, r)
<1>1. call[c].at # "idle" /\ call[c].op # NoOp /\ call[c].for \in Purpose
  BY DEF IInv, TypeOK, CourseInv, Call, Raises, Ping, ReadAnswers, SpiceTicket, WaitStopped
<1>2. Seen(call[c], facts[c])
  BY DEF IInv, SeenInv
<1>3. CASE Raises(c)
  <2> DEFINE r == Raised(call[c].reply)
  <2>1. Return(c, r) /\ call[c].at = "answered" /\ call[c].reply \in Errors
    BY <1>3 DEF Raises
  <2>2. /\ r \in {"auth", "lock", "timeout", "missing", "error"}
        /\ r = "missing" => call[c].reply = "missing"
    BY DEF Raised
  <2> HIDE DEF r
  <2>3. Contract!Needs(call[c].op, r) \subseteq facts[c]
    <3>1. CASE r = "missing"
      BY <1>2, <2>1, <2>2, <3>1 DEF Seen, Contract!Needs
    <3>2. CASE r # "missing"
      BY <2>2, <3>2, NothingNeeded
    <3>3. QED
      BY <3>1, <3>2
  <2>4. QED
    BY <1>1, <2>1, <2>2, <2>3, Outcomes DEF IsOver
<1>4. CASE Ping(c)
  <2> DEFINE r == IF call[c].reply = "auth" THEN "auth"
                  ELSE IF call[c].reply \in Errors THEN "false"
                  ELSE IF call[c].op = "ping" THEN "data" ELSE "true"
  <2>1. Return(c, r) /\ call[c].at = "answered" /\ call[c].op \in {"ping", "agent_ping"}
    BY <1>4 DEF Ping
  <2>2. /\ r \in {"auth", "false", "data", "true"}
        /\ r = "true" => call[c].reply \notin Errors /\ call[c].op = "agent_ping"
    BY <2>1
  <2> HIDE DEF r
  <2>3. Contract!Needs(call[c].op, r) \subseteq facts[c]
    <3>1. CASE r = "true"
      BY <1>2, <2>1, <2>2, <3>1 DEF Seen, Contract!Needs
    <3>2. CASE r # "true"
      BY <2>2, <3>2, NothingNeeded
    <3>3. QED
      BY <3>1, <3>2
  <2>4. QED
    BY <1>1, <2>1, <2>2, <2>3, Outcomes DEF IsOver
<1>5. CASE ReadAnswers(c)
  <2>1. /\ call[c].at = "answered" /\ call[c].reply \in {"data", "running", "stopped"}
        /\ call[c].op \in {"status", "list", "agent_users", "console"}
    BY <1>5 DEF ReadAnswers
  <2>2. PICK r \in {call[c].reply, "unknown", "data"} :
            Return(c, r) /\ (r \in {"running", "stopped"} => call[c].op = "status" /\ r = call[c].reply)
    <3>1. PICK r \in IF call[c].op = "status" THEN {call[c].reply, "unknown"} ELSE {"data"} :
              Return(c, r)
      BY <1>5 DEF ReadAnswers
    <3>2. QED
      BY <3>1
  <2>3. Contract!Needs(call[c].op, r) \subseteq facts[c]
    <3>1. CASE r \in {"running", "stopped"}
      BY <1>2, <2>1, <2>2, <3>1 DEF Seen, Contract!Needs
    <3>2. CASE r \notin {"running", "stopped"}
      BY <2>1, <2>2, <3>2, NothingNeeded
    <3>3. QED
      BY <3>1, <3>2
  <2>4. QED
    BY <1>1, <2>1, <2>2, <2>3, Outcomes DEF IsOver
<1>6. CASE SpiceTicket(c)
  BY <1>1, <1>6, NothingNeeded, Outcomes DEF SpiceTicket, IsOver
<1>7. CASE WaitStopped(c)
  <2> DEFINE r == TaskStatus(call[c].reply)
  <2>1. Return(c, r) /\ call[c].at = "answered" /\ call[c].for = "poll"
    BY <1>7 DEF WaitStopped
  <2>2. r \in {"ok", "task"} /\ (r = "ok" => call[c].reply = "OK")
    BY DEF TaskStatus
  <2> HIDE DEF r
  <2>3. Contract!Needs(call[c].op, r) \subseteq facts[c]
    <3>1. CASE r = "ok"
      BY <1>2, <2>1, <2>2, <3>1 DEF Seen, Contract!Needs
    <3>2. CASE r # "ok"
      BY <2>2, <3>2, NothingNeeded
    <3>3. QED
      BY <3>1, <3>2
  <2>4. QED
    BY <1>1, <2>1, <2>2, <2>3, Outcomes DEF IsOver
<1>8. QED
  BY <1>3, <1>4, <1>5, <1>6, <1>7

LEMMA GoesOnOrEnds ==
    ASSUME IInv, NEW c \in Calls, CloneChecked(c) \/ TaskHandle(c) \/ WaitRunning(c)
    PROVE  \/ \E new \in Call : SendsAgain(c, new)
           \/ \E r \in Contract!Outcomes \ {"none"} : IsOver(c, r)
<1>1. /\ call[c] \in Call /\ call[c].at = "answered" /\ call[c].op # NoOp
      /\ 0 \in 0 .. Attempts - 1
  BY AttemptsAssumption DEF IInv, TypeOK, CourseInv, CloneChecked, TaskHandle, WaitRunning
<1>2. ASSUME NEW r \in {"capability", "timeout"}, Return(c, r)
      PROVE  \E s \in Contract!Outcomes \ {"none"} : IsOver(c, s)
  BY <1>1, <1>2, NothingNeeded, Outcomes DEF IsOver
<1>3. CASE CloneChecked(c)
  <2> DEFINE new == [call[c] EXCEPT !.for = "operation", !.attempt = 0, !.at = "send"]
  <2>1. Continue(c, new) \/ Return(c, "capability")
    BY <1>3 DEF CloneChecked
  <2>2. /\ new \in Call /\ new.op = call[c].op /\ new.for = "operation"
        /\ new.handle = call[c].handle /\ new.at = "send"
    BY <1>1 DEF Call, Purpose
  <2> HIDE DEF new
  <2>3. QED
    BY <1>1, <1>2, <2>1, <2>2 DEF SendsAgain
<1>4. CASE TaskHandle(c)
  <2> DEFINE new == [call[c] EXCEPT !.for = "poll", !.attempt = 0, !.at = "send"]
  <2>1. Continue(c, new) /\ call[c].reply = "upid"
    BY <1>4 DEF TaskHandle
  <2>2. /\ new \in Call /\ new.op = call[c].op /\ new.for = "poll"
        /\ new.handle = call[c].handle /\ new.at = "send"
    BY <1>1 DEF Call, Purpose
  <2> HIDE DEF new
  <2>3. call[c].handle # NoTask /\ call[c].op \in Tasked
    BY <1>1, <2>1 DEF IInv, CourseInv
  <2>4. QED
    BY <1>1, <2>1, <2>2, <2>3 DEF SendsAgain
<1>5. CASE WaitRunning(c)
  <2>1. CASE call[c].polls = MaxPolls
    BY <1>2, <1>5, <2>1 DEF WaitRunning
  <2>2. CASE call[c].polls # MaxPolls
    <3> DEFINE polls == call[c].polls + 1
               new == [call[c] EXCEPT !.polls = polls, !.attempt = 0, !.at = "send"]
    <3>1. Continue(c, new) /\ call[c].for = "poll"
      BY <1>5, <2>2 DEF WaitRunning
    <3>2. polls \in 0 .. MaxPolls
      BY <1>1, <2>2, AttemptsAssumption DEF Call
    <3> HIDE DEF polls
    <3>3. /\ new \in Call /\ new.op = call[c].op /\ new.for = "poll"
          /\ new.handle = call[c].handle /\ new.at = "send"
      BY <1>1, <3>1, <3>2 DEF Call
    <3> HIDE DEF new
    <3>4. call[c].handle # NoTask /\ call[c].op \in Tasked
      BY <3>1 DEF IInv, TypeOK, CourseInv
    <3>5. QED
      BY <1>1, <3>1, <3>3, <3>4 DEF SendsAgain
  <2>3. QED
    BY <2>1, <2>2
<1>6. QED
  BY <1>3, <1>4, <1>5

\* A request and what happens to it leave the contract's variables alone.
LEMMA RequestOps ==
    ASSUME IInv, NEW c \in Calls, Performed(c) \/ Network(c)
    PROVE  /\ UNCHANGED <<vm, asked, facts, outcome>>
           /\ \A d \in Calls : call'[d].op = call[d].op
<1>1. ASSUME NEW new, call' = [call EXCEPT ![c] = new], new.op = call[c].op
      PROVE  \A d \in Calls : call'[d].op = call[d].op
  BY <1>1 DEF IInv, TypeOK
<1>2. call[c] \in Call
  BY DEF IInv, TypeOK
<1>3. ASSUME NEW reply, Answered(c, reply)
      PROVE  \A d \in Calls : call'[d].op = call[d].op
  <2> DEFINE new == [call[c] EXCEPT !.at = "answered", !.reply = reply]
  <2>1. new.op = call[c].op /\ call' = [call EXCEPT ![c] = new]
    BY <1>2, <1>3 DEF Call, Answered
  <2> HIDE DEF new
  <2>2. QED
    BY <1>1, <2>1
<1>4. UNCHANGED <<vm, asked, facts, outcome>>
  BY DEF Performed, Network, Lost, ReplyLost, hist
<1>5. CASE Performed(c)
  <2>1. ASSUME NEW t, call' = [call EXCEPT ![c] =
                         [@ EXCEPT !.at = "answered", !.reply = "upid", !.handle = t]]
        PROVE  \A d \in Calls : call'[d].op = call[d].op
    <3> DEFINE new == [call[c] EXCEPT !.at = "answered", !.reply = "upid", !.handle = t]
    <3>1. new.op = call[c].op /\ call' = [call EXCEPT ![c] = new]
      BY <1>2, <2>1 DEF Call
    <3> HIDE DEF new
    <3>2. QED
      BY <1>1, <3>1
  <2>2. \/ \E reply : Answered(c, reply)
        \/ \E t : call' = [call EXCEPT ![c] =
                     [@ EXCEPT !.at = "answered", !.reply = "upid", !.handle = t]]
    BY <1>5 DEF Performed
  <2>3. QED
    BY <1>3, <1>4, <2>1, <2>2
<1>6. CASE Lost(c)
  BY <1>3, <1>4, <1>6 DEF Lost
<1>7. CASE ReplyLost(c)
  <2> DEFINE handle == IF call[c].for = "poll" THEN call[c].handle ELSE NoTask
  <2>1. PICK reply \in Faults : call' = [call EXCEPT ![c] = [@ EXCEPT !.reply = reply, !.handle = handle]]
    BY <1>7 DEF ReplyLost
  <2> DEFINE new == [call[c] EXCEPT !.reply = reply, !.handle = handle]
  <2>2. new.op = call[c].op /\ call' = [call EXCEPT ![c] = new]
    BY <1>2, <2>1 DEF Call
  <2> HIDE DEF new
  <2>3. QED
    BY <1>1, <1>4, <2>2
<1>8. QED
  BY <1>5, <1>6, <1>7 DEF Network

\* Every step of a call is one of these.
LEMMA CallSteps ==
    ASSUME IInv, NEW c \in Calls, Client(c) \/ Operation(c)
    PROVE  \/ Performed(c)
           \/ \E new \in Call : SendsAgain(c, new)
           \/ \E r \in Contract!Outcomes \ {"none"} : IsOver(c, r)
BY RetriesAnswer, CallEnds, GoesOnOrEnds DEF Client, Operation

LEMMA StepIInv == IInv /\ [Next]_vars => IInv'
<1> SUFFICES ASSUME IInv, [Next]_vars
             PROVE  IInv'
  OBVIOUS
<1>1. ASSUME NEW c \in Calls, NEW new \in Call, SendsAgain(c, new)
      PROVE  IInv'
  <2>1. /\ call' = [call EXCEPT ![c] = new]
        /\ UNCHANGED <<vm, task, late, asked, facts, outcome, faults, asks>>
        /\ new.op = call[c].op /\ new.op # NoOp /\ new.at = "send" /\ new.handle = call[c].handle
        /\ new.for = "check" => new.op = "clone"
        /\ new.for = "poll" => new.op \in Tasked /\ new.handle # NoTask
    BY <1>1 DEF SendsAgain, Continue, hyper, hist
  <2>2. late' \subseteq Ops /\ faults' \in 0 .. MaxFaults /\ asks' \in 0 .. MaxAsks
    BY <2>1 DEF IInv, TypeOK
  <2>3. new.op # NoOp
    BY <1>1 DEF SendsAgain
  <2>4. QED
    BY <2>1, <2>2, <2>3, Continues
<1>2. ASSUME NEW c \in Calls, NEW r \in Contract!Outcomes, IsOver(c, r)
      PROVE  IInv'
  BY <1>2, ReturnsStep DEF IsOver
<1>3. ASSUME NEW c \in Calls, Client(c) \/ Operation(c)
      PROVE  IInv'
  BY <1>1, <1>2, <1>3, CallSteps, PerformedStep
<1>4. ASSUME NEW op \in Ops, Arrives(op)
      PROVE  IInv'
  <2>1. /\ op \in late /\ late' \subseteq late
        /\ UNCHANGED <<vm, call, asked, facts, outcome, faults, asks>>
    BY <1>4 DEF Arrives, hist
  <2>2. CASE Refusal(op) # "none"
    <3>1. UNCHANGED task
      BY <1>4, <2>2 DEF Arrives
    <3>2. QED
      BY <2>1, <3>1 DEF IInv, TypeOK, AskedInv, CourseInv, HandleInv, SeenInv
  <2>3. CASE Refusal(op) = "none"
    <3>1. PICK t \in FreeTask : Accept(op, t)
      BY <1>4, <2>3 DEF Arrives
    <3>2. op \in asked
      BY <2>1 DEF IInv, AskedInv
    <3>3. QED
      BY <2>1, <2>3, <3>1, <3>2, AcceptsStep
  <2>4. QED
    BY <2>2, <2>3
<1>5. CASE UNCHANGED vars
  BY <1>5 DEF vars, IInv, TypeOK, AskedInv, CourseInv, HandleInv, SeenInv
<1>6. QED
  BY <1>3, <1>4, <1>5, NetworkStep, TaskStep, AskStep DEF Next

\* The invariant, for the theorems below.
LEMMA Invariant == Spec => []IInv
BY InitIInv, StepIInv, PTL DEF Spec

\* Every variable has its type: in particular the retries, the retries around them and
\* the polls stay within their numbers (client.py, provider.py), and a poll is of a task
\* that the hypervisor keeps.
THEOREM TypeCorrect == Spec => []TypeOK
<1>1. IInv => TypeOK
  BY DEF IInv
<1>2. QED
  BY <1>1, Invariant, PTL

(***************************************************************************)
(* The refinement                                                          *)
(***************************************************************************)

\* The operations of the calls, as the contract has them.
Pending(calls) == [c \in Calls |-> calls[c].op]

LEMMA ContractKept ==
    ASSUME UNCHANGED <<vm, asked, facts, outcome>>,
           \A c \in Calls : call'[c].op = call[c].op
    PROVE  UNCHANGED Contract!vars
BY DEF Contract!vars

LEMMA ContractInit == Init => Contract!Init
BY DEF Init, Contract!Init, Idle

\* A request, its loss and its performance are invisible to the contract; a task's end
\* is the operation's effect, and a call ends with what it has seen.
LEMMA ContractStep == IInv /\ [Next]_vars => [Contract!Next]_(Contract!vars)
<1> SUFFICES ASSUME IInv, [Next]_vars
             PROVE  Contract!Next \/ UNCHANGED Contract!vars
  OBVIOUS
<1>1. ASSUME NEW c \in Calls, Client(c) \/ Operation(c)
      PROVE  Contract!Next \/ UNCHANGED Contract!vars
  <2>1. CASE Performed(c)
    <3>1. /\ UNCHANGED <<vm, asked, facts, outcome>>
          /\ \A d \in Calls : call'[d].op = call[d].op
      BY <2>1, RequestOps
    <3>2. QED
      BY <3>1, ContractKept
  <2>2. ASSUME NEW new \in Call, SendsAgain(c, new)
        PROVE  Contract!Next \/ UNCHANGED Contract!vars
    <3>1. /\ UNCHANGED <<vm, asked, facts, outcome>>
          /\ \A d \in Calls : call'[d].op = call[d].op
      BY <2>2 DEF SendsAgain, Continue, hyper, hist, IInv, TypeOK
    <3>2. QED
      BY <3>1, ContractKept
  <2>3. ASSUME NEW r \in Contract!Outcomes \ {"none"}, IsOver(c, r)
        PROVE  Contract!Next \/ UNCHANGED Contract!vars
    <3>1. /\ call' = [call EXCEPT ![c] = Idle] /\ facts' = [facts EXCEPT ![c] = {}]
          /\ outcome' = [outcome EXCEPT ![c] = r] /\ UNCHANGED <<vm, asked>>
          /\ call[c].op # NoOp /\ Contract!Needs(call[c].op, r) \subseteq facts[c]
      BY <2>3 DEF IsOver, Return
    <3>2. Pending(call)' = [Pending(call) EXCEPT ![c] = NoOp]
      BY <3>1 DEF Pending, Idle, IInv, TypeOK
    <3>3. Contract!Return(c, r)
      BY <3>1, <3>2 DEF Contract!Return, Pending
    <3>4. QED
      BY <3>3 DEF Contract!Next
  <2>4. QED
    BY <1>1, <2>1, <2>2, <2>3, CallSteps
<1>2. ASSUME NEW c \in Calls, Network(c)
      PROVE  UNCHANGED Contract!vars
  BY <1>2, RequestOps, ContractKept
<1>3. ASSUME NEW c \in Calls, NEW op \in Ops, Ask(c, op)
      PROVE  Contract!Next
  <2> DEFINE new == call'[c]
  <2>1. /\ call[c].op = NoOp /\ asked' = asked \cup {op}
        /\ facts' = [facts EXCEPT ![c] = Contract!Facts(vm)]
        /\ outcome' = [outcome EXCEPT ![c] = "none"] /\ UNCHANGED vm
    BY <1>3 DEF Ask, hyper
  <2>2. \A d \in Calls : call'[d].op = IF d = c THEN op ELSE call[d].op
    BY <1>3 DEF Ask, Idle, IInv, TypeOK
  <2>3. Pending(call)' = [Pending(call) EXCEPT ![c] = op]
    BY <2>2 DEF Pending
  <2>4. Contract!Ask(c, op)
    BY <2>1, <2>3 DEF Contract!Ask, Pending
  <2>5. QED
    BY <2>4 DEF Contract!Next
<1>4. ASSUME NEW op \in Ops, Arrives(op)
      PROVE  UNCHANGED Contract!vars
  BY <1>4, ContractKept DEF Arrives, hist
<1>5. ASSUME NEW t \in TaskIds, TaskWorks(t)
      PROVE  Contract!Next
  <2> DEFINE op == task[t].op
  <2>1. /\ task[t].state = "running" /\ vm' = Contract!Effect(op, vm)
        /\ facts' = [c \in Calls |-> IF call[c].op = NoOp THEN facts[c]
                       ELSE facts[c] \cup Contract!Facts(vm')
                              \cup (IF call[c].op = op THEN {"ok"} ELSE {})]
        /\ UNCHANGED <<call, asked, outcome>>
    BY <1>5 DEF TaskWorks
  <2>2. op \in asked /\ op \in Ops
    BY <2>1 DEF IInv, TypeOK, AskedInv
  <2>3. Contract!Act(op)
    BY <2>1, <2>2 DEF Contract!Act
  <2>4. QED
    BY <2>2, <2>3 DEF Contract!Next
<1>6. ASSUME NEW t \in TaskIds, TaskFails(t)
      PROVE  UNCHANGED Contract!vars
  BY <1>6, ContractKept DEF TaskFails, hist
<1>7. CASE UNCHANGED vars
  BY <1>7, ContractKept DEF vars
<1>8. QED
  BY <1>1, <1>2, <1>3, <1>4, <1>5, <1>6, <1>7 DEF Next

\* The provider keeps its contract whatever is retried, lost, late, done twice or timed
\* out: a call that returns has seen what it answers since it was made, the effect of its
\* operation, a machine that is not there or a power state (providers/proxmox).
THEOREM ContractImplemented == Spec => ContractSpec
<1>1. Init => Contract!Init
  BY ContractInit
<1>2. IInv /\ [Next]_vars => [Contract!Next]_(Contract!vars)
  BY ContractStep
<1>3. QED
  BY <1>1, <1>2, Invariant, PTL DEF Spec, ContractSpec, Contract!Spec

(***************************************************************************)
(* Progress: every call goes forward                                       *)
(***************************************************************************)

Stage == [check |-> 0, operation |-> 1, poll |-> 2]

\* l is a later state of the call than k.  The numbers are those of TypeOK, so that
\* no call has infinitely many states, each of them later than the one before.
Later(k, l) ==
    \/ Stage[k.for] < Stage[l.for]
    \/ /\ k.for = l.for
       /\ \/ k.polls < l.polls
          \/ k.polls = l.polls /\ k.outer < l.outer
          \/ k.polls = l.polls /\ k.outer = l.outer /\ k.attempt < l.attempt
          \/ /\ k.polls = l.polls /\ k.outer = l.outer /\ k.attempt = l.attempt
             /\ \/ k.at = "send" /\ l.at = "answered"
                \/ k.at = l.at /\ k.reply \notin Faults /\ l.reply \in Faults

Advances(c) == \E new : /\ call' = [call EXCEPT ![c] = new]
                        /\ new = Idle \/ Later(call[c], new)

GoesForward(c) ==
    \/ call'[c].op = NoOp
    \/ Later(call[c], call'[c])
    \/ call'[c] = call[c] /\ ~ Client(c) /\ ~ Operation(c)

\* A call goes forward in each of its steps and when the network fails it, and stays
\* where it is otherwise: a retry, a poll or another attempt is never taken back, and
\* what one call does sends no other back (client.py, provider.py).
OnlyForward ==
    [][\A c \in Calls : call[c].op # NoOp => GoesForward(c)]_vars

LEMMA AnswerAdvances ==
    ASSUME TypeOK, NEW c \in Calls, call[c].at = "send", NEW reply, Answered(c, reply)
    PROVE  Advances(c)
<1> DEFINE new == [call[c] EXCEPT !.at = "answered", !.reply = reply]
<1>1. call[c] \in Call
  BY DEF TypeOK
<1>2. /\ new.for = call[c].for /\ new.polls = call[c].polls /\ new.outer = call[c].outer
      /\ new.attempt = call[c].attempt /\ new.at = "answered"
  BY ONLY <1>1 DEF Call
<1>3. call' = [call EXCEPT ![c] = new]
  BY DEF Answered
<1> HIDE DEF new
<1>4. Later(call[c], new)
  BY <1>2 DEF Later
<1>5. QED
  BY <1>3, <1>4 DEF Advances

LEMMA NetworkAdvances ==
    ASSUME TypeOK, NEW c \in Calls, Performed(c) \/ Network(c)
    PROVE  Advances(c)
<1>1. call[c] \in Call
  BY DEF TypeOK
<1>2. ASSUME NEW t, Sending(c),
             call' = [call EXCEPT ![c] = [@ EXCEPT !.at = "answered", !.reply = "upid", !.handle = t]]
      PROVE  Advances(c)
  <2> DEFINE new == [call[c] EXCEPT !.at = "answered", !.reply = "upid", !.handle = t]
  <2>1. /\ new.for = call[c].for /\ new.polls = call[c].polls /\ new.outer = call[c].outer
        /\ new.attempt = call[c].attempt /\ new.at = "answered"
    BY ONLY <1>1 DEF Call
  <2>2. call' = [call EXCEPT ![c] = new]
    BY <1>2
  <2> HIDE DEF new
  <2>3. Later(call[c], new)
    BY <1>2, <2>1 DEF Later, Sending
  <2>4. QED
    BY <2>2, <2>3 DEF Advances
<1>3. CASE Performed(c)
  <2>1. Sending(c) /\ call[c].at = "send"
    BY <1>3 DEF Performed, Sending
  <2>2. \/ \E reply : Answered(c, reply)
        \/ \E t : call' = [call EXCEPT ![c] =
                     [@ EXCEPT !.at = "answered", !.reply = "upid", !.handle = t]]
    BY <1>3 DEF Performed
  <2>3. QED
    BY <1>2, <2>1, <2>2, AnswerAdvances
<1>4. CASE Lost(c)
  BY <1>4, AnswerAdvances DEF Lost, Sending
<1>5. CASE ReplyLost(c)
  <2> DEFINE handle == IF call[c].for = "poll" THEN call[c].handle ELSE NoTask
  <2>1. PICK reply \in Faults : call' = [call EXCEPT ![c] = [@ EXCEPT !.reply = reply, !.handle = handle]]
    BY <1>5 DEF ReplyLost
  <2> HIDE DEF handle
  <2> DEFINE new == [call[c] EXCEPT !.reply = reply, !.handle = handle]
  <2>2. /\ new.for = call[c].for /\ new.polls = call[c].polls /\ new.outer = call[c].outer
        /\ new.attempt = call[c].attempt /\ new.at = call[c].at /\ new.reply = reply
    BY ONLY <1>1 DEF Call
  <2>3. call' = [call EXCEPT ![c] = new]
    BY <2>1
  <2> HIDE DEF new
  <2>4. Later(call[c], new)
    BY <1>5, <2>2 DEF Later, ReplyLost
  <2>5. QED
    BY <2>3, <2>4 DEF Advances
<1>6. QED
  BY <1>3, <1>4, <1>5 DEF Network

LEMMA ReturnAdvances ==
    ASSUME NEW c \in Calls, NEW r, Return(c, r)
    PROVE  Advances(c)
BY DEF Return, Advances

LEMMA CallAdvances ==
    ASSUME TypeOK, CourseInv, NEW c \in Calls, Client(c) \/ Operation(c)
    PROVE  Advances(c)
<1>1. call[c] \in Call /\ call[c].attempt \in Nat /\ call[c].outer \in Nat /\ call[c].polls \in Nat
  BY AttemptsAssumption DEF TypeOK, Call
<1>2. ASSUME NEW new, Continue(c, new), Later(call[c], new)
      PROVE  Advances(c)
  BY <1>2 DEF Continue, Advances
<1>3. CASE Retries(c)
  <2> DEFINE new == [call[c] EXCEPT !.at = "send", !.attempt = call[c].attempt + 1]
  <2>1. /\ new.for = call[c].for /\ new.polls = call[c].polls /\ new.outer = call[c].outer
        /\ new.attempt = call[c].attempt + 1
    BY ONLY <1>1 DEF Call
  <2>2. Continue(c, new)
    BY <1>3 DEF Retries
  <2> HIDE DEF new
  <2>3. Later(call[c], new)
    BY <1>1, <2>1 DEF Later
  <2>4. QED
    BY <1>2, <2>2, <2>3
<1>4. CASE DestroyRetries(c)
  <2> DEFINE new == [call[c] EXCEPT !.outer = call[c].outer + 1, !.attempt = 0, !.at = "send"]
  <2>1. new.for = call[c].for /\ new.polls = call[c].polls /\ new.outer = call[c].outer + 1
    BY ONLY <1>1 DEF Call
  <2>2. Continue(c, new)
    BY <1>4 DEF DestroyRetries
  <2> HIDE DEF new
  <2>3. Later(call[c], new)
    BY <1>1, <2>1 DEF Later
  <2>4. QED
    BY <1>2, <2>2, <2>3
<1>5. CASE CloneChecked(c)
  <2> DEFINE new == [call[c] EXCEPT !.for = "operation", !.attempt = 0, !.at = "send"]
  <2>1. new.for = "operation"
    BY ONLY <1>1 DEF Call
  <2>2. Continue(c, new) \/ Return(c, "capability")
    BY <1>5 DEF CloneChecked
  <2> HIDE DEF new
  <2>3. Later(call[c], new)
    BY <1>5, <2>1 DEF Later, Stage, CloneChecked
  <2>4. QED
    BY <1>2, <2>2, <2>3, ReturnAdvances
<1>6. CASE TaskHandle(c)
  <2> DEFINE new == [call[c] EXCEPT !.for = "poll", !.attempt = 0, !.at = "send"]
  <2>1. new.for = "poll"
    BY ONLY <1>1 DEF Call
  <2>2. Continue(c, new) /\ call[c].for = "operation"
    BY <1>6 DEF TaskHandle, CourseInv
  <2> HIDE DEF new
  <2>3. Later(call[c], new)
    BY <2>1, <2>2 DEF Later, Stage
  <2>4. QED
    BY <1>2, <2>2, <2>3
<1>7. CASE WaitRunning(c)
  <2> DEFINE new == [call[c] EXCEPT !.polls = call[c].polls + 1, !.attempt = 0, !.at = "send"]
  <2>1. new.for = call[c].for /\ new.polls = call[c].polls + 1
    BY ONLY <1>1 DEF Call
  <2>2. Continue(c, new) \/ Return(c, "timeout")
    BY <1>7 DEF WaitRunning
  <2> HIDE DEF new
  <2>3. Later(call[c], new)
    BY <1>1, <2>1 DEF Later
  <2>4. QED
    BY <1>2, <2>2, <2>3, ReturnAdvances
<1>8. CASE Raises(c) \/ Ping(c) \/ ReadAnswers(c) \/ SpiceTicket(c) \/ WaitStopped(c)
  BY <1>8, ReturnAdvances DEF Raises, Ping, ReadAnswers, SpiceTicket, WaitStopped
<1>9. QED
  BY <1>3, <1>4, <1>5, <1>6, <1>7, <1>8, NetworkAdvances DEF Client, Operation

LEMMA ForwardStep ==
    IInv /\ [Next]_vars => \A c \in Calls : call[c].op # NoOp => GoesForward(c)
<1> SUFFICES ASSUME IInv, [Next]_vars, NEW c \in Calls, call[c].op # NoOp
             PROVE  GoesForward(c)
  OBVIOUS
<1>1. call \in [Calls -> Call] /\ TypeOK /\ CourseInv
  BY DEF IInv, TypeOK
<1>2. CASE Client(c) \/ Operation(c) \/ Network(c)
  <2>1. Advances(c)
    BY <1>1, <1>2, CallAdvances, NetworkAdvances
  <2>2. PICK new : call' = [call EXCEPT ![c] = new] /\ (new = Idle \/ Later(call[c], new))
    BY <2>1 DEF Advances
  <2>3. call'[c] = new /\ Idle.op = NoOp
    BY <1>1, <2>2 DEF Idle
  <2>4. QED
    BY <2>2, <2>3 DEF GoesForward
<1>3. CASE ~ Client(c) /\ ~ Operation(c) /\ ~ Network(c)
  <2>1. ASSUME NEW d \in Calls, Client(d) \/ Operation(d) \/ Network(d)
        PROVE  call'[c] = call[c]
    <3>1. d # c /\ Advances(d)
      BY <1>1, <1>3, <2>1, CallAdvances, NetworkAdvances
    <3>2. QED
      BY <1>1, <3>1 DEF Advances
  <2>2. ASSUME NEW d \in Calls, NEW op \in Ops, Ask(d, op)
        PROVE  call'[c] = call[c]
    <3>1. d # c /\ \E new : call' = [call EXCEPT ![d] = new]
      BY <2>2 DEF Ask
    <3>2. QED
      BY <1>1, <3>1
  <2>3. ASSUME \/ \E op \in Ops : Arrives(op)
               \/ \E t \in TaskIds : TaskWorks(t) \/ TaskFails(t)
               \/ UNCHANGED vars
        PROVE  call'[c] = call[c]
    BY <2>3 DEF Arrives, TaskWorks, TaskFails, vars
  <2>4. call'[c] = call[c]
    BY <2>1, <2>2, <2>3 DEF Next
  <2>5. QED
    BY <1>3, <2>4 DEF GoesForward
<1>4. QED
  BY <1>2, <1>3

\* No call retries, waits or polls for ever, for any numbers of attempts and polls: it
\* goes through states of which each is later than the one before, and there are finitely
\* many.  What is left of EveryCallEnds is that each state has a step, and fairness.
THEOREM CallsGoForward == Spec => OnlyForward
<1>1. IInv /\ [Next]_vars => [\A c \in Calls : call[c].op # NoOp => GoesForward(c)]_vars
  BY ForwardStep
<1>2. QED
  BY <1>1, Invariant, PTL DEF Spec, OnlyForward

=============================================================================
