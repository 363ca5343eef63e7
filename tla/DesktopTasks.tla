---------------------------- MODULE DesktopTasks ----------------------------
(***************************************************************************)
(* The long operations on desktops and everything that follows them up:    *)
(* provision_desktop, the admin API's power, rebuild, destroy, assign and  *)
(* unassign requests, the task tracker worker, and the health checker's    *)
(* sweep of desktops stuck in provisioning, with the users' connects and   *)
(* the hypervisor they share.                                              *)
(*                                                                         *)
(* A task at the hypervisor is named by its UPID, and a desktop row names  *)
(* at most one.  The tracker reads the rows with a UPID at the start of a  *)
(* tick, polls the tasks one by one, and applies what it finds to the row  *)
(* as it is by then.  As in FloatingPool the unit of interleaving is the   *)
(* await, an ORM session keeps the copy it read, and a flush sends the     *)
(* attributes that differ from that copy.                                  *)
(***************************************************************************)
EXTENDS Naturals, Sequences, FiniteSets

CONSTANTS
    Desktops,     \* desktops of the pool, present or not yet provisioned
    Requests,     \* admin requests, each made once
    Provisions,   \* calls of provision_desktop for a new desktop, each made once
    Connects,     \* connect requests, each made once
    Trackers,     \* brokers whose task tracker believes it leads
    Persistent,   \* the pool's type: persistent (TRUE) or non-persistent
    Overlap,      \* bound: admin requests under way at once
    MaxTasks,     \* bound: hypervisor tasks in a behaviour
    MaxCrashes,   \* bound: crashes in a behaviour
    Faults        \* what may go wrong: "provider", "task", "slow", "pool"

ASSUME ActorsAssumption == Provisions \cap Trackers = {}
ASSUME DesktopsAssumption == Desktops \subseteq Nat \ {0}
ASSUME PoolAssumption   == Persistent \in BOOLEAN
ASSUME RequestsAssumption == IsFiniteSet(Requests) /\ Overlap \in Nat
ASSUME BoundAssumption  == MaxTasks \in Nat /\ MaxCrashes \in Nat

NoTask == 0      \* the SQL null of pve_task_upid
NoDesk == 0
UPID   == 1 .. MaxTasks
Runs   == Provisions \cup Trackers      \* who may be inside provision_desktop

VARIABLES
    desk,    \* desktops rows: [status, taken, upid, kind]; taken: assigned_user set
    req,     \* an admin request: [at, op, desk, saw, upid]
    run,     \* a call of provision_desktop: [at, desk, row, upid]
    trk,     \* a task tracker's tick: [at, todo, cur]
    con,     \* a connect and the session it makes: [at, desk, saw]
    vm,      \* the hypervisor's machine of each desktop
    tasks,   \* the hypervisor's tasks by UPID: [op, desk, state]
    pool,    \* pools.status = 'active'
    crashes  \* crashes so far (bound)

vars == <<desk, req, run, trk, con, vm, tasks, pool, crashes>>

\* absent: no row yet; deleted: no row any more.
Status == {"absent", "deleted", "provisioning", "available", "assigned",
           "connected", "disconnected", "deleting", "error"}
Kind   == {"none", "power", "rebuild", "destroy"}     \* none: SQL null
Row    == [status : Status, taken : BOOLEAN, upid : UPID \cup {NoTask}, kind : Kind]
NoRow  == [status |-> "absent", taken |-> FALSE, upid |-> NoTask, kind |-> "none"]

PowerOps  == {"start", "stop"}
RemoveOps == {"rebuild", "destroy"}
AdminOps  == PowerOps \cup RemoveOps \cup {"assign", "unassign"}

\* Mutant of TaskKind: the action's name is recorded instead of its kind.
ActionAsKind(op) == op

\* _POWER_ACTION_TO_KIND and DesktopTaskKind.
TaskKind(op) == IF op \in PowerOps THEN "power" ELSE op

IdleReq  == [at |-> "idle", op |-> "assign", desk |-> NoDesk, saw |-> NoRow, upid |-> NoTask]
IdleRun  == [at |-> "off", desk |-> NoDesk, row |-> NoRow, upid |-> NoTask]
IdleTick == [at |-> "idle", todo |-> {}, cur |-> [desk |-> NoDesk, upid |-> NoTask, kind |-> "none"]]
IdleCon  == [at |-> "idle", desk |-> NoDesk, saw |-> NoRow]

Request == [at : {"idle", "read", "stopped", "issued", "done"}, op : AdminOps,
            desk : Desktops \cup {NoDesk}, saw : Row, upid : UPID \cup {NoTask}]
ProvisionRun == [at : {"off", "reserved", "dispatched", "cloning", "booted", "snapped",
                       "ready", "done"},
                 desk : Desktops \cup {NoDesk}, row : Row, upid : UPID \cup {NoTask}]
Fetched == [desk : Desktops \cup {NoDesk}, upid : UPID \cup {NoTask}, kind : Kind]
Tick    == [at : {"idle", "ticking", "ok", "error", "rebuild", "provisioning"},
            todo : SUBSET Fetched, cur : Fetched]
Connect == [at : {"idle", "read", "booted", "active", "ended"},
            desk : Desktops \cup {NoDesk}, saw : Row]
Task    == [op : {"clone", "start", "stop", "destroy"}, desk : Desktops,
            state : {"running", "ok", "failed"}]

TypeOK ==
    /\ desk \in [Desktops -> Row]
    /\ req \in [Requests -> Request]
    /\ run \in [Runs -> ProvisionRun]
    /\ trk \in [Trackers -> Tick]
    /\ con \in [Connects -> Connect]
    /\ vm \in [Desktops -> {"none", "cloning", "stopped", "running"}]
    /\ tasks \in Seq(Task) /\ Len(tasks) <= MaxTasks
    /\ pool \in BOOLEAN
    /\ crashes \in 0 .. MaxCrashes

Initially ==
    {[NoRow EXCEPT !.status = "available"]}
      \cup IF Persistent THEN {[NoRow EXCEPT !.status = "assigned", !.taken = TRUE]} ELSE {}

\* A desktop is in service with its VM running, or is still to be provisioned.
Init ==
    /\ desk \in [Desktops -> {NoRow} \cup Initially]
    /\ vm = [d \in Desktops |-> IF desk[d] = NoRow THEN "none" ELSE "running"]
    /\ req = [r \in Requests |-> IdleReq]
    /\ run = [p \in Runs |-> IdleRun]
    /\ trk = [t \in Trackers |-> IdleTick]
    /\ con = [c \in Connects |-> IdleCon]
    /\ tasks = <<>>
    /\ pool = TRUE
    /\ crashes = 0

----------------------------------------------------------------------------
(***************************************************************************)
(* Rows, locks, and the hypervisor's calls                                 *)
(***************************************************************************)
Visible(d) == desk[d].status \notin {"absent", "deleted"}

Reprovisioning(p) == p \in Trackers       \* the run has an existing desktop

\* An UPDATE flushed but not committed, or SELECT ... FOR UPDATE.
RowLocked(d) ==
    \/ \E p \in Runs : /\ run[p].desk = d /\ Reprovisioning(p)
                       /\ run[p].at \in {"reserved", "dispatched"}
    \/ \E c \in Connects : ~Persistent /\ con[c].desk = d /\ con[c].at \in {"read", "booted"}

Writable(d) == Visible(d) /\ ~RowLocked(d)

Flush(row, saw, new) ==
    [status |-> IF new.status = saw.status THEN row.status ELSE new.status,
     taken  |-> IF new.taken  = saw.taken  THEN row.taken  ELSE new.taken,
     upid   |-> IF new.upid   = saw.upid   THEN row.upid   ELSE new.upid,
     kind   |-> IF new.kind   = saw.kind   THEN row.kind   ELSE new.kind]

Sessions(d) == {c \in Connects : con[c].at = "active" /\ con[c].desk = d}

\* Tasks that hold the machine's lock.
Busy(d) == \E u \in DOMAIN tasks : tasks[u].desk = d /\ tasks[u].state = "running"

NextUPID == Len(tasks) + 1

Dispatch(op, d) ==
    /\ Len(tasks) < MaxTasks
    /\ tasks' = Append(tasks, [op |-> op, desk |-> d, state |-> "running"])

(***************************************************************************)
(* provision_desktop                                                       *)
(***************************************************************************)
Reserve(p, d, row) ==
    run' = [run EXCEPT ![p] = [at |-> "reserved", desk |-> d, row |-> row, upid |-> NoTask]]

\* Back to the caller; a tracker goes on with its tick.
Returned(p) ==
    /\ run' = [run EXCEPT ![p] = [IdleRun EXCEPT !.at = IF p \in Trackers THEN "off" ELSE "done"]]
    /\ trk' = IF p \in Trackers THEN [trk EXCEPT ![p].at = "ticking"] ELSE trk

\* Step 1 for a new desktop: VMID allocated, row flushed, nothing visible yet.
\* assigned_user is given when a persistent pool's desktop has its user.
ProvisionNew(p, d, taken) ==
    /\ run[p].at = "off" /\ pool
    /\ desk[d].status = "absent" /\ \A q \in Runs : run[q].desk # d
    /\ Reserve(p, d, [NoRow EXCEPT !.status = "provisioning", !.taken = taken])
    /\ UNCHANGED <<desk, req, trk, con, vm, tasks, pool, crashes>>

\* Step 2: clone_vm is answered with the UPID of the clone.
CloneDispatched(p) ==
    LET d == run[p].desk
    IN  /\ run[p].at = "reserved"
        /\ vm[d] = "none" /\ ~Busy(d)
        /\ Dispatch("clone", d)
        /\ vm' = [vm EXCEPT ![d] = "cloning"]
        /\ run' = [run EXCEPT ![p].at = "dispatched", ![p].upid = NextUPID]
        /\ UNCHANGED <<desk, req, trk, con, pool, crashes>>

\* ... and committed with the row, without a kind.
CloneRecorded(p) ==
    LET new == [run[p].row EXCEPT !.upid = run[p].upid]
    IN  /\ run[p].at = "dispatched"
        /\ desk' = [desk EXCEPT ![run[p].desk] = new]
        /\ run' = [run EXCEPT ![p].at = "cloning", ![p].row = new]
        /\ UNCHANGED <<req, trk, con, vm, tasks, pool, crashes>>

\* Steps 3 to 6: the clone is waited for and configured, the VM started and its
\* agent waited for.
ProvisionBoots(p) ==
    LET d == run[p].desk
    IN  /\ run[p].at = "cloning"
        /\ tasks[run[p].upid].state = "ok" /\ vm[d] = "stopped"
        /\ vm' = [vm EXCEPT ![d] = "running"]
        /\ run' = [run EXCEPT ![p].at = IF Persistent THEN "ready" ELSE "booted"]
        /\ UNCHANGED <<desk, req, trk, con, tasks, pool, crashes>>

\* Step 7 of a non-persistent pool: shutdown, the openvdi-base snapshot, start.
ProvisionSnapshots(p) ==
    LET d == run[p].desk
    IN  /\ run[p].at = "booted" /\ vm[d] = "running"
        /\ vm' = [vm EXCEPT ![d] = "stopped"]
        /\ run' = [run EXCEPT ![p].at = "snapped"]
        /\ UNCHANGED <<desk, req, trk, con, tasks, pool, crashes>>

ProvisionRestarts(p) ==
    LET d == run[p].desk
    IN  /\ run[p].at = "snapped" /\ vm[d] = "stopped"
        /\ vm' = [vm EXCEPT ![d] = "running"]
        /\ run' = [run EXCEPT ![p].at = "ready"]
        /\ UNCHANGED <<desk, req, trk, con, tasks, pool, crashes>>

\* The last commit: of the outcome, from the row as this run left it.  An UPDATE
\* of a row that is gone raises, which only the caller sees.
ProvisionCommits(p, status) ==
    LET d   == run[p].desk
        new == [run[p].row EXCEPT !.status = status, !.upid = NoTask]
    IN  /\ IF run[p].at = "reserved"
           THEN desk' = [desk EXCEPT ![d] = new]
           ELSE IF Visible(d)
           THEN desk' = [desk EXCEPT ![d] = Flush(desk[d], run[p].row, new)]
           ELSE UNCHANGED desk
        /\ Returned(p)
        /\ UNCHANGED <<req, con, vm, tasks, pool, crashes>>

ProvisionDone(p) ==
    /\ run[p].at = "ready" /\ ~RowLocked(run[p].desk)
    /\ ProvisionCommits(p, IF Persistent /\ run[p].row.taken THEN "assigned" ELSE "available")

\* A provider call of the run cannot succeed with the machine as it is.
CallMustFail(p) ==
    LET d == run[p].desk
    IN  CASE run[p].at = "reserved" -> vm[d] # "none" \/ Busy(d)
          [] run[p].at = "cloning"  -> \/ tasks[run[p].upid].state = "failed"
                                       \/ tasks[run[p].upid].state = "ok" /\ vm[d] # "stopped"
          [] run[p].at = "booted"   -> vm[d] # "running"
          [] run[p].at = "snapped"  -> vm[d] # "stopped"
          [] OTHER -> FALSE

ProvisionFails(p) ==
    /\ run[p].at \in {"reserved", "cloning", "booted", "snapped", "ready"}
    /\ "provider" \in Faults \/ CallMustFail(p)
    /\ run[p].at = "reserved" \/ ~RowLocked(run[p].desk)
    /\ ProvisionCommits(p, "error")

(***************************************************************************)
(* The admin API's requests                                                *)
(***************************************************************************)
Open(r) == req[r].at \notin {"idle", "done"}
Answer(r) == req' = [req EXCEPT ![r] = [IdleReq EXCEPT !.at = "done"]]

\* The row is read, and the checks that answer 409 are made.
Allowed(op, d) ==
    /\ op \in PowerOps \cup RemoveOps => desk[d].upid = NoTask
    /\ op \in RemoveOps \cup {"unassign"} => Sessions(d) = {}
    /\ op = "unassign" => desk[d].taken
    /\ op = "assign"   => ~desk[d].taken

AdminRead(r, op, d) ==
    /\ req[r].at = "idle" /\ Cardinality({q \in Requests : Open(q)}) < Overlap
    /\ Visible(d) /\ Allowed(op, d)
    /\ req' = [req EXCEPT ![r] = [at |-> "read", op |-> op, desk |-> d,
                                  saw |-> desk[d], upid |-> NoTask]]
    /\ UNCHANGED <<desk, run, trk, con, vm, tasks, pool, crashes>>

\* rebuild and destroy stop the VM and wait for it.
AdminStops(r) ==
    LET d == req[r].desk
    IN  /\ req[r].at = "read" /\ req[r].op \in RemoveOps
        /\ vm[d] # "none"
        /\ vm' = [vm EXCEPT ![d] = IF @ = "running" THEN "stopped" ELSE @]
        /\ req' = [req EXCEPT ![r].at = "stopped"]
        /\ UNCHANGED <<desk, run, trk, con, tasks, pool, crashes>>

\* The call that starts the task the row will name.
AdminDispatches(r) ==
    LET d == req[r].desk
    IN  /\ \/ /\ req[r].at = "read" /\ req[r].op \in PowerOps /\ vm[d] # "none"
              /\ Dispatch(req[r].op, d)
           \/ /\ req[r].at = "stopped" /\ vm[d] = "stopped" /\ ~Busy(d)
              /\ Dispatch("destroy", d)
        /\ req' = [req EXCEPT ![r].at = "issued", ![r].upid = NextUPID]
        /\ UNCHANGED <<desk, run, trk, con, vm, pool, crashes>>

\* A provider call raises: no machine, it is locked or runs again, or no answer.
\* The handler ends and the row is as it was.
AdminFails(r) ==
    LET d == req[r].desk
    IN  /\ \/ /\ req[r].at = "read" /\ req[r].op \in PowerOps \cup RemoveOps
              /\ vm[d] = "none" \/ "provider" \in Faults
           \/ /\ req[r].at = "stopped"
              /\ vm[d] # "stopped" \/ Busy(d) \/ "provider" \in Faults
        /\ Answer(r)
        /\ UNCHANGED <<desk, run, trk, con, vm, tasks, pool, crashes>>

\* record_desktop_task and the handler's commit; a row that is gone raises.
AdminCommits(r) ==
    LET d   == req[r].desk
        saw == req[r].saw
        new == CASE req[r].op = "assign" ->
                      [saw EXCEPT !.taken = TRUE,
                                  !.status = IF @ = "available" THEN "assigned" ELSE @]
                 [] req[r].op = "unassign" ->
                      [saw EXCEPT !.taken = FALSE,
                                  !.status = IF @ = "assigned" THEN "available" ELSE @]
                 [] OTHER ->
                      [saw EXCEPT !.upid = req[r].upid, !.kind = TaskKind(req[r].op),
                                  !.status = IF req[r].op \in RemoveOps THEN "deleting" ELSE @]
    IN  /\ \/ req[r].at = "issued"
           \/ req[r].at = "read" /\ req[r].op \in {"assign", "unassign"}
        /\ ~RowLocked(d)
        /\ desk' = IF Visible(d) THEN [desk EXCEPT ![d] = Flush(@, saw, new)] ELSE desk
        /\ Answer(r)
        /\ UNCHANGED <<run, trk, con, vm, tasks, pool, crashes>>

(***************************************************************************)
(* The task tracker                                                        *)
(***************************************************************************)
\* Mutant of InFlight: rows in error are not polled, as health_checker.py believes.
InFlightNotInError ==
    {[desk |-> d, upid |-> desk[d].upid, kind |-> desk[d].kind] :
         d \in {e \in Desktops : /\ Visible(e) /\ desk[e].upid # NoTask
                                /\ desk[e].status # "error"}}

InFlight == {[desk |-> d, upid |-> desk[d].upid, kind |-> desk[d].kind] :
                 d \in {e \in Desktops : Visible(e) /\ desk[e].upid # NoTask}}

TickBegins(t) ==
    /\ trk[t].at = "idle" /\ InFlight # {}
    /\ trk' = [trk EXCEPT ![t].at = "ticking", ![t].todo = InFlight]
    /\ UNCHANGED <<desk, req, run, con, vm, tasks, pool, crashes>>

TickEnds(t) ==
    /\ trk[t].at = "ticking" /\ trk[t].todo = {}
    /\ trk' = [trk EXCEPT ![t] = IdleTick]
    /\ UNCHANGED <<desk, req, run, con, vm, tasks, pool, crashes>>

\* Mutant of Verdicts: a stopped task is a success, its exit status not looked at.
VerdictsOfStopped(x) ==
    IF x.kind = "none" THEN {"error"}
    ELSE {IF tasks[x.upid].state = "running" THEN "ticking" ELSE "ok"}

\* _poll_one: a row without a kind, and a status that cannot be had, are failures.
Verdicts(x) ==
    IF x.kind = "none" THEN {"error"}
    ELSE {CASE tasks[x.upid].state = "running" -> "ticking"
            [] tasks[x.upid].state = "ok"      -> "ok"
            [] tasks[x.upid].state = "failed"  -> "error"}
         \cup IF "provider" \in Faults THEN {"error"} ELSE {}

PollOne(t, x) ==
    /\ trk[t].at = "ticking" /\ x \in trk[t].todo
    /\ \E verdict \in Verdicts(x) :
          trk' = [trk EXCEPT ![t] = [at |-> verdict, todo |-> @.todo \ {x}, cur |-> x]]
    /\ UNCHANGED <<desk, req, run, con, vm, tasks, pool, crashes>>

NextOne(t) == trk' = [trk EXCEPT ![t].at = "ticking"]

\* Mutant of MarkTaskError: the task is taken off the row, whose status stays.
MarkTaskErrorKeepsStatus(t) ==
    LET d == trk[t].cur.desk
    IN  /\ trk[t].at = "error" /\ ~RowLocked(d)
        /\ desk' = IF Visible(d)
                   THEN [desk EXCEPT ![d].upid = NoTask, ![d].kind = "none"] ELSE desk
        /\ NextOne(t)
        /\ UNCHANGED <<req, run, con, vm, tasks, pool, crashes>>

\* The handlers look the row up again by its id, in a session of their own.
MarkTaskError(t) ==
    LET d == trk[t].cur.desk
    IN  /\ trk[t].at = "error" /\ ~RowLocked(d)
        /\ desk' = IF Visible(d)
                   THEN [desk EXCEPT ![d].status = "error", ![d].upid = NoTask, ![d].kind = "none"]
                   ELSE desk
        /\ NextOne(t)
        /\ UNCHANGED <<req, run, con, vm, tasks, pool, crashes>>

ApplyPower(t) ==
    LET d == trk[t].cur.desk
    IN  /\ trk[t].at = "ok" /\ trk[t].cur.kind = "power" /\ ~RowLocked(d)
        /\ desk' = IF Visible(d)
                   THEN [desk EXCEPT ![d].upid = NoTask, ![d].kind = "none"] ELSE desk
        /\ NextOne(t)
        /\ UNCHANGED <<req, run, con, vm, tasks, pool, crashes>>

ApplyDestroy(t) ==
    LET d == trk[t].cur.desk
    IN  /\ trk[t].at = "ok" /\ trk[t].cur.kind = "destroy" /\ ~RowLocked(d)
        /\ desk' = IF Visible(d)
                   THEN [desk EXCEPT ![d] = [NoRow EXCEPT !.status = "deleted"]] ELSE desk
        /\ NextOne(t)
        /\ UNCHANGED <<req, run, con, vm, tasks, pool, crashes>>

\* The first leg of a rebuild ends, its user kept for the second (by a persistent
\* pool), which follows in the same tick.
ApplyRebuild(t) ==
    LET d == trk[t].cur.desk
    IN  /\ trk[t].at = "ok" /\ trk[t].cur.kind = "rebuild" /\ ~RowLocked(d)
        /\ IF Visible(d)
           THEN /\ desk' = [desk EXCEPT ![d].status = "provisioning",
                                        ![d].upid = NoTask, ![d].kind = "none"]
                /\ run' = [run EXCEPT ![t].row =
                     [NoRow EXCEPT !.status = "provisioning", !.taken = Persistent /\ desk[d].taken]]
                /\ trk' = [trk EXCEPT ![t].at = "rebuild"]
           ELSE NextOne(t) /\ UNCHANGED <<desk, run>>
        /\ UNCHANGED <<req, con, vm, tasks, pool, crashes>>

\* provision_desktop with the row, or, if it is gone by now, without one: then it
\* provisions a new desktop.  An inactive pool and a full one raise, which the
\* tick logs.
Reprovision(t) ==
    LET d     == trk[t].cur.desk
        place == IF Visible(d) THEN {d}
                 ELSE {e \in Desktops : desk[e].status = "absent" /\ \A q \in Runs : run[q].desk # e}
    IN  /\ trk[t].at = "rebuild" /\ ~RowLocked(d)
        /\ IF pool /\ place # {}
           THEN /\ \E e \in place : Reserve(t, e, run[t].row)
                /\ trk' = [trk EXCEPT ![t].at = "provisioning"]
           ELSE Returned(t)
        /\ UNCHANGED <<desk, req, con, vm, tasks, pool, crashes>>

(***************************************************************************)
(* The health checker's sweep: ten minutes in provisioning, which a slow   *)
(* provisioning may take as well as an abandoned one.                      *)
(***************************************************************************)
Abandoned(d) == \A p \in Runs : run[p].desk # d

SweepStuck(d) ==
    /\ desk[d].status = "provisioning" /\ ~RowLocked(d)
    /\ Abandoned(d) \/ "slow" \in Faults
    /\ desk' = [desk EXCEPT ![d].status = "error", ![d].upid = NoTask, ![d].kind = "none"]
    /\ UNCHANGED <<req, run, trk, con, vm, tasks, pool, crashes>>

(***************************************************************************)
(* The users: connect (services/broker.py) and the end of a session        *)
(***************************************************************************)
Connectable(d) ==
    IF Persistent THEN Visible(d) /\ desk[d].taken /\ desk[d].status # "deleting"
                  ELSE desk[d].status = "available" /\ ~RowLocked(d)

ConnectReads(c, d) ==
    /\ con[c].at = "idle" /\ Connectable(d)
    /\ con' = [con EXCEPT ![c] = [at |-> "read", desk |-> d, saw |-> desk[d]]]
    /\ UNCHANGED <<desk, req, run, trk, vm, tasks, pool, crashes>>

ConnectBoots(c) ==
    LET d == con[c].desk
    IN  /\ con[c].at = "read" /\ vm[d] \in {"stopped", "running"}
        /\ vm' = [vm EXCEPT ![d] = "running"]
        /\ con' = [con EXCEPT ![c].at = "booted"]
        /\ UNCHANGED <<desk, req, run, trk, tasks, pool, crashes>>

\* No machine, no console ticket of it, or no row any more: rolled back.
ConnectFails(c) ==
    /\ \/ con[c].at = "read" /\ vm[con[c].desk] \in {"none", "cloning"}
       \/ /\ con[c].at = "booted"
          /\ vm[con[c].desk] # "running" \/ ~Visible(con[c].desk)
    /\ con' = [con EXCEPT ![c] = [IdleCon EXCEPT !.at = "ended"]]
    /\ UNCHANGED <<desk, req, run, trk, vm, tasks, pool, crashes>>

ConnectCommits(c) ==
    LET d   == con[c].desk
        new == [con[c].saw EXCEPT !.taken = TRUE, !.status = "connected"]
    IN  /\ con[c].at = "booted" /\ vm[d] = "running" /\ Visible(d)
        /\ Persistent => ~RowLocked(d)
        /\ desk' = [desk EXCEPT ![d] = Flush(@, con[c].saw, new)]
        /\ con' = [con EXCEPT ![c].at = "active", ![c].saw = NoRow]
        /\ UNCHANGED <<req, run, trk, vm, tasks, pool, crashes>>

\* transition_to_ended, which cannot end a session whose desktop row is gone.
SessionEnds(c) ==
    LET d == con[c].desk
    IN  /\ con[c].at = "active" /\ Writable(d)
        /\ desk' = IF ~Persistent /\ desk[d].taken
                   THEN [desk EXCEPT ![d].status = "available", ![d].taken = FALSE]
                   ELSE [desk EXCEPT ![d].status = "disconnected"]
        /\ con' = [con EXCEPT ![c] = [IdleCon EXCEPT !.at = "ended"]]
        /\ UNCHANGED <<req, run, trk, vm, tasks, pool, crashes>>

(***************************************************************************)
(* The hypervisor carries out its tasks                                    *)
(***************************************************************************)
OtherTask(u, ops) ==
    \E v \in DOMAIN tasks : /\ v # u /\ tasks[v].op \in ops
                           /\ tasks[v].desk = tasks[u].desk /\ tasks[v].state = "running"

CanSucceed(u) ==
    LET state == vm[tasks[u].desk]
    IN  CASE tasks[u].op = "clone"   -> state = "cloning"
          [] tasks[u].op = "destroy" -> state = "stopped"
          [] tasks[u].op = "start"   -> state = "stopped" /\ ~OtherTask(u, {"clone", "destroy"})
          [] tasks[u].op = "stop"    -> state \in {"stopped", "running"}
                                        /\ ~OtherTask(u, {"clone", "destroy"})

Effect(op) ==
    CASE op = "clone" -> "stopped" [] op = "destroy" -> "none"
      [] op = "start" -> "running" [] op = "stop"    -> "stopped"

TaskSucceeds(u) ==
    /\ tasks[u].state = "running" /\ CanSucceed(u)
    /\ tasks' = [tasks EXCEPT ![u].state = "ok"]
    /\ vm' = [vm EXCEPT ![tasks[u].desk] = Effect(tasks[u].op)]
    /\ UNCHANGED <<desk, req, run, trk, con, pool, crashes>>

TaskFails(u) ==
    /\ tasks[u].state = "running" /\ ("task" \in Faults \/ ~CanSucceed(u))
    /\ tasks' = [tasks EXCEPT ![u].state = "failed"]
    /\ vm' = IF tasks[u].op = "clone" THEN [vm EXCEPT ![tasks[u].desk] = "none"] ELSE vm
    /\ UNCHANGED <<desk, req, run, trk, con, pool, crashes>>

(***************************************************************************)
(* Crashes, and the pool's deactivation                                    *)
(***************************************************************************)
Crash ==
    /\ crashes < MaxCrashes
    /\ crashes' = crashes + 1
    /\ \/ \E r \in Requests : Open(r) /\ Answer(r) /\ UNCHANGED <<run, trk, con>>
       \/ \E p \in Provisions : /\ run[p].at \notin {"off", "done"} /\ Returned(p)
                                /\ UNCHANGED <<req, con>>
       \/ \E t \in Trackers : /\ trk[t].at # "idle"
                              /\ trk' = [trk EXCEPT ![t] = IdleTick]
                              /\ run' = [run EXCEPT ![t] = IdleRun]
                              /\ UNCHANGED <<req, con>>
    /\ UNCHANGED <<desk, vm, tasks, pool>>

PoolDeactivated ==
    /\ "pool" \in Faults /\ pool
    /\ pool' = FALSE
    /\ UNCHANGED <<desk, req, run, trk, con, vm, tasks, crashes>>

----------------------------------------------------------------------------
Provisioning(p) ==
    \/ CloneDispatched(p) \/ CloneRecorded(p) \/ ProvisionBoots(p)
    \/ ProvisionSnapshots(p) \/ ProvisionRestarts(p)
    \/ ProvisionDone(p) \/ ProvisionFails(p)

Handling(r) == AdminStops(r) \/ AdminDispatches(r) \/ AdminFails(r) \/ AdminCommits(r)

Tracking(t) ==
    \/ TickBegins(t) \/ TickEnds(t) \/ \E x \in trk[t].todo : PollOne(t, x)
    \/ MarkTaskError(t) \/ ApplyPower(t) \/ ApplyDestroy(t)
    \/ ApplyRebuild(t) \/ Reprovision(t)

Connecting(c) == ConnectBoots(c) \/ ConnectFails(c) \/ ConnectCommits(c)

Next ==
    \/ \E p \in Provisions, d \in Desktops, taken \in {FALSE, Persistent} : ProvisionNew(p, d, taken)
    \/ \E p \in Runs : Provisioning(p)
    \/ \E r \in Requests, op \in AdminOps, d \in Desktops : AdminRead(r, op, d)
    \/ \E r \in Requests : Handling(r)
    \/ \E t \in Trackers : Tracking(t)
    \/ \E c \in Connects, d \in Desktops : ConnectReads(c, d)
    \/ \E c \in Connects : Connecting(c) \/ SessionEnds(c)
    \/ \E d \in Desktops : SweepStuck(d)
    \/ \E u \in DOMAIN tasks : TaskSucceeds(u) \/ TaskFails(u)
    \/ Crash \/ PoolDeactivated

Spec == Init /\ [][Next]_vars

\* Processes go on, tasks come to an end, and the health checker keeps sweeping.
\* Nobody has to make a request, to connect, or to end a session.
Fairness ==
    /\ \A p \in Runs : WF_vars(Provisioning(p))
    /\ \A r \in Requests : WF_vars(Handling(r))
    /\ \A t \in Trackers : WF_vars(Tracking(t))
    /\ \A c \in Connects : WF_vars(Connecting(c))
    /\ \A d \in Desktops : WF_vars(SweepStuck(d))
    /\ \A u \in UPID : WF_vars(u \in DOMAIN tasks /\ (TaskSucceeds(u) \/ TaskFails(u)))

FairSpec == Spec /\ Fairness

----------------------------------------------------------------------------
(***************************************************************************)
(* Properties                                                              *)
(***************************************************************************)

\* A machine is never without a row that leads to it, save while the call that
\* clones it has not committed its row: the row goes last (_apply_task_success).
VMsAccounted ==
    \A d \in Desktops : vm[d] # "none" =>
        \/ Visible(d)
        \/ \E p \in Runs : run[p].desk = d /\ run[p].at = "dispatched"

\* A desktop whose provisioning is at work is not declared failed by others: not
\* by the tracker, which would have to see its task fail, and not by the sweep.
ProvisioningLeftAlone ==
    [][\A d \in Desktops, p \in Runs :
          run[p].desk = d /\ run'[p].desk = d =>
              ~(desk[d].status = "provisioning" /\ desk'[d].status = "error")]_vars

\* A removal that was accepted (202) stays on the row until its task is over.
RemovalOnRecord(d) == desk[d].kind \in RemoveOps /\ desk[d].upid # NoTask
AcceptedRemovalKept ==
    [][\A d \in Desktops : RemovalOnRecord(d) /\ desk'[d].upid # desk[d].upid =>
          tasks[desk[d].upid].state # "running"]_vars

\* A user in a session has the desktop: its row is there and not being deleted,
\* and its machine exists.  rebuild and destroy refuse a desktop with a session.
SessionsSpared ==
    \A c \in Connects : con[c].at = "active" =>
        Visible(con[c].desk) /\ desk[con[c].desk].status # "deleting" /\ vm[con[c].desk] # "none"

\* unassign refuses a desktop with an active session, so a session's desktop is
\* assigned.
SessionsAssigned ==
    \A c \in Connects : con[c].at = "active" /\ Visible(con[c].desk) => desk[con[c].desk].taken

\* Work in progress ends, whatever crashes: no desktop stays in provisioning or
\* deleting for ever.
WorkEnds ==
    \A d \in Desktops : desk[d].status \in {"provisioning", "deleting"}
                          ~> desk[d].status \notin {"provisioning", "deleting"}

\* Every task recorded on a row is followed up and taken off it.
TasksFollowed ==
    \A d \in Desktops, u \in UPID : desk[d].upid = u ~> desk[d].upid # u

=============================================================================
