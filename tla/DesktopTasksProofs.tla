------------------------- MODULE DesktopTasksProofs -------------------------
(***************************************************************************)
(* The types of DesktopTasks for every number of desktops, requests and    *)
(* brokers, and the conditions under which no machine is lost from sight.  *)
(***************************************************************************)
EXTENDS DesktopTasks, FiniteSetTheorems, TLAPS

(***************************************************************************)
(* Types, and what they rest on                                            *)
(***************************************************************************)

\* Whoever is at work is at work on a desktop, a tracker's run within its tick.
ActorsInv ==
    /\ \A r \in Requests : Open(r) => req[r].desk \in Desktops
    /\ \A p \in Runs : run[p].at \notin {"off", "done"} =>
          run[p].desk \in Desktops /\ (p \in Trackers => trk[p].at = "provisioning")
    /\ \A t \in Trackers : /\ trk[t].at \notin {"idle", "ticking"} => trk[t].cur.desk \in Desktops
                           /\ \A x \in trk[t].todo : x.desk \in Desktops
    /\ \A c \in Connects : con[c].at \in {"read", "booted", "active"} => con[c].desk \in Desktops

\* A UPID that anybody holds is a task the hypervisor was given.
NamesInv ==
    /\ \A d \in Desktops : desk[d].upid \in {NoTask} \cup DOMAIN tasks
    /\ \A r \in Requests : req[r].at = "issued" => req[r].upid \in DOMAIN tasks
    /\ \A p \in Runs : run[p].at = "dispatched" => run[p].upid \in DOMAIN tasks
    /\ \A t \in Trackers : \A x \in trk[t].todo : x.upid \in DOMAIN tasks

TypeInv == TypeOK /\ ActorsInv /\ NamesInv

(***************************************************************************)
(* The operators                                                           *)
(***************************************************************************)
LEMMA Constants ==
    /\ NoRow \in Row /\ IdleReq \in Request /\ IdleRun \in ProvisionRun
    /\ IdleTick \in Tick /\ IdleCon \in Connect
    /\ [IdleRun EXCEPT !.at = "done"] \in ProvisionRun
    /\ UPID \subseteq Nat /\ NoTask \notin UPID /\ NoDesk \notin Desktops
<1>1. NoRow \in Row
  BY DEF NoRow, Row, Status, Kind, UPID
<1>2. IdleRun \in ProvisionRun /\ [IdleRun EXCEPT !.at = "done"] \in ProvisionRun
  BY <1>1 DEF IdleRun, ProvisionRun
<1>3. IdleReq \in Request /\ IdleCon \in Connect
  BY <1>1 DEF IdleReq, IdleCon, Request, Connect, AdminOps
<1>4. IdleTick \in Tick
  BY DEF IdleTick, Tick, Fetched, Kind
<1>5. UPID \subseteq Nat /\ NoTask \notin UPID /\ NoDesk \notin Desktops
  BY BoundAssumption, DesktopsAssumption DEF UPID, NoTask, NoDesk
<1>6. QED
  BY <1>1, <1>2, <1>3, <1>4, <1>5

\* A fresh row names no task, in any status.
LEMMA Unowned ==
    /\ NoRow.upid = NoTask
    /\ \A status \in Status : LET row == [NoRow EXCEPT !.status = status]
                              IN  row \in Row /\ row.upid = NoTask
<1>1. NoRow.upid = NoTask
  BY DEF NoRow
<1>2. QED
  BY <1>1, Constants DEF Row

\* A flush sends the attributes that were changed and leaves the others as they are.
LEMMA FlushEffect ==
    ASSUME NEW row \in Row, NEW saw \in Row, NEW new \in Row
    PROVE  /\ Flush(row, saw, new) \in Row
           /\ Flush(row, saw, new).status = IF new.status = saw.status THEN row.status ELSE new.status
           /\ Flush(row, saw, new).upid = IF new.upid = saw.upid THEN row.upid ELSE new.upid
           /\ Flush(row, saw, new).kind = IF new.kind = saw.kind THEN row.kind ELSE new.kind
BY DEF Flush, Row

\* A dispatched task is new, and running; the others are as they were.
LEMMA DispatchEffect ==
    ASSUME tasks \in Seq(Task), NEW op \in {"clone", "start", "stop", "destroy"},
           NEW d \in Desktops, Dispatch(op, d)
    PROVE  /\ tasks' \in Seq(Task) /\ Len(tasks') <= MaxTasks
           /\ NextUPID \in UPID /\ NextUPID \notin DOMAIN tasks
           /\ DOMAIN tasks' = DOMAIN tasks \cup {NextUPID}
           /\ \A u \in DOMAIN tasks : tasks'[u] = tasks[u]
           /\ tasks'[NextUPID].op = op /\ tasks'[NextUPID].desk = d
           /\ tasks'[NextUPID].state = "running"
<1> DEFINE task == [op |-> op, desk |-> d, state |-> "running"]
<1>1. task \in Task /\ task.op = op /\ task.desk = d /\ task.state = "running"
  BY DEF Task
<1>2. Len(tasks) < MaxTasks /\ tasks' = Append(tasks, task) /\ Len(tasks) \in Nat
  BY DEF Dispatch
<1> HIDE DEF task
<1>3. /\ tasks' \in Seq(Task) /\ Len(tasks') = Len(tasks) + 1
      /\ \A u \in 1 .. Len(tasks) : tasks'[u] = tasks[u]
      /\ tasks'[Len(tasks) + 1] = task
  BY <1>1, <1>2
<1>4. DOMAIN tasks = 1 .. Len(tasks) /\ DOMAIN tasks' = 1 .. (Len(tasks) + 1)
  BY <1>3
<1>5. QED
  BY <1>1, <1>2, <1>3, <1>4, BoundAssumption DEF NextUPID, UPID

\* A run's row moves on to a further state of its call.
LEMMA RunMoves ==
    ASSUME TypeInv, NEW p \in Runs, run[p].at \notin {"off", "done"},
           NEW at \in {"dispatched", "cloning", "booted", "snapped", "ready"},
           run' = [run EXCEPT ![p].at = at]
    PROVE  /\ run' \in [Runs -> ProvisionRun]
           /\ run'[p].at = at /\ run'[p].desk = run[p].desk /\ run'[p].row = run[p].row
           /\ \A q \in Runs \ {p} : run'[q] = run[q]
<1> DEFINE new == [run[p] EXCEPT !.at = at]
<1>1. run \in [Runs -> ProvisionRun] /\ run' = [run EXCEPT ![p] = new]
  BY DEF TypeInv, TypeOK
<1>2. new \in ProvisionRun /\ new.at = at /\ new.desk = run[p].desk /\ new.row = run[p].row
  BY <1>1 DEF ProvisionRun
<1> HIDE DEF new
<1>3. QED
  BY <1>1, <1>2

LEMMA ReturnedTypes ==
    ASSUME TypeInv, NEW p \in Runs, run[p].at \notin {"off", "done"}, Returned(p)
    PROVE  /\ run' \in [Runs -> ProvisionRun] /\ trk' \in [Trackers -> Tick]
           /\ run'[p].at \in {"off", "done"} /\ \A q \in Runs \ {p} : run'[q] = run[q]
           /\ \A t \in Trackers : trk'[t].todo = trk[t].todo /\ trk'[t].cur = trk[t].cur
           /\ \A t \in Trackers \ {p} : trk'[t].at = trk[t].at
           /\ p \in Trackers => trk'[p].at = "ticking"
<1>1. /\ run' \in [Runs -> ProvisionRun] /\ run'[p].at \in {"off", "done"}
      /\ \A q \in Runs \ {p} : run'[q] = run[q]
  <2>1. PICK at \in {"off", "done"} : run' = [run EXCEPT ![p] = [IdleRun EXCEPT !.at = at]]
    BY DEF Returned
  <2> DEFINE new == [IdleRun EXCEPT !.at = at]
  <2>2. new \in ProvisionRun /\ new.at = at
    BY Constants DEF ProvisionRun
  <2>3. run \in [Runs -> ProvisionRun] /\ run' = [run EXCEPT ![p] = new]
    BY <2>1 DEF TypeInv, TypeOK
  <2> HIDE DEF new
  <2>4. QED
    BY <2>2, <2>3
<1>2. CASE p \in Trackers
  <2> DEFINE new == [trk[p] EXCEPT !.at = "ticking"]
  <2>1. trk \in [Trackers -> Tick] /\ trk[p] \in Tick
    BY <1>2 DEF TypeInv, TypeOK
  <2>2. trk' = [trk EXCEPT ![p] = new]
    BY <1>2 DEF Returned
  <2>3. new \in Tick /\ new.at = "ticking" /\ new.todo = trk[p].todo /\ new.cur = trk[p].cur
    BY ONLY <2>1 DEF Tick
  <2> HIDE DEF new
  <2>4. QED
    BY <1>1, <1>2, <2>1, <2>2, <2>3
<1>3. CASE p \notin Trackers
  BY <1>1, <1>3 DEF Returned, TypeInv, TypeOK, Tick
<1>4. QED
  BY <1>2, <1>3

LEMMA ProvisionTypes ==
    ASSUME TypeInv, NEW p \in Runs, Provisioning(p)
    PROVE  TypeInv'
<1>1. CASE CloneDispatched(p)
  <2>1. run[p].at = "reserved" /\ run[p].desk \in Desktops
    BY <1>1 DEF CloneDispatched, TypeInv, ActorsInv
  <2>2. Dispatch("clone", run[p].desk) /\ tasks \in Seq(Task)
    BY <1>1 DEF CloneDispatched, TypeInv, TypeOK
  <2>3. /\ run' = [run EXCEPT ![p].at = "dispatched", ![p].upid = NextUPID]
        /\ vm' = [vm EXCEPT ![run[p].desk] = "cloning"]
        /\ UNCHANGED <<desk, req, trk, con, pool, crashes>>
    BY <1>1 DEF CloneDispatched
  <2>4. /\ tasks' \in Seq(Task) /\ Len(tasks') <= MaxTasks
        /\ DOMAIN tasks' = DOMAIN tasks \cup {NextUPID} /\ NextUPID \in UPID
    BY <2>1, <2>2, DispatchEffect
  <2> DEFINE new == [run[p] EXCEPT !.at = "dispatched", !.upid = NextUPID]
  <2>5. new \in ProvisionRun /\ new.at = "dispatched" /\ new.desk = run[p].desk /\ new.upid = NextUPID
    BY <2>4 DEF TypeInv, TypeOK, ProvisionRun
  <2>6. run' = [run EXCEPT ![p] = new]
    BY <2>3 DEF TypeInv, TypeOK
  <2> HIDE DEF new
  <2>7. TypeOK'
    BY <2>1, <2>3, <2>4, <2>5, <2>6 DEF TypeInv, TypeOK
  <2>8. ActorsInv'
    BY <2>1, <2>3, <2>5, <2>6 DEF TypeInv, TypeOK, ActorsInv, Open
  <2>9. NamesInv'
    BY <2>1, <2>3, <2>4, <2>5, <2>6 DEF TypeInv, TypeOK, NamesInv
  <2>10. QED
    BY <2>7, <2>8, <2>9 DEF TypeInv
<1>2. CASE CloneRecorded(p)
  <2> DEFINE new == [run[p].row EXCEPT !.upid = run[p].upid]
  <2>1. /\ run[p].at = "dispatched" /\ run[p].desk \in Desktops
        /\ run[p].upid \in UPID \cup {NoTask} /\ run[p].upid \in DOMAIN tasks
    BY <1>2 DEF CloneRecorded, TypeInv, TypeOK, ActorsInv, NamesInv, ProvisionRun
  <2>2. new \in Row /\ new.upid = run[p].upid
    BY <2>1 DEF TypeInv, TypeOK, ProvisionRun, Row
  <2>3. /\ desk' = [desk EXCEPT ![run[p].desk] = new]
        /\ run' = [run EXCEPT ![p].at = "cloning", ![p].row = new]
        /\ UNCHANGED <<req, trk, con, vm, tasks, pool, crashes>>
    BY <1>2 DEF CloneRecorded
  <2> HIDE DEF new
  <2> DEFINE call == [run[p] EXCEPT !.at = "cloning", !.row = new]
  <2>4. call \in ProvisionRun /\ call.at = "cloning" /\ call.desk = run[p].desk
    BY <2>2 DEF TypeInv, TypeOK, ProvisionRun
  <2>5. run' = [run EXCEPT ![p] = call]
    BY <2>3 DEF TypeInv, TypeOK
  <2> HIDE DEF call
  <2>6. TypeOK'
    BY <2>1, <2>2, <2>3, <2>4, <2>5 DEF TypeInv, TypeOK
  <2>7. ActorsInv'
    BY <2>1, <2>3, <2>4, <2>5 DEF TypeInv, TypeOK, ActorsInv, Open
  <2>8. NamesInv'
    BY <2>1, <2>2, <2>3, <2>4, <2>5 DEF TypeInv, TypeOK, NamesInv
  <2>9. QED
    BY <2>6, <2>7, <2>8 DEF TypeInv
<1>3. CASE ProvisionBoots(p) \/ ProvisionSnapshots(p) \/ ProvisionRestarts(p)
  <2>1. PICK at \in {"booted", "snapped", "ready"} : run' = [run EXCEPT ![p].at = at]
    BY <1>3 DEF ProvisionBoots, ProvisionSnapshots, ProvisionRestarts
  <2>2. run[p].at \notin {"off", "done"}
    BY <1>3 DEF ProvisionBoots, ProvisionSnapshots, ProvisionRestarts
  <2>3. /\ vm' \in [Desktops -> {"none", "cloning", "stopped", "running"}]
        /\ UNCHANGED <<desk, req, trk, con, tasks, pool, crashes>>
    BY <1>3 DEF ProvisionBoots, ProvisionSnapshots, ProvisionRestarts, TypeInv, TypeOK
  <2>4. /\ run' \in [Runs -> ProvisionRun] /\ run'[p].at = at /\ run'[p].desk = run[p].desk
        /\ \A q \in Runs \ {p} : run'[q] = run[q]
    BY <2>1, <2>2, RunMoves
  <2>5. TypeOK'
    BY <2>3, <2>4 DEF TypeInv, TypeOK
  <2>6. ActorsInv' /\ NamesInv'
    BY <2>2, <2>3, <2>4 DEF TypeInv, ActorsInv, NamesInv, Open
  <2>7. QED
    BY <2>5, <2>6 DEF TypeInv
<1>4. ASSUME NEW status \in Status, run[p].at \notin {"off", "done"}, ProvisionCommits(p, status)
      PROVE  TypeInv'
  <2> DEFINE new == [run[p].row EXCEPT !.status = status, !.upid = NoTask]
  <2>1. /\ run[p].row \in Row /\ new \in Row /\ new.upid = NoTask
        /\ run[p].desk \in Desktops
    BY <1>4 DEF TypeInv, TypeOK, ActorsInv, ProvisionRun, Row
  <2>2. /\ UNCHANGED desk \/ desk' = [desk EXCEPT ![run[p].desk] = new]
           \/ desk' = [desk EXCEPT ![run[p].desk] = Flush(desk[run[p].desk], run[p].row, new)]
        /\ Returned(p) /\ UNCHANGED <<req, con, vm, tasks, pool, crashes>>
    BY <1>4 DEF ProvisionCommits
  <2> HIDE DEF new
  <2>3. /\ desk' \in [Desktops -> Row]
        /\ \A d \in Desktops : desk'[d].upid \in {NoTask, desk[d].upid}
    BY <2>1, <2>2, FlushEffect DEF TypeInv, TypeOK
  <2>4. /\ run' \in [Runs -> ProvisionRun] /\ trk' \in [Trackers -> Tick]
        /\ run'[p].at \in {"off", "done"} /\ \A q \in Runs \ {p} : run'[q] = run[q]
        /\ \A t \in Trackers : trk'[t].todo = trk[t].todo /\ trk'[t].cur = trk[t].cur
        /\ \A t \in Trackers \ {p} : trk'[t].at = trk[t].at
        /\ p \in Trackers => trk'[p].at = "ticking"
    BY <1>4, <2>2, ReturnedTypes
  <2>5. TypeOK'
    BY <2>2, <2>3, <2>4 DEF TypeInv, TypeOK
  <2>6. ActorsInv'
    BY <2>2, <2>4 DEF TypeInv, ActorsInv, Open
  <2>7. NamesInv'
    BY <2>2, <2>3, <2>4 DEF TypeInv, NamesInv
  <2>8. QED
    BY <2>5, <2>6, <2>7 DEF TypeInv
<1>5. CASE ProvisionDone(p) \/ ProvisionFails(p)
  BY <1>4, <1>5 DEF ProvisionDone, ProvisionFails, Status
<1>6. QED
  BY <1>1, <1>2, <1>3, <1>5 DEF Provisioning

\* What a request's commit makes of the row it read.
Committed(r, new) ==
    /\ new \in Row
    /\ req[r].op \in {"assign", "unassign"} =>
          new.upid = req[r].saw.upid /\ new.kind = req[r].saw.kind
    /\ req[r].op \in PowerOps \cup RemoveOps =>
          /\ req[r].at = "issued"
          /\ new.upid = req[r].upid /\ new.kind = TaskKind(req[r].op)
    /\ new.status \in {req[r].saw.status, "assigned", "available", "deleting"}
    /\ desk' = IF Visible(req[r].desk)
               THEN [desk EXCEPT ![req[r].desk] = Flush(@, req[r].saw, new)] ELSE desk

LEMMA CommitsRow ==
    ASSUME TypeInv, NEW r \in Requests, AdminCommits(r)
    PROVE  \E new \in Row : Committed(r, new)
<1> DEFINE saw == req[r].saw
           assigned == [saw EXCEPT !.taken = TRUE,
                                   !.status = IF @ = "available" THEN "assigned" ELSE @]
           freed    == [saw EXCEPT !.taken = FALSE,
                                   !.status = IF @ = "assigned" THEN "available" ELSE @]
           removed  == [saw EXCEPT !.upid = req[r].upid, !.kind = TaskKind(req[r].op),
                                   !.status = IF req[r].op \in RemoveOps THEN "deleting" ELSE @]
<1>1. /\ saw \in Row /\ req[r].upid \in UPID \cup {NoTask} /\ req[r].op \in AdminOps
      /\ req[r].op \in PowerOps \cup RemoveOps => TaskKind(req[r].op) \in Kind
  BY DEF TypeInv, TypeOK, Request, AdminOps, TaskKind, Kind, PowerOps, RemoveOps
<1>2. /\ assigned \in Row /\ assigned.upid = saw.upid /\ assigned.kind = saw.kind
      /\ assigned.status \in {saw.status, "assigned"}
  BY <1>1 DEF Row, Status
<1>3. /\ freed \in Row /\ freed.upid = saw.upid /\ freed.kind = saw.kind
      /\ freed.status \in {saw.status, "available"}
  BY <1>1 DEF Row, Status
<1>4. req[r].op \in PowerOps \cup RemoveOps =>
        /\ removed \in Row /\ removed.upid = req[r].upid /\ removed.kind = TaskKind(req[r].op)
        /\ removed.status \in {saw.status, "deleting"}
  BY <1>1 DEF Row, Status
<1>5. CASE req[r].op = "assign"
  <2>1. desk' = IF Visible(req[r].desk)
                THEN [desk EXCEPT ![req[r].desk] = Flush(@, saw, assigned)] ELSE desk
    BY <1>5 DEF AdminCommits
  <2>2. QED
    BY <1>2, <1>5, <2>1 DEF Committed, PowerOps, RemoveOps
<1>6. CASE req[r].op = "unassign"
  <2>1. desk' = IF Visible(req[r].desk)
                THEN [desk EXCEPT ![req[r].desk] = Flush(@, saw, freed)] ELSE desk
    BY <1>6 DEF AdminCommits
  <2>2. QED
    BY <1>3, <1>6, <2>1 DEF Committed, PowerOps, RemoveOps
<1>7. CASE req[r].op \in PowerOps \cup RemoveOps
  <2>1. /\ desk' = IF Visible(req[r].desk)
                   THEN [desk EXCEPT ![req[r].desk] = Flush(@, saw, removed)] ELSE desk
        /\ req[r].at = "issued"
    BY <1>7 DEF AdminCommits, PowerOps, RemoveOps
  <2>2. QED
    BY <1>4, <1>7, <2>1 DEF Committed, PowerOps, RemoveOps
<1>8. QED
  BY <1>1, <1>5, <1>6, <1>7 DEF AdminOps

LEMMA HandlingTypes ==
    ASSUME TypeInv, NEW r \in Requests, Handling(r)
    PROVE  TypeInv'
<1>1. CASE AdminStops(r)
  <2>1. /\ req[r].at = "read" /\ req' = [req EXCEPT ![r].at = "stopped"]
        /\ vm' \in [Desktops -> {"none", "cloning", "stopped", "running"}]
        /\ UNCHANGED <<desk, run, trk, con, tasks, pool, crashes>>
    BY <1>1 DEF AdminStops, TypeInv, TypeOK
  <2> DEFINE new == [req[r] EXCEPT !.at = "stopped"]
  <2>2. new \in Request /\ new.at = "stopped" /\ new.desk = req[r].desk
    BY DEF TypeInv, TypeOK, Request
  <2>3. req' = [req EXCEPT ![r] = new]
    BY <2>1 DEF TypeInv, TypeOK
  <2> HIDE DEF new
  <2>4. TypeOK'
    BY <2>1, <2>2, <2>3 DEF TypeInv, TypeOK
  <2>5. ActorsInv' /\ NamesInv'
    BY <2>1, <2>2, <2>3 DEF TypeInv, TypeOK, ActorsInv, NamesInv, Open
  <2>6. QED
    BY <2>4, <2>5 DEF TypeInv
<1>2. CASE AdminDispatches(r)
  <2>1. req[r].at \in {"read", "stopped"} /\ req[r].desk \in Desktops
    BY <1>2 DEF AdminDispatches, TypeInv, ActorsInv, Open
  <2>2. PICK op \in {"clone", "start", "stop", "destroy"} : Dispatch(op, req[r].desk)
    BY <1>2 DEF AdminDispatches, PowerOps
  <2>3. /\ req' = [req EXCEPT ![r].at = "issued", ![r].upid = NextUPID]
        /\ UNCHANGED <<desk, run, trk, con, vm, pool, crashes>>
    BY <1>2 DEF AdminDispatches
  <2>4. /\ tasks' \in Seq(Task) /\ Len(tasks') <= MaxTasks
        /\ DOMAIN tasks' = DOMAIN tasks \cup {NextUPID} /\ NextUPID \in UPID
    BY <2>1, <2>2, DispatchEffect DEF TypeInv, TypeOK
  <2> DEFINE new == [req[r] EXCEPT !.at = "issued", !.upid = NextUPID]
  <2>5. new \in Request /\ new.at = "issued" /\ new.desk = req[r].desk /\ new.upid = NextUPID
    BY <2>4 DEF TypeInv, TypeOK, Request
  <2>6. req' = [req EXCEPT ![r] = new]
    BY <2>3 DEF TypeInv, TypeOK
  <2> HIDE DEF new
  <2>7. TypeOK'
    BY <2>3, <2>4, <2>5, <2>6 DEF TypeInv, TypeOK
  <2>8. ActorsInv'
    BY <2>1, <2>3, <2>5, <2>6 DEF TypeInv, TypeOK, ActorsInv, Open
  <2>9. NamesInv'
    BY <2>3, <2>4, <2>5, <2>6 DEF TypeInv, TypeOK, NamesInv
  <2>10. QED
    BY <2>7, <2>8, <2>9 DEF TypeInv
<1>3. ASSUME Answer(r), UNCHANGED <<run, trk, con, vm, tasks, pool, crashes>>,
             desk' \in [Desktops -> Row],
             \A d \in Desktops : desk'[d].upid \in {NoTask} \cup DOMAIN tasks
      PROVE  TypeInv'
  <2>1. /\ req' \in [Requests -> Request] /\ req'[r].at = "done"
        /\ \A q \in Requests \ {r} : req'[q] = req[q]
    BY <1>3, Constants DEF Answer, TypeInv, TypeOK, IdleReq, Request
  <2>2. QED
    BY <1>3, <2>1 DEF TypeInv, TypeOK, ActorsInv, NamesInv, Open
<1>4. CASE AdminFails(r)
  BY <1>3, <1>4 DEF AdminFails, TypeInv, TypeOK, NamesInv
<1>5. CASE AdminCommits(r)
  <2>1. PICK new \in Row : Committed(r, new)
    BY <1>5, CommitsRow
  <2>2. new.upid \in {req[r].saw.upid} \cup DOMAIN tasks
    BY <2>1 DEF Committed, TypeInv, TypeOK, NamesInv, Request, AdminOps
  <2>3. /\ desk' \in [Desktops -> Row]
        /\ \A d \in Desktops : desk'[d].upid \in {NoTask} \cup DOMAIN tasks
    <3>1. req[r].saw \in Row /\ desk \in [Desktops -> Row] /\ new \in Row
      BY <2>1 DEF TypeInv, TypeOK, Request
    <3>2. \A d \in Desktops : desk[d].upid \in {NoTask} \cup DOMAIN tasks
      BY DEF TypeInv, NamesInv
    <3>3. \/ desk' = desk
          \/ desk' = [desk EXCEPT ![req[r].desk] = Flush(desk[req[r].desk], req[r].saw, new)]
      BY <2>1 DEF Committed
    <3>4. QED
      BY <2>2, <3>1, <3>2, <3>3, FlushEffect
  <2>4. QED
    BY <1>3, <1>5, <2>3 DEF AdminCommits
<1>6. QED
  BY <1>1, <1>2, <1>4, <1>5 DEF Handling

\* The tracker writes to the row only: its task off it, and perhaps its status.
LEMMA RowCleared ==
    ASSUME TypeInv, NEW d \in Desktops, NEW status \in Status,
           desk' = [desk EXCEPT ![d].status = status, ![d].upid = NoTask, ![d].kind = "none"]
    PROVE  /\ desk' \in [Desktops -> Row] /\ \A e \in Desktops \ {d} : desk'[e] = desk[e]
           /\ desk'[d].status = status /\ desk'[d].upid = NoTask /\ desk'[d].kind = "none"
<1> DEFINE new == [desk[d] EXCEPT !.status = status, !.upid = NoTask, !.kind = "none"]
<1>1. new \in Row /\ new.status = status /\ new.upid = NoTask /\ new.kind = "none"
  BY DEF TypeInv, TypeOK, Row, Kind
<1>2. desk \in [Desktops -> Row] /\ d \in Desktops /\ desk' = [desk EXCEPT ![d] = new]
  BY DEF TypeInv, TypeOK
<1> HIDE DEF new
<1>3. QED
  BY ONLY <1>1, <1>2

LEMMA TaskCleared ==
    ASSUME TypeInv, NEW d \in Desktops,
           desk' = [desk EXCEPT ![d].upid = NoTask, ![d].kind = "none"]
    PROVE  /\ desk' \in [Desktops -> Row] /\ \A e \in Desktops \ {d} : desk'[e] = desk[e]
           /\ desk'[d].status = desk[d].status /\ desk'[d].upid = NoTask /\ desk'[d].kind = "none"
<1> DEFINE new == [desk[d] EXCEPT !.upid = NoTask, !.kind = "none"]
<1>1. new \in Row /\ new.status = desk[d].status /\ new.upid = NoTask /\ new.kind = "none"
  BY DEF TypeInv, TypeOK, Row, Kind
<1>2. desk \in [Desktops -> Row] /\ d \in Desktops /\ desk' = [desk EXCEPT ![d] = new]
  BY DEF TypeInv, TypeOK
<1> HIDE DEF new
<1>3. QED
  BY ONLY <1>1, <1>2

\* A tick goes on to its next task.
LEMMA NextOneTypes ==
    ASSUME TypeInv, NEW t \in Trackers, NextOne(t)
    PROVE  /\ trk' \in [Trackers -> Tick] /\ trk'[t].at = "ticking"
           /\ trk'[t].todo = trk[t].todo /\ trk'[t].cur = trk[t].cur
           /\ \A u \in Trackers \ {t} : trk'[u] = trk[u]
BY DEF NextOne, TypeInv, TypeOK, Tick

\* What has been polled is a verdict on a task of the tick's list.
LEMMA PollEffect ==
    ASSUME TypeInv, NEW t \in Trackers, NEW x \in trk[t].todo, PollOne(t, x)
    PROVE  /\ trk' \in [Trackers -> Tick]
           /\ trk'[t].at \in {"ticking", "ok", "error"}
           /\ trk'[t].at = "ok" => tasks[x.upid].state = "ok"
           /\ trk'[t].todo = trk[t].todo \ {x} /\ trk'[t].cur = x
           /\ \A u \in Trackers \ {t} : trk'[u] = trk[u]
<1>1. PICK verdict \in Verdicts(x) :
         trk' = [trk EXCEPT ![t] = [at |-> verdict, todo |-> @.todo \ {x}, cur |-> x]]
  BY DEF PollOne
<1>2. tasks[x.upid].state \in {"running", "ok", "failed"}
  <2>1. x.upid \in DOMAIN tasks /\ tasks \in Seq(Task)
    BY DEF TypeInv, TypeOK, NamesInv
  <2>2. tasks[x.upid] \in Task
    BY <2>1
  <2>3. QED
    BY <2>2 DEF Task
<1>3. verdict \in {"ticking", "ok", "error"} /\ (verdict = "ok" => tasks[x.upid].state = "ok")
  BY <1>2 DEF Verdicts
<1>4. trk \in [Trackers -> Tick] /\ x \in Fetched
  BY DEF TypeInv, TypeOK, Tick
<1>5. QED
  BY <1>1, <1>3, <1>4 DEF Tick

LEMMA TrackingTypes ==
    ASSUME TypeInv, NEW t \in Trackers, Tracking(t)
    PROVE  TypeInv'
<1>0. t \in Runs
  BY DEF Runs
<1>1. CASE TickBegins(t)
  <2>1. InFlight \subseteq Fetched /\ \A x \in InFlight : x.desk \in Desktops /\ x.upid \in DOMAIN tasks
    BY DEF InFlight, Fetched, TypeInv, TypeOK, NamesInv, Row
  <2>2. /\ trk[t].at = "idle" /\ trk' = [trk EXCEPT ![t].at = "ticking", ![t].todo = InFlight]
        /\ UNCHANGED <<desk, req, run, con, vm, tasks, pool, crashes>>
    BY <1>1 DEF TickBegins
  <2>3. /\ trk' \in [Trackers -> Tick] /\ trk'[t].at = "ticking" /\ trk'[t].todo = InFlight
        /\ \A u \in Trackers \ {t} : trk'[u] = trk[u]
    BY <2>1, <2>2 DEF TypeInv, TypeOK, Tick
  <2>4. QED
    BY <2>1, <2>2, <2>3 DEF TypeInv, TypeOK, ActorsInv, NamesInv, Open
<1>2. CASE TickEnds(t)
  <2>1. /\ trk' \in [Trackers -> Tick] /\ trk'[t].at = "idle" /\ trk'[t].todo = {}
        /\ \A u \in Trackers \ {t} : trk'[u] = trk[u]
        /\ trk[t].at = "ticking" /\ UNCHANGED <<desk, req, run, con, vm, tasks, pool, crashes>>
    BY <1>2, Constants DEF TickEnds, TypeInv, TypeOK, IdleTick
  <2>2. QED
    BY <2>1 DEF TypeInv, TypeOK, ActorsInv, NamesInv, Open
<1>3. ASSUME NEW x \in trk[t].todo, PollOne(t, x)
      PROVE  TypeInv'
  <2>1. trk[t].at = "ticking" /\ UNCHANGED <<desk, req, run, con, vm, tasks, pool, crashes>>
    BY <1>3 DEF PollOne
  <2>2. QED
    <3>1. /\ trk' \in [Trackers -> Tick] /\ trk'[t].at \in {"ticking", "ok", "error"}
          /\ trk'[t].todo = trk[t].todo \ {x} /\ trk'[t].cur = x
          /\ \A u \in Trackers \ {t} : trk'[u] = trk[u]
      BY <1>3, PollEffect
    <3>2. TypeOK'
      BY <2>1, <3>1 DEF TypeInv, TypeOK
    <3>3. ActorsInv' /\ NamesInv'
      BY <2>1, <3>1 DEF TypeInv, ActorsInv, NamesInv, Open
    <3>4. QED
      BY <3>2, <3>3 DEF TypeInv
<1>4. ASSUME NextOne(t), UNCHANGED <<req, run, con, vm, tasks, pool, crashes>>,
             trk[t].at \in {"ok", "error"}, desk' \in [Desktops -> Row],
             \A d \in Desktops : desk'[d].upid \in {NoTask, desk[d].upid}
      PROVE  TypeInv'
  <2>1. /\ trk' \in [Trackers -> Tick] /\ trk'[t].at = "ticking"
        /\ trk'[t].todo = trk[t].todo /\ trk'[t].cur = trk[t].cur
        /\ \A u \in Trackers \ {t} : trk'[u] = trk[u]
    BY <1>4, NextOneTypes
  <2>2. TypeOK'
    BY <1>4, <2>1 DEF TypeInv, TypeOK
  <2>3. ActorsInv'
    BY <1>4, <2>1 DEF TypeInv, ActorsInv, Open
  <2>4. NamesInv'
    BY <1>4, <2>1 DEF TypeInv, NamesInv
  <2>5. QED
    BY <2>2, <2>3, <2>4 DEF TypeInv
<1>5. CASE MarkTaskError(t) \/ ApplyPower(t) \/ ApplyDestroy(t)
  <2>1. trk[t].at \in {"ok", "error"} /\ trk[t].cur.desk \in Desktops
    BY <1>5 DEF MarkTaskError, ApplyPower, ApplyDestroy, TypeInv, ActorsInv
  <2>2. [NoRow EXCEPT !.status = "deleted"] \in Row /\ [NoRow EXCEPT !.status = "deleted"].upid = NoTask
    BY Unowned DEF Status
  <2>3. /\ desk' \in [Desktops -> Row]
        /\ \A d \in Desktops : desk'[d].upid \in {NoTask, desk[d].upid}
    <3>1. CASE UNCHANGED desk
      BY <3>1 DEF TypeInv, TypeOK
    <3>2. CASE MarkTaskError(t) /\ ~ UNCHANGED desk
      BY <2>1, <3>2, RowCleared DEF MarkTaskError, Status
    <3>3. CASE ApplyPower(t) /\ ~ UNCHANGED desk
      BY <2>1, <3>3, TaskCleared DEF ApplyPower
    <3>4. CASE ApplyDestroy(t) /\ ~ UNCHANGED desk
      BY <2>1, <2>2, <3>4 DEF ApplyDestroy, TypeInv, TypeOK
    <3>5. QED
      BY <1>5, <3>1, <3>2, <3>3, <3>4
  <2>4. QED
    BY <1>4, <1>5, <2>1, <2>3 DEF MarkTaskError, ApplyPower, ApplyDestroy
<1>6. CASE ApplyRebuild(t)
  <2> DEFINE d == trk[t].cur.desk
             row == [NoRow EXCEPT !.status = "provisioning", !.taken = Persistent /\ desk[d].taken]
  <2>1. d \in Desktops /\ trk[t].at = "ok"
    BY <1>6 DEF ApplyRebuild, TypeInv, ActorsInv
  <2>2. row \in Row
    BY <2>1, Constants, PoolAssumption DEF NoRow, Row, Status, TypeInv, TypeOK
  <2>3. CASE ~ Visible(d)
    BY <1>4, <1>6, <2>1, <2>3 DEF ApplyRebuild, TypeInv, TypeOK
  <2>4. CASE Visible(d)
    <3>1. /\ desk' = [desk EXCEPT ![d].status = "provisioning", ![d].upid = NoTask, ![d].kind = "none"]
          /\ run' = [run EXCEPT ![t].row = row] /\ trk' = [trk EXCEPT ![t].at = "rebuild"]
          /\ UNCHANGED <<req, con, vm, tasks, pool, crashes>>
      BY <1>6, <2>4 DEF ApplyRebuild
    <3> HIDE DEF d, row
    <3>2. /\ desk' \in [Desktops -> Row]
          /\ \A e \in Desktops : desk'[e].upid \in {NoTask, desk[e].upid}
      BY <2>1, <3>1, RowCleared DEF Status
    <3>3. /\ run' \in [Runs -> ProvisionRun]
          /\ \A p \in Runs : /\ run'[p].at = run[p].at /\ run'[p].desk = run[p].desk
                             /\ run'[p].upid = run[p].upid
      BY <1>0, <2>2, <3>1 DEF TypeInv, TypeOK, ProvisionRun
    <3>4. /\ trk' \in [Trackers -> Tick] /\ trk'[t].at = "rebuild"
          /\ \A u \in Trackers : trk'[u].todo = trk[u].todo /\ trk'[u].cur = trk[u].cur
          /\ \A u \in Trackers \ {t} : trk'[u] = trk[u]
      BY <3>1 DEF TypeInv, TypeOK, Tick
    <3>5. TypeOK'
      BY <3>1, <3>2, <3>3, <3>4 DEF TypeInv, TypeOK
    <3>6. ActorsInv'
      BY <2>1, <3>1, <3>3, <3>4 DEF d, TypeInv, ActorsInv, Open
    <3>7. NamesInv'
      BY <3>1, <3>2, <3>3, <3>4 DEF TypeInv, NamesInv
    <3>8. QED
      BY <3>5, <3>6, <3>7 DEF TypeInv
  <2>5. QED
    BY <2>3, <2>4
<1>7. CASE Reprovision(t)
  <2>1. trk[t].at = "rebuild" /\ trk[t].cur.desk \in Desktops
        /\ UNCHANGED <<desk, req, con, vm, tasks, pool, crashes>>
    BY <1>7 DEF Reprovision, TypeInv, ActorsInv
  <2>2. CASE Returned(t)
    <3>1. /\ run' \in [Runs -> ProvisionRun] /\ run'[t].at = "off"
          /\ \A q \in Runs \ {t} : run'[q] = run[q]
      BY <1>0, <2>2, Constants DEF Returned, TypeInv, TypeOK, IdleRun
    <3>2. NextOne(t)
      BY <2>2 DEF Returned, NextOne
    <3>3. /\ trk' \in [Trackers -> Tick] /\ trk'[t].at = "ticking"
          /\ trk'[t].todo = trk[t].todo /\ \A u \in Trackers \ {t} : trk'[u] = trk[u]
      BY <3>2, NextOneTypes
    <3>4. TypeOK'
      BY <2>1, <3>1, <3>3 DEF TypeInv, TypeOK
    <3>5. ActorsInv' /\ NamesInv'
      BY <1>0, <2>1, <3>1, <3>3 DEF TypeInv, ActorsInv, NamesInv, Open
    <3>6. QED
      BY <3>4, <3>5 DEF TypeInv
  <2>3. ASSUME NEW e \in Desktops, Reserve(t, e, run[t].row), trk' = [trk EXCEPT ![t].at = "provisioning"]
        PROVE  TypeInv'
    <3>1. /\ run' \in [Runs -> ProvisionRun] /\ run'[t].at = "reserved" /\ run'[t].desk = e
          /\ \A q \in Runs \ {t} : run'[q] = run[q]
      BY <1>0, <2>3 DEF Reserve, TypeInv, TypeOK, ProvisionRun
    <3>2. /\ trk' \in [Trackers -> Tick] /\ trk'[t].at = "provisioning"
          /\ \A u \in Trackers : trk'[u].todo = trk[u].todo /\ trk'[u].cur = trk[u].cur
          /\ \A u \in Trackers \ {t} : trk'[u] = trk[u]
      BY <2>3 DEF TypeInv, TypeOK, Tick
    <3>3. TypeOK'
      BY <2>1, <3>1, <3>2 DEF TypeInv, TypeOK
    <3>4. ActorsInv' /\ NamesInv'
      BY <1>0, <2>1, <3>1, <3>2 DEF TypeInv, ActorsInv, NamesInv, Open
    <3>5. QED
      BY <3>3, <3>4 DEF TypeInv
  <2>4. QED
    BY <1>7, <2>1, <2>2, <2>3 DEF Reprovision
<1>8. QED
  BY <1>1, <1>2, <1>3, <1>5, <1>6, <1>7 DEF Tracking

LEMMA NewWorkTypes ==
    ASSUME TypeInv,
           \/ \E p \in Provisions, d \in Desktops, taken \in {FALSE, Persistent} :
                 ProvisionNew(p, d, taken)
           \/ \E r \in Requests, op \in AdminOps, d \in Desktops : AdminRead(r, op, d)
           \/ \E c \in Connects, d \in Desktops : ConnectReads(c, d)
    PROVE  TypeInv'
<1>1. ASSUME NEW p \in Provisions, NEW d \in Desktops, NEW taken \in {FALSE, Persistent},
             ProvisionNew(p, d, taken)
      PROVE  TypeInv'
  <2> DEFINE row == [NoRow EXCEPT !.status = "provisioning", !.taken = taken]
  <2>1. row \in Row
    BY Constants, PoolAssumption DEF NoRow, Row, Status
  <2> HIDE DEF row
  <2>2. p \in Runs /\ p \notin Trackers
    BY ActorsAssumption DEF Runs
  <2>3. /\ run' = [run EXCEPT ![p] = [at |-> "reserved", desk |-> d, row |-> row, upid |-> NoTask]]
        /\ UNCHANGED <<desk, req, trk, con, vm, tasks, pool, crashes>>
    BY <1>1 DEF ProvisionNew, Reserve, row
  <2>4. /\ run' \in [Runs -> ProvisionRun] /\ run'[p].at = "reserved" /\ run'[p].desk = d
        /\ \A q \in Runs \ {p} : run'[q] = run[q]
    BY <2>1, <2>2, <2>3 DEF TypeInv, TypeOK, ProvisionRun
  <2>5. QED
    BY <2>2, <2>3, <2>4 DEF TypeInv, TypeOK, ActorsInv, NamesInv, Open
<1>2. ASSUME NEW r \in Requests, NEW op \in AdminOps, NEW d \in Desktops, AdminRead(r, op, d)
      PROVE  TypeInv'
  <2>1. /\ req' = [req EXCEPT ![r] = [at |-> "read", op |-> op, desk |-> d,
                                     saw |-> desk[d], upid |-> NoTask]]
        /\ UNCHANGED <<desk, run, trk, con, vm, tasks, pool, crashes>>
    BY <1>2 DEF AdminRead
  <2>2. /\ req' \in [Requests -> Request] /\ req'[r].at = "read" /\ req'[r].desk = d
        /\ \A q \in Requests \ {r} : req'[q] = req[q]
    BY <2>1 DEF TypeInv, TypeOK, Request
  <2>3. QED
    BY <2>1, <2>2 DEF TypeInv, TypeOK, ActorsInv, NamesInv, Open
<1>3. ASSUME NEW c \in Connects, NEW d \in Desktops, ConnectReads(c, d)
      PROVE  TypeInv'
  <2>1. /\ con' = [con EXCEPT ![c] = [at |-> "read", desk |-> d, saw |-> desk[d]]]
        /\ UNCHANGED <<desk, req, run, trk, vm, tasks, pool, crashes>>
    BY <1>3 DEF ConnectReads
  <2>2. con' \in [Connects -> Connect] /\ con'[c].desk = d /\ \A b \in Connects \ {c} : con'[b] = con[b]
    BY <2>1 DEF TypeInv, TypeOK, Connect
  <2>3. QED
    BY <2>1, <2>2 DEF TypeInv, TypeOK, ActorsInv, NamesInv, Open
<1>4. QED
  BY <1>1, <1>2, <1>3

\* Users write the status and the assignment of a row, never its task.
LEMMA UserEffect ==
    ASSUME TypeInv, NEW c \in Connects, Connecting(c) \/ SessionEnds(c)
    PROVE  /\ con' \in [Connects -> Connect] /\ desk' \in [Desktops -> Row]
           /\ con[c].desk \in Desktops /\ con'[c].desk \in {con[c].desk, NoDesk}
           /\ con'[c].at \in {"booted", "active"} => con'[c].desk = con[c].desk
           /\ con'[c].at \in {"booted", "active", "ended"}
           /\ \A b \in Connects \ {c} : con'[b] = con[b]
           /\ \A d \in Desktops : /\ desk'[d].upid = desk[d].upid /\ desk'[d].kind = desk[d].kind
                                  /\ desk'[d] # desk[d] => Visible(d) /\ Visible(d)'
           /\ vm' \in [Desktops -> {"none", "cloning", "stopped", "running"}]
           /\ \A d \in Desktops : vm[d] = "none" <=> vm'[d] = "none"
           /\ UNCHANGED <<req, run, trk, tasks, pool, crashes>>
<1>1. con[c] \in Connect /\ con[c].desk \in Desktops
  BY DEF TypeInv, TypeOK, ActorsInv, Connecting, ConnectBoots, ConnectFails, ConnectCommits, SessionEnds
<1> DEFINE over == [IdleCon EXCEPT !.at = "ended"]
<1>2. over \in Connect /\ over.at = "ended" /\ over.desk = NoDesk
  BY Constants DEF IdleCon, Connect
<1> HIDE DEF over
<1>3. CASE ConnectBoots(c)
  BY <1>1, <1>3 DEF ConnectBoots, TypeInv, TypeOK, Connect
<1>4. CASE ConnectFails(c)
  BY <1>1, <1>2, <1>4 DEF ConnectFails, TypeInv, TypeOK, over
<1>5. CASE ConnectCommits(c)
  <2> DEFINE new == [con[c].saw EXCEPT !.taken = TRUE, !.status = "connected"]
  <2>1. /\ con[c].saw \in Row /\ new \in Row /\ new.status = "connected"
        /\ new.upid = con[c].saw.upid /\ new.kind = con[c].saw.kind
    BY <1>1 DEF Connect, Row, Status
  <2>2. /\ desk' = [desk EXCEPT ![con[c].desk] = Flush(desk[con[c].desk], con[c].saw, new)]
        /\ con' = [con EXCEPT ![c].at = "active", ![c].saw = NoRow] /\ Visible(con[c].desk)
        /\ UNCHANGED <<req, run, trk, vm, tasks, pool, crashes>>
    BY <1>5 DEF ConnectCommits
  <2> HIDE DEF new
  <2>3. /\ desk' \in [Desktops -> Row]
        /\ \A d \in Desktops : /\ desk'[d].upid = desk[d].upid /\ desk'[d].kind = desk[d].kind
                               /\ desk'[d] # desk[d] => Visible(d) /\ Visible(d)'
    BY <1>1, <2>1, <2>2, FlushEffect DEF TypeInv, TypeOK, Visible
  <2>4. /\ con' \in [Connects -> Connect] /\ con'[c].at = "active" /\ con'[c].desk = con[c].desk
        /\ \A b \in Connects \ {c} : con'[b] = con[b]
    BY <1>1, <2>2, Constants DEF TypeInv, TypeOK, Connect
  <2>5. QED
    BY <1>1, <2>2, <2>3, <2>4 DEF TypeInv, TypeOK
<1>6. CASE SessionEnds(c)
  <2>1. /\ con' = [con EXCEPT ![c] = over] /\ Visible(con[c].desk)
        /\ \/ desk' = [desk EXCEPT ![con[c].desk].status = "available", ![con[c].desk].taken = FALSE]
           \/ desk' = [desk EXCEPT ![con[c].desk].status = "disconnected"]
        /\ UNCHANGED <<req, run, trk, vm, tasks, pool, crashes>>
    BY <1>6 DEF SessionEnds, Writable, over
  <2>2. desk[con[c].desk] \in Row /\ desk \in [Desktops -> Row]
    BY <1>1 DEF TypeInv, TypeOK
  <2>3. desk' \in [Desktops -> Row]
    BY <1>1, <2>1, <2>2 DEF Row, Status
  <2>4. /\ desk'[con[c].desk].upid = desk[con[c].desk].upid
        /\ desk'[con[c].desk].kind = desk[con[c].desk].kind
        /\ desk'[con[c].desk].status \in {"available", "disconnected"}
    BY <1>1, <2>1, <2>2 DEF Row
  <2>5. \A d \in Desktops : /\ desk'[d].upid = desk[d].upid /\ desk'[d].kind = desk[d].kind
                            /\ desk'[d] # desk[d] => Visible(d) /\ Visible(d)'
    BY <1>1, <2>1, <2>2, <2>4 DEF Visible
  <2>6. QED
    BY <1>1, <1>2, <2>1, <2>3, <2>5 DEF TypeInv, TypeOK
<1>7. QED
  BY <1>3, <1>4, <1>5, <1>6 DEF Connecting

LEMMA UserTypes ==
    ASSUME TypeInv, NEW c \in Connects, Connecting(c) \/ SessionEnds(c)
    PROVE  TypeInv'
<1>1. TypeOK'
  BY UserEffect DEF TypeInv, TypeOK
<1>2. ActorsInv' /\ NamesInv'
  BY UserEffect DEF TypeInv, ActorsInv, NamesInv, Open
<1>3. QED
  BY <1>1, <1>2 DEF TypeInv

\* A task comes to an end.
LEMMA TaskEffect ==
    ASSUME TypeInv, NEW u \in DOMAIN tasks, TaskSucceeds(u) \/ TaskFails(u)
    PROVE  /\ tasks' \in Seq(Task) /\ DOMAIN tasks' = DOMAIN tasks /\ Len(tasks') = Len(tasks)
           /\ \A v \in DOMAIN tasks \ {u} : tasks'[v] = tasks[v]
           /\ tasks'[u].op = tasks[u].op /\ tasks'[u].desk = tasks[u].desk
           /\ tasks'[u].state = IF TaskSucceeds(u) THEN "ok" ELSE "failed"
           /\ tasks[u].state = "running" /\ tasks[u].desk \in Desktops
           /\ tasks[u].op \in {"clone", "start", "stop", "destroy"}
           /\ UNCHANGED <<desk, req, run, trk, con, pool, crashes>>
<1>1. tasks \in Seq(Task) /\ tasks[u] \in Task
  BY DEF TypeInv, TypeOK
<1>2. ASSUME NEW state \in {"ok", "failed"}, tasks' = [tasks EXCEPT ![u].state = state]
      PROVE  /\ tasks' \in Seq(Task) /\ DOMAIN tasks' = DOMAIN tasks /\ Len(tasks') = Len(tasks)
             /\ \A v \in DOMAIN tasks \ {u} : tasks'[v] = tasks[v]
             /\ tasks'[u].op = tasks[u].op /\ tasks'[u].desk = tasks[u].desk
             /\ tasks'[u].state = state
  <2> DEFINE task == [tasks[u] EXCEPT !.state = state]
  <2>1. /\ task \in Task /\ task.op = tasks[u].op /\ task.desk = tasks[u].desk /\ task.state = state
        /\ tasks' = [tasks EXCEPT ![u] = task]
    BY <1>1, <1>2 DEF Task
  <2> HIDE DEF task
  <2>2. QED
    BY <1>1, <2>1
<1>3. tasks[u].state = "running" /\ UNCHANGED <<desk, req, run, trk, con, pool, crashes>>
  BY DEF TaskSucceeds, TaskFails
<1>4. CASE TaskSucceeds(u)
  BY <1>1, <1>2, <1>3, <1>4 DEF TaskSucceeds, Task
<1>5. CASE ~ TaskSucceeds(u)
  BY <1>1, <1>2, <1>3, <1>5 DEF TaskFails, Task
<1>6. QED
  BY <1>4, <1>5

LEMMA TaskTypes ==
    ASSUME TypeInv, NEW u \in DOMAIN tasks, TaskSucceeds(u) \/ TaskFails(u)
    PROVE  TypeInv'
<1>1. vm' \in [Desktops -> {"none", "cloning", "stopped", "running"}]
  <2>1. CASE TaskSucceeds(u)
    BY <2>1, TaskEffect DEF TaskSucceeds, Effect, TypeInv, TypeOK
  <2>2. CASE TaskFails(u)
    BY <2>2 DEF TaskFails, TypeInv, TypeOK
  <2>3. QED
    BY <2>1, <2>2
<1>2. TypeOK'
  BY <1>1, TaskEffect DEF TypeInv, TypeOK
<1>3. ActorsInv' /\ NamesInv'
  BY TaskEffect DEF TypeInv, ActorsInv, NamesInv, Open
<1>4. QED
  BY <1>2, <1>3 DEF TypeInv

LEMMA CrashTypes ==
    ASSUME TypeInv, Crash
    PROVE  TypeInv'
<1>1. crashes' \in 0 .. MaxCrashes /\ UNCHANGED <<desk, vm, tasks, pool>>
  BY BoundAssumption DEF Crash, TypeInv, TypeOK
<1>2. ASSUME NEW r \in Requests, Answer(r), UNCHANGED <<run, trk, con>>
      PROVE  TypeInv'
  <2>1. /\ req' \in [Requests -> Request] /\ req'[r].at = "done"
        /\ \A q \in Requests \ {r} : req'[q] = req[q]
    BY <1>2, Constants DEF Answer, TypeInv, TypeOK, IdleReq, Request
  <2>2. QED
    BY <1>1, <1>2, <2>1 DEF TypeInv, TypeOK, ActorsInv, NamesInv, Open
<1>3. ASSUME NEW p \in Provisions, run[p].at \notin {"off", "done"}, Returned(p), UNCHANGED <<req, con>>
      PROVE  TypeInv'
  <2>1. p \in Runs /\ p \notin Trackers
    BY ActorsAssumption DEF Runs
  <2>2. /\ run' \in [Runs -> ProvisionRun] /\ run'[p].at \in {"off", "done"}
        /\ \A q \in Runs \ {p} : run'[q] = run[q]
    BY <1>3, <2>1, ReturnedTypes
  <2>3. trk' = trk
    BY <1>3, <2>1 DEF Returned
  <2>4. QED
    BY <1>1, <1>3, <2>2, <2>3 DEF TypeInv, TypeOK, ActorsInv, NamesInv, Open
<1>4. ASSUME NEW t \in Trackers, trk' = [trk EXCEPT ![t] = IdleTick], run' = [run EXCEPT ![t] = IdleRun],
             UNCHANGED <<req, con>>
      PROVE  TypeInv'
  <2>1. t \in Runs
    BY DEF Runs
  <2>2. /\ run' \in [Runs -> ProvisionRun] /\ run'[t].at = "off"
        /\ \A q \in Runs \ {t} : run'[q] = run[q]
    BY <1>4, <2>1, Constants DEF TypeInv, TypeOK, IdleRun
  <2>3. /\ trk' \in [Trackers -> Tick] /\ trk'[t].at = "idle" /\ trk'[t].todo = {}
        /\ \A u \in Trackers \ {t} : trk'[u] = trk[u]
    BY <1>4, Constants DEF TypeInv, TypeOK, IdleTick
  <2>4. TypeOK'
    BY <1>1, <1>4, <2>2, <2>3 DEF TypeInv, TypeOK
  <2>5. ActorsInv'
    BY <1>1, <1>4, <2>2, <2>3 DEF TypeInv, ActorsInv, Open
  <2>6. NamesInv'
    BY <1>1, <1>4, <2>2, <2>3 DEF TypeInv, NamesInv
  <2>7. QED
    BY <2>4, <2>5, <2>6 DEF TypeInv
<1>5. QED
  BY <1>2, <1>3, <1>4 DEF Crash

LEMMA InitTypes == Init => TypeInv
<1> SUFFICES ASSUME Init
             PROVE  TypeInv
  OBVIOUS
<1>1. [NoRow EXCEPT !.status = "available"] \in Row /\ [NoRow EXCEPT !.status = "available"].upid = NoTask
  BY Unowned DEF Status
<1>2. /\ [NoRow EXCEPT !.status = "assigned", !.taken = TRUE] \in Row
      /\ [NoRow EXCEPT !.status = "assigned", !.taken = TRUE].upid = NoTask
  <2>1. ASSUME NEW row \in Row, NEW status \in Status, NEW taken \in BOOLEAN
        PROVE  /\ [row EXCEPT !.status = status, !.taken = taken] \in Row
               /\ [row EXCEPT !.status = status, !.taken = taken].upid = row.upid
    BY DEF Row
  <2>2. NoRow \in Row /\ NoRow.upid = NoTask /\ "assigned" \in Status
    BY Constants, Unowned DEF Status
  <2>3. QED
    BY <2>1, <2>2
<1>3. desk \in [Desktops -> Row] /\ \A d \in Desktops : desk[d].upid = NoTask
  <2>1. \A row \in {NoRow} \cup Initially : row \in Row /\ row.upid = NoTask
    BY <1>1, <1>2, Constants, Unowned DEF Initially
  <2>2. QED
    BY <2>1 DEF Init
<1>4. TypeOK
  BY <1>3, Constants, BoundAssumption DEF Init, TypeOK
<1>5. ActorsInv /\ NamesInv
  BY <1>3 DEF Init, ActorsInv, NamesInv, IdleReq, IdleRun, IdleTick, IdleCon, Open
<1>6. QED
  BY <1>4, <1>5 DEF TypeInv

LEMMA StepTypes == TypeInv /\ [Next]_vars => TypeInv'
<1> SUFFICES ASSUME TypeInv, [Next]_vars
             PROVE  TypeInv'
  OBVIOUS
<1>1. CASE UNCHANGED vars
  BY <1>1 DEF vars, TypeInv, TypeOK, ActorsInv, NamesInv, Open
<1>2. ASSUME NEW d \in Desktops, SweepStuck(d)
      PROVE  TypeInv'
  <2>1. /\ desk' \in [Desktops -> Row] /\ \A e \in Desktops : desk'[e].upid \in {NoTask, desk[e].upid}
        /\ UNCHANGED <<req, run, trk, con, vm, tasks, pool, crashes>>
    <3>1. UNCHANGED <<req, run, trk, con, vm, tasks, pool, crashes>>
      BY <1>2 DEF SweepStuck
    <3>2. /\ desk' \in [Desktops -> Row] /\ desk'[d].upid = NoTask
          /\ \A e \in Desktops \ {d} : desk'[e] = desk[e]
      BY <1>2, RowCleared DEF SweepStuck, Status
    <3>3. QED
      BY <3>1, <3>2
  <2>2. TypeOK'
    BY <2>1 DEF TypeInv, TypeOK
  <2>3. ActorsInv' /\ NamesInv'
    BY <2>1 DEF TypeInv, ActorsInv, NamesInv, Open
  <2>4. QED
    BY <2>2, <2>3 DEF TypeInv
<1>3. CASE PoolDeactivated
  BY <1>3 DEF PoolDeactivated, TypeInv, TypeOK, ActorsInv, NamesInv, Open
<1>4. QED
  BY <1>1, <1>2, <1>3, NewWorkTypes, ProvisionTypes, HandlingTypes, TrackingTypes, UserTypes,
     TaskTypes, CrashTypes DEF Next

LEMMA TypeInvariant == Spec => []TypeInv
BY InitTypes, StepTypes, PTL DEF Spec

\* Every variable has its type whoever crashes and however the calls interleave: in
\* particular the task a row, a request or a tick names is one the hypervisor was
\* given, so that the tracker never polls a task that is not there.
THEOREM TypeCorrect == Spec => []TypeOK
<1>1. TypeInv => TypeOK
  BY DEF TypeInv
<1>2. QED
  BY <1>1, TypeInvariant, PTL

(***************************************************************************)
(* Machines in sight.  The hypotheses: one tracker; and either one admin   *)
(* request at a time, or no row ever left with the kind of a task and no   *)
(* task, as a provisioning leaves it that ends while a request's task is   *)
(* on its row (provisioner.py's last commits reset the UPID alone).        *)
(***************************************************************************)
OneTracker  == \A t, u \in Trackers : t = u
OneRequest  == Overlap <= 1
NoStaleKind == \A d \in Desktops : desk[d].upid = NoTask => desk[d].kind = "none"

Early     == {"reserved", "dispatched"}
OnRow(p)  == p \in Trackers /\ run[p].desk = trk[p].cur.desk
Present(d) == desk[d].status # "absent"
Polled(t)  == trk[t].at \notin {"idle", "ticking"}

\* Until its clone is on record, a run has its desktop to itself: a desktop without a
\* row, or the row whose rebuild its tracker follows up.
PlaceInv ==
    \A p \in Runs : run[p].at \in Early =>
         /\ OnRow(p) => Visible(run[p].desk)
         /\ ~ OnRow(p) => ~ Present(run[p].desk)

AloneInv ==
    \A p, q \in Runs : run[p].at \in Early /\ run[q].at \in Early
                         /\ run[p].desk = run[q].desk => p = q

\* The row a run works on is in provisioning and has no kind.
RunRowInv ==
    \A p \in Runs :
         run[p].at \notin {"off", "done"} \/ (p \in Trackers /\ trk[p].at = "rebuild") =>
            run[p].row.status = "provisioning" /\ run[p].row.kind = "none"

\* Requests and ticks are about desktops that have, or had, a row.
PresentInv ==
    /\ \A r \in Requests : Open(r) => Present(req[r].desk)
    /\ \A t \in Trackers : /\ \A x \in trk[t].todo : Present(x.desk)
                           /\ Polled(t) => Present(trk[t].cur.desk)

DestroyOf(u, d) == u \in DOMAIN tasks /\ tasks[u].op = "destroy" /\ tasks[u].desk = d

\* Where the kind says that a machine is removed, the task is that machine's removal.
KindInv ==
    /\ \A d \in Desktops : desk[d].kind \in RemoveOps /\ desk[d].upid # NoTask =>
           DestroyOf(desk[d].upid, d)
    /\ \A t \in Trackers : \A x \in trk[t].todo : x.kind \in RemoveOps => DestroyOf(x.upid, x.desk)
    /\ \A t \in Trackers :
         /\ trk[t].at \in {"ok", "rebuild"} /\ trk[t].cur.kind \in RemoveOps =>
              DestroyOf(trk[t].cur.upid, trk[t].cur.desk) /\ tasks[trk[t].cur.upid].state = "ok"
         /\ trk[t].at = "rebuild" => trk[t].cur.kind = "rebuild"
    /\ \A r \in Requests : req[r].at = "issued" /\ req[r].op \in RemoveOps =>
           DestroyOf(req[r].upid, req[r].desk)

\* A request that will put a task on the row read it without one, and will not find
\* a kind there that it takes for its own.
ReadInv ==
    /\ \A r \in Requests : Open(r) /\ req[r].op \in PowerOps \cup RemoveOps =>
         /\ req[r].saw.upid = NoTask
         /\ \/ req[r].saw.kind = "none"
            \/ OneRequest /\ desk[req[r].desk].kind \in {"none", req[r].saw.kind}
    /\ OneRequest => \A q, r \in Requests : Open(q) /\ Open(r) => q = r

\* A task that a request has still to record is known to nobody else; a tick has one
\* task of a desktop at a time, and has taken a rebuild's task off the row.
Known(u) ==
    \/ \E d \in Desktops : desk[d].upid = u
    \/ \E p \in Runs : run[p].at = "dispatched" /\ run[p].upid = u
    \/ \E t \in Trackers : \E x \in trk[t].todo : x.upid = u
    \/ \E t \in Trackers : Polled(t) /\ trk[t].cur.upid = u

UniqueInv ==
    \A r \in Requests : req[r].at = "issued" =>
         /\ \A q \in Requests \ {r} : req[q].at = "issued" => req[q].upid # req[r].upid
         /\ ~ Known(req[r].upid)

TickInv ==
    \A t \in Trackers :
         /\ \A x, y \in trk[t].todo : x.desk = y.desk => x = y
         /\ Polled(t) => /\ trk[t].cur.upid \in DOMAIN tasks
                         /\ \A x \in trk[t].todo : x.desk # trk[t].cur.desk
         /\ trk[t].at = "rebuild" => desk[trk[t].cur.desk].upid # trk[t].cur.upid

\* The removal of a machine that somebody has still to act upon: the request that
\* will record it, the row, the tick's list, the tick itself.
Asks(u, d)   == \E r \in Requests : /\ req[r].at = "issued" /\ req[r].op \in RemoveOps
                                   /\ req[r].desk = d /\ req[r].upid = u
Stands(u, d) == Visible(d) /\ desk[d].kind \in RemoveOps /\ desk[d].upid = u
Listed(u, d) == \E t \in Trackers : \E x \in trk[t].todo :
                   x.kind \in RemoveOps /\ x.desk = d /\ x.upid = u
Found(u, d)  == \E t \in Trackers : /\ trk[t].at \in {"ok", "rebuild"} /\ trk[t].cur.kind \in RemoveOps
                                   /\ trk[t].cur.desk = d /\ trk[t].cur.upid = u
Waits(u, d)  == Asks(u, d) \/ Stands(u, d) \/ Listed(u, d) \/ Found(u, d)

\* Such a removal, carried out.
Ended(u, d) == DestroyOf(u, d) /\ tasks[u].state = "ok" /\ Waits(u, d)

\* While a removal that was carried out waits to be acted upon, the machine is gone,
\* and there is one such removal; it has been acted upon before a clone takes over.
EndedInv ==
    /\ \A d \in Desktops : \A u \in DOMAIN tasks : Ended(u, d) => vm[d] = "none"
    /\ \A d \in Desktops : \A u, v \in DOMAIN tasks : Ended(u, d) /\ Ended(v, d) => u = v
    /\ \A t \in Trackers : run[t].at = "reserved" /\ OnRow(t) =>
          /\ vm[run[t].desk] = "none"
          /\ \A u \in DOMAIN tasks : ~ Ended(u, run[t].desk)

\* Until the first crash.
SightInv == crashes = 0 => VMsAccounted

Inv2 == /\ PlaceInv /\ AloneInv /\ RunRowInv /\ PresentInv /\ KindInv /\ ReadInv
        /\ UniqueInv /\ TickInv /\ EndedInv /\ SightInv
IInv == TypeInv /\ Inv2

\* Nothing new waits, and no machine comes into being.
LEMMA EndedFrame ==
    ASSUME EndedInv,
           \A d \in Desktops : \A u \in DOMAIN tasks' :
              Ended(u, d)' => u \in DOMAIN tasks /\ Ended(u, d),
           \A d \in Desktops : vm[d] = "none" => vm'[d] = "none",
           \A t \in Trackers : (run[t].at = "reserved" /\ OnRow(t))' =>
              run[t].at = "reserved" /\ OnRow(t) /\ run[t].desk \in Desktops /\ run'[t].desk = run[t].desk
    PROVE  EndedInv'
<1>1. /\ \A d \in Desktops : \A u \in DOMAIN tasks : Ended(u, d) => vm[d] = "none"
      /\ \A d \in Desktops : \A u, v \in DOMAIN tasks : Ended(u, d) /\ Ended(v, d) => u = v
      /\ \A t \in Trackers : run[t].at = "reserved" /\ OnRow(t) =>
            /\ vm[run[t].desk] = "none"
            /\ \A u \in DOMAIN tasks : ~ Ended(u, run[t].desk)
  BY DEF EndedInv
<1>2. (\A d \in Desktops : \A u \in DOMAIN tasks : Ended(u, d) => vm[d] = "none")'
  BY <1>1
<1>3. (\A d \in Desktops : \A u, v \in DOMAIN tasks : Ended(u, d) /\ Ended(v, d) => u = v)'
  BY <1>1
<1>4. ASSUME NEW t \in Trackers, (run[t].at = "reserved" /\ OnRow(t))'
      PROVE  (/\ vm[run[t].desk] = "none"
              /\ \A u \in DOMAIN tasks : ~ Ended(u, run[t].desk))'
  BY <1>1, <1>4
<1>5. QED
  BY <1>2, <1>3, <1>4 DEF EndedInv

\* Without a new task, request or verdict, and with rows only losing their kind, the
\* kinds go on naming removals.
LEMMA KindFrame ==
    ASSUME KindInv, UNCHANGED <<req, tasks>>,
           \A d \in Desktops : desk'[d] = desk[d] \/ desk'[d].kind = "none",
           \A t \in Trackers : /\ trk'[t].todo = trk[t].todo /\ trk'[t].cur = trk[t].cur
                               /\ trk'[t].at \in {"ok", "rebuild"} => trk'[t].at = trk[t].at
    PROVE  KindInv'
<1>1. (\A d \in Desktops : desk[d].kind \in RemoveOps /\ desk[d].upid # NoTask =>
          DestroyOf(desk[d].upid, d))'
  BY DEF KindInv, DestroyOf, RemoveOps
<1>2. (\A t \in Trackers : \A x \in trk[t].todo : x.kind \in RemoveOps => DestroyOf(x.upid, x.desk))'
  BY DEF KindInv, DestroyOf
<1>3. (\A t \in Trackers :
         /\ trk[t].at \in {"ok", "rebuild"} /\ trk[t].cur.kind \in RemoveOps =>
              DestroyOf(trk[t].cur.upid, trk[t].cur.desk) /\ tasks[trk[t].cur.upid].state = "ok"
         /\ trk[t].at = "rebuild" => trk[t].cur.kind = "rebuild")'
  BY DEF KindInv, DestroyOf
<1>4. (\A r \in Requests : req[r].at = "issued" /\ req[r].op \in RemoveOps =>
          DestroyOf(req[r].upid, req[r].desk))'
  BY DEF KindInv, DestroyOf
<1>5. QED
  BY <1>1, <1>2, <1>3, <1>4 DEF KindInv

\* What is known stays what it was, but for tasks just started.
LEMMA UniqueFrame ==
    ASSUME TypeInv, UniqueInv,
           \A r \in Requests : req'[r].at = "issued" => req[r].at = "issued" /\ req'[r].upid = req[r].upid,
           \A u \in DOMAIN tasks : Known(u)' => Known(u)
    PROVE  UniqueInv'
<1>1. \A r \in Requests : req[r].at = "issued" =>
         /\ req[r].upid \in DOMAIN tasks /\ ~ Known(req[r].upid)
         /\ \A q \in Requests \ {r} : req[q].at = "issued" => req[q].upid # req[r].upid
  BY DEF TypeInv, NamesInv, UniqueInv
<1>2. ASSUME NEW r \in Requests, req'[r].at = "issued"
      PROVE  /\ \A q \in Requests \ {r} : req'[q].at = "issued" => req'[q].upid # req'[r].upid
             /\ ~ Known(req[r].upid)'
  <2>1. req[r].at = "issued" /\ req'[r].upid = req[r].upid
    BY <1>2
  <2>2. ~ Known(req[r].upid)'
    <3> DEFINE u == req[r].upid
    <3>1. u \in DOMAIN tasks /\ ~ Known(u)
      BY <1>1, <2>1
    <3>2. PICK v : v = u
      OBVIOUS
    <3>3. ~ Known(v)'
      BY <3>1, <3>2
    <3>4. req'[r].upid = v
      BY <2>1, <3>2
    <3>5. QED
      BY <3>3, <3>4
  <2>3. QED
    BY <1>1, <2>1, <2>2
<1>3. QED
  BY <1>2 DEF UniqueInv

InSight(d) == Visible(d) \/ \E p \in Runs : run[p].desk = d /\ run[p].at = "dispatched"

\* Machines that exist stay where they can be seen.
LEMMA SightFrame ==
    ASSUME SightInv, crashes' = 0 => crashes = 0,
           \A d \in Desktops : vm'[d] # "none" => vm[d] # "none" \/ InSight(d)',
           \A d \in Desktops : InSight(d) /\ crashes' = 0 => InSight(d)'
    PROVE  SightInv'
<1>1. crashes = 0 => \A d \in Desktops : vm[d] # "none" => InSight(d)
  BY DEF SightInv, VMsAccounted, InSight
<1>2. crashes' = 0 => \A d \in Desktops : vm'[d] # "none" => InSight(d)'
  BY <1>1
<1>3. QED
  BY <1>2 DEF SightInv, VMsAccounted, InSight

\* Steps that put no task on a row or on a tick's list and start none: what they do to
\* each part of the state.
QuietRows ==
    \A d \in Desktops :
       /\ desk'[d].upid \in {NoTask, desk[d].upid} /\ desk'[d].kind \in {"none", desk[d].kind}
       /\ Present(d) => Present(d)'
       /\ Visible(d) => Visible(d)'
       /\ Visible(d)' /\ ~ Visible(d) => desk'[d].kind = "none"
       /\ Present(d)' /\ ~ Present(d) => \A p \in Runs : run'[p].at \in Early => run[p].desk # d

QuietRequests ==
    \A r \in Requests :
       /\ Open(r)' => /\ Open(r) /\ req'[r].op = req[r].op
                      /\ req'[r].desk = req[r].desk /\ req'[r].saw = req[r].saw
       /\ req'[r].at = "issued" => req[r].at = "issued" /\ req'[r].upid = req[r].upid

QuietRuns ==
    \A p \in Runs :
       /\ run'[p].at \notin {"off", "done"} =>
             /\ run[p].at \notin {"off", "done"} /\ run'[p].desk = run[p].desk
             /\ run'[p].row = run[p].row /\ run'[p].upid = run[p].upid
             /\ run'[p].at \in Early => run'[p].at = run[p].at
       /\ run[p].at = "dispatched" /\ crashes' = 0 => run'[p].at = "dispatched"

QuietTicks ==
    \A t \in Trackers :
       /\ trk'[t].todo \subseteq trk[t].todo
       /\ Polled(t)' => /\ trk'[t].at = trk[t].at /\ trk'[t].cur = trk[t].cur
                        /\ trk[t].at = "rebuild" => run'[t].row = run[t].row

LEMMA QuietStep ==
    ASSUME IInv, TypeInv', QuietRows, QuietRequests, QuietRuns, QuietTicks, UNCHANGED tasks,
           \A d \in Desktops : vm'[d] = "none" <=> vm[d] = "none",
           crashes' = 0 => crashes = 0
    PROVE  Inv2'
<1>1. \A p \in Runs : run'[p].at \in Early =>
         /\ run[p].at \in Early /\ run[p].desk \in Desktops /\ run'[p].desk = run[p].desk
         /\ OnRow(p)' <=> OnRow(p)
  <2> TAKE p \in Runs
  <2> HAVE run'[p].at \in Early
  <2>1. run'[p].at \notin {"off", "done"}
    BY DEF Early
  <2>2. /\ run[p].at \in Early /\ run[p].at \notin {"off", "done"} /\ run'[p].desk = run[p].desk
    BY <2>1 DEF QuietRuns
  <2>3. run[p].desk \in Desktops /\ (p \in Trackers => trk'[p].at = "provisioning")
    BY <2>1, <2>2 DEF IInv, TypeInv, ActorsInv
  <2>4. p \in Trackers => trk'[p].cur = trk[p].cur
    BY <2>3 DEF QuietTicks, Polled
  <2>5. QED
    BY <2>2, <2>3, <2>4 DEF OnRow
<1>2. PlaceInv' /\ AloneInv' /\ RunRowInv'
  <2>1. PlaceInv'
    BY <1>1 DEF IInv, Inv2, PlaceInv, QuietRows, Visible, Present
  <2>2. \A p, q \in Runs : run'[p].at \in Early /\ run'[q].at \in Early
                            /\ run'[p].desk = run'[q].desk => p = q
    BY <1>1 DEF IInv, Inv2, AloneInv
  <2>3. \A p \in Runs :
         run'[p].at \notin {"off", "done"} \/ (p \in Trackers /\ trk'[p].at = "rebuild") =>
            run'[p].row.status = "provisioning" /\ run'[p].row.kind = "none"
    BY DEF IInv, Inv2, RunRowInv, QuietRuns, QuietTicks, Polled
  <2>4. QED
    BY <2>1, <2>2, <2>3 DEF AloneInv, RunRowInv
<1>3. PresentInv'
  BY DEF IInv, Inv2, TypeInv, ActorsInv, PresentInv, Polled, QuietRows, QuietRequests, QuietTicks
<1>4. KindInv'
  <2>1. \A u, d : DestroyOf(u, d) => DestroyOf(u, d)'
    BY DEF DestroyOf
  <2>2. \A d \in Desktops : desk'[d].kind \in RemoveOps /\ desk'[d].upid # NoTask =>
           DestroyOf(desk[d].upid, d)'
    BY <2>1 DEF IInv, Inv2, KindInv, QuietRows, RemoveOps
  <2>3. \A t \in Trackers : \A x \in trk'[t].todo : x.kind \in RemoveOps => DestroyOf(x.upid, x.desk)'
    BY <2>1 DEF IInv, Inv2, KindInv, QuietTicks
  <2>4. \A t \in Trackers :
         /\ trk'[t].at \in {"ok", "rebuild"} /\ trk'[t].cur.kind \in RemoveOps =>
              /\ DestroyOf(trk[t].cur.upid, trk[t].cur.desk)'
              /\ tasks'[trk'[t].cur.upid].state = "ok"
         /\ trk'[t].at = "rebuild" => trk'[t].cur.kind = "rebuild"
    BY <2>1 DEF IInv, Inv2, KindInv, QuietTicks, Polled, DestroyOf
  <2>5. \A r \in Requests : req'[r].at = "issued" /\ req'[r].op \in RemoveOps =>
           DestroyOf(req[r].upid, req[r].desk)'
    BY <2>1 DEF IInv, Inv2, KindInv, QuietRequests, Open, DestroyOf
  <2>6. QED
    BY <2>2, <2>3, <2>4, <2>5 DEF KindInv
<1>5. ReadInv'
  BY DEF IInv, Inv2, TypeInv, ActorsInv, ReadInv, QuietRows, QuietRequests
<1>6. UniqueInv'
  <2>1. \A p \in Runs : run'[p].at = "dispatched" => run[p].at = "dispatched" /\ run'[p].upid = run[p].upid
    BY DEF QuietRuns, Early
  <2>2. \A r \in Requests : req'[r].at = "issued" => req[r].at = "issued" /\ req'[r].upid = req[r].upid
    BY DEF QuietRequests
  <2>3. \A u \in DOMAIN tasks : u # NoTask
    BY DEF IInv, TypeInv, TypeOK, NoTask
  <2>4. \A u \in DOMAIN tasks : Known(u)' => Known(u)
    BY ONLY <2>1, <2>3, QuietRows, QuietTicks DEF Known, QuietRows, QuietTicks, Polled
  <2>5. QED
    BY <2>2, <2>4, UniqueFrame DEF IInv, Inv2
<1>10. TickInv'
  <2>1. \A t \in Trackers : Polled(t) => trk[t].cur.desk \in Desktops
    BY DEF IInv, TypeInv, ActorsInv, Polled
  <2>2. TickInv /\ \A d \in Desktops : desk'[d].upid \in {NoTask, desk[d].upid}
    BY DEF IInv, Inv2, QuietRows
  <2>3. \A u \in DOMAIN tasks : u # NoTask
    BY DEF IInv, TypeInv, TypeOK, NoTask
  <2>4. QED
    BY ONLY <2>1, <2>2, <2>3, QuietTicks, UNCHANGED tasks DEF TickInv, Polled, QuietTicks
<1>7. EndedInv'
  <2>1. \A d \in Desktops : \A u \in DOMAIN tasks : (Waits(u, d))' => Waits(u, d)
    <3> TAKE d \in Desktops
    <3> TAKE u \in DOMAIN tasks
    <3>1. Asks(u, d)' => Asks(u, d)
      BY DEF Asks, QuietRequests, Open
    <3>2. Stands(u, d)' => Stands(u, d)
      BY DEF Stands, QuietRows, RemoveOps, NoTask, IInv, TypeInv, TypeOK
    <3>3. Listed(u, d)' => Listed(u, d)
      BY DEF Listed, QuietTicks
    <3>4. Found(u, d)' => Found(u, d)
      BY DEF Found, QuietTicks, Polled
    <3>5. QED
      BY <3>1, <3>2, <3>3, <3>4 DEF Waits
  <2>2. \A d \in Desktops : \A u \in DOMAIN tasks' : Ended(u, d)' => u \in DOMAIN tasks /\ Ended(u, d)
    BY <2>1 DEF Ended, DestroyOf
  <2>3. \A t \in Trackers : (run[t].at = "reserved" /\ OnRow(t))' =>
           run[t].at = "reserved" /\ OnRow(t) /\ run[t].desk \in Desktops /\ run'[t].desk = run[t].desk
    BY <1>1 DEF Early, Runs, QuietRuns
  <2>4. QED
    BY <2>2, <2>3, EndedFrame DEF IInv, Inv2
<1>8. SightInv'
  <2>1. \A d \in Desktops : InSight(d) /\ crashes' = 0 => InSight(d)'
    BY DEF InSight, QuietRuns, QuietRows
  <2>2. QED
    BY <2>1, SightFrame DEF IInv, Inv2
<1>9. QED
  BY <1>2, <1>3, <1>4, <1>5, <1>6, <1>10, <1>7, <1>8 DEF Inv2

(***************************************************************************)
(* The steps, one by one                                                   *)
(***************************************************************************)

\* A call's last commit clears the row, whatever else stands there by then.
LEMMA CommitStep ==
    ASSUME IInv, TypeInv', NEW p \in Runs, run[p].at \notin {"off", "done", "dispatched"},
           NEW status \in {"assigned", "available", "error"}, ProvisionCommits(p, status)
    PROVE  Inv2'
<1>0. PICK d \in Desktops : d = run[p].desk
  BY DEF IInv, TypeInv, ActorsInv
<1> DEFINE new == [run[p].row EXCEPT !.status = status, !.upid = NoTask]
<1>1. /\ run[p].row \in Row /\ new \in Row /\ new.upid = NoTask /\ new.status = status
      /\ new.kind = "none" /\ run[p].row.kind = "none"
  <2>1. run[p].row \in Row /\ run[p].row.kind = "none"
    BY DEF IInv, TypeInv, TypeOK, Inv2, RunRowInv, ProvisionRun
  <2>2. status \in Status
    BY DEF Status
  <2>3. QED
    BY ONLY <2>1, <2>2 DEF Row
<1>2. /\ IF run[p].at = "reserved" THEN desk' = [desk EXCEPT ![d] = new]
         ELSE IF Visible(d) THEN desk' = [desk EXCEPT ![d] = Flush(desk[d], run[p].row, new)]
         ELSE UNCHANGED desk
      /\ Returned(p) /\ UNCHANGED <<req, con, vm, tasks, pool, crashes>>
  BY <1>0 DEF ProvisionCommits
<1>3. /\ run'[p].at \in {"off", "done"} /\ \A q \in Runs \ {p} : run'[q] = run[q]
      /\ \A t \in Trackers : trk'[t].todo = trk[t].todo /\ trk'[t].cur = trk[t].cur
      /\ \A t \in Trackers \ {p} : trk'[t].at = trk[t].at
      /\ p \in Trackers => trk'[p].at = "ticking"
  BY <1>2, ReturnedTypes DEF IInv
<1> HIDE DEF new
<1>4. desk \in [Desktops -> Row]
  BY DEF IInv, TypeInv, TypeOK
<1>5. \A e \in Desktops \ {d} : desk'[e] = desk[e]
  BY <1>2, <1>4
<1>6. /\ desk'[d].upid \in {NoTask, desk[d].upid} /\ desk'[d].kind \in {"none", desk[d].kind}
      /\ Visible(d) => Visible(d)'
      /\ Visible(d)' /\ ~ Visible(d) => run[p].at = "reserved" /\ desk'[d].kind = "none"
      /\ Present(d) => Present(d)'
      /\ Present(d)' /\ ~ Present(d) => run[p].at = "reserved"
  <2>1. CASE run[p].at = "reserved"
    BY <1>1, <1>2, <1>4, <2>1 DEF Visible, Present
  <2>2. CASE run[p].at # "reserved"
    BY <1>1, <1>2, <1>4, <2>2, FlushEffect DEF Visible, Present
  <2>3. QED
    BY <2>1, <2>2
<1>7. QuietRows
  <2>1. \A q \in Runs : run[p].at = "reserved" /\ run'[q].at \in Early => run[q].desk # d
    BY <1>0, <1>3 DEF IInv, Inv2, AloneInv, Early
  <2>2. QED
    BY <1>5, <1>6, <2>1 DEF QuietRows, Visible, Present
<1>8. QuietRequests /\ QuietRuns /\ QuietTicks
  BY <1>2, <1>3 DEF QuietRequests, QuietRuns, QuietTicks, Open, Polled, Runs
<1>9. QED
  BY <1>2, <1>7, <1>8, QuietStep

LEMMA QuietProvisioning ==
    ASSUME IInv, TypeInv', NEW p \in Runs,
           \/ ProvisionBoots(p) \/ ProvisionSnapshots(p) \/ ProvisionRestarts(p)
           \/ ProvisionDone(p) \/ ProvisionFails(p)
    PROVE  Inv2'
<1>1. CASE ProvisionBoots(p) \/ ProvisionSnapshots(p) \/ ProvisionRestarts(p)
  <2>1. /\ run[p].at \in {"cloning", "booted", "snapped"} /\ run \in [Runs -> ProvisionRun]
        /\ UNCHANGED <<desk, req, trk, con, tasks, pool, crashes>>
    BY <1>1 DEF ProvisionBoots, ProvisionSnapshots, ProvisionRestarts, IInv, TypeInv, TypeOK
  <2>2. PICK at \in {"booted", "snapped", "ready"} : run' = [run EXCEPT ![p].at = at]
    BY <1>1 DEF ProvisionBoots, ProvisionSnapshots, ProvisionRestarts
  <2>3. /\ run'[p].desk = run[p].desk /\ run'[p].row = run[p].row /\ run'[p].upid = run[p].upid
        /\ run'[p].at = at
    BY <2>1, <2>2 DEF ProvisionRun
  <2>4. \A q \in Runs \ {p} : run'[q] = run[q]
    BY <2>1, <2>2
  <2>5. \A d \in Desktops : vm'[d] = "none" <=> vm[d] = "none"
    BY <1>1 DEF ProvisionBoots, ProvisionSnapshots, ProvisionRestarts, IInv, TypeInv, TypeOK
  <2>6. QuietRuns
    BY <2>1, <2>3, <2>4 DEF QuietRuns, Early
  <2>7. QuietRows /\ QuietRequests /\ QuietTicks
    BY <2>1, <2>3, <2>4 DEF QuietRows, QuietRequests, QuietTicks, Open, Polled, Visible, Present, Runs
  <2>8. QED
    BY <2>1, <2>5, <2>6, <2>7, QuietStep
<1>2. CASE ProvisionDone(p) \/ ProvisionFails(p)
  BY <1>2, CommitStep DEF ProvisionDone, ProvisionFails
<1>3. QED
  BY <1>1, <1>2

\* Requests that stop a machine or give up, and users.
LEMMA QuietRequestStep ==
    ASSUME IInv, TypeInv', NEW r \in Requests, AdminStops(r) \/ AdminFails(r)
    PROVE  Inv2'
<1>1. /\ UNCHANGED <<desk, run, trk, con, tasks, pool, crashes>>
      /\ \A d \in Desktops : vm'[d] = "none" <=> vm[d] = "none"
  BY DEF AdminStops, AdminFails, IInv, TypeInv, TypeOK
<1>2. /\ \A q \in Requests \ {r} : req'[q] = req[q]
      /\ \/ req'[r].at = "done"
         \/ /\ req[r].at = "read" /\ req'[r].at = "stopped" /\ req'[r].op = req[r].op
            /\ req'[r].desk = req[r].desk /\ req'[r].saw = req[r].saw
  BY Constants DEF AdminStops, AdminFails, Answer, IdleReq, IInv, TypeInv, TypeOK, Request
<1>3. QuietRequests
  BY <1>2 DEF QuietRequests, Open
<1>4. QuietRows /\ QuietRuns /\ QuietTicks
  BY <1>1 DEF QuietRows, QuietRuns, QuietTicks, Polled, Visible, Present, Early, IInv, Inv2, PlaceInv
<1>5. QED
  BY <1>1, <1>3, <1>4, QuietStep

LEMMA UserStep ==
    ASSUME IInv, TypeInv', NEW c \in Connects, Connecting(c) \/ SessionEnds(c)
    PROVE  Inv2'
<1>1. QuietRows
  BY UserEffect DEF IInv, QuietRows, Visible, Present
<1>2. QuietRequests /\ QuietRuns /\ QuietTicks /\ UNCHANGED tasks /\ crashes' = crashes
  BY UserEffect DEF IInv, QuietRequests, QuietRuns, QuietTicks, Polled, Open
<1>3. \A d \in Desktops : vm'[d] = "none" <=> vm[d] = "none"
  BY UserEffect DEF IInv
<1>4. QED
  BY <1>1, <1>2, <1>3, QuietStep

\* A verdict is dropped, or clears the row of its task.
LEMMA VerdictStep ==
    ASSUME IInv, TypeInv', NEW t \in Trackers, NextOne(t),
           UNCHANGED <<req, run, con, vm, tasks, pool, crashes>>,
           \A d \in Desktops :
              \/ desk'[d] = desk[d]
              \/ /\ desk'[d].upid = NoTask /\ desk'[d].kind = "none"
                 /\ Visible(d) /\ Visible(d)'
    PROVE  Inv2'
<1>1. QuietRows
  BY DEF QuietRows, Visible, Present
<1>2. QuietTicks
  BY NextOneTypes DEF IInv, QuietTicks, Polled
<1>3. QuietRequests /\ QuietRuns
  BY DEF QuietRequests, QuietRuns, Open
<1>4. QED
  BY <1>1, <1>2, <1>3, QuietStep

LEMMA QuietTracking ==
    ASSUME IInv, TypeInv', NEW t \in Trackers,
           \/ TickEnds(t) \/ MarkTaskError(t) \/ ApplyPower(t)
           \/ (ApplyDestroy(t) \/ ApplyRebuild(t)) /\ ~ Visible(trk[t].cur.desk)
           \/ Reprovision(t) /\ Returned(t)
    PROVE  Inv2'
<1>0. t \in Runs
  BY DEF Runs
<1>1. CASE TickEnds(t)
  <2>1. /\ UNCHANGED <<desk, req, run, con, vm, tasks, pool, crashes>>
        /\ trk'[t].at = "idle" /\ trk'[t].todo = {} /\ \A u \in Trackers \ {t} : trk'[u] = trk[u]
    BY <1>1, Constants DEF TickEnds, IdleTick, IInv, TypeInv, TypeOK
  <2>2. QuietTicks
    BY <2>1 DEF QuietTicks, Polled
  <2>3. QuietRows /\ QuietRequests /\ QuietRuns
    BY <2>1 DEF QuietRows, QuietRequests, QuietRuns, Open, Visible, Present
  <2>4. QED
    BY <2>1, <2>2, <2>3, QuietStep
<1>2. CASE MarkTaskError(t) \/ ApplyPower(t)
  <2>1. PICK d \in Desktops : d = trk[t].cur.desk
    BY <1>2 DEF MarkTaskError, ApplyPower, IInv, TypeInv, ActorsInv
  <2>2. NextOne(t) /\ UNCHANGED <<req, run, con, vm, tasks, pool, crashes>>
    BY <1>2 DEF MarkTaskError, ApplyPower
  <2>3. \/ desk' = desk
        \/ Visible(d) /\ desk' = [desk EXCEPT ![d].status = "error", ![d].upid = NoTask, ![d].kind = "none"]
        \/ Visible(d) /\ desk' = [desk EXCEPT ![d].upid = NoTask, ![d].kind = "none"]
    BY <1>2, <2>1 DEF MarkTaskError, ApplyPower
  <2>4. \A e \in Desktops :
          \/ desk'[e] = desk[e]
          \/ /\ desk'[e].upid = NoTask /\ desk'[e].kind = "none"
             /\ Visible(e) /\ Visible(e)'
    <3>1. CASE UNCHANGED desk
      BY <3>1
    <3>2. CASE Visible(d) /\ desk' = [desk EXCEPT ![d].status = "error", ![d].upid = NoTask, ![d].kind = "none"]
      <4>1. /\ \A e \in Desktops \ {d} : desk'[e] = desk[e]
            /\ desk'[d].status = "error" /\ desk'[d].upid = NoTask /\ desk'[d].kind = "none"
        BY <3>2, RowCleared DEF IInv, Status
      <4>2. QED
        BY <3>2, <4>1 DEF Visible
    <3>3. CASE Visible(d) /\ desk' = [desk EXCEPT ![d].upid = NoTask, ![d].kind = "none"]
      <4>1. /\ \A e \in Desktops \ {d} : desk'[e] = desk[e]
            /\ desk'[d].status = desk[d].status /\ desk'[d].upid = NoTask /\ desk'[d].kind = "none"
        BY <3>3, TaskCleared DEF IInv
      <4>2. QED
        BY <3>3, <4>1 DEF Visible
    <3>4. QED
      BY <2>3, <3>1, <3>2, <3>3
  <2>5. QED
    BY <2>2, <2>4, VerdictStep
<1>3. CASE (ApplyDestroy(t) \/ ApplyRebuild(t)) /\ ~ Visible(trk[t].cur.desk)
  BY <1>3, VerdictStep DEF ApplyDestroy, ApplyRebuild
<1>4. CASE Reprovision(t) /\ Returned(t)
  <2>1. /\ trk[t].at = "rebuild" /\ UNCHANGED <<desk, req, con, vm, tasks, pool, crashes>>
    BY <1>4 DEF Reprovision
  <2>2. run'[t].at = "off" /\ \A q \in Runs \ {t} : run'[q] = run[q]
    BY <1>0, <1>4 DEF Returned, IdleRun, IInv, TypeInv, TypeOK
  <2>3. NextOne(t)
    BY <1>4 DEF Returned, NextOne
  <2>4. run[t].at \in {"off", "done"}
    BY <1>0, <2>1 DEF IInv, TypeInv, ActorsInv
  <2>5. QuietTicks
    BY <2>2, <2>3, NextOneTypes DEF IInv, QuietTicks, Polled, Runs
  <2>6. QuietRows /\ QuietRequests /\ QuietRuns
    BY <2>1, <2>2, <2>4 DEF QuietRows, QuietRequests, QuietRuns, Open, Visible, Present
  <2>7. QED
    BY <2>1, <2>5, <2>6, QuietStep
<1>5. QED
  BY <1>1, <1>2, <1>3, <1>4

LEMMA SweepStep ==
    ASSUME IInv, TypeInv', NEW d \in Desktops, SweepStuck(d)
    PROVE  Inv2'
<1>1. /\ desk' = [desk EXCEPT ![d].status = "error", ![d].upid = NoTask, ![d].kind = "none"]
      /\ Visible(d) /\ UNCHANGED <<req, run, trk, con, vm, tasks, pool, crashes>>
  BY DEF SweepStuck, Visible
<1>2. QuietRows
  BY <1>1, RowCleared DEF IInv, Status, QuietRows, Visible, Present
<1>3. QuietRequests /\ QuietRuns /\ QuietTicks
  BY <1>1 DEF QuietRequests, QuietRuns, QuietTicks, Open, Polled
<1>4. QED
  BY <1>1, <1>2, <1>3, QuietStep

LEMMA CrashStep ==
    ASSUME IInv, TypeInv', Crash
    PROVE  Inv2'
<1>1. UNCHANGED <<desk, vm, tasks, pool>> /\ crashes' # 0
  BY DEF Crash, IInv, TypeInv, TypeOK
<1>2. QuietRows
  BY <1>1 DEF QuietRows, Visible, Present
<1>3. ASSUME NEW r \in Requests, Answer(r), UNCHANGED <<run, trk, con>>
      PROVE  QuietRequests /\ QuietRuns /\ QuietTicks
  <2>1. req'[r].at = "done" /\ \A q \in Requests \ {r} : req'[q] = req[q]
    BY <1>3 DEF Answer, IdleReq, IInv, TypeInv, TypeOK
  <2>2. QED
    BY <1>3, <2>1 DEF QuietRequests, QuietRuns, QuietTicks, Open, Polled
<1>4. ASSUME NEW p \in Provisions, run[p].at \notin {"off", "done"}, Returned(p), UNCHANGED <<req, con>>
      PROVE  QuietRequests /\ QuietRuns /\ QuietTicks
  <2>1. p \in Runs /\ p \notin Trackers /\ trk' = trk
    BY <1>4, ActorsAssumption DEF Runs, Returned
  <2>2. run'[p].at \in {"off", "done"} /\ \A q \in Runs \ {p} : run'[q] = run[q]
    BY <1>4, <2>1, ReturnedTypes DEF IInv
  <2>3. QED
    BY <1>1, <1>4, <2>1, <2>2 DEF QuietRequests, QuietRuns, QuietTicks, Open, Polled, Runs
<1>5. ASSUME NEW t \in Trackers, trk' = [trk EXCEPT ![t] = IdleTick], run' = [run EXCEPT ![t] = IdleRun],
             UNCHANGED <<req, con>>
      PROVE  QuietRequests /\ QuietRuns /\ QuietTicks
  <2>1. /\ run'[t].at = "off" /\ \A q \in Runs \ {t} : run'[q] = run[q]
        /\ trk'[t].at = "idle" /\ trk'[t].todo = {} /\ \A u \in Trackers \ {t} : trk'[u] = trk[u]
    BY <1>5 DEF Runs, IdleRun, IdleTick, IInv, TypeInv, TypeOK
  <2>2. QED
    BY <1>1, <1>5, <2>1 DEF QuietRequests, QuietRuns, QuietTicks, Open, Polled, Runs
<1>6. QED
  BY <1>1, <1>2, <1>3, <1>4, <1>5, QuietStep DEF Crash

\* Nothing waits at a desktop that has no row yet.
LEMMA NothingWaits ==
    ASSUME IInv, NEW d \in Desktops, ~ Present(d), NEW u
    PROVE  ~ Waits(u, d)
<1>1. ~ Asks(u, d)
  BY DEF Asks, IInv, Inv2, PresentInv, Open
<1>2. ~ Stands(u, d)
  BY DEF Stands, Visible, Present
<1>3. ~ Listed(u, d)
  BY DEF Listed, IInv, Inv2, PresentInv
<1>4. ~ Found(u, d)
  BY DEF Found, IInv, Inv2, PresentInv, Polled
<1>5. QED
  BY <1>1, <1>2, <1>3, <1>4 DEF Waits

LEMMA ProvisionNewStep ==
    ASSUME IInv, TypeInv', NEW p \in Provisions, NEW d \in Desktops, NEW taken \in {FALSE, Persistent},
           ProvisionNew(p, d, taken)
    PROVE  Inv2'
<1>1. p \in Runs /\ p \notin Trackers
  BY ActorsAssumption DEF Runs
<1> DEFINE row == [NoRow EXCEPT !.status = "provisioning", !.taken = taken]
<1>2. row.status = "provisioning" /\ row.kind = "none"
  BY DEF NoRow
<1> HIDE DEF row
<1>3. /\ run' = [run EXCEPT ![p] = [at |-> "reserved", desk |-> d, row |-> row, upid |-> NoTask]]
      /\ UNCHANGED <<desk, req, trk, con, vm, tasks, pool, crashes>>
      /\ ~ Present(d) /\ \A q \in Runs : run[q].desk # d
  BY DEF ProvisionNew, Reserve, Present, row
<1>4. /\ run'[p].at = "reserved" /\ run'[p].desk = d /\ run'[p].row = row
      /\ \A q \in Runs \ {p} : run'[q] = run[q]
  BY <1>1, <1>3 DEF IInv, TypeInv, TypeOK
<1>5. run[p].at = "off"
  BY DEF ProvisionNew
<1>6. PlaceInv' /\ AloneInv' /\ RunRowInv'
  <2>1. PlaceInv'
    BY <1>1, <1>3, <1>4 DEF IInv, Inv2, PlaceInv, OnRow, Present, Visible
  <2>2. AloneInv'
    BY <1>3, <1>4 DEF IInv, Inv2, AloneInv
  <2>3. RunRowInv'
    BY <1>1, <1>2, <1>3, <1>4 DEF IInv, Inv2, RunRowInv
  <2>4. QED
    BY <2>1, <2>2, <2>3
<1>7. PresentInv' /\ KindInv' /\ ReadInv'
  BY <1>3 DEF IInv, Inv2, PresentInv, KindInv, ReadInv, Present, Polled, DestroyOf, Open
<1>8. UniqueInv' /\ TickInv'
  <2>1. \A u : Known(u)' => Known(u)
    BY <1>3, <1>4 DEF Known, Polled
  <2>2. UniqueInv'
    BY <1>3, <2>1, UniqueFrame DEF IInv, Inv2
  <2>3. TickInv'
    BY <1>3 DEF IInv, Inv2, TickInv, Polled
  <2>4. QED
    BY <2>2, <2>3
<1>9. EndedInv'
  <2>1. \A t \in Trackers : run'[t] = run[t]
    BY <1>1, <1>4 DEF Runs
  <2>2. \A e \in Desktops : \A u \in DOMAIN tasks' : Ended(u, e)' => u \in DOMAIN tasks /\ Ended(u, e)
    BY <1>3 DEF Ended, DestroyOf, Waits, Asks, Stands, Listed, Found, Visible
  <2>3. \A t \in Trackers : (run[t].at = "reserved" /\ OnRow(t))' =>
           run[t].at = "reserved" /\ OnRow(t) /\ run[t].desk \in Desktops /\ run'[t].desk = run[t].desk
    BY <1>3, <2>1 DEF OnRow, IInv, TypeInv, ActorsInv, Runs
  <2>4. QED
    BY <1>3, <2>2, <2>3, EndedFrame DEF IInv, Inv2
<1>10. SightInv'
  <2>1. \A e \in Desktops : InSight(e) => InSight(e)'
    BY <1>3, <1>4, <1>5 DEF InSight, Visible
  <2>2. QED
    BY <1>3, <2>1, SightFrame DEF IInv, Inv2
<1>11. QED
  BY <1>6, <1>7, <1>8, <1>9, <1>10 DEF Inv2

\* What the hypervisor starts is nobody's removal yet.
LEMMA DispatchFrame ==
    ASSUME IInv, NEW op \in {"clone", "start", "stop", "destroy"}, NEW d \in Desktops, Dispatch(op, d)
    PROVE  /\ NextUPID \notin DOMAIN tasks
           /\ \A u \in DOMAIN tasks : u \in DOMAIN tasks' /\ tasks'[u] = tasks[u]
           /\ \A u \in DOMAIN tasks' \ DOMAIN tasks : tasks'[u].state = "running"
           /\ \A u, e : DestroyOf(u, e) => DestroyOf(u, e)'
<1>1. tasks \in Seq(Task)
  BY DEF IInv, TypeInv, TypeOK
<1>2. /\ NextUPID \notin DOMAIN tasks /\ DOMAIN tasks' = DOMAIN tasks \cup {NextUPID}
      /\ \A u \in DOMAIN tasks : tasks'[u] = tasks[u]
      /\ tasks'[NextUPID].op = op /\ tasks'[NextUPID].desk = d /\ tasks'[NextUPID].state = "running"
  BY <1>1, DispatchEffect
<1>3. \A u, e : DestroyOf(u, e) => DestroyOf(u, e)'
  BY <1>2 DEF DestroyOf
<1>4. QED
  BY <1>2, <1>3

LEMMA CloneDispatchedStep ==
    ASSUME IInv, TypeInv', NEW p \in Runs, CloneDispatched(p)
    PROVE  Inv2'
<1>0. PICK d \in Desktops : d = run[p].desk
  BY DEF CloneDispatched, IInv, TypeInv, ActorsInv
<1>1. /\ run[p].at = "reserved" /\ vm[d] = "none" /\ Dispatch("clone", d)
      /\ vm' = [vm EXCEPT ![d] = "cloning"]
      /\ run' = [run EXCEPT ![p].at = "dispatched", ![p].upid = NextUPID]
      /\ UNCHANGED <<desk, req, trk, con, pool, crashes>>
  BY <1>0 DEF CloneDispatched
<1>2. run \in [Runs -> ProvisionRun] /\ vm \in [Desktops -> {"none", "cloning", "stopped", "running"}]
  BY DEF IInv, TypeInv, TypeOK
<1>3. /\ run'[p].at = "dispatched" /\ run'[p].desk = d /\ run'[p].row = run[p].row
      /\ run'[p].upid = NextUPID
      /\ \A q \in Runs \ {p} : run'[q] = run[q]
      /\ vm'[d] = "cloning" /\ \A e \in Desktops \ {d} : vm'[e] = vm[e]
  BY <1>0, <1>1, <1>2 DEF ProvisionRun
<1>4. /\ NextUPID \notin DOMAIN tasks
      /\ \A u \in DOMAIN tasks : u \in DOMAIN tasks' /\ tasks'[u] = tasks[u]
      /\ \A u \in DOMAIN tasks' \ DOMAIN tasks : tasks'[u].state = "running"
      /\ \A u, e : DestroyOf(u, e) => DestroyOf(u, e)'
  BY <1>1, DispatchFrame
<1>5. PlaceInv' /\ AloneInv' /\ RunRowInv'
  <2>1. \A q \in Runs : run'[q].at \in Early => run[q].at \in Early /\ run'[q].desk = run[q].desk
    BY <1>0, <1>1, <1>3 DEF Early
  <2>2. \A q \in Runs : run'[q].row = run[q].row /\ (run'[q].at \notin {"off", "done"} => run[q].at \notin {"off", "done"})
    BY <1>1, <1>3
  <2>3. PlaceInv'
    BY <1>1, <2>1 DEF IInv, Inv2, PlaceInv, OnRow, Present, Visible
  <2>4. AloneInv'
    BY <2>1 DEF IInv, Inv2, AloneInv
  <2>5. RunRowInv'
    BY <1>1, <2>2 DEF IInv, Inv2, RunRowInv
  <2>6. QED
    BY <2>3, <2>4, <2>5
<1>6. PresentInv' /\ ReadInv'
  BY <1>1 DEF IInv, Inv2, PresentInv, ReadInv, Present, Polled, Open
<1>7. KindInv'
  BY <1>1, <1>4 DEF IInv, Inv2, KindInv, DestroyOf
<1>8. UniqueInv' /\ TickInv'
  <2>1. \A q \in Runs : run'[q].at = "dispatched" =>
           run'[q].upid = NextUPID \/ (run[q].at = "dispatched" /\ run'[q].upid = run[q].upid)
    BY <1>3
  <2>2. \A u \in DOMAIN tasks : Known(u)' => Known(u)
    BY <1>1, <1>4, <2>1 DEF Known, Polled
  <2>3. UniqueInv'
    BY <1>1, <2>2, UniqueFrame DEF IInv, Inv2
  <2>4. TickInv'
    BY <1>1, <1>4 DEF IInv, Inv2, TickInv, Polled
  <2>5. QED
    BY <2>3, <2>4
<1>9. EndedInv'
  <2>1. \A e \in Desktops : \A u \in DOMAIN tasks' : Ended(u, e)' => u \in DOMAIN tasks /\ Ended(u, e)
    BY <1>1, <1>4 DEF Ended, DestroyOf, Waits, Asks, Stands, Listed, Found, Visible
  <2>2. \A u \in DOMAIN tasks : ~ Ended(u, d)
    <3>1. CASE OnRow(p)
      BY <1>0, <1>1, <3>1 DEF IInv, Inv2, EndedInv, OnRow
    <3>2. CASE ~ OnRow(p)
      <4>1. ~ Present(d)
        BY <1>0, <1>1, <3>2 DEF IInv, Inv2, PlaceInv, Early
      <4>2. QED
        BY <4>1, NothingWaits DEF Ended
    <3>3. QED
      BY <3>1, <3>2
  <2>3. \A t \in Trackers : (run[t].at = "reserved" /\ OnRow(t))' =>
          run[t].at = "reserved" /\ OnRow(t) /\ run[t].desk \in Desktops /\ run[t].desk # d /\ run'[t].desk = run[t].desk
    <3> TAKE t \in Trackers
    <3> HAVE (run[t].at = "reserved" /\ OnRow(t))'
    <3>1. t \in Runs /\ t # p /\ run'[t] = run[t]
      BY <1>3 DEF Runs
    <3>2. run[t].desk \in Desktops /\ run[t].desk # d
      BY <1>0, <1>1, <3>1 DEF IInv, Inv2, AloneInv, TypeInv, ActorsInv, Early
    <3>3. QED
      BY <1>1, <3>1, <3>2 DEF OnRow
  <2>4. /\ \A e \in Desktops : \A u \in DOMAIN tasks : Ended(u, e) => vm[e] = "none"
        /\ \A e \in Desktops : \A u, v \in DOMAIN tasks : Ended(u, e) /\ Ended(v, e) => u = v
        /\ \A t \in Trackers : run[t].at = "reserved" /\ OnRow(t) =>
              /\ vm[run[t].desk] = "none"
              /\ \A u \in DOMAIN tasks : ~ Ended(u, run[t].desk)
    BY DEF IInv, Inv2, EndedInv
  <2>5. (\A e \in Desktops : \A u \in DOMAIN tasks : Ended(u, e) => vm[e] = "none")'
    BY <1>3, <2>1, <2>2, <2>4
  <2>6. (\A e \in Desktops : \A u, v \in DOMAIN tasks : Ended(u, e) /\ Ended(v, e) => u = v)'
    BY <2>1, <2>4
  <2>7. ASSUME NEW t \in Trackers, (run[t].at = "reserved" /\ OnRow(t))'
        PROVE  (/\ vm[run[t].desk] = "none"
                /\ \A u \in DOMAIN tasks : ~ Ended(u, run[t].desk))'
    BY <1>3, <2>1, <2>3, <2>4, <2>7
  <2>8. QED
    BY <2>5, <2>6, <2>7 DEF EndedInv
<1>10. SightInv'
  <2>1. \A e \in Desktops : InSight(e) => InSight(e)'
    BY <1>1, <1>3 DEF InSight, Visible
  <2>2. InSight(d)'
    BY <1>3 DEF InSight
  <2>3. QED
    BY <1>1, <1>3, <2>1, <2>2, SightFrame DEF IInv, Inv2
<1>11. QED
  BY <1>5, <1>6, <1>7, <1>8, <1>9, <1>10 DEF Inv2

LEMMA CloneRecordedStep ==
    ASSUME IInv, TypeInv', OneTracker, NEW p \in Runs, CloneRecorded(p)
    PROVE  Inv2'
<1>0. PICK d \in Desktops : d = run[p].desk
  BY DEF CloneRecorded, IInv, TypeInv, ActorsInv
<1> DEFINE new == [run[p].row EXCEPT !.upid = run[p].upid]
<1>1. new.status = "provisioning" /\ new.kind = "none" /\ new.upid = run[p].upid
  BY DEF CloneRecorded, IInv, Inv2, TypeInv, TypeOK, RunRowInv, ProvisionRun, Row
<1> HIDE DEF new
<1>2. /\ run[p].at = "dispatched" /\ desk' = [desk EXCEPT ![d] = new]
      /\ run' = [run EXCEPT ![p].at = "cloning", ![p].row = new]
      /\ UNCHANGED <<req, trk, con, vm, tasks, pool, crashes>>
  BY <1>0 DEF CloneRecorded, new
<1>3. run \in [Runs -> ProvisionRun] /\ desk \in [Desktops -> Row]
  BY DEF IInv, TypeInv, TypeOK
<1>4. /\ run'[p].at = "cloning" /\ run'[p].desk = d /\ run'[p].row = new
      /\ \A q \in Runs \ {p} : run'[q] = run[q]
      /\ desk'[d] = new /\ \A e \in Desktops \ {d} : desk'[e] = desk[e]
  BY <1>0, <1>2, <1>3 DEF ProvisionRun
<1>5. \A q \in Runs : run'[q].at \in Early => run[q].at \in Early /\ run[q].desk # d /\ q # p /\ run[q].desk \in Desktops
  <2> TAKE q \in Runs
  <2> HAVE run'[q].at \in Early
  <2>1. q # p /\ run'[q] = run[q]
    BY <1>4 DEF Early
  <2>2. QED
    BY <1>0, <1>2, <2>1 DEF Early, IInv, Inv2, AloneInv, TypeInv, ActorsInv
<1>6. PlaceInv' /\ AloneInv' /\ RunRowInv'
  <2>1. PlaceInv'
    <3> SUFFICES ASSUME NEW q \in Runs, run'[q].at \in Early
                 PROVE  /\ OnRow(q)' => Visible(run[q].desk)'
                        /\ ~ OnRow(q)' => ~ Present(run[q].desk)'
      BY DEF PlaceInv, Early
    <3>1. run[q].at \in Early /\ run'[q] = run[q] /\ desk'[run[q].desk] = desk[run[q].desk]
      BY <1>4, <1>5
    <3>2. OnRow(q)' <=> OnRow(q)
      BY <1>2, <3>1 DEF OnRow
    <3>3. QED
      BY <1>2, <3>1, <3>2 DEF IInv, Inv2, PlaceInv, Present, Visible
  <2>2. AloneInv'
    BY <1>4, <1>5 DEF IInv, Inv2, AloneInv
  <2>3. RunRowInv'
    <3> SUFFICES ASSUME NEW q \in Runs
                 PROVE  (run[q].at \notin {"off", "done"} \/ (q \in Trackers /\ trk[q].at = "rebuild") =>
                            run[q].row.status = "provisioning" /\ run[q].row.kind = "none")'
      BY DEF RunRowInv
    <3>1. CASE q = p
      BY <1>1, <1>2, <1>4, <3>1
    <3>2. CASE q # p
      <4>1. run'[q] = run[q]
        BY <1>4, <3>2
      <4>2. QED
        BY <1>1, <1>2, <4>1 DEF IInv, Inv2, RunRowInv
    <3>3. QED
      BY <3>1, <3>2
  <2>4. QED
    BY <2>1, <2>2, <2>3
<1>7. PresentInv'
  BY <1>1, <1>2, <1>4 DEF IInv, Inv2, TypeInv, ActorsInv, PresentInv, Present, Polled, Open
<1>8. KindInv' /\ ReadInv'
  <2>1. KindInv'
    BY <1>1, <1>2, <1>4, KindFrame DEF IInv, Inv2
  <2>2. ReadInv'
    BY <1>1, <1>2, <1>4 DEF IInv, Inv2, TypeInv, ActorsInv, ReadInv, Open
  <2>3. QED
    BY <2>1, <2>2
<1>9. UniqueInv' /\ TickInv'
  <2>1. \A t \in Trackers : trk[t].at = "rebuild" => trk[t].cur.desk # d
    <3> TAKE t \in Trackers
    <3> HAVE trk[t].at = "rebuild"
    <3>1. CASE OnRow(p)
      BY <1>2, <3>1 DEF OnRow, OneTracker, IInv, TypeInv, ActorsInv
    <3>2. CASE ~ OnRow(p)
      BY <1>0, <1>2, <3>2 DEF IInv, Inv2, PlaceInv, PresentInv, Early, Polled
    <3>3. QED
      BY <3>1, <3>2
  <2>2. \A t \in Trackers : trk[t].at = "rebuild" => trk[t].cur.desk \in Desktops
    BY DEF IInv, TypeInv, ActorsInv
  <2>3. QED
    <3>0. /\ desk'[d].upid = run[p].upid /\ \A e \in Desktops \ {d} : desk'[e].upid = desk[e].upid
          /\ run[p].at = "dispatched" /\ run'[p].at # "dispatched" /\ trk' = trk
          /\ \A q \in Runs \ {p} : run'[q].at = run[q].at /\ run'[q].upid = run[q].upid
      BY <1>1, <1>2, <1>4
    <3>1. \A u : Known(u)' => Known(u)
      BY ONLY <3>0, p \in Runs, d \in Desktops DEF Known, Polled
    <3>2. UniqueInv'
      BY <1>2, <3>1, UniqueFrame DEF IInv, Inv2
    <3>3. TickInv'
      BY <1>2, <1>4, <2>1, <2>2 DEF IInv, Inv2, TickInv, Polled
    <3>4. QED
      BY <3>2, <3>3
<1>10. EndedInv'
  <2>1. \A e \in Desktops : \A u \in DOMAIN tasks' : Ended(u, e)' => u \in DOMAIN tasks /\ Ended(u, e)
    BY <1>1, <1>2, <1>4 DEF Ended, DestroyOf, Waits, Asks, Stands, Listed, Found, Visible, RemoveOps
  <2>2. \A t \in Trackers : (run[t].at = "reserved" /\ OnRow(t))' =>
           run[t].at = "reserved" /\ OnRow(t) /\ run[t].desk \in Desktops /\ run'[t].desk = run[t].desk
    BY <1>2, <1>4, <1>5 DEF OnRow, Runs, Early
  <2>3. QED
    BY <1>2, <2>1, <2>2, EndedFrame DEF IInv, Inv2
<1>11. SightInv'
  <2>1. \A q \in Runs \ {p} : run'[q].at = run[q].at /\ run'[q].desk = run[q].desk
    BY <1>4
  <2>2. Visible(d)' /\ \A e \in Desktops \ {d} : Visible(e) => Visible(e)'
    BY <1>1, <1>4 DEF Visible
  <2>3. \A e \in Desktops : InSight(e) => InSight(e)'
    BY <1>0, <1>2, <2>1, <2>2 DEF InSight
  <2>4. QED
    BY <1>2, <2>3, SightFrame DEF IInv, Inv2
<1>12. QED
  BY <1>6, <1>7, <1>8, <1>9, <1>10, <1>11 DEF Inv2

LEMMA QuietPool ==
    ASSUME IInv, TypeInv', UNCHANGED <<desk, req, run, trk, vm, tasks, crashes>>
    PROVE  Inv2'
<1>1. QuietRows /\ QuietRequests /\ QuietRuns /\ QuietTicks
  BY DEF QuietRows, QuietRequests, QuietRuns, QuietTicks, Open, Polled, Visible, Present
<1>2. QED
  BY <1>1, QuietStep

\* A request reads the row: without a task, and, if it is the only request, with the
\* kind it will compare its own with.
LEMMA ReadStep ==
    ASSUME IInv, TypeInv', OneRequest \/ NoStaleKind,
           NEW r \in Requests, NEW op \in AdminOps, NEW d \in Desktops, AdminRead(r, op, d)
    PROVE  Inv2'
<1>1. /\ UNCHANGED <<desk, run, trk, con, vm, tasks, pool, crashes>>
      /\ Visible(d) /\ Allowed(op, d) /\ req[r].at = "idle"
      /\ \A q \in Requests \ {r} : req'[q] = req[q]
      /\ req'[r].at = "read" /\ req'[r].op = op /\ req'[r].desk = d /\ req'[r].saw = desk[d]
  BY DEF AdminRead, IInv, TypeInv, TypeOK
<1>2. PlaceInv' /\ AloneInv' /\ RunRowInv' /\ KindInv' /\ TickInv'
  <2>1. PlaceInv' /\ AloneInv' /\ RunRowInv'
    BY <1>1 DEF IInv, Inv2, PlaceInv, AloneInv, RunRowInv, OnRow, Visible, Present
  <2>2. KindInv'
    BY <1>1 DEF IInv, Inv2, KindInv, DestroyOf
  <2>3. TickInv'
    BY <1>1 DEF IInv, Inv2, TickInv, Polled
  <2>4. QED
    BY <2>1, <2>2, <2>3
<1>3. PresentInv'
  BY <1>1 DEF IInv, Inv2, PresentInv, Present, Polled, Open, Visible
<1>4. ReadInv'
  <2>1. OneRequest => \A q \in Requests : ~ Open(q)
    <3> DEFINE S == {q \in Requests : Open(q)}
    <3> SUFFICES ASSUME OneRequest
                 PROVE  S = {}
      OBVIOUS
    <3>1. IsFiniteSet(S)
      BY RequestsAssumption, FS_Subset
    <3>2. Cardinality(S) \in Nat /\ Cardinality(S) < Overlap
      BY <3>1, FS_CardinalityType DEF AdminRead
    <3>3. Cardinality(S) = 0
      BY <3>2, RequestsAssumption DEF OneRequest
    <3>4. QED
      BY <3>1, <3>3, FS_EmptySet
  <2>2. op \in PowerOps \cup RemoveOps => desk[d].upid = NoTask
    BY <1>1 DEF Allowed
  <2>3. op \in PowerOps \cup RemoveOps => desk[d].kind = "none" \/ OneRequest
    BY <2>2 DEF NoStaleKind
  <2>4. QED
    BY <1>1, <2>1, <2>2, <2>3 DEF IInv, Inv2, ReadInv, Open
<1>5. UniqueInv'
  <2>1. \A u : Known(u)' => Known(u)
    BY <1>1 DEF Known, Polled
  <2>2. QED
    BY <1>1, <2>1, UniqueFrame DEF IInv, Inv2
<1>6. EndedInv'
  <2>1. \A e \in Desktops : \A u \in DOMAIN tasks' : Ended(u, e)' => u \in DOMAIN tasks /\ Ended(u, e)
    BY <1>1 DEF Ended, DestroyOf, Waits, Asks, Stands, Listed, Found, Visible
  <2>2. \A t \in Trackers : (run[t].at = "reserved" /\ OnRow(t))' =>
           run[t].at = "reserved" /\ OnRow(t) /\ run[t].desk \in Desktops /\ run'[t].desk = run[t].desk
    BY <1>1 DEF OnRow, IInv, TypeInv, ActorsInv, Runs
  <2>3. QED
    BY <1>1, <2>1, <2>2, EndedFrame DEF IInv, Inv2
<1>7. SightInv'
  <2>1. \A e \in Desktops : InSight(e) => InSight(e)'
    BY <1>1 DEF InSight, Visible
  <2>2. QED
    BY <1>1, <2>1, SightFrame DEF IInv, Inv2
<1>8. QED
  BY <1>2, <1>3, <1>4, <1>5, <1>6, <1>7 DEF Inv2

\* A request's task is new to everybody else.
LEMMA DispatchStep ==
    ASSUME IInv, TypeInv', NEW r \in Requests, AdminDispatches(r)
    PROVE  Inv2'
<1>0. PICK d \in Desktops : d = req[r].desk
  BY DEF AdminDispatches, IInv, TypeInv, ActorsInv, Open
<1>01. PICK upid : upid = NextUPID
  OBVIOUS
<1>1. /\ \/ req[r].at = "read" /\ req[r].op \in PowerOps /\ Dispatch(req[r].op, d)
         \/ req[r].at = "stopped" /\ Dispatch("destroy", d)
      /\ req' = [req EXCEPT ![r].at = "issued", ![r].upid = upid]
      /\ UNCHANGED <<desk, run, trk, con, vm, pool, crashes>>
  BY <1>0, <1>01 DEF AdminDispatches
<1>2. /\ upid \notin DOMAIN tasks /\ upid # NoTask
      /\ \A u \in DOMAIN tasks : u \in DOMAIN tasks' /\ tasks'[u] = tasks[u]
      /\ \A u \in DOMAIN tasks' \ DOMAIN tasks : tasks'[u].state = "running"
      /\ \A u, e : DestroyOf(u, e) => DestroyOf(u, e)'
      /\ req[r].op \in RemoveOps => DestroyOf(upid, d)'
  <2>1. tasks \in Seq(Task)
    BY DEF IInv, TypeInv, TypeOK
  <2>2. upid # NoTask
    BY <1>01, <2>1 DEF NextUPID, NoTask
  <2>3. CASE req[r].at = "read"
    <3>1. req[r].op \in {"clone", "start", "stop", "destroy"} /\ req[r].op \notin RemoveOps
          /\ Dispatch(req[r].op, d)
      BY <1>1, <2>3 DEF PowerOps, RemoveOps
    <3>2. QED
      BY <1>01, <2>2, <3>1, DispatchFrame
  <2>4. CASE req[r].at = "stopped"
    <3>1. Dispatch("destroy", d)
      BY <1>1, <2>4
    <3>2. DestroyOf(upid, d)'
      <4>1. /\ DOMAIN tasks' = DOMAIN tasks \cup {upid}
            /\ tasks'[upid].op = "destroy" /\ tasks'[upid].desk = d
        BY <1>01, <2>1, <3>1, DispatchEffect
      <4>2. QED
        BY ONLY <4>1 DEF DestroyOf
    <3>3. QED
      BY <1>01, <2>2, <3>1, <3>2, DispatchFrame
  <2>5. QED
    BY <1>1, <2>3, <2>4
<1>3. /\ \A q \in Requests \ {r} : req'[q] = req[q]
      /\ req'[r].at = "issued" /\ req'[r].op = req[r].op /\ req'[r].desk = d
      /\ req'[r].saw = req[r].saw /\ req'[r].upid = upid /\ Open(r)
  BY <1>0, <1>1 DEF IInv, TypeInv, TypeOK, Request, Open
<1>4. PlaceInv' /\ AloneInv' /\ RunRowInv'
  BY <1>1 DEF IInv, Inv2, PlaceInv, AloneInv, RunRowInv, OnRow, Visible, Present
<1>5. PresentInv' /\ ReadInv'
  <2>1. \A q \in Requests : Open(q)' => /\ Open(q) /\ req'[q].op = req[q].op
                                        /\ req'[q].desk = req[q].desk /\ req'[q].saw = req[q].saw
    BY <1>0, <1>3 DEF Open
  <2>2. PresentInv'
    BY <1>1, <2>1 DEF IInv, Inv2, PresentInv, Present, Polled
  <2>3. ReadInv'
    BY <1>1, <2>1 DEF IInv, Inv2, ReadInv
  <2>4. QED
    BY <2>2, <2>3
<1>6. KindInv'
  <2>1. \A e \in Desktops : desk[e].kind \in RemoveOps /\ desk[e].upid # NoTask =>
           DestroyOf(desk[e].upid, e)'
    BY <1>1, <1>2 DEF IInv, Inv2, KindInv
  <2>2. \A t \in Trackers : \A x \in trk[t].todo : x.kind \in RemoveOps => DestroyOf(x.upid, x.desk)'
    BY <1>1, <1>2 DEF IInv, Inv2, KindInv
  <2>3. \A t \in Trackers :
         /\ trk[t].at \in {"ok", "rebuild"} /\ trk[t].cur.kind \in RemoveOps =>
              /\ DestroyOf(trk[t].cur.upid, trk[t].cur.desk)'
              /\ tasks'[trk[t].cur.upid].state = "ok"
         /\ trk[t].at = "rebuild" => trk[t].cur.kind = "rebuild"
    BY <1>1, <1>2 DEF IInv, Inv2, KindInv, DestroyOf
  <2>4. \A q \in Requests : req'[q].at = "issued" /\ req'[q].op \in RemoveOps =>
           DestroyOf(req[q].upid, req[q].desk)'
    <3> TAKE q \in Requests
    <3> HAVE req'[q].at = "issued" /\ req'[q].op \in RemoveOps
    <3>1. CASE q = r
      BY <1>2, <1>3, <3>1 DEF DestroyOf
    <3>2. CASE q # r
      BY <1>2, <1>3, <3>2 DEF IInv, Inv2, KindInv, DestroyOf
    <3>3. QED
      BY <3>1, <3>2
  <2>5. QED
    BY <1>1, <2>1, <2>2, <2>3, <2>4 DEF KindInv
<1>7. TickInv'
  BY <1>1, <1>2 DEF IInv, Inv2, TickInv, Polled
<1>8. UniqueInv'
  <2>1. ~ Known(upid)
    BY <1>2 DEF Known, IInv, Inv2, TypeInv, NamesInv, TickInv
  <2>2. \A u : Known(u)' => Known(u)
    BY <1>1 DEF Known, Polled
  <2>3. \A q \in Requests \ {r} : req[q].at = "issued" => req[q].upid # upid
    BY <1>2 DEF IInv, TypeInv, NamesInv
  <2>4. ASSUME NEW q \in Requests, req'[q].at = "issued"
        PROVE  /\ \A p \in Requests \ {q} : req'[p].at = "issued" => req'[p].upid # req'[q].upid
               /\ ~ Known(req[q].upid)'
    <3>1. PICK u : u = req'[q].upid
      OBVIOUS
    <3>2. ~ Known(u)
      BY <1>3, <2>1, <2>4, <3>1 DEF IInv, Inv2, UniqueInv
    <3>3. ~ Known(u)'
      BY <2>2, <3>2
    <3>4. \A p \in Requests \ {q} : req'[p].at = "issued" => req'[p].upid # req'[q].upid
      BY <1>3, <2>3, <2>4 DEF IInv, Inv2, UniqueInv
    <3>5. QED
      BY <3>1, <3>3, <3>4
  <2>5. QED
    BY <2>4 DEF UniqueInv
<1>9. EndedInv'
  <2>1. \A e \in Desktops : \A u \in DOMAIN tasks' : Ended(u, e)' => u \in DOMAIN tasks /\ Ended(u, e)
    <3> TAKE e \in Desktops
    <3> TAKE u \in DOMAIN tasks'
    <3> HAVE Ended(u, e)'
    <3>1. u \in DOMAIN tasks /\ DestroyOf(u, e) /\ tasks[u].state = "ok"
      BY <1>2 DEF Ended, DestroyOf
    <3>2. Asks(u, e)' => Asks(u, e)
      BY <1>2, <1>3, <3>1 DEF Asks
    <3>3. Waits(u, e)
      BY <1>1, <3>2 DEF Ended, Waits, Stands, Listed, Found, Visible
    <3>4. QED
      BY <3>1, <3>3 DEF Ended
  <2>2. \A t \in Trackers : (run[t].at = "reserved" /\ OnRow(t))' =>
           run[t].at = "reserved" /\ OnRow(t) /\ run[t].desk \in Desktops /\ run'[t].desk = run[t].desk
    BY <1>1 DEF OnRow, IInv, TypeInv, ActorsInv, Runs
  <2>3. QED
    BY <1>1, <2>1, <2>2, EndedFrame DEF IInv, Inv2
<1>10. SightInv'
  <2>1. \A e \in Desktops : InSight(e) => InSight(e)'
    BY <1>1 DEF InSight, Visible
  <2>2. QED
    BY <1>1, <2>1, SightFrame DEF IInv, Inv2
<1>11. QED
  BY <1>4, <1>5, <1>6, <1>7, <1>8, <1>9, <1>10 DEF Inv2

\* A request's commit puts its task on the row: the task is still its own, and the kind
\* that stands beside it is the request's or none.
LEMMA AdminCommitStep ==
    ASSUME IInv, TypeInv', NEW r \in Requests, AdminCommits(r)
    PROVE  Inv2'
<1>0. PICK d \in Desktops : d = req[r].desk
  BY DEF AdminCommits, IInv, TypeInv, ActorsInv, Open
<1>1. PICK new \in Row : Committed(r, new)
  BY CommitsRow DEF IInv
<1>2. /\ UNCHANGED <<run, trk, con, vm, tasks, pool, crashes>> /\ Open(r)
      /\ req'[r].at = "done" /\ \A q \in Requests \ {r} : req'[q] = req[q]
  BY DEF AdminCommits, Answer, IdleReq, Open, IInv, TypeInv, TypeOK
<1>3. /\ req[r].saw \in Row /\ desk \in [Desktops -> Row] /\ desk[d] \in Row
      /\ req[r].op \in AdminOps
  BY DEF IInv, TypeInv, TypeOK, Request
<1>4. QuietRequests /\ QuietRuns /\ QuietTicks
  BY <1>2 DEF QuietRequests, QuietRuns, QuietTicks, Open, Polled
<1>5. CASE ~ Visible(d)
  <2>1. desk' = desk
    BY <1>0, <1>1, <1>5 DEF Committed
  <2>2. QuietRows
    BY <2>1 DEF QuietRows, Visible, Present
  <2>3. QED
    BY <1>2, <1>4, <2>2, QuietStep
<1>6. CASE Visible(d)
  <2> DEFINE row == Flush(desk[d], req[r].saw, new)
  <2>1. /\ row \in Row
        /\ row.status = IF new.status = req[r].saw.status THEN desk[d].status ELSE new.status
        /\ row.upid = IF new.upid = req[r].saw.upid THEN desk[d].upid ELSE new.upid
        /\ row.kind = IF new.kind = req[r].saw.kind THEN desk[d].kind ELSE new.kind
    BY <1>1, <1>3, FlushEffect
  <2>2. desk' = [desk EXCEPT ![d] = row]
    BY <1>0, <1>1, <1>6 DEF Committed
  <2> HIDE DEF row
  <2>3. desk'[d] = row /\ \A e \in Desktops \ {d} : desk'[e] = desk[e]
    BY <1>3, <2>2
  <2>4. row.status \notin {"absent", "deleted"}
    BY <1>1, <1>6, <2>1 DEF Committed, Visible
  <2>5. /\ Visible(d)' /\ \A e \in Desktops : Visible(e)' <=> Visible(e)
        /\ \A e \in Desktops : Present(e)' <=> Present(e)
    BY <1>6, <2>3, <2>4 DEF Visible, Present
  <2>6. CASE req[r].op \in {"assign", "unassign"}
    <3>1. row.upid = desk[d].upid /\ row.kind = desk[d].kind
      BY <1>1, <2>1, <2>6 DEF Committed
    <3>2. QuietRows
      BY <2>3, <2>5, <3>1 DEF QuietRows
    <3>3. QED
      BY <1>2, <1>4, <3>2, QuietStep
  <2>7. CASE req[r].op \in PowerOps \cup RemoveOps
    <3>0. PICK upid : upid = req[r].upid
      OBVIOUS
    <3>1. /\ req[r].at = "issued" /\ new.upid = upid
          /\ new.kind = TaskKind(req[r].op) /\ req[r].saw.upid = NoTask
      BY <1>1, <1>2, <2>7, <3>0 DEF Committed, IInv, Inv2, ReadInv
    <3>2. upid \in DOMAIN tasks /\ upid # NoTask
      BY <3>0, <3>1 DEF IInv, TypeInv, TypeOK, NamesInv, NoTask
    <3>3. /\ new.kind \in {"power", "rebuild", "destroy"}
          /\ new.kind \in RemoveOps => req[r].op \in RemoveOps
      BY <2>7, <3>1 DEF TaskKind, PowerOps, RemoveOps
    <3>4. row.upid = upid /\ row.kind \in {"none", new.kind}
      <4>1. row.upid = upid
        BY <2>1, <3>1, <3>2
      <4>2. req[r].saw.kind = "none" \/ desk[d].kind \in {"none", req[r].saw.kind}
        BY <1>0, <1>2, <2>7 DEF IInv, Inv2, ReadInv
      <4>3. QED
        BY <2>1, <3>3, <4>1, <4>2
    <3>5. PlaceInv' /\ AloneInv' /\ RunRowInv'
      <4>1. \A p \in Runs : run[p].at \in Early => run[p].desk \in Desktops
        BY DEF IInv, TypeInv, ActorsInv, Early
      <4>2. QED
        BY <1>2, <2>5, <4>1 DEF IInv, Inv2, PlaceInv, AloneInv, RunRowInv, OnRow
    <3>6. PresentInv'
      <4>1. \A q \in Requests : Open(q)' => Open(q) /\ req'[q].desk = req[q].desk /\ req[q].desk \in Desktops
        BY <1>2 DEF Open, IInv, TypeInv, ActorsInv
      <4>2. \A t \in Trackers : /\ \A x \in trk[t].todo : x.desk \in Desktops
                                /\ Polled(t) => trk[t].cur.desk \in Desktops
        BY DEF IInv, TypeInv, ActorsInv, Polled
      <4>3. QED
        BY <1>2, <2>5, <4>1, <4>2 DEF IInv, Inv2, PresentInv, Polled
    <3>7. KindInv'
      <4>1. row.kind \in RemoveOps => DestroyOf(upid, d)
        BY <1>0, <3>0, <3>1, <3>3, <3>4 DEF IInv, Inv2, KindInv, RemoveOps
      <4>2. \A e \in Desktops : desk'[e].kind \in RemoveOps /\ desk'[e].upid # NoTask =>
               DestroyOf(desk'[e].upid, e)
        BY <2>3, <3>4, <4>1 DEF IInv, Inv2, KindInv
      <4>3. QED
        BY <1>2, <4>2 DEF IInv, Inv2, KindInv, DestroyOf
    <3>8. ReadInv'
      <4>1. \A q \in Requests : Open(q)' => /\ Open(q) /\ q # r /\ req'[q].op = req[q].op
                                            /\ req'[q].desk = req[q].desk /\ req'[q].saw = req[q].saw
        BY <1>2 DEF Open
      <4>2. OneRequest => \A q \in Requests : ~ Open(q)'
        BY <1>2, <4>1 DEF IInv, Inv2, ReadInv
      <4>3. QED
        BY <4>1, <4>2 DEF IInv, Inv2, ReadInv
    <3>9. UniqueInv'
      <4>1. \A u : Known(u)' => Known(u) \/ u = upid
        <5>1. desk'[d].upid = upid /\ \A e \in Desktops \ {d} : desk'[e].upid = desk[e].upid
          BY <2>3, <3>4
        <5>2. QED
          BY ONLY <1>2, <5>1 DEF Known, Polled
      <4>2. ASSUME NEW q \in Requests, req'[q].at = "issued"
            PROVE  /\ \A p \in Requests \ {q} : req'[p].at = "issued" => req'[p].upid # req'[q].upid
                   /\ ~ Known(req[q].upid)'
        <5>1. q # r /\ req'[q] = req[q] /\ req[q].at = "issued"
          BY <1>2, <4>2
        <5>2. PICK u : u = req[q].upid
          OBVIOUS
        <5>3. ~ Known(u) /\ u # upid
          BY <3>0, <3>1, <5>1, <5>2 DEF IInv, Inv2, UniqueInv
        <5>4. ~ Known(u)'
          BY <4>1, <5>3
        <5>5. \A p \in Requests \ {q} : req'[p].at = "issued" => req'[p].upid # req'[q].upid
          BY <1>2, <5>1 DEF IInv, Inv2, UniqueInv
        <5>6. QED
          BY <5>1, <5>2, <5>4, <5>5
      <4>3. QED
        BY <4>2 DEF UniqueInv
    <3>10. TickInv'
      <4>1. \A t \in Trackers : Polled(t) => trk[t].cur.upid # upid /\ trk[t].cur.desk \in Desktops
        BY <3>0, <3>1 DEF IInv, Inv2, UniqueInv, Known, TypeInv, ActorsInv, Polled
      <4>2. \A t \in Trackers : trk[t].at = "rebuild" => desk'[trk[t].cur.desk].upid # trk[t].cur.upid
        BY <2>3, <3>4, <4>1 DEF IInv, Inv2, TickInv, Polled
      <4>3. QED
        BY <1>2, <4>2 DEF IInv, Inv2, TickInv, Polled
    <3>11. EndedInv'
      <4>1. \A e \in Desktops : \A u \in DOMAIN tasks : Waits(u, e)' => Waits(u, e)
        <5> TAKE e \in Desktops
        <5> TAKE u \in DOMAIN tasks
        <5>1. Asks(u, e)' => Asks(u, e)
          BY <1>2 DEF Asks
        <5>2. Stands(u, e)' => Stands(u, e) \/ Asks(u, e)
          <6>1. CASE e = d
            BY <1>0, <2>3, <3>0, <3>1, <3>3, <3>4, <6>1 DEF Stands, Asks, RemoveOps
          <6>2. CASE e # d
            BY <2>3, <6>2 DEF Stands, Visible
          <6>3. QED
            BY <6>1, <6>2
        <5>3. (Listed(u, e)' => Listed(u, e)) /\ (Found(u, e)' => Found(u, e))
          BY <1>2 DEF Listed, Found
        <5>4. QED
          BY <5>1, <5>2, <5>3 DEF Waits
      <4>2. \A e \in Desktops : \A u \in DOMAIN tasks' : Ended(u, e)' => u \in DOMAIN tasks /\ Ended(u, e)
        BY <1>2, <4>1 DEF Ended, DestroyOf
      <4>3. \A t \in Trackers : (run[t].at = "reserved" /\ OnRow(t))' =>
              run[t].at = "reserved" /\ OnRow(t) /\ run[t].desk \in Desktops /\ run'[t].desk = run[t].desk
        BY <1>2 DEF OnRow, IInv, TypeInv, ActorsInv, Runs
      <4>4. QED
        BY <1>2, <4>2, <4>3, EndedFrame DEF IInv, Inv2
    <3>12. SightInv'
      <4>1. \A e \in Desktops : InSight(e) => InSight(e)'
        BY <1>2, <2>5 DEF InSight
      <4>2. QED
        BY <1>2, <4>1, SightFrame DEF IInv, Inv2
    <3>13. QED
      BY <3>5, <3>6, <3>7, <3>8, <3>9, <3>10, <3>11, <3>12 DEF Inv2
  <2>8. QED
    BY <1>3, <2>6, <2>7 DEF AdminOps
<1>7. QED
  BY <1>5, <1>6

\* A tick reads the rows, and polls one of those it read: what stood on a row is on the
\* tick's list, and then in its hands.
LEMMA TickBeginsStep ==
    ASSUME IInv, TypeInv', NEW t \in Trackers, TickBegins(t)
    PROVE  Inv2'
<1>1. /\ trk[t].at = "idle" /\ UNCHANGED <<desk, req, run, con, vm, tasks, pool, crashes>>
      /\ trk'[t].at = "ticking" /\ trk'[t].todo = InFlight /\ trk'[t].cur = trk[t].cur
      /\ \A s \in Trackers \ {t} : trk'[s] = trk[s]
  BY DEF TickBegins, IInv, TypeInv, TypeOK, Tick
<1>2. \A x \in InFlight : /\ x.desk \in Desktops /\ Visible(x.desk) /\ x.upid = desk[x.desk].upid
                          /\ x.upid # NoTask /\ x.kind = desk[x.desk].kind
  BY DEF InFlight
<1>3. \A x, y \in InFlight : x.desk = y.desk => x = y
  BY DEF InFlight
<1>4. \A s \in Trackers : /\ trk'[s].cur = trk[s].cur
                          /\ Polled(s)' => s # t /\ Polled(s) /\ trk'[s] = trk[s]
  BY <1>1 DEF Polled
<1>5. PlaceInv' /\ AloneInv' /\ RunRowInv'
  <2>1. \A p \in Runs : p \in Trackers /\ trk'[p].at = "rebuild" => trk[p].at = "rebuild"
    BY <1>1
  <2>2. QED
    BY <1>1, <1>4, <2>1 DEF IInv, Inv2, PlaceInv, AloneInv, RunRowInv, OnRow, Visible, Present
<1>6. PresentInv'
  BY <1>1, <1>2, <1>4 DEF IInv, Inv2, PresentInv, Present, Visible, Open
<1>7. KindInv'
  BY <1>1, <1>2 DEF IInv, Inv2, KindInv, DestroyOf
<1>8. ReadInv'
  BY <1>1 DEF IInv, Inv2, ReadInv, Open
<1>9. UniqueInv' /\ TickInv'
  <2>1. \A u : Known(u)' => Known(u)
    BY <1>1, <1>2, <1>4 DEF Known
  <2>2. UniqueInv'
    BY <1>1, <2>1, UniqueFrame DEF IInv, Inv2
  <2>3. TickInv'
    BY <1>1, <1>3, <1>4 DEF IInv, Inv2, TickInv
  <2>4. QED
    BY <2>2, <2>3
<1>10. EndedInv'
  <2>1. \A e \in Desktops : \A u \in DOMAIN tasks : Waits(u, e)' => Waits(u, e)
    <3> TAKE e \in Desktops
    <3> TAKE u \in DOMAIN tasks
    <3>1. Listed(u, e)' => Listed(u, e) \/ Stands(u, e)
      BY <1>1, <1>2 DEF Listed, Stands
    <3>2. (Asks(u, e)' => Asks(u, e)) /\ (Stands(u, e)' => Stands(u, e)) /\ (Found(u, e)' => Found(u, e))
      BY <1>1 DEF Asks, Stands, Found, Visible
    <3>3. QED
      BY <3>1, <3>2 DEF Waits
  <2>2. \A e \in Desktops : \A u \in DOMAIN tasks' : Ended(u, e)' => u \in DOMAIN tasks /\ Ended(u, e)
    BY <1>1, <2>1 DEF Ended, DestroyOf
  <2>3. \A s \in Trackers : (run[s].at = "reserved" /\ OnRow(s))' =>
           run[s].at = "reserved" /\ OnRow(s) /\ run[s].desk \in Desktops /\ run'[s].desk = run[s].desk
    BY <1>1, <1>4 DEF OnRow, IInv, TypeInv, ActorsInv, Runs
  <2>4. QED
    BY <1>1, <2>2, <2>3, EndedFrame DEF IInv, Inv2
<1>11. SightInv'
  <2>1. \A e \in Desktops : InSight(e) => InSight(e)'
    BY <1>1 DEF InSight, Visible
  <2>2. QED
    BY <1>1, <2>1, SightFrame DEF IInv, Inv2
<1>12. QED
  BY <1>5, <1>6, <1>7, <1>8, <1>9, <1>10, <1>11 DEF Inv2

LEMMA PollStep ==
    ASSUME IInv, TypeInv', NEW t \in Trackers, NEW x \in trk[t].todo, PollOne(t, x)
    PROVE  Inv2'
<1>1. /\ trk[t].at = "ticking" /\ UNCHANGED <<desk, req, run, con, vm, tasks, pool, crashes>>
      /\ trk'[t].at \in {"ticking", "ok", "error"}
      /\ trk'[t].at = "ok" => tasks[x.upid].state = "ok"
      /\ trk'[t].todo = trk[t].todo \ {x} /\ trk'[t].cur = x
      /\ \A s \in Trackers \ {t} : trk'[s] = trk[s]
  <2>1. trk[t].at = "ticking" /\ UNCHANGED <<desk, req, run, con, vm, tasks, pool, crashes>>
    BY DEF PollOne
  <2>2. QED
    BY <2>1, PollEffect DEF IInv
<1>2. /\ x.upid \in DOMAIN tasks
      /\ \A p \in Runs : run[p].at \in Early => p # t
  BY <1>1 DEF IInv, TypeInv, NamesInv, ActorsInv, Early
<1>3. PlaceInv' /\ AloneInv' /\ RunRowInv'
  <2>1. \A p \in Runs : run[p].at \in Early => (OnRow(p)' <=> OnRow(p))
    BY <1>1, <1>2 DEF OnRow
  <2>2. PlaceInv' /\ AloneInv'
    BY <1>1, <2>1 DEF IInv, Inv2, PlaceInv, AloneInv, Visible, Present
  <2>3. RunRowInv'
    BY <1>1 DEF IInv, Inv2, RunRowInv
  <2>4. QED
    BY <2>2, <2>3
<1>4. PresentInv'
  BY <1>1 DEF IInv, Inv2, PresentInv, Present, Polled, Open
<1>5. KindInv'
  BY <1>1 DEF IInv, Inv2, KindInv, DestroyOf
<1>6. ReadInv'
  BY <1>1 DEF IInv, Inv2, ReadInv, Open
<1>7. UniqueInv' /\ TickInv'
  <2>1. \A u : Known(u)' => Known(u)
    BY <1>1 DEF Known, Polled
  <2>2. UniqueInv'
    BY <1>1, <2>1, UniqueFrame DEF IInv, Inv2
  <2>3. TickInv'
    BY <1>1, <1>2 DEF IInv, Inv2, TickInv, Polled
  <2>4. QED
    BY <2>2, <2>3
<1>8. EndedInv'
  <2>1. \A e \in Desktops : \A u \in DOMAIN tasks : Waits(u, e)' => Waits(u, e)
    <3> TAKE e \in Desktops
    <3> TAKE u \in DOMAIN tasks
    <3>1. Found(u, e)' => Found(u, e) \/ Listed(u, e)
      BY <1>1 DEF Listed, Found
    <3>2. (Asks(u, e)' => Asks(u, e)) /\ (Stands(u, e)' => Stands(u, e)) /\ (Listed(u, e)' => Listed(u, e))
      BY <1>1 DEF Asks, Stands, Listed, Visible
    <3>3. QED
      BY <3>1, <3>2 DEF Waits
  <2>2. \A e \in Desktops : \A u \in DOMAIN tasks' : Ended(u, e)' => u \in DOMAIN tasks /\ Ended(u, e)
    BY <1>1, <2>1 DEF Ended, DestroyOf
  <2>3. \A s \in Trackers : (run[s].at = "reserved" /\ OnRow(s))' =>
           run[s].at = "reserved" /\ OnRow(s) /\ run[s].desk \in Desktops /\ run'[s].desk = run[s].desk
    BY <1>1, <1>2 DEF OnRow, IInv, TypeInv, ActorsInv, Runs, Early
  <2>4. QED
    BY <1>1, <2>2, <2>3, EndedFrame DEF IInv, Inv2
<1>9. SightInv'
  <2>1. \A e \in Desktops : InSight(e) => InSight(e)'
    BY <1>1 DEF InSight, Visible
  <2>2. QED
    BY <1>1, <2>1, SightFrame DEF IInv, Inv2
<1>10. QED
  BY <1>3, <1>4, <1>5, <1>6, <1>7, <1>8, <1>9 DEF Inv2

\* A verdict of success on a removal: the machine is gone.
LEMMA RemovalFound ==
    ASSUME IInv, NEW t \in Trackers, NEW d \in Desktops, d = trk[t].cur.desk,
           trk[t].at \in {"ok", "rebuild"}, trk[t].cur.kind \in RemoveOps
    PROVE  trk[t].cur.upid \in DOMAIN tasks /\ Ended(trk[t].cur.upid, d) /\ vm[d] = "none"
<1>1. DestroyOf(trk[t].cur.upid, d) /\ tasks[trk[t].cur.upid].state = "ok"
  BY DEF IInv, Inv2, KindInv
<1>2. Found(trk[t].cur.upid, d)
  BY DEF Found
<1>3. trk[t].cur.upid \in DOMAIN tasks /\ Ended(trk[t].cur.upid, d)
  BY <1>1, <1>2 DEF Ended, Waits, DestroyOf
<1>4. QED
  BY <1>3 DEF IInv, Inv2, EndedInv

\* The row goes when its machine has gone.
LEMMA DestroyedStep ==
    ASSUME IInv, TypeInv', NEW t \in Trackers, ApplyDestroy(t), Visible(trk[t].cur.desk)
    PROVE  Inv2'
<1>0. PICK d \in Desktops : d = trk[t].cur.desk
  BY DEF ApplyDestroy, IInv, TypeInv, ActorsInv
<1> DEFINE gone == [NoRow EXCEPT !.status = "deleted"]
<1>1. gone.status = "deleted" /\ gone.upid = NoTask /\ gone.kind = "none"
  BY DEF NoRow
<1> HIDE DEF gone
<1>2. /\ trk[t].at = "ok" /\ trk[t].cur.kind = "destroy" /\ ~ RowLocked(d) /\ Visible(d)
      /\ desk' = [desk EXCEPT ![d] = gone] /\ NextOne(t)
      /\ UNCHANGED <<req, run, con, vm, tasks, pool, crashes>>
  BY <1>0 DEF ApplyDestroy, gone
<1>3. /\ desk'[d].status = "deleted" /\ desk'[d].upid = NoTask /\ desk'[d].kind = "none"
      /\ \A e \in Desktops \ {d} : desk'[e] = desk[e]
  BY <1>1, <1>2 DEF IInv, TypeInv, TypeOK
<1>4. /\ trk'[t].at = "ticking" /\ \A s \in Trackers \ {t} : trk'[s] = trk[s]
      /\ \A s \in Trackers : trk'[s].todo = trk[s].todo /\ trk'[s].cur = trk[s].cur
                             /\ (Polled(s)' => Polled(s))
  BY <1>2, NextOneTypes DEF IInv, Polled
<1>5. vm[d] = "none"
  BY <1>0, <1>2, RemovalFound DEF RemoveOps
<1>6. \A e \in Desktops : (Present(e)' <=> Present(e)) /\ (e # d => (Visible(e)' <=> Visible(e)))
  BY <1>2, <1>3 DEF Present, Visible
<1>7. \A p \in Runs : run[p].at \in Early => run[p].desk \in Desktops /\ (OnRow(p)' <=> OnRow(p))
  BY <1>2, <1>4 DEF OnRow, IInv, TypeInv, ActorsInv, Early
<1>8. PlaceInv' /\ AloneInv' /\ RunRowInv'
  <2>1. \A p \in Runs : run[p].at \in Early /\ OnRow(p) => run[p].desk # d
    BY <1>2 DEF OnRow, RowLocked, Reprovisioning, Early
  <2>2. PlaceInv'
    BY <1>2, <1>6, <1>7, <2>1 DEF IInv, Inv2, PlaceInv
  <2>3. AloneInv' /\ RunRowInv'
    BY <1>2, <1>4 DEF IInv, Inv2, AloneInv, RunRowInv
  <2>4. QED
    BY <2>2, <2>3
<1>9. PresentInv'
  <2>1. /\ \A r \in Requests : Open(r) => req[r].desk \in Desktops
        /\ \A s \in Trackers : /\ \A x \in trk[s].todo : x.desk \in Desktops
                               /\ Polled(s) => trk[s].cur.desk \in Desktops
    BY DEF IInv, TypeInv, ActorsInv, Polled
  <2>2. \A r \in Requests : Open(r)' <=> Open(r)
    BY <1>2 DEF Open
  <2>3. QED
    BY <1>2, <1>4, <1>6, <2>1, <2>2 DEF IInv, Inv2, PresentInv
<1>10. KindInv' /\ ReadInv'
  <2>1. KindInv'
    <3>1. \A s \in Trackers : trk'[s].at \in {"ok", "rebuild"} => trk'[s].at = trk[s].at
      BY <1>4
    <3>2. QED
      BY <1>2, <1>3, <1>4, <3>1, KindFrame DEF IInv, Inv2
  <2>2. ReadInv'
    BY <1>2, <1>3, <1>4 DEF IInv, Inv2, TypeInv, ActorsInv, ReadInv, Open
  <2>3. QED
    BY <2>1, <2>2
<1>11. UniqueInv' /\ TickInv'
  <2>1. \A u \in DOMAIN tasks : u # NoTask
    BY DEF IInv, TypeInv, TypeOK, NoTask
  <2>2. \A u \in DOMAIN tasks : Known(u)' => Known(u)
    BY <1>2, <1>3, <1>4, <2>1 DEF Known
  <2>3. UniqueInv'
    BY <1>2, <2>2, UniqueFrame DEF IInv, Inv2
  <2>4. \A s \in Trackers : Polled(s) => trk[s].cur.desk \in Desktops
    BY DEF IInv, TypeInv, ActorsInv, Polled
  <2>5. \A s \in Trackers : trk'[s].at = "rebuild" => trk[s].at = "rebuild" /\ Polled(s)
    BY <1>4 DEF Polled
  <2>6. TickInv'
    BY <1>2, <1>3, <1>4, <2>1, <2>4, <2>5 DEF IInv, Inv2, TickInv
  <2>7. QED
    BY <2>3, <2>6
<1>12. EndedInv'
  <2>1. \A e \in Desktops : \A u \in DOMAIN tasks : Waits(u, e)' => Waits(u, e)
    <3> TAKE e \in Desktops
    <3> TAKE u \in DOMAIN tasks
    <3>1. Stands(u, e)' => Stands(u, e)
      BY <1>3 DEF Stands, Visible
    <3>2. (Asks(u, e)' => Asks(u, e)) /\ (Listed(u, e)' => Listed(u, e)) /\ (Found(u, e)' => Found(u, e))
      BY <1>2, <1>4 DEF Asks, Listed, Found
    <3>3. QED
      BY <3>1, <3>2 DEF Waits
  <2>2. \A e \in Desktops : \A u \in DOMAIN tasks' : Ended(u, e)' => u \in DOMAIN tasks /\ Ended(u, e)
    BY <1>2, <2>1 DEF Ended, DestroyOf
  <2>3. \A s \in Trackers : (run[s].at = "reserved" /\ OnRow(s))' =>
           run[s].at = "reserved" /\ OnRow(s) /\ run[s].desk \in Desktops /\ run'[s].desk = run[s].desk
    BY <1>2, <1>7 DEF Runs, Early
  <2>4. QED
    BY <1>2, <2>2, <2>3, EndedFrame DEF IInv, Inv2
<1>13. SightInv'
  <2>1. crashes = 0 => \A e \in Desktops : vm[e] # "none" => InSight(e)
    BY DEF IInv, Inv2, SightInv, VMsAccounted, InSight
  <2>2. \A e \in Desktops \ {d} : InSight(e) => InSight(e)'
    BY <1>2, <1>6 DEF InSight
  <2>3. QED
    BY <1>2, <1>5, <2>1, <2>2 DEF SightInv, VMsAccounted, InSight
<1>14. QED
  BY <1>8, <1>9, <1>10, <1>11, <1>12, <1>13 DEF Inv2

\* The first leg of a rebuild: its task is off the row before a new machine is cloned.
LEMMA RebuildStep ==
    ASSUME IInv, TypeInv', NEW t \in Trackers, ApplyRebuild(t), Visible(trk[t].cur.desk)
    PROVE  Inv2'
<1>0. PICK d \in Desktops : d = trk[t].cur.desk
  BY DEF ApplyRebuild, IInv, TypeInv, ActorsInv
<1> DEFINE row == [NoRow EXCEPT !.status = "provisioning", !.taken = Persistent /\ desk[d].taken]
<1>1. row.status = "provisioning" /\ row.kind = "none"
  BY DEF NoRow
<1> HIDE DEF row
<1>2. /\ trk[t].at = "ok" /\ trk[t].cur.kind = "rebuild" /\ Visible(d)
      /\ desk' = [desk EXCEPT ![d].status = "provisioning", ![d].upid = NoTask, ![d].kind = "none"]
      /\ run' = [run EXCEPT ![t].row = row] /\ trk' = [trk EXCEPT ![t].at = "rebuild"]
      /\ UNCHANGED <<req, con, vm, tasks, pool, crashes>>
  BY <1>0 DEF ApplyRebuild, row
<1>3. /\ desk'[d].status = "provisioning" /\ desk'[d].upid = NoTask /\ desk'[d].kind = "none"
      /\ \A e \in Desktops \ {d} : desk'[e] = desk[e]
  BY <1>2, RowCleared DEF IInv, Status
<1>4. /\ trk'[t].at = "rebuild" /\ \A s \in Trackers \ {t} : trk'[s] = trk[s]
      /\ \A s \in Trackers : trk'[s].todo = trk[s].todo /\ trk'[s].cur = trk[s].cur
      /\ \A s \in Trackers : Polled(s)' <=> Polled(s)
  BY <1>2 DEF IInv, TypeInv, TypeOK, Tick, Polled
<1>5. /\ run'[t].row = row /\ \A p \in Runs \ {t} : run'[p] = run[p]
      /\ \A p \in Runs : /\ run'[p].at = run[p].at /\ run'[p].desk = run[p].desk
                         /\ run'[p].upid = run[p].upid
  BY <1>2 DEF IInv, TypeInv, TypeOK, ProvisionRun, Runs
<1>6. \A e \in Desktops : (Present(e)' <=> Present(e)) /\ (Visible(e)' <=> Visible(e))
  BY <1>2, <1>3 DEF Present, Visible
<1>7. \A p \in Runs : run[p].at \in Early => run[p].desk \in Desktops /\ (OnRow(p)' <=> OnRow(p))
  BY <1>4, <1>5 DEF OnRow, IInv, TypeInv, ActorsInv, Early
<1>8. PlaceInv' /\ AloneInv' /\ RunRowInv'
  <2>1. PlaceInv'
    <3> SUFFICES ASSUME NEW p \in Runs, run[p].at \in Early
                 PROVE  /\ OnRow(p)' => Visible(run[p].desk)'
                        /\ ~ OnRow(p)' => ~ Present(run[p].desk)'
      BY <1>5 DEF PlaceInv
    <3>1. PICK e \in Desktops : e = run[p].desk /\ e = run'[p].desk
      BY <1>5, <1>7
    <3>2. QED
      BY <1>6, <1>7, <3>1 DEF IInv, Inv2, PlaceInv
  <2>2. AloneInv'
    BY <1>5 DEF IInv, Inv2, AloneInv
  <2>3. RunRowInv'
    BY <1>1, <1>4, <1>5 DEF IInv, Inv2, RunRowInv
  <2>4. QED
    BY <2>1, <2>2, <2>3
<1>9. PresentInv'
  <2>1. /\ \A r \in Requests : Open(r) => req[r].desk \in Desktops
        /\ \A s \in Trackers : /\ \A x \in trk[s].todo : x.desk \in Desktops
                               /\ Polled(s) => trk[s].cur.desk \in Desktops
    BY DEF IInv, TypeInv, ActorsInv, Polled
  <2>2. \A r \in Requests : Open(r)' <=> Open(r)
    BY <1>2 DEF Open
  <2>3. QED
    BY <1>2, <1>4, <1>6, <2>1, <2>2 DEF IInv, Inv2, PresentInv
<1>10. KindInv' /\ ReadInv'
  <2>1. /\ \A e \in Desktops : /\ desk'[e].kind \in RemoveOps /\ desk'[e].upid # NoTask =>
                                     desk[e].kind \in RemoveOps /\ desk[e].upid # NoTask /\ desk'[e].upid = desk[e].upid
                               /\ desk'[e].kind \in {"none", desk[e].kind}
        /\ UNCHANGED <<req, tasks>> /\ trk[t].at = "ok" /\ trk[t].cur.kind = "rebuild"
    BY <1>2, <1>3 DEF RemoveOps
  <2>2. KindInv /\ ReadInv /\ \A r \in Requests : Open(r) => req[r].desk \in Desktops
    BY DEF IInv, Inv2, TypeInv, ActorsInv
  <2>3. KindInv'
    BY ONLY <1>4, <2>1, <2>2 DEF KindInv, DestroyOf
  <2>4. ReadInv'
    BY ONLY <2>1, <2>2 DEF ReadInv, Open
  <2>5. QED
    BY <2>3, <2>4
<1>11. UniqueInv' /\ TickInv'
  <2>1. \A u \in DOMAIN tasks : u # NoTask
    BY DEF IInv, TypeInv, TypeOK, NoTask
  <2>2. \A u \in DOMAIN tasks : Known(u)' => Known(u)
    BY ONLY <1>3, <1>4, <1>5, <2>1 DEF Known
  <2>3. UniqueInv'
    BY <1>2, <2>2, UniqueFrame DEF IInv, Inv2
  <2>4. \A s \in Trackers : Polled(s) => trk[s].cur.desk \in Desktops
    BY DEF IInv, TypeInv, ActorsInv, Polled
  <2>5. Polled(t) /\ \A s \in Trackers \ {t} : trk'[s].at = "rebuild" => trk[s].at = "rebuild" /\ Polled(s)
    BY <1>2, <1>4 DEF Polled
  <2>6. \A s \in Trackers : trk'[s].at = "rebuild" => desk'[trk[s].cur.desk].upid # trk[s].cur.upid
    BY <1>0, <1>3, <2>1, <2>4, <2>5 DEF IInv, Inv2, TickInv
  <2>7. TickInv'
    <3>1. TickInv /\ UNCHANGED tasks
      BY <1>2 DEF IInv, Inv2
    <3>2. QED
      BY ONLY <1>4, <2>6, <3>1 DEF TickInv
  <2>8. QED
    BY <2>3, <2>7
<1>12. EndedInv'
  <2>1. \A e \in Desktops : \A u \in DOMAIN tasks : Waits(u, e)' => Waits(u, e)
    <3> TAKE e \in Desktops
    <3> TAKE u \in DOMAIN tasks
    <3>1. Stands(u, e)' => Stands(u, e)
      BY <1>3 DEF Stands, Visible, RemoveOps
    <3>2. (Asks(u, e)' => Asks(u, e)) /\ (Listed(u, e)' => Listed(u, e)) /\ (Found(u, e)' => Found(u, e))
      BY <1>2, <1>4 DEF Asks, Listed, Found
    <3>3. QED
      BY <3>1, <3>2 DEF Waits
  <2>2. \A e \in Desktops : \A u \in DOMAIN tasks' : Ended(u, e)' => u \in DOMAIN tasks /\ Ended(u, e)
    BY <1>2, <2>1 DEF Ended, DestroyOf
  <2>3. \A s \in Trackers : (run[s].at = "reserved" /\ OnRow(s))' =>
           run[s].at = "reserved" /\ OnRow(s) /\ run[s].desk \in Desktops /\ run'[s].desk = run[s].desk
    BY <1>5, <1>7 DEF Runs, Early
  <2>4. QED
    BY <1>2, <2>2, <2>3, EndedFrame DEF IInv, Inv2
<1>13. SightInv'
  <2>1. \A e \in Desktops : InSight(e) => InSight(e)'
    BY <1>5, <1>6 DEF InSight
  <2>2. QED
    BY <1>2, <2>1, SightFrame DEF IInv, Inv2
<1>14. QED
  BY <1>8, <1>9, <1>10, <1>11, <1>12, <1>13 DEF Inv2

\* The second leg takes the row it follows up, or a desktop that has none yet.  The
\* removal that made room for it was this tick's, and is in nobody's hands any more.
LEMMA ReprovisionStep ==
    ASSUME IInv, TypeInv', OneTracker, NEW t \in Trackers, Reprovision(t)
    PROVE  Inv2'
<1>0. PICK d \in Desktops : d = trk[t].cur.desk
  BY DEF Reprovision, IInv, TypeInv, ActorsInv
<1> DEFINE free == {e \in Desktops : desk[e].status = "absent" /\ \A q \in Runs : run[q].desk # e}
<1>1. CASE Returned(t)
  BY <1>1, QuietTracking
<1>2. CASE ~ Returned(t)
  <2>0. t \in Runs
    BY DEF Runs
  <2>1. /\ trk[t].at = "rebuild" /\ ~ RowLocked(d) /\ trk' = [trk EXCEPT ![t].at = "provisioning"]
        /\ UNCHANGED <<desk, req, con, vm, tasks, pool, crashes>>
    BY <1>0, <1>2 DEF Reprovision
  <2>2. PICK e \in (IF Visible(d) THEN {d} ELSE free) : Reserve(t, e, run[t].row)
    BY <1>0, <1>2 DEF Reprovision
  <2>3. /\ e \in Desktops /\ Visible(d) => e = d
        /\ ~ Visible(d) => ~ Present(e) /\ \A q \in Runs : run[q].desk # e
    BY <2>2 DEF Present
  <2>4. /\ run'[t].at = "reserved" /\ run'[t].desk = e /\ run'[t].row = run[t].row
        /\ \A q \in Runs \ {t} : run'[q] = run[q]
    BY <2>0, <2>2 DEF Reserve, IInv, TypeInv, TypeOK
  <2>5. /\ trk'[t].at = "provisioning" /\ \A s \in Trackers \ {t} : trk'[s] = trk[s]
        /\ \A s \in Trackers : /\ trk'[s].todo = trk[s].todo /\ trk'[s].cur = trk[s].cur
                               /\ Polled(s)' <=> Polled(s)
    BY <2>1 DEF IInv, TypeInv, TypeOK, Tick, Polled
  <2>6. Polled(t) /\ Present(d) /\ run[t].at \in {"off", "done"}
    BY <1>0, <2>0, <2>1 DEF IInv, Inv2, PresentInv, TypeInv, ActorsInv, Polled
  <2>7. /\ Visible(d) => e = d /\ OnRow(t)'
        /\ ~ Visible(d) => ~ OnRow(t)' /\ ~ Present(e)
    BY <1>0, <2>3, <2>4, <2>5, <2>6 DEF OnRow
  <2>8. \A q \in Runs \ {t} : run[q].at \in Early => run[q].desk # e
    <3> TAKE q \in Runs \ {t}
    <3> HAVE run[q].at \in Early
    <3>1. CASE ~ Visible(d)
      BY <2>3, <3>1
    <3>2. CASE Visible(d) /\ q \in Trackers
      BY <2>1, <2>3, <3>2 DEF RowLocked, Reprovisioning, Early
    <3>3. CASE Visible(d) /\ q \notin Trackers
      BY <2>3, <2>6, <3>3 DEF IInv, Inv2, PlaceInv, OnRow
    <3>4. QED
      BY <3>1, <3>2, <3>3
  <2>9. \A q \in Runs : run'[q].at \in Early /\ q # t =>
           /\ run[q].at \in Early /\ run[q].desk \in Desktops /\ run'[q].desk = run[q].desk
           /\ OnRow(q)' <=> OnRow(q)
    BY <2>4, <2>5 DEF OnRow, IInv, TypeInv, ActorsInv, Early
  <2>10. PlaceInv' /\ AloneInv' /\ RunRowInv'
    <3>1. \A c \in Desktops : (Visible(c)' <=> Visible(c)) /\ (Present(c)' <=> Present(c))
      BY <2>1 DEF Visible, Present
    <3>2. PlaceInv'
      <4>1. ASSUME NEW q \in Runs, run'[q].at \in Early
            PROVE  /\ OnRow(q)' => Visible(run[q].desk)'
                   /\ ~ OnRow(q)' => ~ Present(run[q].desk)'
        <5>1. CASE q = t
          BY <2>3, <2>4, <2>7, <3>1, <5>1
        <5>2. CASE q # t
          BY <2>9, <3>1, <4>1, <5>2 DEF IInv, Inv2, PlaceInv
        <5>3. QED
          BY <5>1, <5>2
      <4>2. QED
        BY <4>1 DEF PlaceInv
    <3>3. AloneInv'
      BY <2>4, <2>8, <2>9 DEF IInv, Inv2, AloneInv
    <3>4. RunRowInv'
      BY <2>0, <2>1, <2>4, <2>5 DEF IInv, Inv2, RunRowInv
    <3>5. QED
      BY <3>2, <3>3, <3>4
  <2>11. PresentInv' /\ KindInv' /\ ReadInv'
    <3>1. PresentInv'
      BY <2>1, <2>5 DEF IInv, Inv2, PresentInv, Present, Open
    <3>2. KindInv'
      <4>1. \A s \in Trackers : trk'[s].at \in {"ok", "rebuild"} => trk'[s].at = trk[s].at
        BY <2>5
      <4>2. QED
        BY <2>1, <2>5, <4>1, KindFrame DEF IInv, Inv2
    <3>3. ReadInv'
      BY <2>1 DEF IInv, Inv2, ReadInv, Open
    <3>4. QED
      BY <3>1, <3>2, <3>3
  <2>12. UniqueInv' /\ TickInv'
    <3>1. \A u : Known(u)' => Known(u)
      BY ONLY <2>1, <2>4, <2>5 DEF Known
    <3>2. UniqueInv'
      BY <2>1, <3>1, UniqueFrame DEF IInv, Inv2
    <3>3. TickInv'
      BY <2>1, <2>5 DEF IInv, Inv2, TickInv
    <3>4. QED
      BY <3>2, <3>3
  <2>13. EndedInv'
    <3>1. \A c \in Desktops : \A u \in DOMAIN tasks : Ended(u, c)' => Ended(u, c)
      BY <2>1, <2>5 DEF Ended, DestroyOf, Waits, Asks, Stands, Listed, Found, Visible
    <3>2. ASSUME Visible(d)
          PROVE  vm[d] = "none" /\ \A u \in DOMAIN tasks : ~ Ended(u, d)'
      <4>0. PICK upid : upid = trk[t].cur.upid
        OBVIOUS
      <4>1. trk[t].cur.kind = "rebuild"
        BY <2>1 DEF IInv, Inv2, KindInv
      <4>2. upid \in DOMAIN tasks /\ Ended(upid, d) /\ vm[d] = "none"
        BY <1>0, <2>1, <4>0, <4>1, RemovalFound DEF RemoveOps
      <4>3. \A u \in DOMAIN tasks : Ended(u, d) => u = upid
        BY <4>2 DEF IInv, Inv2, EndedInv
      <4>4. ~ Waits(upid, d)'
        <5>1. ~ Asks(upid, d)'
          BY <2>1, <2>6, <4>0 DEF Asks, IInv, Inv2, UniqueInv, Known
        <5>2. ~ Stands(upid, d)'
          BY <1>0, <2>1, <4>0 DEF Stands, IInv, Inv2, TickInv
        <5>3. ~ Listed(upid, d)'
          BY <1>0, <2>5, <2>6 DEF Listed, IInv, Inv2, TickInv, OneTracker
        <5>4. ~ Found(upid, d)'
          BY <2>5 DEF Found, OneTracker
        <5>5. QED
          BY <5>1, <5>2, <5>3, <5>4 DEF Waits
      <4>5. \A u \in DOMAIN tasks : ~ Ended(u, d)'
        BY <3>1, <4>3, <4>4 DEF Ended
      <4>6. QED
        BY <4>2, <4>5
    <3>3. /\ \A c \in Desktops : \A u \in DOMAIN tasks : Ended(u, c) => vm[c] = "none"
          /\ \A c \in Desktops : \A u, v \in DOMAIN tasks : Ended(u, c) /\ Ended(v, c) => u = v
          /\ \A s \in Trackers : run[s].at = "reserved" /\ OnRow(s) =>
                /\ vm[run[s].desk] = "none"
                /\ \A u \in DOMAIN tasks : ~ Ended(u, run[s].desk)
      BY DEF IInv, Inv2, EndedInv
    <3>4. (\A c \in Desktops : \A u \in DOMAIN tasks : Ended(u, c) => vm[c] = "none")'
      BY <2>1, <3>1, <3>3
    <3>5. (\A c \in Desktops : \A u, v \in DOMAIN tasks : Ended(u, c) /\ Ended(v, c) => u = v)'
      BY <2>1, <3>1, <3>3
    <3>6. ASSUME NEW s \in Trackers, (run[s].at = "reserved" /\ OnRow(s))'
          PROVE  (/\ vm[run[s].desk] = "none"
                  /\ \A u \in DOMAIN tasks : ~ Ended(u, run[s].desk))'
      <4>1. s = t
        BY DEF OneTracker
      <4>2. Visible(d) /\ run'[s].desk = d
        BY <2>3, <2>4, <2>7, <3>6, <4>1
      <4>3. QED
        BY <2>1, <3>2, <4>2
    <3>7. QED
      BY <3>4, <3>5, <3>6 DEF EndedInv
  <2>14. SightInv'
    <3>1. \A c \in Desktops : InSight(c) => InSight(c)'
      BY <2>1, <2>4, <2>6 DEF InSight, Visible
    <3>2. QED
      BY <2>1, <3>1, SightFrame DEF IInv, Inv2
  <2>15. QED
    BY <2>10, <2>11, <2>12, <2>13, <2>14 DEF Inv2
<1>3. QED
  BY <1>1, <1>2

\* A task ends well: a machine that is removed was there and stopped, so no removal of it
\* is still to be acted upon.
LEMMA TaskSucceedsStep ==
    ASSUME IInv, TypeInv', NEW u \in DOMAIN tasks, TaskSucceeds(u)
    PROVE  Inv2'
<1>0. PICK d \in Desktops : d = tasks[u].desk
  BY TaskEffect DEF IInv
<1>1. /\ DOMAIN tasks' = DOMAIN tasks /\ \A v \in DOMAIN tasks \ {u} : tasks'[v] = tasks[v]
      /\ tasks'[u].op = tasks[u].op /\ tasks'[u].desk = tasks[u].desk
      /\ tasks'[u].state = "ok" /\ tasks[u].state = "running"
      /\ tasks[u].op \in {"clone", "start", "stop", "destroy"}
      /\ UNCHANGED <<desk, req, run, trk, con, pool, crashes>>
  BY TaskEffect DEF IInv
<1>2. /\ vm[d] # "none" /\ \A e \in Desktops \ {d} : vm'[e] = vm[e]
      /\ vm'[d] = "none" <=> tasks[u].op = "destroy"
  BY <1>0, <1>1 DEF TaskSucceeds, CanSucceed, Effect, IInv, TypeInv, TypeOK
<1>3. \A v, e : /\ DestroyOf(v, e)' <=> DestroyOf(v, e)
                /\ v \in DOMAIN tasks /\ tasks[v].state = "ok" => tasks'[v].state = "ok"
  BY <1>1 DEF DestroyOf
<1>4. PlaceInv' /\ AloneInv' /\ RunRowInv' /\ PresentInv' /\ ReadInv' /\ TickInv'
  BY <1>1 DEF IInv, Inv2, PlaceInv, AloneInv, RunRowInv, PresentInv, ReadInv, TickInv,
              OnRow, Visible, Present, Polled, Open
<1>5. KindInv'
  BY <1>1 DEF IInv, Inv2, KindInv, DestroyOf
<1>6. UniqueInv'
  <2>1. \A v : Known(v)' => Known(v)
    BY <1>1 DEF Known, Polled
  <2>2. QED
    BY <1>1, <2>1, UniqueFrame DEF IInv, Inv2
<1>7. EndedInv'
  <2>1. /\ \A e \in Desktops : \A v \in DOMAIN tasks : Ended(v, e) => vm[e] = "none"
        /\ \A e \in Desktops : \A v, w \in DOMAIN tasks : Ended(v, e) /\ Ended(w, e) => v = w
        /\ \A t \in Trackers : run[t].at = "reserved" /\ OnRow(t) =>
              /\ vm[run[t].desk] = "none"
              /\ \A v \in DOMAIN tasks : ~ Ended(v, run[t].desk)
    BY DEF IInv, Inv2, EndedInv
  <2>2. \A e \in Desktops : \A v \in DOMAIN tasks :
           Ended(v, e)' => Ended(v, e) \/ (v = u /\ e = d /\ tasks[u].op = "destroy")
    <3> TAKE e \in Desktops
    <3> TAKE v \in DOMAIN tasks
    <3> HAVE Ended(v, e)'
    <3>1. Waits(v, e)
      BY <1>1 DEF Ended, Waits, Asks, Stands, Listed, Found, Visible
    <3>2. DestroyOf(v, e)
      BY <1>3 DEF Ended
    <3>3. CASE v = u
      BY <1>0, <3>2, <3>3 DEF DestroyOf
    <3>4. CASE v # u
      BY <1>1, <3>1, <3>2, <3>4 DEF Ended
    <3>5. QED
      BY <3>3, <3>4
  <2>3. \A v \in DOMAIN tasks : ~ Ended(v, d)
    BY <1>2, <2>1
  <2>4. (\A e \in Desktops : \A v \in DOMAIN tasks : Ended(v, e) => vm[e] = "none")'
    BY <1>1, <1>2, <2>1, <2>2, <2>3
  <2>5. (\A e \in Desktops : \A v, w \in DOMAIN tasks : Ended(v, e) /\ Ended(w, e) => v = w)'
    BY <1>1, <2>1, <2>2, <2>3
  <2>6. ASSUME NEW t \in Trackers, (run[t].at = "reserved" /\ OnRow(t))'
        PROVE  (/\ vm[run[t].desk] = "none"
                /\ \A v \in DOMAIN tasks : ~ Ended(v, run[t].desk))'
    <3>1. /\ run'[t].desk = run[t].desk /\ run[t].desk \in Desktops /\ vm[run[t].desk] = "none"
          /\ \A v \in DOMAIN tasks : ~ Ended(v, run[t].desk)
      BY <1>1, <2>1, <2>6 DEF OnRow, IInv, TypeInv, ActorsInv, Runs
    <3>2. PICK e \in Desktops : e = run[t].desk
      BY <3>1
    <3>3. e # d
      BY <1>2, <3>1, <3>2
    <3>4. vm'[e] = "none" /\ \A v \in DOMAIN tasks' : ~ Ended(v, e)'
      BY <1>1, <1>2, <2>2, <3>1, <3>2, <3>3
    <3>5. QED
      BY <3>1, <3>2, <3>4
  <2>7. QED
    BY <2>4, <2>5, <2>6 DEF EndedInv
<1>8. SightInv'
  <2>1. \A e \in Desktops : InSight(e) => InSight(e)'
    BY <1>1 DEF InSight, Visible
  <2>2. \A e \in Desktops : vm'[e] # "none" => vm[e] # "none"
    BY <1>2
  <2>3. QED
    BY <1>1, <2>1, <2>2, SightFrame DEF IInv, Inv2
<1>9. QED
  BY <1>4, <1>5, <1>6, <1>7, <1>8 DEF Inv2

LEMMA TaskFailsStep ==
    ASSUME IInv, TypeInv', NEW u \in DOMAIN tasks, TaskFails(u)
    PROVE  Inv2'
<1>1. /\ DOMAIN tasks' = DOMAIN tasks /\ \A v \in DOMAIN tasks \ {u} : tasks'[v] = tasks[v]
      /\ tasks'[u].op = tasks[u].op /\ tasks'[u].desk = tasks[u].desk
      /\ tasks'[u].state # "ok" /\ tasks[u].state = "running"
      /\ UNCHANGED <<desk, req, run, trk, con, pool, crashes>>
  <2>1. /\ tasks' = [tasks EXCEPT ![u].state = "failed"] /\ tasks[u].state = "running"
        /\ UNCHANGED <<desk, req, run, trk, con, pool, crashes>>
    BY DEF TaskFails
  <2>2. tasks \in Seq(Task) /\ tasks[u] \in Task
    BY DEF IInv, TypeInv, TypeOK
  <2>3. /\ DOMAIN tasks' = DOMAIN tasks /\ \A v \in DOMAIN tasks \ {u} : tasks'[v] = tasks[v]
        /\ tasks'[u].op = tasks[u].op /\ tasks'[u].desk = tasks[u].desk
    BY TaskEffect DEF IInv
  <2>4. tasks'[u].state = "failed"
    BY <2>1, <2>2 DEF Task
  <2>5. QED
    BY <2>1, <2>3, <2>4
<1>2. \A d \in Desktops : vm[d] = "none" => vm'[d] = "none"
  BY DEF TaskFails, IInv, TypeInv, TypeOK
<1>3. \A d \in Desktops : vm'[d] # "none" => vm[d] # "none"
  BY <1>2
<1>4. PlaceInv' /\ AloneInv' /\ RunRowInv' /\ PresentInv' /\ ReadInv' /\ TickInv'
  BY <1>1 DEF IInv, Inv2, PlaceInv, AloneInv, RunRowInv, PresentInv, ReadInv, TickInv,
              OnRow, Visible, Present, Polled, Open
<1>5. KindInv'
  BY <1>1 DEF IInv, Inv2, KindInv, DestroyOf
<1>6. UniqueInv'
  <2>1. \A v : Known(v)' => Known(v)
    BY <1>1 DEF Known, Polled
  <2>2. QED
    BY <1>1, <2>1, UniqueFrame DEF IInv, Inv2
<1>7. EndedInv'
  <2>1. \A e \in Desktops : \A v \in DOMAIN tasks' : Ended(v, e)' => v \in DOMAIN tasks /\ Ended(v, e)
    <3> TAKE e \in Desktops
    <3> TAKE v \in DOMAIN tasks'
    <3> HAVE Ended(v, e)'
    <3>1. Waits(v, e)
      BY <1>1 DEF Ended, Waits, Asks, Stands, Listed, Found, Visible
    <3>2. QED
      BY <1>1, <3>1 DEF Ended, DestroyOf
  <2>2. \A t \in Trackers : (run[t].at = "reserved" /\ OnRow(t))' =>
           run[t].at = "reserved" /\ OnRow(t) /\ run[t].desk \in Desktops /\ run'[t].desk = run[t].desk
    BY <1>1 DEF OnRow, IInv, TypeInv, ActorsInv, Runs
  <2>3. QED
    BY <1>2, <2>1, <2>2, EndedFrame DEF IInv, Inv2
<1>8. SightInv'
  <2>1. \A e \in Desktops : InSight(e) => InSight(e)'
    BY <1>1 DEF InSight, Visible
  <2>2. QED
    BY <1>1, <1>3, <2>1, SightFrame DEF IInv, Inv2
<1>9. QED
  BY <1>4, <1>5, <1>6, <1>7, <1>8 DEF Inv2

LEMMA InitSight == Init => Inv2
<1> SUFFICES ASSUME Init
             PROVE  Inv2
  OBVIOUS
<1>1. /\ \A r \in Requests : req[r].at = "idle"
      /\ \A p \in Runs : run[p].at = "off"
      /\ \A t \in Trackers : trk[t].at = "idle" /\ trk[t].todo = {}
      /\ tasks = <<>>
  BY DEF Init, IdleReq, IdleRun, IdleTick
<1>2. \A d \in Desktops : /\ desk[d].upid = NoTask /\ desk[d].kind = "none"
                          /\ vm[d] # "none" => Visible(d)
  <2>1. /\ [NoRow EXCEPT !.status = "available"].upid = NoTask
        /\ [NoRow EXCEPT !.status = "available"].kind = "none"
        /\ [NoRow EXCEPT !.status = "available"].status = "available"
        /\ [NoRow EXCEPT !.status = "assigned", !.taken = TRUE].upid = NoTask
        /\ [NoRow EXCEPT !.status = "assigned", !.taken = TRUE].kind = "none"
        /\ [NoRow EXCEPT !.status = "assigned", !.taken = TRUE].status = "assigned"
        /\ NoRow.upid = NoTask /\ NoRow.kind = "none"
    BY DEF NoRow
  <2>2. QED
    BY <2>1 DEF Init, Initially, Visible
<1>3. PlaceInv /\ AloneInv /\ RunRowInv /\ PresentInv /\ ReadInv /\ UniqueInv /\ TickInv
  BY <1>1 DEF PlaceInv, AloneInv, RunRowInv, PresentInv, ReadInv, UniqueInv, TickInv,
              Early, Open, Polled
<1>4. KindInv
  BY <1>1, <1>2 DEF KindInv, RemoveOps
<1>5. EndedInv
  BY <1>1 DEF EndedInv, Runs, Ended, DestroyOf
<1>6. SightInv
  BY <1>2 DEF SightInv, VMsAccounted
<1>7. QED
  BY <1>3, <1>4, <1>5, <1>6 DEF Inv2

LEMMA StepSight ==
    ASSUME OneTracker, IInv, OneRequest \/ NoStaleKind, [Next]_vars
    PROVE  IInv'
<1>1. TypeInv'
  BY StepTypes DEF IInv
<1>2. ASSUME NEW t \in Trackers, Tracking(t)
      PROVE  Inv2'
  <2>1. CASE TickBegins(t)
    BY <1>1, <2>1, TickBeginsStep
  <2>2. ASSUME NEW x \in trk[t].todo, PollOne(t, x)
        PROVE  Inv2'
    BY <1>1, <2>2, PollStep
  <2>3. CASE TickEnds(t) \/ MarkTaskError(t) \/ ApplyPower(t)
    BY <1>1, <2>3, QuietTracking
  <2>4. CASE (ApplyDestroy(t) \/ ApplyRebuild(t)) /\ ~ Visible(trk[t].cur.desk)
    BY <1>1, <2>4, QuietTracking
  <2>5. CASE ApplyDestroy(t) /\ Visible(trk[t].cur.desk)
    BY <1>1, <2>5, DestroyedStep
  <2>6. CASE ApplyRebuild(t) /\ Visible(trk[t].cur.desk)
    BY <1>1, <2>6, RebuildStep
  <2>7. CASE Reprovision(t)
    BY <1>1, <2>7, ReprovisionStep
  <2>8. QED
    BY <1>2, <2>1, <2>2, <2>3, <2>4, <2>5, <2>6, <2>7 DEF Tracking
<1>3. ASSUME NEW p \in Runs, Provisioning(p)
      PROVE  Inv2'
  BY <1>1, <1>3, CloneDispatchedStep, CloneRecordedStep, QuietProvisioning DEF Provisioning
<1>4. ASSUME NEW r \in Requests, Handling(r)
      PROVE  Inv2'
  BY <1>1, <1>4, QuietRequestStep, DispatchStep, AdminCommitStep DEF Handling
<1>5. ASSUME PoolDeactivated \/ UNCHANGED vars
      PROVE  Inv2'
  BY <1>1, <1>5, QuietPool DEF PoolDeactivated, vars
<1>6. ASSUME Crash \/ \E d \in Desktops : SweepStuck(d)
      PROVE  Inv2'
  BY <1>1, <1>6, CrashStep, SweepStep
<1>7. ASSUME NEW p \in Provisions, NEW d \in Desktops, NEW taken \in {FALSE, Persistent},
             ProvisionNew(p, d, taken)
      PROVE  Inv2'
  BY <1>1, <1>7, ProvisionNewStep
<1>8. ASSUME NEW r \in Requests, NEW op \in AdminOps, NEW d \in Desktops, AdminRead(r, op, d)
      PROVE  Inv2'
  BY <1>1, <1>8, ReadStep
<1>9. ASSUME NEW c \in Connects, Connecting(c) \/ SessionEnds(c)
      PROVE  Inv2'
  BY <1>1, <1>9, UserStep
<1>10. ASSUME NEW c \in Connects, NEW d \in Desktops, ConnectReads(c, d)
       PROVE  Inv2'
  BY <1>1, <1>10, QuietPool DEF ConnectReads
<1>11. ASSUME NEW u \in DOMAIN tasks, TaskSucceeds(u) \/ TaskFails(u)
       PROVE  Inv2'
  BY <1>1, <1>11, TaskSucceedsStep, TaskFailsStep
<1>12. Inv2'
  BY <1>2, <1>3, <1>4, <1>5, <1>6, <1>7, <1>8, <1>9, <1>10, <1>11 DEF Next
<1>13. QED
  BY <1>1, <1>12 DEF IInv

\* Beside every kind stands its task, or nobody else writes meanwhile.
KindsClear == OneRequest \/ NoStaleKind

\* With one tracker, and while no row keeps a kind whose task is gone (or the admin
\* requests come one at a time), no machine is without a row that leads to it before a
\* broker crashes: whatever requests, rebuilds, provisionings, connects and failed calls
\* overlap, the tracker removes a row only when its machine is gone.
THEOREM MachinesInSight ==
    ASSUME OneTracker
    PROVE  Spec /\ []KindsClear => [](crashes = 0 => VMsAccounted)
<1>1. Init => IInv
  BY InitTypes, InitSight DEF IInv
<1>2. IInv /\ KindsClear /\ [Next]_vars => IInv'
  BY StepSight DEF KindsClear
<1>3. IInv => (crashes = 0 => VMsAccounted)
  BY DEF IInv, Inv2, SightInv
<1>4. QED
  BY <1>1, <1>2, <1>3, PTL DEF Spec

\* In particular when the requests come one at a time and no broker crashes.
THEOREM MachinesAlwaysInSight ==
    ASSUME OneTracker, OneRequest, MaxCrashes = 0
    PROVE  Spec => []VMsAccounted
<1>1. KindsClear
  BY DEF KindsClear
<1>2. TypeOK => crashes = 0
  BY DEF TypeOK
<1>3. Spec => [](crashes = 0 => VMsAccounted)
  BY <1>1, MachinesInSight, PTL
<1>4. QED
  BY <1>2, <1>3, TypeCorrect, PTL

=============================================================================
