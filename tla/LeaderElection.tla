--------------------------- MODULE LeaderElection ---------------------------
(***************************************************************************)
(* One background worker on every broker, and the PostgreSQL advisory lock *)
(* that elects the broker that runs it.  A broker opens a connection for   *)
(* the lock, tries it, and while it leads sends a heartbeat on that        *)
(* connection before every tick.  The tick works on other connections, so  *)
(* losing the lock does not stop it.                                       *)
(*                                                                         *)
(* A connection breaks without a word: the broker finds out when it next   *)
(* uses it, PostgreSQL at a moment of its own, and until then the lock is  *)
(* orphaned: held for a client that is gone.                               *)
(***************************************************************************)
EXTENDS Naturals

CONSTANTS
    Brokers,     \* broker processes on one database
    Free,        \* no session holds the advisory lock
    Orphaned,    \* a session whose client is gone still holds it
    Faults,      \* what may happen: "drop", "crash", "stop"
    MaxFaults    \* bound: how many of them in a behaviour

ASSUME NamesAssumption  == {Free, Orphaned} \cap Brokers = {} /\ Free # Orphaned
ASSUME BoundAssumption  == MaxFaults \in Nat

VARIABLES
    task,     \* where a broker's asyncio task of the worker is
    conn,     \* its lock connection as the socket is, known to it or not
    lock,     \* who holds the advisory lock, as PostgreSQL sees it
    faults    \* faults so far (bound)

vars == <<task, conn, lock, faults>>

\* "waiting": asleep before the next try; "acquiring": on a new connection,
\* trying the lock; "heartbeat": about to send SELECT 1; "pausing": asleep until
\* the next tick; "releasing": cancelled, in _acquire_leader_lock's finally.
TaskState == {"down", "waiting", "acquiring", "heartbeat", "ticking", "pausing",
              "releasing"}
Leading   == {"heartbeat", "ticking", "pausing", "releasing"}

TypeOK ==
    /\ task \in [Brokers -> TaskState]
    /\ conn \in [Brokers -> {"none", "open", "broken"}]
    /\ lock \in Brokers \cup {Free, Orphaned}
    /\ faults \in 0 .. MaxFaults

Init ==
    /\ task = [b \in Brokers |-> "waiting"]
    /\ conn = [b \in Brokers |-> "none"]
    /\ lock = Free
    /\ faults = 0

Goto(b, state) == task' = [task EXCEPT ![b] = state]
Conn(b, state) == conn' = [conn EXCEPT ![b] = state]

\* What the end of b's connection leaves of the lock: PostgreSQL ends the
\* session and frees the lock at once, or has not noticed yet.
SessionLost(b) == IF lock = b THEN lock' \in {Free, Orphaned} ELSE UNCHANGED lock

----------------------------------------------------------------------------
(***************************************************************************)
(* Becoming leader                                                         *)
(***************************************************************************)
Connect(b) ==          \* engine.connect(); the pool's pre-ping hands out live ones
    /\ task[b] = "waiting"
    /\ Goto(b, "acquiring") /\ Conn(b, "open")
    /\ UNCHANGED <<lock, faults>>

Elected(b) ==
    /\ task[b] = "acquiring" /\ conn[b] = "open" /\ lock = Free
    /\ lock' = b
    /\ Goto(b, "heartbeat")
    /\ UNCHANGED <<conn, faults>>

NotElected(b) ==       \* held by another session, or the query failed
    /\ task[b] = "acquiring" /\ (conn[b] = "broken" \/ lock # Free)
    /\ Goto(b, "waiting") /\ Conn(b, "none")
    /\ UNCHANGED <<lock, faults>>

(***************************************************************************)
(* The tick loop                                                           *)
(***************************************************************************)
\* Mutant of HeartbeatOk: the tick starts without SELECT 1.
HeartbeatSkipped(b) ==
    /\ task[b] = "heartbeat"
    /\ Goto(b, "ticking")
    /\ UNCHANGED <<conn, lock, faults>>

HeartbeatOk(b) ==
    /\ task[b] = "heartbeat" /\ conn[b] = "open"
    /\ Goto(b, "ticking")
    /\ UNCHANGED <<conn, lock, faults>>

Abdicate(b) ==         \* the unlock on the way out fails and is ignored
    /\ task[b] = "heartbeat" /\ conn[b] = "broken"
    /\ Goto(b, "waiting") /\ Conn(b, "none")
    /\ UNCHANGED <<lock, faults>>

\* Mutant of TickEnds: a tick that raised ends the task, and the lock stays.
TickEndsTheLoop(b) ==
    /\ task[b] = "ticking"
    /\ Goto(b, "failed")
    /\ UNCHANGED <<conn, lock, faults>>

TickEnds(b) ==         \* the tick returned, or raised and was logged
    /\ task[b] = "ticking"
    /\ Goto(b, "pausing")
    /\ UNCHANGED <<conn, lock, faults>>

PauseEnds(b) ==
    /\ task[b] = "pausing"
    /\ Goto(b, "heartbeat")
    /\ UNCHANGED <<conn, lock, faults>>

(***************************************************************************)
(* Shutdown: the runner cancels the task, wherever it is                   *)
(***************************************************************************)
Fault(kind) ==
    /\ kind \in Faults /\ faults < MaxFaults
    /\ faults' = faults + 1

\* Mutant of Cancel: the lock is given up before the tick has ended.
CancelUnlocksFirst(b) ==
    /\ Fault("stop")
    /\ task[b] = "ticking"
    /\ lock' = IF lock = b THEN Free ELSE lock
    /\ UNCHANGED <<task, conn>>

Cancel(b) ==
    /\ Fault("stop")
    /\ task[b] \in (TaskState \ {"down", "releasing"})
    /\ IF task[b] \in Leading
       THEN Goto(b, "releasing") /\ UNCHANGED conn
       ELSE Goto(b, "down") /\ Conn(b, "none")
    /\ UNCHANGED lock

\* Mutant of Release: closing the connection only returns it to the pool,
\* where its session keeps the lock.
ReleaseWithoutUnlock(b) ==
    /\ task[b] = "releasing"
    /\ Goto(b, "down") /\ Conn(b, "none")
    /\ UNCHANGED <<lock, faults>>

Release(b) ==          \* pg_advisory_unlock, ignored on a broken connection
    /\ task[b] = "releasing"
    /\ lock' = IF conn[b] = "open" THEN Free ELSE lock
    /\ Goto(b, "down") /\ Conn(b, "none")
    /\ UNCHANGED faults

(***************************************************************************)
(* The environment                                                         *)
(***************************************************************************)
Drop(b) ==
    /\ Fault("drop")
    /\ conn[b] = "open"
    /\ Conn(b, "broken") /\ SessionLost(b)
    /\ UNCHANGED task

Crash(b) ==
    /\ Fault("crash")
    /\ task[b] # "down"
    /\ Goto(b, "down") /\ Conn(b, "none") /\ SessionLost(b)

Restart(b) ==
    /\ task[b] = "down"
    /\ Goto(b, "waiting")
    /\ UNCHANGED <<conn, lock, faults>>

ServerNotices ==       \* PostgreSQL ends the session of the lost client
    /\ lock = Orphaned
    /\ lock' = Free
    /\ UNCHANGED <<task, conn, faults>>

----------------------------------------------------------------------------
WorkerLoop(b) ==
    \/ Connect(b) \/ Elected(b) \/ NotElected(b)
    \/ HeartbeatOk(b) \/ Abdicate(b) \/ TickEnds(b) \/ PauseEnds(b)
    \/ Release(b)

Next ==
    \/ \E b \in Brokers : WorkerLoop(b) \/ Cancel(b) \/ Drop(b) \/ Crash(b) \/ Restart(b)
    \/ ServerNotices

Spec == Init /\ [][Next]_vars

\* A running loop goes on (its sleeps end, its ticks return or raise), and
\* PostgreSQL's keepalive finds lost clients.  Nobody has to restart a broker.
Fairness ==
    /\ \A b \in Brokers : WF_vars(WorkerLoop(b))
    /\ WF_vars(ServerNotices)

FairSpec == Spec /\ Fairness

----------------------------------------------------------------------------
(***************************************************************************)
(* Properties                                                              *)
(***************************************************************************)
Ticking == {b \in Brokers : task[b] = "ticking"}

\* A tick begins only on the broker that holds the lock at that moment,
\* whatever became of its connection before: the heartbeat in _tick_loop.
TickBeginsUnderLock ==
    [][\A b \in Ticking' \ Ticking : lock = b]_vars

\* When a broker does not lead, its sessions hold nothing: a shutdown, an
\* abdication and a lost election leave no lock behind that would keep the
\* other brokers out for ever.
NoLockLeftBehind ==
    \A b \in Brokers : lock = b => task[b] \in Leading /\ conn[b] = "open"

\* No two brokers run the worker at once (docs/deploy.md).  _tick_loop looks at its
\* connection only before a tick, so one that drops during a tick goes unnoticed.
OneRunner == \A b, c \in Ticking : b = c

\* Of two brokers that run the worker at once, one has lost its lock connection: no
\* crash, shutdown or handover alone makes a second runner.
OneConnectedRunner ==
    \A b, c \in Ticking : conn[b] = "open" /\ conn[c] = "open" => b = c

\* When some broker stays up, the worker runs again and again, whatever
\* crashes, shutdowns and lost connections came before.
WorkerKeepsRunning ==
    (\E b \in Brokers : <>[](task[b] \notin {"down", "releasing"})) => []<>(Ticking # {})

=============================================================================
