---------------------------- MODULE FloatingPool ----------------------------
(***************************************************************************)
(* One non-persistent pool of the broker: the connect handler, the two     *)
(* disconnect handlers (user and admin), the session-monitor worker and    *)
(* the refresh / delete cycle it starts on logoff, over the rows of the    *)
(* desktops and sessions tables that all of them read and write.           *)
(*                                                                         *)
(* The unit of interleaving is the await.  A handler reads a row into its  *)
(* ORM session, awaits (another query, a lock, the hypervisor, the guest   *)
(* agent) and later writes what it computed from that copy; only a commit  *)
(* is visible to the others.  Row locks are PostgreSQL's: from SELECT ...  *)
(* FOR UPDATE, or from the UPDATE a flush sends, until commit or rollback. *)
(* A session row in status connecting is never visible: connect inserts it *)
(* and makes it active in the same transaction.                            *)
(***************************************************************************)
EXTENDS Naturals, FiniteSets

CONSTANTS
    Desktops,     \* the pool's desktops, named by their VMID
    Users,        \* users entitled to the pool
    NoUser,       \* the SQL null of assigned_user
    MaxSessions,  \* bound: connect requests in a behaviour
    Enders,       \* API requests that may be ending a session at once
    Monitors,     \* brokers whose session monitor believes it leads
    Threshold,    \* LOGOFF_STREAK_THRESHOLD
    Policy,       \* the pool's flags: "none", "refresh" or "delete" on logoff
    Faults        \* what may go wrong: "vmStops", "vmGone", "provider", "crash"

ASSUME DesktopsAssumption  == Desktops \subseteq Nat \ {0}
ASSUME UsersAssumption     == NoUser \notin Users
ASSUME BoundsAssumption    == MaxSessions \in Nat /\ Threshold \in Nat \ {0}
ASSUME ActorsAssumption    == Enders \cap Monitors = {}
ASSUME PolicyAssumption    == Policy \in {"none", "refresh", "delete"}

NoDesk     == 0
NoSession  == 0
SessionIds == 1 .. MaxSessions
Actors     == Enders \cup Monitors

DesktopStatus == {"available", "connected", "disconnected", "provisioning",
                  "deleting", "error", "absent"}      \* absent: no such row
SessionStatus == {"none", "active", "ended"}          \* none: no such row

VARIABLES
    desk,    \* desktops rows: [status, user]; user is assigned_user
    sess,    \* sessions rows: [status, desk, ticket]; ticket: has connection_info
    req,     \* the connect request of each session id: [pc, user, desk]
    tx,      \* an actor's transition_to_ended: [pc, sess, desk, saw]
    mon,     \* the session monitor's tick: [pc, todo, desk, sess, saw]
    streak,  \* _empty_streaks of each monitor
    vm,      \* the hypervisor's machines: [power, guest, disk]
    quiet    \* history: empty polls in a row taken of a session (properties only)

vars == <<desk, sess, req, tx, mon, streak, vm, quiet>>

Row       == [status : DesktopStatus, user : Users \cup {NoUser}]
NoRow     == [status |-> "absent", user |-> NoUser]
NoTx      == [pc |-> "idle", sess |-> NoSession, desk |-> NoDesk, saw |-> NoRow]
IdleTick  == [pc |-> "idle", todo |-> {}, desk |-> NoDesk,
              sess |-> NoSession, saw |-> NoRow]

ConnectPC == {"unused", "waiting", "claimed", "booted", "done", "failed"}
MonitorPC == {"idle", "tick", "gone", "stopped", "find", "agent", "logoff",
              "endDown", "endLogoff", "recycle", "mark", "stop", "rebuild",
              "finish", "erase"}

SessionRow == [status : SessionStatus,
               desk   : Desktops \cup {NoDesk},
               ticket : BOOLEAN]

Connection == [pc   : ConnectPC,
               user : Users \cup {NoUser},
               desk : Desktops \cup {NoDesk}]

Ending     == [pc   : {"idle", "read", "locked"},
               sess : SessionIds \cup {NoSession},
               desk : Desktops \cup {NoDesk},
               saw  : Row]

TickState  == [pc   : MonitorPC,
               todo : SUBSET Desktops,
               desk : Desktops \cup {NoDesk},
               sess : SessionIds \cup {NoSession},
               saw  : Row]

Machine    == [power : {"running", "stopped", "gone"},
               guest : Users \cup {NoUser},
               disk  : Users \cup {NoUser}]

\* Every variable has its type; a counter stays at or below Threshold.
TypeOK ==
    /\ desk \in [Desktops -> Row]
    /\ sess \in [SessionIds -> SessionRow]
    /\ req \in [SessionIds -> Connection]
    /\ tx \in [Actors -> Ending]
    /\ mon \in [Monitors -> TickState]
    /\ streak \in [Monitors -> [Desktops -> 0 .. Threshold]]
    /\ vm \in [Desktops -> Machine]
    /\ quiet \in [SessionIds -> 0 .. Threshold]

(***************************************************************************)
(* A provisioned pool: every desktop is available, its VM runs and its     *)
(* disk is as the openvdi-base snapshot left it.                           *)
(***************************************************************************)
Init ==
    /\ desk = [d \in Desktops |-> [status |-> "available", user |-> NoUser]]
    /\ sess = [s \in SessionIds |->
                 [status |-> "none", desk |-> NoDesk, ticket |-> FALSE]]
    /\ req = [s \in SessionIds |->
                [pc |-> "unused", user |-> NoUser, desk |-> NoDesk]]
    /\ tx = [a \in Actors |-> NoTx]
    /\ mon = [m \in Monitors |-> IdleTick]
    /\ streak = [m \in Monitors |-> [d \in Desktops |-> 0]]
    /\ vm = [d \in Desktops |->
               [power |-> "running", guest |-> NoUser, disk |-> NoUser]]
    /\ quiet = [s \in SessionIds |-> 0]

-----------------------------------------------------------------------------
(***************************************************************************)
(* Rows, locks and the ORM.                                                *)
(***************************************************************************)

\* The connect requests inside their transaction, after SELECT ... FOR UPDATE.
InTransaction(s) == req[s].pc \in {"claimed", "booted"}

RowLocked(d) ==
    \/ \E s \in SessionIds : InTransaction(s) /\ req[s].desk = d
    \/ \E m \in Monitors : mon[m].pc = "erase" /\ mon[m].desk = d

SessionLocked(s) == \E a \in Actors : tx[a].pc = "locked" /\ tx[a].sess = s

\* pg_advisory_xact_lock of user and pool.
UserLocked(u)    == \E s \in SessionIds : InTransaction(s) /\ req[s].user = u

\* Mutant of Flush: the whole copy is written back.
FlushWholeCopy(row, saw, new) == new

\* A flush sends only the attributes whose value differs from the copy read.
Flush(row, saw, new) ==
    [status |-> IF new.status = saw.status THEN row.status ELSE new.status,
     user   |-> IF new.user   = saw.user   THEN row.user   ELSE new.user]

\* Mutant of Released: every desktop is treated as a persistent one.
ReleasedAsPersistent(saw) == [status |-> "disconnected", user |-> NoUser]

\* The floating branch of transition_to_ended, and its "else".
Released(saw) ==
    IF saw.user # NoUser THEN [status |-> "available",    user |-> NoUser]
                         ELSE [status |-> "disconnected", user |-> NoUser]

Live(d) == {s \in SessionIds : sess[s].status = "active" /\ sess[s].desk = d}

-----------------------------------------------------------------------------
(***************************************************************************)
(* connect.  Session ids are handed out in the order the transactions      *)
(* start, which is the order of sessions.created_at.                       *)
(***************************************************************************)

\* Pool active, user entitled; the request now waits for its advisory lock.
Request(s, u) ==
    /\ req[s].pc = "unused"
    /\ \A t \in SessionIds : t < s => req[t].pc # "unused"
    /\ req' = [req EXCEPT ![s] = [pc |-> "waiting", user |-> u, desk |-> NoDesk]]
    /\ UNCHANGED <<desk, sess, tx, mon, streak, vm, quiet>>

\* Mutant of Claimable: the select without FOR UPDATE.
ClaimableUnlocked == {d \in Desktops : desk[d].status = "available"}

Claimable == {d \in Desktops : desk[d].status = "available" /\ ~RowLocked(d)}

\* SELECT ... ORDER BY pve_vmid LIMIT 1 FOR UPDATE SKIP LOCKED.
Claim(s) ==
    /\ req[s].pc = "waiting"
    /\ ~UserLocked(req[s].user)
    /\ \E d \in Claimable :
         /\ \A c \in Claimable : d <= c
         /\ req' = [req EXCEPT ![s].pc = "claimed", ![s].desk = d]
    /\ UNCHANGED <<desk, sess, tx, mon, streak, vm, quiet>>

PoolFull(s) ==
    /\ req[s].pc = "waiting"
    /\ ~UserLocked(req[s].user)
    /\ Claimable = {}
    /\ req' = [req EXCEPT ![s].pc = "failed"]
    /\ UNCHANGED <<desk, sess, tx, mon, streak, vm, quiet>>

\* Step 4: start the VM unless it runs, then wait for the guest agent.
EnsureRunning(s) ==
    /\ req[s].pc = "claimed"
    /\ vm[req[s].desk].power # "gone"
    /\ vm' = [vm EXCEPT ![req[s].desk].power = "running"]
    /\ req' = [req EXCEPT ![s].pc = "booted"]
    /\ UNCHANGED <<desk, sess, tx, mon, streak, quiet>>

\* A provider call of the transaction raised: roll back.
ConnectFails(s) ==
    /\ InTransaction(s)
    /\ vm[req[s].desk].power = "gone" \/ "provider" \in Faults
    /\ req' = [req EXCEPT ![s].pc = "failed", ![s].desk = NoDesk]
    /\ UNCHANGED <<desk, sess, tx, mon, streak, vm, quiet>>

\* Steps 5 to 7: session row, ticket, transition_to_active, commit.
ConnectCommit(s) ==
    /\ req[s].pc = "booted"
    /\ sess' = [sess EXCEPT ![s] =
                  [status |-> "active", desk |-> req[s].desk, ticket |-> TRUE]]
    /\ desk' = [desk EXCEPT ![req[s].desk] =
                  [status |-> "connected", user |-> req[s].user]]
    /\ req' = [req EXCEPT ![s].pc = "done", ![s].desk = NoDesk]
    /\ UNCHANGED <<tx, mon, streak, vm, quiet>>

-----------------------------------------------------------------------------
(***************************************************************************)
(* transition_to_ended, inside whoever calls it: read the session row,     *)
(* UPDATE it (the autoflush before the next SELECT), read the desktop row, *)
(* UPDATE that and commit.  Nothing re-reads the session once it is locked.*)
(***************************************************************************)

EndRead(a, s) ==
    /\ tx[a].pc = "idle"
    /\ sess[s].status = "active"
    /\ tx' = [tx EXCEPT ![a] = [pc |-> "read", sess |-> s,
                                desk |-> sess[s].desk, saw |-> NoRow]]

HasRow(d) == d \in Desktops /\ desk[d].status # "absent"

EndLock(a) ==
    /\ tx[a].pc = "read"
    /\ ~SessionLocked(tx[a].sess)
    /\ HasRow(tx[a].desk)
    /\ tx' = [tx EXCEPT ![a].pc = "locked", ![a].saw = desk[tx[a].desk]]
    /\ UNCHANGED <<desk, sess>>

\* scalar_one finds no desktop, or the UPDATE matches no row: roll back.
EndRollback(a) ==
    /\ \/ /\ tx[a].pc = "read"
          /\ ~SessionLocked(tx[a].sess)
          /\ ~HasRow(tx[a].desk)
       \/ /\ tx[a].pc = "locked"
          /\ ~HasRow(tx[a].desk)
          /\ Released(tx[a].saw) # tx[a].saw
    /\ tx' = [tx EXCEPT ![a] = NoTx]
    /\ UNCHANGED <<desk, sess>>

EndCommit(a) ==
    LET d   == tx[a].desk
        saw == tx[a].saw
        new == Released(saw)
    IN  /\ tx[a].pc = "locked"
        /\ new # saw => HasRow(d) /\ ~RowLocked(d)
        /\ desk' = [desk EXCEPT ![d] = Flush(@, saw, new)]
        /\ sess' = [sess EXCEPT ![tx[a].sess].status = "ended",
                                ![tx[a].sess].ticket = FALSE]
        /\ tx' = [tx EXCEPT ![a] = NoTx]

\* DELETE /me/sessions/{id} and the admin's DELETE /sessions/{id}.
ApiEnd(e) ==
    /\ \/ \E s \in SessionIds : EndRead(e, s) /\ UNCHANGED <<desk, sess>>
       \/ EndLock(e)
       \/ EndRollback(e)
       \/ EndCommit(e)
    /\ UNCHANGED <<req, mon, streak, vm, quiet>>

-----------------------------------------------------------------------------
(***************************************************************************)
(* The session monitor.  A tick fetches the monitored desktops once and    *)
(* takes them one by one; every hypervisor call and every database session *)
(* in between is a step of its own.                                        *)
(***************************************************************************)

Monitored == {d \in Desktops : desk[d].status \in {"connected", "disconnected"}}

MonGoto(m, pc) == mon' = [mon EXCEPT ![m].pc = pc]

\* On to the next desktop of the tick, or to sleep.
MonNext(m) ==
    mon' = [mon EXCEPT ![m] =
              [IdleTick EXCEPT !.pc   = IF mon[m].todo = {} THEN "idle" ELSE "tick",
                               !.todo = mon[m].todo]]

ClearStreak(m) == streak' = [streak EXCEPT ![m][mon[m].desk] = 0]

\* Mutant of Tick: the garbage collection drops every streak.
TickForgetting(m) ==
    /\ mon[m].pc = "idle"
    /\ mon' = [mon EXCEPT ![m].pc   = IF Monitored = {} THEN "idle" ELSE "tick",
                          ![m].todo = Monitored]
    /\ streak' = [streak EXCEPT ![m] = [d \in Desktops |-> 0]]
    /\ UNCHANGED <<desk, sess, req, tx, vm, quiet>>

\* tick: the query, then the GC of streaks of desktops it did not return.
Tick(m) ==
    /\ mon[m].pc = "idle"
    /\ mon' = [mon EXCEPT ![m].pc   = IF Monitored = {} THEN "idle" ELSE "tick",
                          ![m].todo = Monitored]
    /\ streak' = [streak EXCEPT ![m] =
                     [d \in Desktops |-> IF d \in Monitored THEN @[d] ELSE 0]]
    /\ UNCHANGED <<desk, sess, req, tx, vm, quiet>>

PollPower(m) ==
    /\ mon[m].pc = "tick"
    /\ \E d \in mon[m].todo :
         mon' = [mon EXCEPT
                   ![m].todo = @ \ {d},
                   ![m].desk = d,
                   ![m].pc   = IF vm[d].power = "running" THEN "find"
                                                          ELSE vm[d].power]
    /\ UNCHANGED <<desk, sess, req, tx, streak, vm, quiet>>

\* get_vm_status raised something else: logged, next desktop.
PollPowerFails(m) ==
    /\ "provider" \in Faults
    /\ mon[m].pc = "tick"
    /\ \E d \in mon[m].todo :
         mon' = [mon EXCEPT
                   ![m].todo = @ \ {d},
                   ![m].pc   = IF mon[m].todo = {d} THEN "idle" ELSE "tick"]
    /\ UNCHANGED <<desk, sess, req, tx, streak, vm, quiet>>

Latest(s, d) == s \in Live(d) /\ \A t \in Live(d) : t <= s

\* VM stopped, or gone: end the latest session if there is one.
EndOfDownVM(m) ==
    LET d == mon[m].desk IN
    /\ mon[m].pc \in {"gone", "stopped"}
    /\ \/ /\ Live(d) = {}
          /\ MonNext(m)
          /\ ClearStreak(m)
          /\ UNCHANGED tx
       \/ /\ \E s \in Live(d) : Latest(s, d) /\ EndRead(m, s)
          /\ MonGoto(m, "endDown")
          /\ UNCHANGED streak
    /\ UNCHANGED <<desk, sess, req, vm, quiet>>

FindSession(m) ==
    LET d == mon[m].desk IN
    /\ mon[m].pc = "find"
    /\ \/ Live(d) = {} /\ MonNext(m)
       \/ \E s \in Live(d) :
            /\ Latest(s, d)
            /\ mon' = [mon EXCEPT ![m].pc = "agent", ![m].sess = s]
    /\ UNCHANGED <<desk, sess, req, tx, streak, vm, quiet>>

AgentUnreachable(m) ==
    /\ mon[m].pc = "agent"
    /\ vm[mon[m].desk].power # "running" \/ "provider" \in Faults
    /\ MonNext(m)
    /\ UNCHANGED <<desk, sess, req, tx, streak, vm, quiet>>

\* Mutant of UserPresent: a populated poll leaves the streak as it is.
UserPresentKeepsStreak(m) ==
    /\ mon[m].pc = "agent"
    /\ vm[mon[m].desk].guest # NoUser
    /\ MonNext(m)
    /\ quiet' = [quiet EXCEPT ![mon[m].sess] = 0]
    /\ UNCHANGED <<desk, sess, req, tx, streak, vm>>

UserPresent(m) ==
    /\ mon[m].pc = "agent"
    /\ vm[mon[m].desk].guest # NoUser
    /\ ClearStreak(m)
    /\ MonNext(m)
    /\ quiet' = [quiet EXCEPT ![mon[m].sess] = 0]
    /\ UNCHANGED <<desk, sess, req, tx, vm>>

\* Mutant of NobodyPresent: the streak is not removed at the threshold.
NobodyPresentKeepsStreak(m) ==
    LET d == mon[m].desk IN
    /\ mon[m].pc = "agent"
    /\ vm[d].power = "running"
    /\ vm[d].guest = NoUser
    /\ streak' = [streak EXCEPT ![m][d] = @ + 1]
    /\ IF streak[m][d] + 1 < Threshold THEN MonNext(m) ELSE MonGoto(m, "logoff")
    /\ quiet' = [quiet EXCEPT ![mon[m].sess] = IF @ < Threshold THEN @ + 1 ELSE @]
    /\ UNCHANGED <<desk, sess, req, tx, vm>>

NobodyPresent(m) ==
    LET d == mon[m].desk IN
    /\ mon[m].pc = "agent"
    /\ vm[d].power = "running"
    /\ vm[d].guest = NoUser
    /\ IF streak[m][d] + 1 < Threshold
       THEN streak' = [streak EXCEPT ![m][d] = @ + 1] /\ MonNext(m)
       ELSE ClearStreak(m) /\ MonGoto(m, "logoff")
    /\ quiet' = [quiet EXCEPT ![mon[m].sess] = IF @ < Threshold THEN @ + 1 ELSE @]
    /\ UNCHANGED <<desk, sess, req, tx, vm>>

LogoffDone(m) ==
    IF Policy = "none" THEN MonNext(m) ELSE MonGoto(m, "recycle")

\* _handle_logoff reads the session afresh; already ended counts as success.
HandleLogoff(m) ==
    /\ mon[m].pc = "logoff"
    /\ \/ EndRead(m, mon[m].sess) /\ MonGoto(m, "endLogoff")
       \/ sess[mon[m].sess].status = "ended" /\ LogoffDone(m) /\ UNCHANGED tx
    /\ UNCHANGED <<desk, sess, req, streak, vm, quiet>>

\* The worker's own transition_to_ended.
MonitorEnds(m) ==
    /\ mon[m].pc \in {"endDown", "endLogoff"}
    /\ \/ EndLock(m) /\ UNCHANGED <<mon, streak>>
       \/ EndRollback(m) /\ MonNext(m) /\ UNCHANGED streak
       \/ /\ EndCommit(m)
          /\ IF mon[m].pc = "endDown" THEN MonNext(m) /\ ClearStreak(m)
                                     ELSE LogoffDone(m) /\ UNCHANGED streak
    /\ UNCHANGED <<req, vm, quiet>>

-----------------------------------------------------------------------------
(***************************************************************************)
(* refresh_desktop and delete_desktop_on_logoff.  The row read in step 0   *)
(* stays in the ORM session for the whole cycle.                           *)
(***************************************************************************)

InProgress == IF Policy = "refresh" THEN "provisioning" ELSE "deleting"

Refused == IF Policy = "refresh" THEN {"deleting", "provisioning", "absent"}
                                 ELSE {"deleting", "absent"}

RecycleRead(m) ==
    LET d == mon[m].desk IN
    /\ mon[m].pc = "recycle"
    /\ IF desk[d].status \in Refused
       THEN MonNext(m)
       ELSE mon' = [mon EXCEPT ![m].pc = "mark", ![m].saw = desk[d]]
    /\ UNCHANGED <<desk, sess, req, tx, streak, vm, quiet>>

\* Write status from the copy mon.saw; a row that is gone raises, ending the cycle.
WriteDesk(m, new) ==
    LET d == mon[m].desk IN
    /\ ~RowLocked(d)
    /\ desk' = [desk EXCEPT ![d] = IF HasRow(d) THEN Flush(@, mon[m].saw, new) ELSE @]

RecycleMark(m) ==
    LET new == [mon[m].saw EXCEPT !.status = InProgress] IN
    /\ mon[m].pc = "mark"
    /\ WriteDesk(m, new)
    /\ IF HasRow(mon[m].desk)
       THEN mon' = [mon EXCEPT ![m].pc = "stop", ![m].saw = new]
       ELSE MonNext(m)
    /\ UNCHANGED <<sess, req, tx, streak, vm, quiet>>

\* Mutant of RecycleStop: the stopped VM is not destroyed.
RecycleStopOnly(m) ==
    LET d == mon[m].desk IN
    /\ mon[m].pc = "stop"
    /\ vm[d].power # "gone"
    /\ vm' = [vm EXCEPT ![d].power = "stopped", ![d].guest = NoUser]
    /\ MonGoto(m, "finish")
    /\ UNCHANGED <<desk, sess, req, tx, streak, quiet>>

\* Shut the VM down (refresh) or stop it (delete): its user is logged out.
RecycleStop(m) ==
    LET d == mon[m].desk IN
    /\ mon[m].pc = "stop"
    /\ vm[d].power # "gone"
    /\ vm' = [vm EXCEPT ![d].power = "stopped", ![d].guest = NoUser]
    /\ MonGoto(m, "rebuild")
    /\ UNCHANGED <<desk, sess, req, tx, streak, quiet>>

\* Roll back to openvdi-base and start, or destroy.
RecycleVM(m) ==
    LET d == mon[m].desk IN
    /\ mon[m].pc = "rebuild"
    /\ vm[d].power # "gone"
    /\ vm' = [vm EXCEPT ![d] =
                 [power |-> IF Policy = "refresh" THEN "running" ELSE "gone",
                  guest |-> NoUser, disk |-> NoUser]]
    /\ MonGoto(m, "finish")
    /\ UNCHANGED <<desk, sess, req, tx, streak, quiet>>

\* A provider call of the cycle raised: the desktop goes to error.
RecycleFails(m) ==
    LET cleared == IF Policy = "refresh" THEN NoUser ELSE mon[m].saw.user IN
    /\ mon[m].pc \in {"stop", "rebuild", "finish"}
    /\ \/ "provider" \in Faults
       \/ mon[m].pc # "finish" /\ vm[mon[m].desk].power = "gone"
    /\ WriteDesk(m, [status |-> "error", user |-> cleared])
    /\ MonNext(m)
    /\ UNCHANGED <<sess, req, tx, streak, vm, quiet>>

RefreshDone(m) ==
    /\ mon[m].pc = "finish"
    /\ Policy = "refresh"
    /\ WriteDesk(m, [status |-> "available", user |-> NoUser])
    /\ MonNext(m)
    /\ UNCHANGED <<sess, req, tx, streak, vm, quiet>>

\* Mutant of DeleteRow: a pending connect's lock is ignored.
DeleteRowUnlocked(m) ==
    /\ mon[m].pc = "finish"
    /\ Policy = "delete"
    /\ MonGoto(m, "erase")
    /\ UNCHANGED <<desk, sess, req, tx, streak, vm, quiet>>

\* DELETE FROM desktops takes the row's lock ...
DeleteRow(m) ==
    /\ mon[m].pc = "finish"
    /\ Policy = "delete"
    /\ ~RowLocked(mon[m].desk)
    /\ MonGoto(m, "erase")
    /\ UNCHANGED <<desk, sess, req, tx, streak, vm, quiet>>

\* ... then ON DELETE SET NULL needs the lock of every session of the desktop.
DeleteCommit(m) ==
    LET d == mon[m].desk IN
    /\ mon[m].pc = "erase"
    /\ \A s \in SessionIds : sess[s].desk = d => ~SessionLocked(s)
    /\ desk' = [desk EXCEPT ![d] = NoRow]
    /\ sess' = [s \in SessionIds |->
                  IF sess[s].desk = d THEN [sess[s] EXCEPT !.desk = NoDesk]
                                      ELSE sess[s]]
    /\ MonNext(m)
    /\ UNCHANGED <<req, tx, streak, vm, quiet>>

\* An actor holds a session row and wants the desktop row; the delete holds the
\* desktop row and wants the session row.
Deadlocked(a, m) ==
    /\ tx[a].pc = "locked"
    /\ Released(tx[a].saw) # tx[a].saw
    /\ mon[m].pc = "erase"
    /\ mon[m].desk = tx[a].desk
    /\ sess[tx[a].sess].desk = tx[a].desk

\* PostgreSQL aborts one of the two transactions of a deadlock.
DeadlockAborts(a, m) ==
    /\ Deadlocked(a, m)
    /\ \/ /\ tx' = [tx EXCEPT ![a] = NoTx]
          /\ IF a \in Monitors THEN MonNext(a) ELSE UNCHANGED mon
       \/ MonNext(m) /\ UNCHANGED tx
    /\ UNCHANGED <<desk, sess, req, streak, vm, quiet>>

-----------------------------------------------------------------------------
(***************************************************************************)
(* The environment: guests log in and out, VMs stop or disappear, brokers  *)
(* crash.                                                                  *)
(***************************************************************************)

GuestLogin(d, s) ==
    /\ s \in Live(d)
    /\ vm[d].power = "running"
    /\ vm[d].guest = NoUser
    /\ vm' = [vm EXCEPT ![d].guest = req[s].user, ![d].disk = req[s].user]
    /\ UNCHANGED <<desk, sess, req, tx, mon, streak, quiet>>

GuestLogoff(d) ==
    /\ vm[d].guest # NoUser
    /\ vm' = [vm EXCEPT ![d].guest = NoUser]
    /\ UNCHANGED <<desk, sess, req, tx, mon, streak, quiet>>

VMStops(d) ==
    /\ "vmStops" \in Faults
    /\ vm[d].power = "running"
    /\ vm' = [vm EXCEPT ![d].power = "stopped", ![d].guest = NoUser]
    /\ UNCHANGED <<desk, sess, req, tx, mon, streak, quiet>>

VMGone(d) ==
    /\ "vmGone" \in Faults
    /\ vm[d].power # "gone"
    /\ vm' = [vm EXCEPT ![d] = [power |-> "gone", guest |-> NoUser, disk |-> NoUser]]
    /\ UNCHANGED <<desk, sess, req, tx, mon, streak, quiet>>

\* The process dies: its transaction rolls back, its worker's memory is lost.
Crash(a) ==
    /\ "crash" \in Faults
    /\ tx' = [tx EXCEPT ![a] = NoTx]
    /\ mon' = [m \in Monitors |-> IF m = a THEN IdleTick ELSE mon[m]]
    /\ streak' = [m \in Monitors |->
                    IF m = a THEN [d \in Desktops |-> 0] ELSE streak[m]]
    /\ UNCHANGED <<desk, sess, req, vm, quiet>>

-----------------------------------------------------------------------------
Connect(s) ==
    \/ \E u \in Users : Request(s, u)
    \/ Claim(s)
    \/ PoolFull(s)
    \/ EnsureRunning(s)
    \/ ConnectFails(s)
    \/ ConnectCommit(s)

Monitor(m) ==
    \/ Tick(m)
    \/ PollPower(m)
    \/ PollPowerFails(m)
    \/ EndOfDownVM(m)
    \/ FindSession(m)
    \/ AgentUnreachable(m)
    \/ UserPresent(m)
    \/ NobodyPresent(m)
    \/ HandleLogoff(m)
    \/ MonitorEnds(m)

Recycle(m) ==
    \/ RecycleRead(m)
    \/ RecycleMark(m)
    \/ RecycleStop(m)
    \/ RecycleVM(m)
    \/ RecycleFails(m)
    \/ RefreshDone(m)
    \/ DeleteRow(m)
    \/ DeleteCommit(m)
    \/ \E a \in Actors : DeadlockAborts(a, m)

Environment ==
    \/ \E d \in Desktops : GuestLogoff(d) \/ VMStops(d) \/ VMGone(d)
    \/ \E d \in Desktops, s \in SessionIds : GuestLogin(d, s)
    \/ \E a \in Actors : Crash(a)

Next ==
    \/ \E s \in SessionIds : Connect(s)
    \/ \E e \in Enders : ApiEnd(e)
    \/ \E m \in Monitors : Monitor(m) \/ Recycle(m)
    \/ Environment

Spec == Init /\ [][Next]_vars

(***************************************************************************)
(* Fairness.  A request once received runs on, and so does the monitor's   *)
(* loop, which polls every monitored desktop; the hypervisor, asked about  *)
(* a desktop again and again, answers again and again.                     *)
(* Nobody has to connect, disconnect, log in or log out.                   *)
(***************************************************************************)
Fairness ==
    /\ \A s \in SessionIds :
         WF_vars(Claim(s) \/ PoolFull(s) \/ EnsureRunning(s)
                 \/ ConnectFails(s) \/ ConnectCommit(s))
    /\ \A e \in Enders : WF_vars(tx[e].pc # "idle" /\ ApiEnd(e))
    /\ \A m \in Monitors :
         /\ WF_vars(Monitor(m) \/ Recycle(m))
         /\ \A d \in Desktops :
              /\ SF_vars(PollPower(m) /\ mon'[m].desk = d)
              /\ SF_vars(mon[m].desk = d /\ (UserPresent(m) \/ NobodyPresent(m)))

FairSpec == Spec /\ Fairness

-----------------------------------------------------------------------------
(***************************************************************************)
(* What holds whatever runs concurrently.                                  *)
(***************************************************************************)

\* A desktop assigned to a user has an active session of that user, and a
\* connected one has an active session: the release in transition_to_ended and
\* the writes of the refresh cycle, each made from an older copy of the row,
\* never leave an assignment behind its session.
AssignmentBacked ==
    \A d \in Desktops :
        /\ desk[d].user # NoUser =>
             \E s \in Live(d) : req[s].user = desk[d].user
        /\ desk[d].status = "connected" => Live(d) # {}

\* From SELECT ... FOR UPDATE SKIP LOCKED to its commit a connect is alone with
\* its desktop: no second connect got the row, and no disconnect, refresh or
\* delete has changed its status in the seconds the VM takes to boot.
ClaimHolds ==
    \A s \in SessionIds : InTransaction(s) =>
        /\ desk[req[s].desk].status = "available"
        /\ \A t \in SessionIds :
             InTransaction(t) /\ req[t].desk = req[s].desk => s = t

\* A desktop row is deleted only after its VM was destroyed, so no VM is left
\* running that the broker has forgotten.
NoForgottenVM ==
    \A d \in Desktops : desk[d].status = "absent" => vm[d].power = "gone"

(***************************************************************************)
(* What holds when the monitor alone ends the sessions.                     *)
(***************************************************************************)

\* One desktop, one user: an active session's desktop is connected, assigned to
\* its user, and no other session is active on it.
ExclusiveUse ==
    \A s \in SessionIds : sess[s].status = "active" =>
        /\ sess[s].desk \in Desktops
        /\ desk[sess[s].desk] = [status |-> "connected", user |-> req[s].user]
        /\ Live(sess[s].desk) = {s}

\* Ending a floating session returns its desktop to the pool: it is never left
\* in disconnected, where no connect finds it.
NeverStranded == \A d \in Desktops : desk[d].status # "disconnected"

\* session_monitor.py:13: a logoff is declared after Threshold consecutive empty
\* polls (of the session that is ended).
LogoffDebounced ==
    \A m \in Monitors :
        mon[m].pc = "logoff" => quiet[mon[m].sess] = Threshold

\* The pool implements the lease: what a session holds is where it is active, and
\* what is on offer is what connect can claim.
Lease == INSTANCE DesktopLease WITH
    Sessions <- SessionIds,
    holders  <- [d \in Desktops |-> Live(d)],
    offered  <- {d \in Desktops : desk[d].status = "available"},
    past     <- {s \in SessionIds : sess[s].status # "none"}

LeaseSpec == Lease!Spec

(***************************************************************************)
(* Liveness.                                                               *)
(***************************************************************************)

\* A session with nobody logged in to its VM, or whose VM is down, does not stay
\* active for ever: the monitor ends it.
GhostSessionsEnd ==
    \A s \in SessionIds :
        []<>~(/\ sess[s].status = "active"
              /\ sess[s].desk \in Desktops => vm[sess[s].desk].guest = NoUser)

(***************************************************************************)
(* What the sources say and the code does not do.                          *)
(***************************************************************************)

\* session_tracker.py:109-111: a race between user-disconnect and admin-kill
\* surfaces a loud error rather than silently double-clearing fields.  So nobody
\* who is past the ended check holds a session that has ended meanwhile.
EndsOnce ==
    \A a \in Actors :
        tx[a].pc = "locked" => sess[tx[a].sess].status = "active"

\* api-design.md:236: a user holds at most one desktop per pool, and a second
\* connect returns the desktop the user already has.
OneDesktopPerUser ==
    \A c, d \in Desktops :
        desk[c].user = desk[d].user /\ desk[c].user # NoUser => c = d

\* session_monitor.py:168-170 and 420-422: when the VM is gone the session is
\* ended and the desktop row is left alone for the administrator.
GoneDesktopLeftAlone ==
    [][\A m \in Monitors :
          /\ mon[m].pc = "endDown" /\ EndCommit(m)
          /\ vm[mon[m].desk].power = "gone"
          => desk' = desk]_vars

\* architecture.md:38: non-persistent desktops are rolled back (or destroyed) on
\* logoff, so nobody works on a disk another user has written to.
CleanHandout ==
    \A s \in SessionIds : sess[s].status = "active" /\ sess[s].desk \in Desktops
        => vm[sess[s].desk].disk \in {NoUser, req[s].user}

=============================================================================
