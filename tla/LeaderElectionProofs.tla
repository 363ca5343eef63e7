------------------------ MODULE LeaderElectionProofs ------------------------
(***************************************************************************)
(* Theorems about LeaderElection, for every set of brokers and any faults. *)
(*                                                                         *)
(* The invariant relates two views of one fact: a broker that leads and    *)
(* whose connection lives holds the lock, and PostgreSQL takes a broker's  *)
(* session for the holder only while that broker leads on a living         *)
(* connection.  The first gives the tick its lock and, when no connection  *)
(* drops, the single runner; the second says that no lock is left behind.  *)
(***************************************************************************)
EXTENDS LeaderElection, TLAPS

LeadersHold ==
    \A b \in Brokers : task[b] \in Leading =>
        /\ conn[b] # "none"
        /\ conn[b] = "open" => lock = b

NothingBroken ==
    "drop" \notin Faults => \A b \in Brokers : conn[b] # "broken"

IInv == TypeOK /\ LeadersHold /\ NoLockLeftBehind /\ NothingBroken

\* The initial states satisfy the invariant.
LEMMA InitIInv == Init => IInv
BY NamesAssumption, BoundAssumption
   DEF Init, IInv, TypeOK, LeadersHold, NoLockLeftBehind, NothingBroken, TaskState, Leading

\* Every step keeps the invariant.
LEMMA StepIInv == IInv /\ [Next]_vars => IInv'
<1> SUFFICES ASSUME IInv, [Next]_vars PROVE IInv'
  OBVIOUS
<1> USE NamesAssumption, BoundAssumption
        DEF IInv, TypeOK, LeadersHold, NoLockLeftBehind, NothingBroken, TaskState,
            Leading, Goto, Conn
<1>1. ASSUME NEW b \in Brokers, Connect(b) PROVE IInv'
  BY <1>1 DEF Connect
<1>2. ASSUME NEW b \in Brokers, Elected(b) PROVE IInv'
  BY <1>2 DEF Elected
<1>3. ASSUME NEW b \in Brokers, NotElected(b) PROVE IInv'
  BY <1>3 DEF NotElected
<1>4. ASSUME NEW b \in Brokers, HeartbeatOk(b) PROVE IInv'
  BY <1>4 DEF HeartbeatOk
<1>5. ASSUME NEW b \in Brokers, Abdicate(b) PROVE IInv'
  BY <1>5 DEF Abdicate
<1>6. ASSUME NEW b \in Brokers, TickEnds(b) PROVE IInv'
  BY <1>6 DEF TickEnds
<1>7. ASSUME NEW b \in Brokers, PauseEnds(b) PROVE IInv'
  BY <1>7 DEF PauseEnds
<1>8. ASSUME NEW b \in Brokers, Release(b) PROVE IInv'
  BY <1>8 DEF Release
<1>9. ASSUME NEW b \in Brokers, Cancel(b) PROVE IInv'
  <2>1. CASE task[b] \in Leading
    BY <1>9, <2>1 DEF Cancel, Fault
  <2>2. CASE task[b] \notin Leading
    BY <1>9, <2>2 DEF Cancel, Fault
  <2>3. QED BY <2>1, <2>2
<1>10. ASSUME NEW b \in Brokers, Drop(b) PROVE IInv'
  <2>1. CASE lock = b
    BY <1>10, <2>1 DEF Drop, Fault, SessionLost
  <2>2. CASE lock # b
    BY <1>10, <2>2 DEF Drop, Fault, SessionLost
  <2>3. QED BY <2>1, <2>2
<1>11. ASSUME NEW b \in Brokers, Crash(b) PROVE IInv'
  <2>1. CASE lock = b
    BY <1>11, <2>1 DEF Crash, Fault, SessionLost
  <2>2. CASE lock # b
    BY <1>11, <2>2 DEF Crash, Fault, SessionLost
  <2>3. QED BY <2>1, <2>2
<1>12. ASSUME NEW b \in Brokers, Restart(b) PROVE IInv'
  BY <1>12 DEF Restart
<1>13. CASE ServerNotices
  BY <1>13 DEF ServerNotices
<1>14. CASE UNCHANGED vars
  BY <1>14 DEF vars
<1>15. QED
  BY <1>1, <1>2, <1>3, <1>4, <1>5, <1>6, <1>7, <1>8, <1>9, <1>10, <1>11, <1>12, <1>13,
     <1>14 DEF Next, WorkerLoop

\* The invariant, and with it the types, holds in every reachable state.
THEOREM Invariance == Spec => []IInv
BY InitIInv, StepIInv, PTL DEF Spec

\* The task, connection and lock of every broker stay among the states that worker.py's
\* loop and PostgreSQL know, and a behaviour has no more faults than its bound.
THEOREM TypeCorrect == Spec => []TypeOK
<1>1. IInv => TypeOK
  BY DEF IInv
<1>2. QED BY <1>1, Invariance, PTL

\* No lock is left behind by shutdown, abdication, crash or a lost election,
\* for every set of brokers.
THEOREM LocksReleased == Spec => []NoLockLeftBehind
<1>1. IInv => NoLockLeftBehind
  BY DEF IInv
<1>2. QED BY <1>1, Invariance, PTL

\* A step that begins a tick is a heartbeat of the broker that holds the lock.
THEOREM TicksUnderLock == Spec => TickBeginsUnderLock
<1>1. IInv /\ [Next]_vars => [\A b \in Ticking' \ Ticking : lock = b]_vars
  <2> SUFFICES ASSUME IInv, Next, NEW b \in Ticking' \ Ticking PROVE lock = b
    BY DEF vars
  <2>1. task[b] # "ticking" /\ task'[b] = "ticking" /\ b \in Brokers
    BY DEF Ticking
  <2>2. PICK c \in Brokers :
            WorkerLoop(c) \/ Cancel(c) \/ Drop(c) \/ Crash(c) \/ Restart(c) \/ ServerNotices
    BY <2>1 DEF Next
  <2>3. HeartbeatOk(b)
    BY <2>1, <2>2 DEF IInv, TypeOK, WorkerLoop, Connect, Elected, NotElected, HeartbeatOk,
       Abdicate, TickEnds, PauseEnds, Release, Cancel, Drop, Crash, Restart, ServerNotices,
       Goto
  <2>4. QED BY <2>1, <2>3 DEF HeartbeatOk, IInv, LeadersHold, Leading
<1>2. QED BY <1>1, Invariance, PTL DEF Spec, TickBeginsUnderLock

\* Two brokers run the worker at once only when one of them has lost its lock
\* connection.
THEOREM SingleConnectedRunner == Spec => []OneConnectedRunner
<1>1. IInv => OneConnectedRunner
  BY DEF IInv, LeadersHold, OneConnectedRunner, Ticking, Leading
<1>2. QED BY <1>1, Invariance, PTL

\* Where no lock connection drops, no two brokers run the worker at once,
\* through any number of crashes, shutdowns and restarts.
THEOREM SingleRunner == ASSUME "drop" \notin Faults PROVE Spec => []OneRunner
<1>1. IInv => OneRunner
  <2> SUFFICES ASSUME IInv, NEW b \in Ticking, NEW c \in Ticking PROVE b = c
    BY DEF OneRunner
  <2>1. conn[b] = "open" /\ conn[c] = "open" /\ b \in Brokers /\ c \in Brokers
    BY DEF IInv, TypeOK, LeadersHold, NothingBroken, Ticking, Leading
  <2>2. QED BY <2>1 DEF IInv, LeadersHold, Ticking, Leading
<1>2. QED BY <1>1, Invariance, PTL

=============================================================================
