------------------------- MODULE FloatingPoolProofs -------------------------
(***************************************************************************)
(* The safety of FloatingPool for every pool, every number of users,       *)
(* requests and brokers, and every policy and set of faults.               *)
(***************************************************************************)
EXTENDS FloatingPool, TLAPS

(***************************************************************************)
(* The inductive invariant, one named part per reason.                     *)
(***************************************************************************)

\* A request in its transaction has a desktop; its session row exists once it is done.
RequestInv ==
    \A s \in SessionIds :
        /\ InTransaction(s) => req[s].desk \in Desktops
        /\ req[s].pc # "done" => sess[s].status = "none"

\* An actor ending a session read it from a committed row, and that row still names
\* the desktop the actor read unless the desktop has been deleted.
TxInv ==
    \A a \in Actors : tx[a].pc # "idle" =>
        /\ tx[a].sess \in SessionIds
        /\ req[tx[a].sess].pc = "done"
        /\ sess[tx[a].sess].desk \in {tx[a].desk, NoDesk}
        /\ tx[a].pc = "locked" => tx[a].desk \in Desktops

\* A monitor past the power poll is at a desktop of the pool, one past the session
\* query has a session.
MonitorInv ==
    \A m \in Monitors :
        /\ mon[m].pc \notin {"idle", "tick"} => mon[m].desk \in Desktops
        /\ mon[m].pc \in {"agent", "logoff"} => mon[m].sess \in SessionIds

\* A delete that holds the row's lock is alone with the row.
EraseInv ==
    \A m \in Monitors : mon[m].pc = "erase" =>
        \A s \in SessionIds : ~(InTransaction(s) /\ req[s].desk = mon[m].desk)

\* Nobody who is about to end the session read its desktop as unassigned ...
KeepsUser(s) ==
    \A a \in Actors :
        tx[a].pc = "locked" /\ tx[a].sess = s => tx[a].saw.user # NoUser

\* ... or in the status he is going to write.
KeepsStatus(s) ==
    \A a \in Actors :
        tx[a].pc = "locked" /\ tx[a].sess = s
            => tx[a].saw.status # Released(tx[a].saw).status

\* AssignmentBacked with a witness that no pending end can take away unnoticed: the
\* actor that ends the witness clears the row as well.
BackedInv ==
    \A d \in Desktops :
        /\ desk[d].user # NoUser =>
             \E s \in Live(d) : req[s].user = desk[d].user /\ KeepsUser(s)
        /\ desk[d].status = "connected" => \E s \in Live(d) : KeepsStatus(s)

\* The cycle deletes rows only behind the destruction of the VM.
VMInv ==
    \A m \in Monitors :
        /\ mon[m].pc \in {"finish", "erase"} /\ Policy = "delete"
             => vm[mon[m].desk].power = "gone"
        /\ mon[m].pc = "erase" => Policy = "delete"

\* The four parts, by the variables they speak of.
RowTypes ==
    /\ desk \in [Desktops -> Row]
    /\ sess \in [SessionIds -> SessionRow]
    /\ req \in [SessionIds -> Connection]
    /\ tx \in [Actors -> Ending]

RowsOK    == RowTypes /\ RequestInv /\ TxInv /\ ClaimHolds /\ BackedInv

ControlOK == mon \in [Monitors -> TickState] /\ MonitorInv

CycleOK   == EraseInv /\ VMInv /\ NoForgottenVM

RestOK ==
    /\ streak \in [Monitors -> [Desktops -> 0 .. Threshold]]
    /\ vm \in [Desktops -> Machine]
    /\ quiet \in [SessionIds -> 0 .. Threshold]

IInv == RowsOK /\ ControlOK /\ CycleOK /\ RestOK

-----------------------------------------------------------------------------
(***************************************************************************)
(* Constants and row operators.                                            *)
(***************************************************************************)

LEMMA Sorts ==
    /\ NoDesk \notin Desktops
    /\ NoUser \notin Users
    /\ Enders \subseteq Actors
    /\ Monitors \subseteq Actors
    /\ Threshold \in Nat \ {0}
    /\ 0 \in 0 .. Threshold
    /\ \A n \in 0 .. Threshold : n < Threshold => n + 1 \in 0 .. Threshold
    /\ SessionIds \subseteq Nat
    /\ NoRow \in Row
    /\ NoTx \in Ending
    /\ IdleTick \in TickState
BY DesktopsAssumption, UsersAssumption, BoundsAssumption
   DEF NoDesk, Actors, SessionIds, NoRow, Row, DesktopStatus, NoTx, Ending, IdleTick,
       TickState, MonitorPC, NoSession

LEMMA FlushRow ==
    ASSUME NEW row \in Row, NEW saw \in Row, NEW new \in Row
    PROVE  Flush(row, saw, new) \in Row
BY DEF Flush, Row

LEMMA ReleasedRow ==
    ASSUME NEW saw \in Row
    PROVE  /\ Released(saw) \in Row
           /\ Released(saw).user = NoUser
           /\ Released(saw).status \in {"available", "disconnected"}
BY DEF Released, Row, DesktopStatus

(***************************************************************************)
(* Where the monitor goes.  Calm: no monitor arrives at the end of a cycle.*)
(***************************************************************************)

Calm ==
    \A m \in Monitors : mon'[m].pc \in {"finish", "erase"} => mon'[m] = mon[m]

LEMMA Next_Calm ==
    ASSUME ControlOK, NEW m \in Monitors, MonNext(m)
    PROVE  ControlOK' /\ Calm
<1>1. [IdleTick EXCEPT !.pc   = IF mon[m].todo = {} THEN "idle" ELSE "tick",
                       !.todo = mon[m].todo] \in TickState
  BY Sorts DEF ControlOK, TickState, MonitorPC
<1>2. mon' \in [Monitors -> TickState]
  BY <1>1 DEF ControlOK, MonNext
<1>3. mon'[m].pc \in {"idle", "tick"} /\ \A n \in Monitors \ {m} : mon'[n] = mon[n]
  BY DEF ControlOK, MonNext, IdleTick
<1>4. QED
  BY <1>2, <1>3 DEF ControlOK, MonitorInv, Calm

LEMMA Goto_Control ==
    ASSUME ControlOK, NEW m \in Monitors, NEW pc \in MonitorPC, MonGoto(m, pc),
           mon[m].pc \notin {"idle", "tick"},
           pc \in {"agent", "logoff"} => mon[m].sess \in SessionIds
    PROVE  /\ ControlOK'
           /\ mon'[m] = [mon[m] EXCEPT !.pc = pc]
           /\ \A n \in Monitors \ {m} : mon'[n] = mon[n]
           /\ pc \notin {"finish", "erase"} => Calm
<1>1. /\ mon'[m] = [mon[m] EXCEPT !.pc = pc]
      /\ \A n \in Monitors \ {m} : mon'[n] = mon[n]
  BY DEF ControlOK, MonGoto
<1>2. mon' \in [Monitors -> TickState]
  BY DEF ControlOK, MonGoto, TickState
<1>3. mon'[m].desk = mon[m].desk /\ mon'[m].pc = pc /\ mon'[m].sess = mon[m].sess
  BY <1>1 DEF ControlOK, TickState
<1>4. QED
  BY <1>1, <1>2, <1>3 DEF ControlOK, MonitorInv, Calm

-----------------------------------------------------------------------------
(***************************************************************************)
(* The rows: desk, sess, req and tx.                                       *)
(***************************************************************************)

LEMMA Rows_Frame ==
    ASSUME RowsOK, UNCHANGED <<desk, sess, req, tx>>
    PROVE  RowsOK'
BY DEF RowsOK, RowTypes, RequestInv, TxInv, ClaimHolds, BackedInv, InTransaction, Live,
       KeepsUser, KeepsStatus

LEMMA Request_Rows ==
    ASSUME RowsOK, NEW s \in SessionIds, NEW u \in Users, Request(s, u)
    PROVE  RowsOK'
<1>1. /\ req[s].pc = "unused"
      /\ req' = [req EXCEPT ![s] = [pc |-> "waiting", user |-> u, desk |-> NoDesk]]
      /\ UNCHANGED <<desk, sess, tx>>
  BY DEF Request
<1>2. RowTypes'
  BY <1>1 DEF RowsOK, RowTypes, Connection, ConnectPC
<1>3. /\ req'[s].pc = "waiting"
      /\ \A t \in SessionIds \ {s} : req'[t] = req[t]
  BY <1>1 DEF RowsOK, RowTypes
<1>4. RequestInv'
  BY <1>1, <1>3 DEF RowsOK, RequestInv, InTransaction
<1>5. TxInv'
  BY <1>1, <1>3 DEF RowsOK, TxInv
<1>6. ClaimHolds'
  BY <1>1, <1>3 DEF RowsOK, ClaimHolds, InTransaction
<1>7. BackedInv'
  <2>1. \A d \in Desktops : s \notin Live(d)
    BY <1>1 DEF RowsOK, RequestInv, Live
  <2>2. QED
    BY <1>1, <1>3, <2>1 DEF RowsOK, BackedInv, Live, KeepsUser, KeepsStatus
<1>8. QED
  BY <1>2, <1>4, <1>5, <1>6, <1>7 DEF RowsOK

\* A step of a request that stays in front of its commit.
LEMMA Waiting_Rows ==
    ASSUME RowsOK, NEW s \in SessionIds, req' \in [SessionIds -> Connection],
           req[s].pc # "done", req'[s].pc # "done",
           \A t \in SessionIds \ {s} : req'[t] = req[t],
           InTransaction(s)' =>
               /\ req'[s].desk \in Desktops
               /\ desk[req'[s].desk].status = "available"
               /\ \A t \in SessionIds \ {s} :
                    ~(InTransaction(t) /\ req[t].desk = req'[s].desk),
           UNCHANGED <<desk, sess, tx>>
    PROVE  RowsOK'
<1>1. RowTypes'
  BY DEF RowsOK, RowTypes
<1>2. RequestInv'
  BY DEF RowsOK, RequestInv, InTransaction
<1>3. TxInv'
  BY DEF RowsOK, TxInv
<1>4. ClaimHolds'
  BY DEF RowsOK, ClaimHolds, InTransaction
<1>5. BackedInv'
  <2>1. \A d \in Desktops : s \notin Live(d)
    BY DEF RowsOK, RequestInv, Live
  <2>2. QED
    BY <2>1 DEF RowsOK, BackedInv, Live, KeepsUser, KeepsStatus
<1>6. QED
  BY <1>1, <1>2, <1>3, <1>4, <1>5 DEF RowsOK

LEMMA Connecting_Rows ==
    ASSUME RowsOK, NEW s \in SessionIds,
           \/ Claim(s) \/ PoolFull(s) \/ EnsureRunning(s) \/ ConnectFails(s)
    PROVE  RowsOK'
<1> RowTypes
  BY DEF RowsOK
<1>1. CASE Claim(s)
  <2>1. PICK d \in Claimable :
          req' = [req EXCEPT ![s].pc = "claimed", ![s].desk = d]
    BY <1>1 DEF Claim
  <2>2. /\ req' \in [SessionIds -> Connection]
        /\ req'[s].pc = "claimed" /\ req'[s].desk = d
        /\ \A t \in SessionIds \ {s} : req'[t] = req[t]
    BY <2>1 DEF RowTypes, Connection, ConnectPC, Claimable
  <2>3. /\ d \in Desktops
        /\ desk[d].status = "available"
        /\ \A t \in SessionIds : ~(InTransaction(t) /\ req[t].desk = d)
    BY <2>1 DEF Claimable, RowLocked
  <2>4. req[s].pc # "done" /\ UNCHANGED <<desk, sess, tx>>
    BY <1>1 DEF Claim
  <2>5. QED
    BY <2>2, <2>3, <2>4, Waiting_Rows
<1>2. CASE PoolFull(s)
  <2>1. /\ req' \in [SessionIds -> Connection]
        /\ req'[s].pc = "failed"
        /\ \A t \in SessionIds \ {s} : req'[t] = req[t]
    BY <1>2 DEF RowTypes, PoolFull, Connection, ConnectPC
  <2>2. QED
    BY <1>2, <2>1, Waiting_Rows DEF PoolFull, InTransaction
<1>3. CASE EnsureRunning(s)
  <2>1. /\ req' \in [SessionIds -> Connection]
        /\ req'[s].pc = "booted" /\ req'[s].desk = req[s].desk
        /\ \A t \in SessionIds \ {s} : req'[t] = req[t]
    BY <1>3 DEF RowTypes, EnsureRunning, Connection, ConnectPC
  <2>2. InTransaction(s) /\ req[s].pc = "claimed" /\ UNCHANGED <<desk, sess, tx>>
    BY <1>3 DEF EnsureRunning, InTransaction
  <2>3. /\ req[s].desk \in Desktops
        /\ desk[req[s].desk].status = "available"
        /\ \A t \in SessionIds \ {s} :
             ~(InTransaction(t) /\ req[t].desk = req[s].desk)
    BY <2>2 DEF RowsOK, RequestInv, ClaimHolds
  <2>4. QED
    BY <2>1, <2>2, <2>3, Waiting_Rows
<1>4. CASE ConnectFails(s)
  <2>1. /\ req' \in [SessionIds -> Connection]
        /\ req'[s].pc = "failed"
        /\ \A t \in SessionIds \ {s} : req'[t] = req[t]
    BY <1>4 DEF RowTypes, ConnectFails, Connection, ConnectPC
  <2>2. req[s].pc # "done" /\ UNCHANGED <<desk, sess, tx>>
    BY <1>4 DEF ConnectFails, InTransaction
  <2>3. QED
    BY <2>1, <2>2, Waiting_Rows DEF InTransaction
<1>5. QED
  BY <1>1, <1>2, <1>3, <1>4

LEMMA ConnectCommit_Rows ==
    ASSUME RowsOK, NEW s \in SessionIds, ConnectCommit(s)
    PROVE  RowsOK'
<1>0. PICK d \in Desktops, u \in Users \cup {NoUser} :
        d = req[s].desk /\ u = req[s].user
  BY DEF ConnectCommit, InTransaction, RowsOK, RowTypes, Connection, RequestInv
<1>1. /\ req[s].pc = "booted" /\ InTransaction(s)
      /\ sess[s].status = "none"
      /\ tx' = tx
  BY DEF ConnectCommit, InTransaction, RowsOK, RequestInv
<1>2. /\ desk' \in [Desktops -> Row]
      /\ desk'[d] = [status |-> "connected", user |-> u]
      /\ \A e \in Desktops \ {d} : desk'[e] = desk[e]
  BY <1>0, <1>1 DEF RowsOK, RowTypes, ConnectCommit, Row, DesktopStatus, Connection
<1>3. /\ sess' \in [SessionIds -> SessionRow]
      /\ sess'[s] = [status |-> "active", desk |-> d, ticket |-> TRUE]
      /\ \A t \in SessionIds \ {s} : sess'[t] = sess[t]
  BY <1>0, <1>1 DEF RowsOK, RowTypes, ConnectCommit, SessionRow, SessionStatus
<1>4. /\ req' \in [SessionIds -> Connection]
      /\ req'[s].pc = "done" /\ req'[s].user = u
      /\ \A t \in SessionIds \ {s} : req'[t] = req[t]
  BY <1>0, <1>1 DEF RowsOK, RowTypes, ConnectCommit, Connection, ConnectPC
<1>5. RowTypes'
  BY <1>1, <1>2, <1>3, <1>4 DEF RowsOK, RowTypes
<1>6. RequestInv'
  BY <1>0, <1>3, <1>4 DEF RowsOK, RequestInv, InTransaction
<1>7. \A a \in Actors : tx[a].pc # "idle" => tx[a].sess # s
  BY <1>1 DEF RowsOK, TxInv
<1>8. TxInv'
  BY <1>1, <1>3, <1>4, <1>7 DEF RowsOK, TxInv
<1>9. ClaimHolds'
  BY <1>0, <1>1, <1>2, <1>4 DEF RowsOK, RequestInv, ClaimHolds, InTransaction
<1>10. BackedInv'
  <2>1. KeepsUser(s)' /\ KeepsStatus(s)'
    BY <1>1, <1>7 DEF KeepsUser, KeepsStatus
  <2>2. s \in Live(d)'
    BY <1>3 DEF Live
  <2>3. ASSUME NEW e \in Desktops, NEW t \in Live(e)
        PROVE  t \in SessionIds /\ t \in Live(e)' /\ req'[t] = req[t]
    <3>1. t \in SessionIds \ {s}
      BY <1>1 DEF Live
    <3>2. QED
      BY <1>3, <1>4, <3>1 DEF Live
  <2>4. ASSUME NEW t
        PROVE  /\ KeepsUser(t) => KeepsUser(t)'
               /\ KeepsStatus(t) => KeepsStatus(t)'
    BY <1>1 DEF KeepsUser, KeepsStatus
  <2>5. ASSUME NEW e \in Desktops, desk'[e].user # NoUser
        PROVE  \E t \in Live(e)' : req'[t].user = desk'[e].user /\ KeepsUser(t)'
    <3>1. CASE e = d
      BY <1>2, <1>4, <2>1, <2>2, <3>1
    <3>2. CASE e # d
      <4>1. desk'[e] = desk[e]
        BY <1>2, <3>2
      <4>2. PICK t \in Live(e) : req[t].user = desk[e].user /\ KeepsUser(t)
        BY <2>5, <4>1 DEF RowsOK, BackedInv
      <4>3. QED
        BY <2>3, <2>4, <4>1, <4>2
    <3>3. QED
      BY <3>1, <3>2
  <2>6. ASSUME NEW e \in Desktops, desk'[e].status = "connected"
        PROVE  \E t \in Live(e)' : KeepsStatus(t)'
    <3>1. CASE e = d
      BY <2>1, <2>2, <3>1
    <3>2. CASE e # d
      <4>1. PICK t \in Live(e) : KeepsStatus(t)
        BY <1>2, <2>6, <3>2 DEF RowsOK, BackedInv
      <4>2. QED
        BY <2>3, <2>4, <4>1
    <3>3. QED
      BY <3>1, <3>2
  <2>7. QED
    BY <2>5, <2>6 DEF BackedInv
<1>11. QED
  BY <1>5, <1>6, <1>8, <1>9, <1>10 DEF RowsOK

(***************************************************************************)
(* Writes to the desktop rows that are not the commit of a connect.        *)
(***************************************************************************)

\* They clear the assignment or leave it, leave the row of a pending connect alone,
\* and neither connect nor delete a desktop.
Demotes ==
    /\ desk' \in [Desktops -> Row]
    /\ \A d \in Desktops :
         /\ desk'[d].user \in {desk[d].user, NoUser}
         /\ desk'[d].status \in {"connected", "absent"} => desk'[d].status = desk[d].status
         /\ RowLocked(d) => desk'[d] = desk[d]

LEMMA Demotes_Rows ==
    ASSUME RowsOK, Demotes, UNCHANGED <<sess, req, tx>>
    PROVE  RowsOK'
<1>1. RowTypes' /\ RequestInv' /\ TxInv'
  BY DEF RowsOK, RowTypes, Demotes, RequestInv, TxInv, InTransaction
<1>2. ClaimHolds'
  BY DEF RowsOK, Demotes, RequestInv, ClaimHolds, InTransaction, RowLocked
<1>3. BackedInv'
  BY DEF RowsOK, Demotes, BackedInv, Live, KeepsUser, KeepsStatus
<1>4. QED
  BY <1>1, <1>2, <1>3 DEF RowsOK

LEMMA WriteDesk_Demotes ==
    ASSUME RowsOK, NEW m \in Monitors, mon[m].desk \in Desktops, mon[m].saw \in Row,
           NEW new \in Row, new.user \in {mon[m].saw.user, NoUser},
           new.status \notin {"connected", "absent"},
           WriteDesk(m, new)
    PROVE  Demotes
<1> DEFINE d == mon[m].desk
           f == Flush(desk[d], mon[m].saw, new)
<1>1. desk[d] \in Row /\ f \in Row
  BY FlushRow DEF RowsOK, RowTypes
<1>2. /\ desk' \in [Desktops -> Row]
      /\ desk'[d] \in {f, desk[d]}
      /\ \A e \in Desktops \ {d} : desk'[e] = desk[e]
      /\ ~RowLocked(d)
  BY <1>1 DEF RowsOK, RowTypes, WriteDesk
<1>3. /\ f.user \in {desk[d].user, NoUser}
      /\ f.status \in {"connected", "absent"} => f.status = desk[d].status
  BY <1>1 DEF Flush
<1>4. QED
  BY <1>2, <1>3 DEF Demotes

(***************************************************************************)
(* transition_to_ended, whoever runs it.                                   *)
(***************************************************************************)

\* tx forgets one actor, or lets it read: no pending end is added.
LEMMA EndRead_Rows ==
    ASSUME RowsOK, NEW a \in Actors, NEW s \in SessionIds, EndRead(a, s),
           UNCHANGED <<desk, sess, req>>
    PROVE  RowsOK'
<1>1. /\ tx'[a].pc = "read" /\ tx'[a].sess = s /\ tx'[a].desk = sess[s].desk
      /\ \A b \in Actors \ {a} : tx'[b] = tx[b]
  BY DEF EndRead, RowsOK, RowTypes
<1>2. RowTypes'
  BY Sorts DEF EndRead, RowsOK, RowTypes, Ending, SessionRow
<1>3. RequestInv' /\ ClaimHolds'
  BY DEF RowsOK, RequestInv, ClaimHolds, InTransaction
<1>4. TxInv'
  <2>1. sess[s].status = "active" /\ req[s].pc = "done"
    BY DEF EndRead, RowsOK, RequestInv
  <2>2. QED
    BY <1>1, <2>1 DEF RowsOK, TxInv
<1>5. BackedInv'
  BY <1>1 DEF RowsOK, BackedInv, Live, KeepsUser, KeepsStatus
<1>6. QED
  BY <1>2, <1>3, <1>4, <1>5 DEF RowsOK

LEMMA EndLock_Rows ==
    ASSUME RowsOK, NEW a \in Actors, EndLock(a), req' = req
    PROVE  RowsOK'
<1>1. PICK d \in Desktops, s \in SessionIds, row \in Row :
        /\ tx[a].pc = "read" /\ tx[a].desk = d /\ tx[a].sess = s /\ row = desk[d]
        /\ sess[s].desk \in {d, NoDesk}
  BY DEF EndLock, HasRow, RowsOK, RowTypes, TxInv
<1>2. /\ tx' \in [Actors -> Ending]
      /\ tx'[a].pc = "locked" /\ tx'[a].sess = s /\ tx'[a].desk = d /\ tx'[a].saw = row
      /\ \A b \in Actors \ {a} : tx'[b] = tx[b]
  BY <1>1 DEF EndLock, RowsOK, RowTypes, Ending
<1>3. UNCHANGED <<desk, sess, req>>
  BY DEF EndLock
<1>4. RowTypes' /\ RequestInv' /\ ClaimHolds'
  BY <1>2, <1>3 DEF RowsOK, RowTypes, RequestInv, ClaimHolds, InTransaction
<1>5. TxInv'
  BY <1>1, <1>2, <1>3 DEF RowsOK, TxInv
<1>6. BackedInv'
  <2>1. ASSUME NEW e \in Desktops, s \in Live(e)
        PROVE  e = d
    BY <1>1, <2>1, Sorts DEF Live
  <2>2. ASSUME NEW e \in Desktops, NEW t \in Live(e), KeepsUser(t), desk[e].user # NoUser
        PROVE  KeepsUser(t)'
    BY <1>1, <1>2, <2>1, <2>2 DEF KeepsUser
  <2>3. ASSUME NEW e \in Desktops, NEW t \in Live(e), KeepsStatus(t),
               desk[e].status = "connected"
        PROVE  KeepsStatus(t)'
    BY <1>1, <1>2, <2>1, <2>3, ReleasedRow DEF KeepsStatus
  <2>4. \A e \in Desktops : Live(e)' = Live(e)
    BY <1>3 DEF Live
  <2>5. QED
    BY <1>3, <2>2, <2>3, <2>4 DEF RowsOK, BackedInv
<1>7. QED
  BY <1>4, <1>5, <1>6 DEF RowsOK

\* The transaction of an actor is rolled back.
LEMMA Abort_Rows ==
    ASSUME RowsOK, NEW a \in Actors, tx' = [tx EXCEPT ![a] = NoTx],
           UNCHANGED <<desk, sess, req>>
    PROVE  RowsOK'
<1>1. /\ tx'[a].pc = "idle"
      /\ \A b \in Actors \ {a} : tx'[b] = tx[b]
  BY DEF NoTx, RowsOK, RowTypes
<1>2. RowTypes'
  BY Sorts DEF RowsOK, RowTypes
<1>3. RequestInv' /\ ClaimHolds' /\ TxInv'
  BY <1>1 DEF RowsOK, RequestInv, ClaimHolds, InTransaction, TxInv
<1>4. BackedInv'
  BY <1>1 DEF RowsOK, BackedInv, Live, KeepsUser, KeepsStatus
<1>5. QED
  BY <1>2, <1>3, <1>4 DEF RowsOK

LEMMA EndCommit_Rows ==
    ASSUME RowsOK, NEW a \in Actors, EndCommit(a), req' = req
    PROVE  RowsOK' /\ Demotes
<1>1. PICK d \in Desktops, s \in SessionIds, saw \in Row, new \in Row :
        /\ tx[a].pc = "locked" /\ tx[a].desk = d /\ tx[a].sess = s /\ tx[a].saw = saw
        /\ new = Released(saw)
        /\ sess[s].desk \in {d, NoDesk} /\ req[s].pc = "done"
  <2>1. tx[a] \in Ending /\ tx[a].pc = "locked"
    BY DEF EndCommit, RowsOK, RowTypes
  <2>2. tx[a].saw \in Row /\ Released(tx[a].saw) \in Row
    BY <2>1, ReleasedRow DEF Ending
  <2>3. QED
    BY <2>1, <2>2 DEF RowsOK, TxInv
<1>2. new.user = NoUser /\ new.status \in {"available", "disconnected"}
  BY <1>1, ReleasedRow
<1>3. /\ desk' \in [Desktops -> Row]
      /\ desk'[d] = Flush(desk[d], saw, new)
      /\ \A e \in Desktops \ {d} : desk'[e] = desk[e]
  BY <1>1, FlushRow DEF EndCommit, RowsOK, RowTypes
<1>4. /\ sess' \in [SessionIds -> SessionRow]
      /\ sess'[s].status = "ended" /\ sess'[s].desk = sess[s].desk
      /\ \A t \in SessionIds \ {s} : sess'[t] = sess[t]
  BY <1>1 DEF EndCommit, RowsOK, RowTypes, SessionRow, SessionStatus
<1>5. /\ tx' \in [Actors -> Ending]
      /\ tx'[a].pc = "idle"
      /\ \A b \in Actors \ {a} : tx'[b] = tx[b]
  BY Sorts DEF EndCommit, RowsOK, RowTypes, NoTx
<1>6. RowLocked(d) => desk'[d] = desk[d]
  BY <1>1, <1>3 DEF EndCommit, Flush, RowsOK, RowTypes, Row
<1>7. Demotes
  BY <1>2, <1>3, <1>6 DEF Demotes, Flush
<1>8. RowTypes'
  BY <1>3, <1>4, <1>5 DEF RowsOK, RowTypes
<1>9. RequestInv' /\ TxInv'
  BY <1>1, <1>4, <1>5 DEF RowsOK, RequestInv, TxInv, InTransaction
<1>10. ClaimHolds'
  BY <1>7 DEF RowsOK, Demotes, RequestInv, ClaimHolds, InTransaction, RowLocked
<1>11. BackedInv'
  <2>1. ASSUME NEW e \in Desktops, NEW t \in Live(e), t # s
        PROVE  t \in Live(e)'
    BY <1>4, <2>1 DEF Live
  <2>2. ASSUME NEW t
        PROVE  /\ KeepsUser(t) => KeepsUser(t)'
               /\ KeepsStatus(t) => KeepsStatus(t)'
    BY <1>5 DEF KeepsUser, KeepsStatus
  <2>3. ASSUME NEW e \in Desktops, s \in Live(e)
        PROVE  e = d
    BY <1>1, <2>3, Sorts DEF Live
  <2>4. ASSUME NEW e \in Desktops, desk'[e].user # NoUser
        PROVE  \E t \in Live(e)' : req'[t].user = desk'[e].user /\ KeepsUser(t)'
    <3>1. desk'[e].user = desk[e].user /\ (e = d => saw.user = NoUser)
      BY <1>2, <1>3, <2>4 DEF Flush
    <3>2. PICK t \in Live(e) : req[t].user = desk[e].user /\ KeepsUser(t)
      BY <2>4, <3>1 DEF RowsOK, BackedInv
    <3>3. t # s
      BY <1>1, <2>3, <3>1, <3>2 DEF KeepsUser
    <3>4. QED
      BY <2>1, <2>2, <3>1, <3>2, <3>3
  <2>5. ASSUME NEW e \in Desktops, desk'[e].status = "connected"
        PROVE  \E t \in Live(e)' : KeepsStatus(t)'
    <3>1. desk[e].status = "connected" /\ (e = d => saw.status = new.status)
      BY <1>2, <1>3, <2>5 DEF Flush
    <3>2. PICK t \in Live(e) : KeepsStatus(t)
      BY <3>1 DEF RowsOK, BackedInv
    <3>3. t # s
      BY <1>1, <2>3, <3>1, <3>2 DEF KeepsStatus
    <3>4. QED
      BY <2>1, <2>2, <3>2, <3>3
  <2>6. QED
    BY <2>4, <2>5 DEF BackedInv
<1>12. QED
  BY <1>7, <1>8, <1>9, <1>10, <1>11 DEF RowsOK

LEMMA DeleteCommit_Rows ==
    ASSUME RowsOK, EraseInv, NEW m \in Monitors, mon[m].desk \in Desktops, DeleteCommit(m)
    PROVE  RowsOK'
<1>1. PICK d \in Desktops : d = mon[m].desk /\ mon[m].pc = "erase"
  BY DEF DeleteCommit
<1>2. /\ desk' \in [Desktops -> Row]
      /\ desk'[d] = NoRow
      /\ \A e \in Desktops \ {d} : desk'[e] = desk[e]
  BY <1>1, Sorts DEF DeleteCommit, RowsOK, RowTypes
<1>3. \A s \in SessionIds :
        sess'[s] = IF sess[s].desk = d THEN [sess[s] EXCEPT !.desk = NoDesk] ELSE sess[s]
  BY <1>1 DEF DeleteCommit
<1>4. sess' \in [SessionIds -> SessionRow]
  BY <1>1 DEF DeleteCommit, RowsOK, RowTypes, SessionRow
<1>5. UNCHANGED <<req, tx>>
  BY DEF DeleteCommit
<1>6. RowTypes'
  BY <1>2, <1>4, <1>5 DEF RowsOK, RowTypes
<1>7. \A s \in SessionIds : /\ sess'[s].status = sess[s].status
                            /\ sess'[s].desk \in {sess[s].desk, NoDesk}
                            /\ sess[s].desk # d => sess'[s] = sess[s]
  BY <1>3 DEF RowsOK, RowTypes, SessionRow
<1>8. RequestInv' /\ TxInv'
  BY <1>5, <1>7 DEF RowsOK, RequestInv, TxInv, InTransaction
<1>9. ClaimHolds'
  BY <1>1, <1>2, <1>5 DEF RowsOK, RequestInv, ClaimHolds, InTransaction, EraseInv
<1>10. BackedInv'
  <2>1. ASSUME NEW e \in Desktops, e # d, NEW t \in Live(e)
        PROVE  t \in Live(e)'
    BY <1>7, <2>1 DEF Live
  <2>2. \A t : KeepsUser(t)' = KeepsUser(t) /\ KeepsStatus(t)' = KeepsStatus(t)
    BY <1>5 DEF KeepsUser, KeepsStatus
  <2>3. ASSUME NEW e \in Desktops, desk'[e].user # NoUser
        PROVE  \E t \in Live(e)' : req'[t].user = desk'[e].user /\ KeepsUser(t)'
    <3>1. e # d
      BY <1>2, <2>3 DEF NoRow
    <3>2. PICK t \in Live(e) : req[t].user = desk[e].user /\ KeepsUser(t)
      BY <1>2, <2>3, <3>1 DEF RowsOK, BackedInv
    <3>3. QED
      BY <1>2, <1>5, <2>1, <2>2, <3>1, <3>2
  <2>4. ASSUME NEW e \in Desktops, desk'[e].status = "connected"
        PROVE  \E t \in Live(e)' : KeepsStatus(t)'
    <3>1. e # d
      BY <1>2, <2>4 DEF NoRow
    <3>2. PICK t \in Live(e) : KeepsStatus(t)
      BY <1>2, <2>4, <3>1 DEF RowsOK, BackedInv
    <3>3. QED
      BY <2>1, <2>2, <3>1, <3>2
  <2>5. QED
    BY <2>3, <2>4 DEF BackedInv
<1>11. QED
  BY <1>6, <1>8, <1>9, <1>10 DEF RowsOK

-----------------------------------------------------------------------------
(***************************************************************************)
(* The end of a cycle: EraseInv, VMInv and NoForgottenVM.                  *)
(***************************************************************************)

\* A VM that is gone stays gone, and no row disappears.
GoneStays == \A d \in Desktops : vm[d].power = "gone" => vm'[d].power = "gone"

LEMMA MachineChanges ==
    ASSUME RestOK, NEW d \in Desktops, NEW new \in Machine,
           vm[d].power # "gone", vm' = [vm EXCEPT ![d] = new]
    PROVE  vm' \in [Desktops -> Machine] /\ GoneStays
BY DEF RestOK, GoneStays

NoRowDeleted ==
    \A d \in Desktops : desk'[d].status = "absent" => desk[d].status = "absent"

LEMMA Calm_Cycle ==
    ASSUME CycleOK, MonitorInv, Calm, GoneStays, NoRowDeleted, req' = req
    PROVE  CycleOK'
BY DEF CycleOK, MonitorInv, Calm, GoneStays, NoRowDeleted, EraseInv, VMInv, NoForgottenVM,
   InTransaction

LEMMA Connect_Cycle ==
    ASSUME CycleOK, ControlOK, RowsOK, NEW s \in SessionIds, Connect(s), GoneStays, mon' = mon
    PROVE  CycleOK'
<1> DEFINE Alone(t) == \A m \in Monitors : mon[m].pc = "erase" =>
                          ~(InTransaction(t)' /\ req'[t].desk = mon[m].desk)
<1>1. NoRowDeleted
  BY DEF Connect, Request, Claim, PoolFull, EnsureRunning, ConnectFails, ConnectCommit,
     NoRowDeleted, RowsOK, RowTypes
<1>2. \A t \in SessionIds \ {s} : req'[t] = req[t]
  BY DEF Connect, Request, Claim, PoolFull, EnsureRunning, ConnectFails, ConnectCommit,
     RowsOK, RowTypes
<1>3. Alone(s)
  <2>1. ASSUME NEW u \in Users, Request(s, u) PROVE Alone(s)
    BY <2>1 DEF Request, InTransaction, RowsOK, RowTypes
  <2>2. CASE Claim(s)
    <3>1. PICK d \in Claimable :
            req' = [req EXCEPT ![s].pc = "claimed", ![s].desk = d]
      BY <2>2 DEF Claim
    <3>2. req'[s].desk = d
      BY <3>1 DEF RowsOK, RowTypes, Connection
    <3>3. QED
      BY <3>1, <3>2 DEF Claimable, RowLocked
  <2>3. CASE PoolFull(s)
    BY <2>3 DEF PoolFull, InTransaction, RowsOK, RowTypes, Connection
  <2>4. CASE EnsureRunning(s)
    <3>1. req'[s].desk = req[s].desk /\ InTransaction(s)
      BY <2>4 DEF EnsureRunning, InTransaction, RowsOK, RowTypes, Connection
    <3>2. QED
      BY <3>1 DEF CycleOK, EraseInv
  <2>5. CASE ConnectFails(s)
    BY <2>5 DEF ConnectFails, InTransaction, RowsOK, RowTypes, Connection
  <2>6. CASE ConnectCommit(s)
    BY <2>6 DEF ConnectCommit, InTransaction, RowsOK, RowTypes, Connection
  <2>7. QED
    BY <2>1, <2>2, <2>3, <2>4, <2>5, <2>6 DEF Connect
<1>4. EraseInv'
  <2>1. \A t \in SessionIds \ {s} : Alone(t)
    BY <1>2 DEF CycleOK, EraseInv, InTransaction
  <2>2. QED
    BY <1>3, <2>1 DEF EraseInv
<1>5. VMInv' /\ NoForgottenVM'
  BY <1>1 DEF CycleOK, ControlOK, MonitorInv, GoneStays, NoRowDeleted, VMInv, NoForgottenVM
<1>6. QED
  BY <1>4, <1>5 DEF CycleOK

-----------------------------------------------------------------------------
(***************************************************************************)
(* The steps of Next.                                                      *)
(***************************************************************************)

LEMMA Connect_IInv ==
    ASSUME IInv, NEW s \in SessionIds, Connect(s)
    PROVE  IInv'
<1>1. RowsOK /\ ControlOK /\ CycleOK /\ RestOK
  BY DEF IInv
<1>2. RowsOK'
  BY <1>1, Request_Rows, Connecting_Rows, ConnectCommit_Rows DEF Connect
<1>3. UNCHANGED <<tx, mon, streak, quiet>>
  BY DEF Connect, Request, Claim, PoolFull, EnsureRunning, ConnectFails, ConnectCommit
<1>4. GoneStays /\ vm' \in [Desktops -> Machine]
  <2>1. vm' = vm \/ EnsureRunning(s)
    BY DEF Connect, Request, Claim, PoolFull, ConnectFails, ConnectCommit
  <2>2. CASE EnsureRunning(s)
    BY <1>1, <2>2 DEF EnsureRunning, GoneStays, RestOK, Machine
  <2>3. QED
    BY <1>1, <2>1, <2>2 DEF GoneStays, RestOK
<1>5. CycleOK'
  BY <1>1, <1>3, <1>4, Connect_Cycle
<1>6. ControlOK' /\ RestOK'
  BY <1>1, <1>3, <1>4 DEF ControlOK, MonitorInv, RestOK
<1>7. QED
  BY <1>2, <1>5, <1>6 DEF IInv

\* The four steps of transition_to_ended, whoever takes them.
LEMMA End_Rows ==
    ASSUME RowsOK, NEW a \in Actors, req' = req,
           \/ \E s \in SessionIds : EndRead(a, s) /\ UNCHANGED <<desk, sess>>
           \/ EndLock(a) \/ EndRollback(a) \/ EndCommit(a)
    PROVE  RowsOK' /\ NoRowDeleted
<1>1. CASE \E s \in SessionIds : EndRead(a, s) /\ UNCHANGED <<desk, sess>>
  BY <1>1, EndRead_Rows DEF NoRowDeleted
<1>2. CASE EndLock(a)
  BY <1>2, EndLock_Rows DEF NoRowDeleted, EndLock
<1>3. CASE EndRollback(a)
  BY <1>3, Abort_Rows DEF NoRowDeleted, EndRollback
<1>4. CASE EndCommit(a)
  BY <1>4, EndCommit_Rows DEF NoRowDeleted, Demotes
<1>5. QED
  BY <1>1, <1>2, <1>3, <1>4

LEMMA Still_Calm ==
    ASSUME mon' = mon
    PROVE  Calm
BY DEF Calm

LEMMA ApiEnd_IInv ==
    ASSUME IInv, NEW e \in Enders, ApiEnd(e)
    PROVE  IInv'
<1>1. RowsOK /\ ControlOK /\ CycleOK /\ RestOK
  BY DEF IInv
<1>2. UNCHANGED <<req, mon, streak, vm, quiet>>
  BY DEF ApiEnd
<1>3. RowsOK' /\ NoRowDeleted
  BY <1>1, <1>2, End_Rows, Sorts DEF ApiEnd
<1>4. CycleOK'
  BY <1>1, <1>2, <1>3, Still_Calm, Calm_Cycle DEF ControlOK, GoneStays
<1>5. ControlOK' /\ RestOK'
  BY <1>1, <1>2 DEF ControlOK, MonitorInv, RestOK
<1>6. QED
  BY <1>3, <1>4, <1>5 DEF IInv

\* What a step of the monitor outside the recycle cycle comes to.
MonitorStep == RowsOK' /\ NoRowDeleted /\ ControlOK' /\ Calm

LEMMA Tick_Step ==
    ASSUME RowsOK, ControlOK, RestOK, NEW m \in Monitors, Tick(m)
    PROVE  MonitorStep /\ RestOK'
<1>1. /\ mon' \in [Monitors -> TickState]
      /\ mon'[m].pc \in {"idle", "tick"}
      /\ \A n \in Monitors \ {m} : mon'[n] = mon[n]
  <2>1. PICK pc \in {"idle", "tick"}, todo \in SUBSET Desktops :
          mon' = [mon EXCEPT ![m].pc = pc, ![m].todo = todo]
    BY DEF Tick, Monitored
  <2> DEFINE new == [mon[m] EXCEPT !.pc = pc, !.todo = todo]
  <2>2. mon' = [mon EXCEPT ![m] = new]
    BY <2>1 DEF ControlOK
  <2>3. new \in TickState /\ new.pc = pc
    <3>1. mon[m] \in TickState /\ pc \in MonitorPC
      BY DEF ControlOK, MonitorPC
    <3>2. QED
      BY ONLY <3>1, todo \in SUBSET Desktops DEF TickState
  <2> HIDE DEF new
  <2>4. QED
    BY <2>2, <2>3 DEF ControlOK
<1>2. ControlOK' /\ Calm
  BY <1>1 DEF ControlOK, MonitorInv, Calm
<1>3. RowsOK' /\ NoRowDeleted
  BY Rows_Frame DEF Tick, NoRowDeleted
<1>4. streak' \in [Monitors -> [Desktops -> 0 .. Threshold]]
  <2>1. [d \in Desktops |-> IF d \in Monitored THEN streak[m][d] ELSE 0]
          \in [Desktops -> 0 .. Threshold]
    BY Sorts DEF RestOK
  <2>2. QED
    BY <2>1 DEF Tick, RestOK
<1>5. QED
  BY <1>2, <1>3, <1>4 DEF MonitorStep, RestOK, Tick

LEMMA PollPower_Step ==
    ASSUME RowsOK, ControlOK, RestOK, NEW m \in Monitors, PollPower(m) \/ PollPowerFails(m)
    PROVE  MonitorStep
<1>1. RowsOK' /\ NoRowDeleted
  BY Rows_Frame DEF PollPower, PollPowerFails, NoRowDeleted
<1>2. CASE PollPower(m)
  <2>1. PICK d \in Desktops, todo \in SUBSET Desktops,
            pc \in MonitorPC \ {"finish", "erase", "agent", "logoff"} :
          mon' = [mon EXCEPT ![m].todo = todo, ![m].desk = d, ![m].pc = pc]
    <3>1. PICK d \in mon[m].todo :
            mon' = [mon EXCEPT
                      ![m].todo = @ \ {d},
                      ![m].desk = d,
                      ![m].pc   = IF vm[d].power = "running" THEN "find" ELSE vm[d].power]
      BY <1>2 DEF PollPower
    <3>2. mon[m] \in TickState
      BY DEF ControlOK
    <3>3. d \in Desktops /\ mon[m].todo \ {d} \in SUBSET Desktops
      BY <3>2 DEF TickState
    <3>4. (IF vm[d].power = "running" THEN "find" ELSE vm[d].power)
             \in MonitorPC \ {"finish", "erase", "agent", "logoff"}
      BY <3>3 DEF RestOK, Machine, MonitorPC
    <3>5. QED
      BY <3>1, <3>3, <3>4
  <2>2. /\ mon' \in [Monitors -> TickState]
        /\ mon'[m].desk = d /\ mon'[m].pc = pc
        /\ \A n \in Monitors \ {m} : mon'[n] = mon[n]
    <3> DEFINE new == [mon[m] EXCEPT !.todo = todo, !.desk = d, !.pc = pc]
    <3>1. mon' = [mon EXCEPT ![m] = new]
      BY <2>1 DEF ControlOK
    <3>2. new \in TickState /\ new.desk = d /\ new.pc = pc
      BY DEF ControlOK, TickState
    <3> HIDE DEF new
    <3>3. QED
      BY <3>1, <3>2 DEF ControlOK
  <2>3. QED
    BY <1>1, <2>2 DEF MonitorStep, ControlOK, MonitorInv, Calm
<1>3. CASE PollPowerFails(m)
  <2>1. PICK todo \in SUBSET Desktops, pc \in {"idle", "tick"} :
          mon' = [mon EXCEPT ![m].todo = todo, ![m].pc = pc]
    <3>1. PICK d \in mon[m].todo :
            mon' = [mon EXCEPT
                      ![m].todo = @ \ {d},
                      ![m].pc   = IF mon[m].todo = {d} THEN "idle" ELSE "tick"]
      BY <1>3 DEF PollPowerFails
    <3>2. mon[m].todo \ {d} \in SUBSET Desktops
      BY DEF ControlOK, TickState
    <3>3. (IF mon[m].todo = {d} THEN "idle" ELSE "tick") \in {"idle", "tick"}
      OBVIOUS
    <3>4. QED
      BY <3>1, <3>2, <3>3
  <2>2. /\ mon' \in [Monitors -> TickState]
        /\ mon'[m].pc = pc
        /\ \A n \in Monitors \ {m} : mon'[n] = mon[n]
    <3> DEFINE new == [mon[m] EXCEPT !.todo = todo, !.pc = pc]
    <3>1. mon' = [mon EXCEPT ![m] = new]
      BY <2>1 DEF ControlOK
    <3>2. new \in TickState /\ new.pc = pc
      BY DEF ControlOK, TickState, MonitorPC
    <3> HIDE DEF new
    <3>3. QED
      BY <3>1, <3>2 DEF ControlOK
  <2>3. QED
    BY <1>1, <2>2 DEF MonitorStep, ControlOK, MonitorInv, Calm
<1>4. QED
  BY <1>2, <1>3

LEMMA Counter ==
    ASSUME NEW Rows, NEW X, NEW f \in [Rows -> X], NEW d, NEW x \in X
    PROVE  [f EXCEPT ![d] = x] \in [Rows -> X]
OBVIOUS

LEMMA ClearStreak_Type ==
    ASSUME RestOK, NEW m \in Monitors, ClearStreak(m)
    PROVE  streak' \in [Monitors -> [Desktops -> 0 .. Threshold]]
<1>1. [streak[m] EXCEPT ![mon[m].desk] = 0] \in [Desktops -> 0 .. Threshold]
  BY Sorts, Counter DEF RestOK
<1>2. QED
  BY <1>1 DEF RestOK, ClearStreak

\* The polls: the rows are left alone.
LEMMA Poll_Step ==
    ASSUME RowsOK, ControlOK, RestOK, NEW m \in Monitors,
           \/ FindSession(m) \/ AgentUnreachable(m) \/ UserPresent(m) \/ NobodyPresent(m)
    PROVE  MonitorStep /\ RestOK'
<1>1. RowsOK' /\ NoRowDeleted
  BY Rows_Frame DEF FindSession, AgentUnreachable, UserPresent, NobodyPresent, NoRowDeleted
<1>2. CASE FindSession(m)
  <2>1. CASE MonNext(m)
    BY <1>1, <1>2, <2>1, Next_Calm DEF FindSession, MonitorStep, RestOK
  <2>2. CASE ~MonNext(m)
    <3>1. PICK s \in SessionIds : mon' = [mon EXCEPT ![m].pc = "agent", ![m].sess = s]
      BY <1>2, <2>2 DEF FindSession, Live
    <3>2. /\ mon' \in [Monitors -> TickState]
          /\ mon'[m].desk = mon[m].desk /\ mon'[m].pc = "agent" /\ mon'[m].sess = s
          /\ \A n \in Monitors \ {m} : mon'[n] = mon[n]
      <4> DEFINE new == [mon[m] EXCEPT !.pc = "agent", !.sess = s]
      <4>1. mon' = [mon EXCEPT ![m] = new]
        BY <3>1 DEF ControlOK
      <4>2. new \in TickState /\ new.desk = mon[m].desk /\ new.pc = "agent" /\ new.sess = s
        BY DEF ControlOK, TickState, MonitorPC
      <4> HIDE DEF new
      <4>3. QED
        BY <4>1, <4>2 DEF ControlOK
    <3>3. mon[m].pc = "find"
      BY <1>2 DEF FindSession
    <3>4. QED
      BY <1>1, <1>2, <3>2, <3>3
         DEF FindSession, MonitorStep, ControlOK, MonitorInv, Calm, RestOK
  <2>3. QED
    BY <2>1, <2>2
<1>3. CASE AgentUnreachable(m)
  BY <1>1, <1>3, Next_Calm DEF AgentUnreachable, MonitorStep, RestOK
<1>4. CASE UserPresent(m)
  <2>1. streak' \in [Monitors -> [Desktops -> 0 .. Threshold]]
    BY <1>4, ClearStreak_Type DEF UserPresent
  <2>2. RestOK'
    BY <1>4, <2>1, Sorts, Counter DEF UserPresent, RestOK
  <2>3. QED
    BY <1>1, <1>4, <2>2, Next_Calm DEF UserPresent, MonitorStep
<1>5. CASE NobodyPresent(m)
  <2>1. quiet' \in [SessionIds -> 0 .. Threshold]
    <3>1. quiet' = [quiet EXCEPT ![mon[m].sess] = IF @ < Threshold THEN @ + 1 ELSE @]
      BY <1>5 DEF NobodyPresent
    <3>2. CASE mon[m].sess \in SessionIds
      <4>1. (IF quiet[mon[m].sess] < Threshold THEN quiet[mon[m].sess] + 1
                                             ELSE quiet[mon[m].sess]) \in 0 .. Threshold
        BY <3>2, Sorts DEF RestOK
      <4>2. QED
        BY <3>1, <4>1, Counter DEF RestOK
    <3>3. CASE mon[m].sess \notin SessionIds
      BY <3>1, <3>3 DEF RestOK
    <3>4. QED
      BY <3>2, <3>3
  <2>2. CASE streak[m][mon[m].desk] + 1 < Threshold
    <3>1. mon[m].desk \in Desktops
      BY <1>5 DEF NobodyPresent, ControlOK, MonitorInv
    <3>2. [streak[m] EXCEPT ![mon[m].desk] = @ + 1] \in [Desktops -> 0 .. Threshold]
      <4>1. streak[m] \in [Desktops -> 0 .. Threshold]
        BY DEF RestOK
      <4>2. streak[m][mon[m].desk] + 1 \in 0 .. Threshold
        BY <2>2, <3>1, <4>1, Sorts
      <4>3. QED
        BY <4>1, <4>2, Counter
    <3>3. RestOK'
      BY <1>5, <2>1, <2>2, <3>2 DEF NobodyPresent, RestOK
    <3>4. QED
      BY <1>1, <1>5, <2>2, <3>3, Next_Calm DEF NobodyPresent, MonitorStep
  <2>3. CASE ~(streak[m][mon[m].desk] + 1 < Threshold)
    <3>1. streak' \in [Monitors -> [Desktops -> 0 .. Threshold]]
      BY <1>5, <2>3, ClearStreak_Type DEF NobodyPresent
    <3>2. RestOK'
      BY <1>5, <2>1, <3>1 DEF NobodyPresent, RestOK
    <3>3. /\ MonGoto(m, "logoff")
          /\ mon[m].pc \notin {"idle", "tick"} /\ mon[m].sess \in SessionIds
      BY <1>5, <2>3 DEF NobodyPresent, ControlOK, MonitorInv
    <3>4. ControlOK' /\ Calm
      BY <3>3, Goto_Control DEF MonitorPC
    <3>5. QED
      BY <1>1, <3>2, <3>4 DEF MonitorStep
  <2>4. QED
    BY <2>2, <2>3
<1>6. QED
  BY <1>2, <1>3, <1>4, <1>5

LEMMA LogoffDone_Control ==
    ASSUME ControlOK, NEW m \in Monitors, LogoffDone(m), mon[m].pc \notin {"idle", "tick"}
    PROVE  ControlOK' /\ Calm
<1>1. "recycle" \in MonitorPC \ {"finish", "erase", "agent", "logoff"}
  BY DEF MonitorPC
<1>2. QED
  BY <1>1, Next_Calm, Goto_Control DEF LogoffDone

\* The monitor's own ends.
LEMMA MonitorEnd_Step ==
    ASSUME RowsOK, ControlOK, RestOK, NEW m \in Monitors,
           EndOfDownVM(m) \/ HandleLogoff(m) \/ MonitorEnds(m)
    PROVE  MonitorStep /\ RestOK'
<1> {"endDown", "endLogoff"} \subseteq MonitorPC \ {"finish", "erase"}
  BY DEF MonitorPC
<1>1. CASE EndOfDownVM(m)
  <2>1. CASE MonNext(m) /\ ClearStreak(m) /\ UNCHANGED tx
    BY <1>1, <2>1, Rows_Frame, Next_Calm, ClearStreak_Type
       DEF EndOfDownVM, MonitorStep, RestOK, NoRowDeleted
  <2>2. CASE /\ \E s \in Live(mon[m].desk) : EndRead(m, s)
             /\ MonGoto(m, "endDown")
             /\ UNCHANGED streak
    <3>1. RowsOK' /\ NoRowDeleted
      BY <1>1, <2>2, End_Rows, Sorts DEF EndOfDownVM, Live
    <3>2. ControlOK' /\ Calm
      BY <1>1, <2>2, Goto_Control DEF EndOfDownVM
    <3>3. UNCHANGED <<streak, vm, quiet>>
      BY <1>1, <2>2 DEF EndOfDownVM
    <3>4. QED
      BY <3>1, <3>2, <3>3 DEF MonitorStep, RestOK
  <2>3. QED
    BY <1>1, <2>1, <2>2 DEF EndOfDownVM
<1>2. CASE HandleLogoff(m)
  <2>1. mon[m].pc = "logoff" /\ UNCHANGED <<desk, sess, req, streak, vm, quiet>>
    BY <1>2 DEF HandleLogoff
  <2>2. CASE EndRead(m, mon[m].sess) /\ MonGoto(m, "endLogoff")
    <3>1. mon[m].sess \in SessionIds
      BY <2>1 DEF ControlOK, MonitorInv
    <3>2. RowsOK' /\ NoRowDeleted
      BY <2>1, <2>2, <3>1, End_Rows, Sorts
    <3>3. QED
      BY <2>1, <2>2, <3>2, Goto_Control DEF MonitorStep, RestOK
  <2>3. CASE LogoffDone(m) /\ UNCHANGED tx
    BY <2>1, <2>3, Rows_Frame, LogoffDone_Control DEF MonitorStep, RestOK, NoRowDeleted
  <2>4. QED
    BY <1>2, <2>2, <2>3 DEF HandleLogoff
<1>3. CASE MonitorEnds(m)
  <2>1. UNCHANGED <<req, vm, quiet>> /\ mon[m].pc \in {"endDown", "endLogoff"}
    BY <1>3 DEF MonitorEnds
  <2>2. RowsOK' /\ NoRowDeleted
    BY <1>3, <2>1, End_Rows, Sorts DEF MonitorEnds
  <2>3. ControlOK' /\ Calm
    BY <1>3, <2>1, Still_Calm, Next_Calm, LogoffDone_Control
       DEF MonitorEnds, ControlOK, MonitorInv
  <2>4. RestOK'
    BY <1>3, <2>1, ClearStreak_Type DEF MonitorEnds, RestOK
  <2>5. QED
    BY <2>2, <2>3, <2>4 DEF MonitorStep
<1>4. QED
  BY <1>1, <1>2, <1>3

LEMMA Monitor_IInv ==
    ASSUME IInv, NEW m \in Monitors, Monitor(m)
    PROVE  IInv'
<1>1. RowsOK /\ ControlOK /\ CycleOK /\ RestOK
  BY DEF IInv
<1>2. MonitorStep /\ RestOK'
  <2>1. CASE PollPower(m) \/ PollPowerFails(m)
    BY <1>1, <2>1, PollPower_Step DEF PollPower, PollPowerFails, RestOK
  <2>2. QED
    BY <1>1, <2>1, Tick_Step, Poll_Step, MonitorEnd_Step DEF Monitor
<1>3. UNCHANGED <<req, vm>>
  BY DEF Monitor, Tick, PollPower, PollPowerFails, EndOfDownVM, FindSession,
     AgentUnreachable, UserPresent, NobodyPresent, HandleLogoff, MonitorEnds
<1>4. CycleOK'
  BY <1>1, <1>2, <1>3, Calm_Cycle DEF MonitorStep, ControlOK, GoneStays
<1>5. QED
  BY <1>2, <1>4 DEF IInv, MonitorStep

\* The start of a cycle, and its writes to the desktop row.
LEMMA RecycleRow_Step ==
    ASSUME RowsOK, ControlOK, NEW m \in Monitors,
           mon[m].desk \in Desktops, mon[m].saw \in Row,
           RecycleRead(m) \/ RecycleMark(m) \/ RecycleFails(m) \/ RefreshDone(m)
    PROVE  MonitorStep
<1> DEFINE saw == mon[m].saw
<1>1. CASE RecycleRead(m)
  <2>1. RowsOK' /\ NoRowDeleted
    BY <1>1, Rows_Frame DEF RecycleRead, NoRowDeleted
  <2>2. CASE MonNext(m)
    BY <2>1, <2>2, Next_Calm DEF MonitorStep
  <2>3. CASE mon' = [mon EXCEPT ![m].pc = "mark", ![m].saw = desk[mon[m].desk]]
    <3>1. desk[mon[m].desk] \in Row
      BY DEF RowsOK, RowTypes
    <3>2. /\ mon' \in [Monitors -> TickState]
          /\ mon'[m].pc = "mark" /\ mon'[m].desk = mon[m].desk
          /\ \A n \in Monitors \ {m} : mon'[n] = mon[n]
      <4> DEFINE next == [mon[m] EXCEPT !.pc = "mark", !.saw = desk[mon[m].desk]]
      <4>1. mon' = [mon EXCEPT ![m] = next]
        BY <2>3 DEF ControlOK
      <4>2. next \in TickState /\ next.pc = "mark" /\ next.desk = mon[m].desk
        BY <3>1 DEF ControlOK, TickState, MonitorPC
      <4> HIDE DEF next
      <4>3. QED
        BY <4>1, <4>2 DEF ControlOK
    <3>3. QED
      BY <2>1, <3>2 DEF MonitorStep, ControlOK, MonitorInv, Calm
  <2>4. QED
    BY <1>1, <2>2, <2>3 DEF RecycleRead
<1>2. CASE RecycleMark(m)
  <2>1. PICK new \in Row :
          /\ new = [saw EXCEPT !.status = InProgress]
          /\ new.user = saw.user /\ new.status \in {"provisioning", "deleting"}
    <3>1. InProgress \in {"provisioning", "deleting"}
      BY DEF InProgress
    <3>2. [saw EXCEPT !.status = InProgress] \in Row
      BY <3>1 DEF Row, DesktopStatus
    <3>3. /\ [saw EXCEPT !.status = InProgress].user = saw.user
          /\ [saw EXCEPT !.status = InProgress].status = InProgress
      BY DEF Row
    <3>4. QED
      BY <3>1, <3>2, <3>3
  <2>2. WriteDesk(m, new) /\ UNCHANGED <<sess, req, tx>>
    BY <1>2, <2>1 DEF RecycleMark
  <2>3. Demotes
    BY <2>1, <2>2, WriteDesk_Demotes
  <2>4. RowsOK' /\ NoRowDeleted
    BY <2>2, <2>3, Demotes_Rows DEF Demotes, NoRowDeleted
  <2>5. CASE MonNext(m)
    BY <2>4, <2>5, Next_Calm DEF MonitorStep
  <2>6. CASE mon' = [mon EXCEPT ![m].pc = "stop", ![m].saw = new]
    <3>1. /\ mon' \in [Monitors -> TickState]
          /\ mon'[m].pc = "stop" /\ mon'[m].desk = mon[m].desk
          /\ \A n \in Monitors \ {m} : mon'[n] = mon[n]
      <4> DEFINE next == [mon[m] EXCEPT !.pc = "stop", !.saw = new]
      <4>1. mon' = [mon EXCEPT ![m] = next]
        BY <2>6 DEF ControlOK
      <4>2. next \in TickState /\ next.pc = "stop" /\ next.desk = mon[m].desk
        BY DEF ControlOK, TickState, MonitorPC
      <4> HIDE DEF next
      <4>3. QED
        BY <4>1, <4>2 DEF ControlOK
    <3>2. QED
      BY <2>4, <3>1 DEF MonitorStep, ControlOK, MonitorInv, Calm
  <2>7. QED
    BY <1>2, <2>1, <2>5, <2>6 DEF RecycleMark
<1>3. CASE RecycleFails(m)
  <2>1. PICK new \in Row :
          /\ WriteDesk(m, new) /\ new.user \in {saw.user, NoUser} /\ new.status = "error"
    BY <1>3 DEF RecycleFails, Row, DesktopStatus
  <2>2. MonNext(m) /\ UNCHANGED <<sess, req, tx>>
    BY <1>3 DEF RecycleFails
  <2>3. Demotes
    BY <2>1, WriteDesk_Demotes
  <2>4. QED
    BY <2>2, <2>3, Demotes_Rows, Next_Calm DEF Demotes, NoRowDeleted, MonitorStep
<1>4. CASE RefreshDone(m)
  <2>1. PICK new \in Row :
          WriteDesk(m, new) /\ new.user = NoUser /\ new.status = "available"
    BY <1>4 DEF RefreshDone, Row, DesktopStatus
  <2>2. MonNext(m) /\ UNCHANGED <<sess, req, tx>>
    BY <1>4 DEF RefreshDone
  <2>3. Demotes
    BY <2>1, WriteDesk_Demotes
  <2>4. QED
    BY <2>2, <2>3, Demotes_Rows, Next_Calm DEF Demotes, NoRowDeleted, MonitorStep
<1>5. QED
  BY <1>1, <1>2, <1>3, <1>4

LEMMA Recycle_IInv ==
    ASSUME IInv, NEW m \in Monitors, Recycle(m)
    PROVE  IInv'
<1>1. RowsOK /\ ControlOK /\ CycleOK /\ RestOK
  BY DEF IInv
<1>2. CASE RecycleRead(m) \/ RecycleMark(m) \/ RecycleFails(m) \/ RefreshDone(m)
  <2>1. mon[m].desk \in Desktops /\ mon[m].saw \in Row
    BY <1>1, <1>2 DEF RecycleRead, RecycleMark, RecycleFails, RefreshDone, ControlOK,
       MonitorInv, TickState
  <2>2. MonitorStep
    BY <1>1, <1>2, <2>1, RecycleRow_Step
  <2>3. UNCHANGED <<req, vm, streak, quiet>>
    BY <1>2 DEF RecycleRead, RecycleMark, RecycleFails, RefreshDone
  <2>4. CycleOK'
    BY <1>1, <2>2, <2>3, Calm_Cycle DEF MonitorStep, ControlOK, GoneStays
  <2>5. QED
    BY <1>1, <2>2, <2>3, <2>4 DEF IInv, MonitorStep, RestOK
<1>3. CASE RecycleStop(m)
  <2>1. RowsOK' /\ NoRowDeleted
    BY <1>1, <1>3, Rows_Frame DEF RecycleStop, NoRowDeleted
  <2>2. ControlOK' /\ Calm
    BY <1>1, <1>3, Goto_Control DEF RecycleStop, MonitorPC
  <2>3. vm' \in [Desktops -> Machine] /\ GoneStays
    <3>1. mon[m].desk \in Desktops
      BY <1>1, <1>3 DEF RecycleStop, ControlOK, MonitorInv
    <3> DEFINE new == [vm[mon[m].desk] EXCEPT !.power = "stopped", !.guest = NoUser]
    <3>2. new \in Machine
      BY <1>1, <3>1 DEF RestOK, Machine
    <3>3. vm[mon[m].desk].power # "gone" /\ vm' = [vm EXCEPT ![mon[m].desk] = new]
      BY <1>1, <1>3, <3>1 DEF RecycleStop, RestOK
    <3> HIDE DEF new
    <3>4. QED
      BY <1>1, <3>1, <3>2, <3>3, MachineChanges
  <2>4. CycleOK'
    BY <1>1, <1>3, <2>1, <2>2, <2>3, Calm_Cycle DEF RecycleStop, ControlOK
  <2>5. QED
    BY <1>1, <1>3, <2>1, <2>2, <2>3, <2>4 DEF IInv, RestOK, RecycleStop
<1>4. CASE RecycleVM(m)
  <2>1. RowsOK' /\ NoRowDeleted
    BY <1>1, <1>4, Rows_Frame DEF RecycleVM, NoRowDeleted
  <2>2. /\ ControlOK'
        /\ mon'[m].pc = "finish" /\ mon'[m].desk = mon[m].desk
        /\ \A n \in Monitors \ {m} : mon'[n] = mon[n]
        /\ mon[m].desk \in Desktops
    <3>1. mon[m].pc = "rebuild" /\ MonGoto(m, "finish") /\ "finish" \in MonitorPC
      BY <1>4 DEF RecycleVM, MonitorPC
    <3>2. mon[m].desk \in Desktops /\ mon[m] \in TickState
      BY <1>1, <3>1 DEF ControlOK, MonitorInv
    <3>3. /\ ControlOK'
          /\ mon'[m] = [mon[m] EXCEPT !.pc = "finish"]
          /\ \A n \in Monitors \ {m} : mon'[n] = mon[n]
      BY <1>1, <3>1, Goto_Control
    <3>4. QED
      BY <3>2, <3>3 DEF TickState
  <2>3. /\ vm' \in [Desktops -> Machine] /\ GoneStays
        /\ Policy = "delete" => vm'[mon[m].desk].power = "gone"
    BY <1>1, <1>4, <2>2 DEF RecycleVM, RestOK, Machine, GoneStays
  <2>4. EraseInv'
    BY <1>1, <1>4, <2>2 DEF CycleOK, EraseInv, RecycleVM, InTransaction
  <2>5. VMInv' /\ NoForgottenVM'
    BY <1>1, <1>4, <2>2, <2>3
       DEF CycleOK, ControlOK, MonitorInv, VMInv, NoForgottenVM, RecycleVM, GoneStays
  <2>6. QED
    BY <1>1, <1>4, <2>1, <2>2, <2>3, <2>4, <2>5 DEF IInv, CycleOK, RestOK, RecycleVM
<1>5. CASE DeleteRow(m)
  <2>1. RowsOK'
    BY <1>1, <1>5, Rows_Frame DEF DeleteRow
  <2>2. /\ ControlOK'
        /\ mon'[m].pc = "erase" /\ mon'[m].desk = mon[m].desk
        /\ \A n \in Monitors \ {m} : mon'[n] = mon[n]
    BY <1>1, <1>5, Goto_Control DEF DeleteRow, MonitorPC, ControlOK, TickState
  <2>3. EraseInv'
    BY <1>1, <1>5, <2>2 DEF CycleOK, EraseInv, DeleteRow, InTransaction, RowLocked
  <2>4. VMInv' /\ NoForgottenVM'
    BY <1>1, <1>5, <2>2 DEF CycleOK, VMInv, NoForgottenVM, DeleteRow
  <2>5. QED
    BY <1>1, <1>5, <2>1, <2>2, <2>3, <2>4 DEF IInv, CycleOK, RestOK, DeleteRow
<1>6. CASE DeleteCommit(m)
  <2>1. mon[m].desk \in Desktops /\ mon[m].pc = "erase"
    BY <1>1, <1>6 DEF DeleteCommit, ControlOK, MonitorInv
  <2>2. RowsOK'
    BY <1>1, <1>6, <2>1, DeleteCommit_Rows DEF CycleOK
  <2>3. ControlOK' /\ Calm
    BY <1>1, <1>6, Next_Calm DEF DeleteCommit
  <2>4. EraseInv' /\ VMInv'
    BY <1>1, <1>6, <2>3
       DEF CycleOK, EraseInv, VMInv, DeleteCommit, Calm, InTransaction
  <2>5. NoForgottenVM'
    BY <1>1, <1>6, <2>1 DEF CycleOK, VMInv, NoForgottenVM, DeleteCommit, RowsOK, RowTypes
  <2>6. QED
    BY <1>1, <1>6, <2>2, <2>3, <2>4, <2>5 DEF IInv, CycleOK, RestOK, DeleteCommit
<1>7. ASSUME NEW a \in Actors, DeadlockAborts(a, m) PROVE IInv'
  <2>1. UNCHANGED <<desk, sess, req, streak, vm, quiet>>
    BY <1>7 DEF DeadlockAborts
  <2>2. RowsOK'
    BY <1>1, <1>7, <2>1, Abort_Rows, Rows_Frame DEF DeadlockAborts
  <2>3. ControlOK' /\ Calm
    BY <1>1, <1>7, Still_Calm, Next_Calm DEF DeadlockAborts, ControlOK, MonitorInv
  <2>4. CycleOK'
    BY <1>1, <2>1, <2>3, Calm_Cycle DEF ControlOK, GoneStays, NoRowDeleted
  <2>5. QED
    BY <1>1, <2>1, <2>2, <2>3, <2>4 DEF IInv, RestOK
<1>8. QED
  BY <1>2, <1>3, <1>4, <1>5, <1>6, <1>7 DEF Recycle

LEMMA Environment_IInv ==
    ASSUME IInv, Environment
    PROVE  IInv'
<1>1. RowsOK /\ ControlOK /\ CycleOK /\ RestOK
  BY DEF IInv
<1>2. ASSUME UNCHANGED <<desk, sess, req, tx, mon, streak, quiet>>,
             vm' \in [Desktops -> Machine], GoneStays
      PROVE  IInv'
  <2>1. RowsOK' /\ NoRowDeleted
    BY <1>1, <1>2, Rows_Frame DEF NoRowDeleted
  <2>2. CycleOK'
    BY <1>1, <1>2, <2>1, Still_Calm, Calm_Cycle DEF ControlOK
  <2>3. QED
    BY <1>1, <1>2, <2>1, <2>2 DEF IInv, ControlOK, MonitorInv, RestOK
<1>3. ASSUME NEW d \in Desktops, GuestLogoff(d) \/ VMStops(d) \/ VMGone(d)
      PROVE  IInv'
  <2>1. vm' \in [Desktops -> Machine] /\ GoneStays
    <3>1. CASE GuestLogoff(d)
      BY <1>1, <3>1 DEF GuestLogoff, RestOK, Machine, GoneStays
    <3>2. CASE VMStops(d)
      BY <1>1, <3>2 DEF VMStops, RestOK, Machine, GoneStays
    <3>3. CASE VMGone(d)
      BY <1>1, <3>3 DEF VMGone, RestOK, Machine, GoneStays
    <3>4. QED
      BY <1>3, <3>1, <3>2, <3>3
  <2>2. QED
    BY <1>2, <1>3, <2>1 DEF GuestLogoff, VMStops, VMGone
<1>4. ASSUME NEW d \in Desktops, NEW s \in SessionIds, GuestLogin(d, s)
      PROVE  IInv'
  <2>1. req[s].user \in Users \cup {NoUser}
    BY <1>1 DEF RowsOK, RowTypes, Connection
  <2>2. vm' \in [Desktops -> Machine] /\ GoneStays
    <3> DEFINE user == req[s].user
               new  == [vm[d] EXCEPT !.guest = user, !.disk = user]
    <3> HIDE DEF user
    <3>1. new \in Machine
      BY <1>1, <2>1 DEF RestOK, Machine, user
    <3>2. vm[d].power # "gone" /\ vm' = [vm EXCEPT ![d] = new]
      BY <1>1, <1>4 DEF GuestLogin, RestOK, user
    <3> HIDE DEF new
    <3>3. QED
      BY <1>1, <3>1, <3>2, MachineChanges
  <2>3. QED
    BY <1>2, <1>4, <2>2 DEF GuestLogin
<1>5. ASSUME NEW a \in Actors, Crash(a)
      PROVE  IInv'
  <2>1. RowsOK' /\ NoRowDeleted
    BY <1>1, <1>5, Abort_Rows DEF Crash, NoRowDeleted
  <2>2. ControlOK' /\ Calm
    BY <1>1, <1>5, Sorts DEF Crash, ControlOK, MonitorInv, Calm, IdleTick
  <2>3. CycleOK'
    BY <1>1, <1>5, <2>1, <2>2, Calm_Cycle DEF Crash, ControlOK, GoneStays
  <2>4. RestOK'
    BY <1>1, <1>5, Sorts DEF Crash, RestOK
  <2>5. QED
    BY <2>1, <2>2, <2>3, <2>4 DEF IInv
<1>6. QED
  BY <1>3, <1>4, <1>5 DEF Environment

-----------------------------------------------------------------------------
(***************************************************************************)
(* The theorems.                                                           *)
(***************************************************************************)

LEMMA Init_IInv == Init => IInv
<1> SUFFICES ASSUME Init PROVE IInv
  OBVIOUS
<1>1. RowTypes
  BY Sorts DEF Init, RowTypes, Row, DesktopStatus, SessionRow, SessionStatus, Connection,
     ConnectPC
<1>2. \A s \in SessionIds : req[s].pc = "unused" /\ sess[s].status = "none"
  BY DEF Init
<1>3. \A a \in Actors : tx[a].pc = "idle"
  BY DEF Init, NoTx
<1>4. \A m \in Monitors : mon[m].pc = "idle"
  BY DEF Init, IdleTick
<1>5. \A d \in Desktops : desk[d].status = "available" /\ desk[d].user = NoUser
  BY DEF Init
<1>6. RowsOK
  BY <1>1, <1>2, <1>3, <1>5
     DEF RowsOK, RequestInv, TxInv, ClaimHolds, BackedInv, InTransaction
<1>7. ControlOK
  BY <1>4, Sorts DEF Init, ControlOK, MonitorInv
<1>8. CycleOK
  BY <1>4, <1>5 DEF CycleOK, EraseInv, VMInv, NoForgottenVM
<1>9. RestOK
  BY Sorts DEF Init, RestOK, Machine
<1>10. QED
  BY <1>6, <1>7, <1>8, <1>9 DEF IInv

LEMMA Next_IInv == IInv /\ [Next]_vars => IInv'
<1> SUFFICES ASSUME IInv, [Next]_vars PROVE IInv'
  OBVIOUS
<1>1. ASSUME NEW s \in SessionIds, Connect(s) PROVE IInv'
  BY <1>1, Connect_IInv
<1>2. ASSUME NEW e \in Enders, ApiEnd(e) PROVE IInv'
  BY <1>2, ApiEnd_IInv
<1>3. ASSUME NEW m \in Monitors, Monitor(m) PROVE IInv'
  BY <1>3, Monitor_IInv
<1>4. ASSUME NEW m \in Monitors, Recycle(m) PROVE IInv'
  BY <1>4, Recycle_IInv
<1>5. CASE Environment
  BY <1>5, Environment_IInv
<1>6. CASE UNCHANGED vars
  <2>1. RowsOK' /\ NoRowDeleted
    BY <1>6, Rows_Frame DEF IInv, NoRowDeleted, vars
  <2>2. CycleOK'
    BY <1>6, <2>1, Still_Calm, Calm_Cycle DEF IInv, ControlOK, GoneStays, vars
  <2>3. QED
    BY <1>6, <2>1, <2>2 DEF IInv, ControlOK, MonitorInv, RestOK, vars
<1>7. QED
  BY <1>1, <1>2, <1>3, <1>4, <1>5, <1>6 DEF Next

LEMMA Invariant == Spec => []IInv
BY Init_IInv, Next_IInv, PTL DEF Spec

\* The rows, the transactions, the monitors and the machines keep their types.
THEOREM TypeCorrect == Spec => []TypeOK
<1>1. IInv => TypeOK
  BY DEF IInv, RowsOK, RowTypes, ControlOK, RestOK, TypeOK
<1>2. QED
  BY <1>1, Invariant, PTL

\* A connect is alone with the desktop it claimed, from SELECT ... FOR UPDATE SKIP
\* LOCKED to its commit.
THEOREM ClaimsHold == Spec => []ClaimHolds
<1>1. IInv => ClaimHolds
  BY DEF IInv, RowsOK
<1>2. QED
  BY <1>1, Invariant, PTL

\* However many requests and monitors end sessions at once, from copies however old,
\* an assigned desktop has an active session of its user.
THEOREM AssignmentsBacked == Spec => []AssignmentBacked
<1>1. IInv => AssignmentBacked
  BY DEF IInv, RowsOK, BackedInv, AssignmentBacked
<1>2. QED
  BY <1>1, Invariant, PTL

\* The delete-on-logoff cycle removes a row only once its VM is destroyed.
THEOREM NoVMForgotten == Spec => []NoForgottenVM
<1>1. IInv => NoForgottenVM
  BY DEF IInv, CycleOK
<1>2. QED
  BY <1>1, Invariant, PTL

-----------------------------------------------------------------------------
(***************************************************************************)
(* When one monitor is the only one that ends sessions.                    *)
(***************************************************************************)

\* One broker leads, and nobody disconnects through the API ...
SoleEnder == Enders = {} /\ \A m, n \in Monitors : m = n

\* ... and nothing is recycled.
SoleWriter == SoleEnder /\ Policy = "none"

Visiting(m) == mon[m].pc \in {"gone", "stopped", "find", "agent", "logoff",
                              "endDown", "endLogoff"}

Cycling(m)  == mon[m].pc \in {"recycle", "mark", "stop", "rebuild", "finish", "erase"}

\* Who has asked is a user.
Requesters == \A s \in SessionIds : req[s].pc # "unused" => req[s].user \in Users

\* No desktop is connected and nobody's.
Assigned == \A d \in Desktops : desk[d].status = "connected" => desk[d].user \in Users

\* The desktops of the tick that the monitor has not come to are connected, and so is the
\* one at hand until its session is ended.  That session stays the latest one, and the
\* copy of the row stays current.
AtHand(m) ==
    /\ \A d \in mon[m].todo : desk[d].status = "connected"
    /\ Visiting(m) \/ Cycling(m) => mon[m].desk \notin mon[m].todo
    /\ Visiting(m) => desk[mon[m].desk].status = "connected"
    /\ tx[m].pc # "idle" => /\ mon[m].pc \in {"endDown", "endLogoff"}
                            /\ tx[m].desk = mon[m].desk
                            /\ tx[m].sess \in Live(mon[m].desk)
    /\ tx[m].pc = "locked" => tx[m].saw = desk[mon[m].desk]
    /\ mon[m].pc \in {"agent", "logoff"} => Latest(mon[m].sess, mon[m].desk)
    /\ mon[m].pc = "mark" => mon[m].saw.status \notin Refused
    /\ mon[m].pc \in {"stop", "rebuild", "finish"} => mon[m].saw.status = InProgress

\* A streak is of a connected desktop, and as long as the run of empty polls of its latest
\* session at most; it is over when the desktop is logged off.
Counted(m) ==
    /\ \A d \in Desktops :
         /\ desk[d].status # "connected" => streak[m][d] = 0
         /\ \A s \in SessionIds : Latest(s, d) /\ desk[d].status = "connected" =>
              streak[m][d] <= quiet[s]
    /\ mon[m].pc \in {"logoff", "endLogoff"} \/ Cycling(m) => streak[m][mon[m].desk] = 0

EnderInv ==
    /\ Requesters /\ NeverStranded /\ Assigned /\ LogoffDebounced
    /\ \A m \in Monitors : AtHand(m) /\ Counted(m)

\* With nothing recycled, a desktop is on offer or connected; one on offer is nobody's.
OnOffer ==
    \A d \in Desktops :
        /\ desk[d].status \in {"available", "connected"}
        /\ desk[d].status = "available" => desk[d].user = NoUser /\ Live(d) = {}

UseInv == ExclusiveUse /\ OnOffer /\ \A m \in Monitors : ~ Cycling(m)

-----------------------------------------------------------------------------
(***************************************************************************)
(* EnderInv is inductive.                                                  *)
(***************************************************************************)

\* Sessions and desktops, and what depends on nothing else.
LEMMA Still_Live ==
    ASSUME UNCHANGED sess
    PROVE  /\ \A d : Live(d)' = Live(d)
           /\ \A s, d : Latest(s, d)' <=> Latest(s, d)
<1>1. \A d : Live(d)' = Live(d)
  BY DEF Live
<1>2. QED
  BY <1>1 DEF Latest

\* What the monitor has, by where it is.
LEMMA Hand ==
    ASSUME IInv, EnderInv, NEW m \in Monitors
    PROVE  /\ tx \in [Actors -> Ending] /\ m \in Actors
           /\ mon \in [Monitors -> TickState] /\ mon[m].todo \subseteq Desktops
           /\ streak \in [Monitors -> [Desktops -> 0 .. Threshold]]
           /\ streak[m] \in [Desktops -> 0 .. Threshold]
           /\ quiet \in [SessionIds -> 0 .. Threshold]
           /\ mon[m].pc \notin {"idle", "tick"} => mon[m].desk \in Desktops
           /\ mon[m].pc \notin {"endDown", "endLogoff"} => tx[m].pc = "idle"
           /\ AtHand(m) /\ Counted(m)
BY Sorts DEF IInv, RowsOK, RowTypes, ControlOK, MonitorInv, TickState, RestOK, EnderInv, AtHand

\* Of the only monitor there is nothing else to say.
LEMMA One_Ender ==
    ASSUME SoleEnder, EnderInv, NEW m \in Monitors, UNCHANGED <<desk, req>>,
           AtHand(m)', Counted(m)',
           mon'[m].pc = "logoff" => quiet'[mon'[m].sess] = Threshold
    PROVE  EnderInv'
<1>1. Requesters' /\ NeverStranded' /\ Assigned'
  BY DEF EnderInv, Requesters, NeverStranded, Assigned
<1>2. \A n \in Monitors : n = m
  BY DEF SoleEnder
<1>3. LogoffDebounced'
  BY <1>2 DEF LogoffDebounced
<1>4. \A n \in Monitors : AtHand(n)' /\ Counted(n)'
  BY <1>2
<1>5. QED
  BY <1>1, <1>3, <1>4 DEF EnderInv

\* Steps of a connect in front of its commit, and of the environment.
LEMMA Apart_Ender ==
    ASSUME EnderInv, UNCHANGED <<desk, sess, tx, mon, streak, quiet>>,
           \A s \in SessionIds :
               \/ req'[s].user = req[s].user /\ (req'[s].pc # "unused" => req[s].pc # "unused")
               \/ req'[s].user \in Users
    PROVE  EnderInv'
<1>1. Requesters' /\ NeverStranded' /\ Assigned' /\ LogoffDebounced'
  BY DEF EnderInv, Requesters, NeverStranded, Assigned, LogoffDebounced
<1>2. ASSUME NEW m \in Monitors
      PROVE  AtHand(m)' /\ Counted(m)'
  <2>1. AtHand(m) /\ Counted(m)
    BY DEF EnderInv
  <2>2. AtHand(m)'
    BY <2>1, Still_Live DEF AtHand, Visiting, Cycling
  <2>3. Counted(m)'
    BY <2>1, Still_Live DEF Counted, Cycling
  <2>4. QED
    BY <2>2, <2>3
<1>3. QED
  BY <1>1, <1>2 DEF EnderInv

\* The commit of a connect takes a desktop that is not connected, so none of those the
\* monitor is to visit, and one whose streak is 0.
LEMMA ConnectCommit_Ender ==
    ASSUME IInv, EnderInv, NEW s \in SessionIds, ConnectCommit(s)
    PROVE  EnderInv'
<1>0. PICK d \in Desktops, u \in Users : d = req[s].desk /\ u = req[s].user
  <2>1. InTransaction(s) /\ req[s].pc # "unused"
    BY DEF ConnectCommit, InTransaction
  <2>2. QED
    BY <2>1 DEF IInv, RowsOK, RequestInv, EnderInv, Requesters
<1>1. /\ InTransaction(s) /\ desk[d].status = "available"
      /\ UNCHANGED <<tx, mon, streak, vm, quiet>>
  <2>1. InTransaction(s)
    BY DEF ConnectCommit, InTransaction
  <2>2. QED
    BY <1>0, <2>1 DEF ConnectCommit, IInv, RowsOK, ClaimHolds
<1>2. /\ desk'[d] = [status |-> "connected", user |-> u]
      /\ \A e \in Desktops \ {d} : desk'[e] = desk[e]
  BY <1>0 DEF ConnectCommit, IInv, RowsOK, RowTypes
<1>3. /\ sess'[s] = [status |-> "active", desk |-> d, ticket |-> TRUE]
      /\ \A t \in SessionIds \ {s} : sess'[t] = sess[t]
      /\ sess[s].status = "none"
  BY <1>0, <1>1 DEF ConnectCommit, IInv, RowsOK, RowTypes, RequestInv, InTransaction
<1>4. /\ req'[s].user = u
      /\ \A t \in SessionIds \ {s} : req'[t] = req[t]
  BY <1>0 DEF ConnectCommit, IInv, RowsOK, RowTypes, Connection
<1>5. \A e \in Desktops \ {d} : Live(e)' = Live(e)
  BY <1>3 DEF Live
<1>6. \A t, e : e \in Desktops \ {d} => (Latest(t, e)' <=> Latest(t, e))
  BY <1>5 DEF Latest
<1>7. Requesters' /\ NeverStranded' /\ Assigned' /\ LogoffDebounced'
  BY <1>0, <1>1, <1>2, <1>4
     DEF EnderInv, Requesters, NeverStranded, Assigned, LogoffDebounced
<1>8. ASSUME NEW m \in Monitors
      PROVE  AtHand(m)' /\ Counted(m)'
  <2>1. AtHand(m) /\ Counted(m)
    BY DEF EnderInv
  <2>2. mon[m].pc \notin {"idle", "tick"} => mon[m].desk \in Desktops
    BY Hand
  <2>3. Visiting(m) => mon[m].desk \in Desktops \ {d}
    BY <1>1, <2>1, <2>2 DEF AtHand, Visiting
  <2>4. d \notin mon[m].todo /\ mon[m].todo \subseteq Desktops
    BY <1>1, <2>1, Hand DEF AtHand
  <2>5. (tx[m].pc # "idle" \/ tx[m].pc = "locked") => Visiting(m)
    BY <2>1 DEF AtHand, Visiting
  <2>6. mon[m].pc \in {"agent", "logoff"} => Visiting(m)
    BY DEF Visiting
  <2>7. AtHand(m)'
    BY <1>1, <1>2, <1>5, <1>6, <2>1, <2>3, <2>4, <2>5, <2>6 DEF AtHand, Visiting, Cycling
  <2>8. quiet[s] \in 0 .. Threshold /\ \A t \in SessionIds : quiet[t] \in 0 .. Threshold
    BY Hand
  <2>9. streak[m][d] = 0
    BY <1>1, <2>1 DEF Counted
  <2>10. Counted(m)'
    BY <1>1, <1>2, <1>6, <2>1, <2>8, <2>9, Sorts DEF Counted, Cycling
  <2>11. QED
    BY <2>7, <2>10
<1>9. QED
  BY <1>7, <1>8 DEF EnderInv

LEMMA Connect_Ender ==
    ASSUME IInv, EnderInv, NEW s \in SessionIds, Connect(s)
    PROVE  /\ EnderInv'
           /\ ConnectCommit(s) \/ (UNCHANGED <<desk, sess, mon>>
                                   /\ \A t \in SessionIds :
                                        sess[t].status = "active" => req'[t].user = req[t].user)
<1>1. /\ \A t \in SessionIds : req[t] \in Connection
      /\ \A t \in SessionIds : sess[t].status = "active" => req[t].pc = "done"
  BY DEF IInv, RowsOK, RowTypes, RequestInv
<1>2. CASE \E u \in Users : Request(s, u)
  <2>1. UNCHANGED <<desk, sess, tx, mon, streak, quiet>>
    BY <1>2 DEF Request
  <2>2. req[s].pc # "done" /\ req'[s].user \in Users
        /\ \A t \in SessionIds \ {s} : req'[t] = req[t]
    BY <1>2 DEF Request, IInv, RowsOK, RowTypes
  <2>3. QED
    BY <1>1, <2>1, <2>2, Apart_Ender
<1>3. CASE Claim(s) \/ PoolFull(s) \/ EnsureRunning(s) \/ ConnectFails(s)
  <2>1. UNCHANGED <<desk, sess, tx, mon, streak, quiet>>
    BY <1>3 DEF Claim, PoolFull, EnsureRunning, ConnectFails
  <2>2. /\ req[s].pc # "unused" /\ req'[s].user = req[s].user
        /\ \A t \in SessionIds \ {s} : req'[t] = req[t]
    <3>1. req[s].pc # "unused"
      BY <1>3 DEF Claim, PoolFull, EnsureRunning, ConnectFails, InTransaction
    <3>2. req \in [SessionIds -> Connection]
      BY DEF IInv, RowsOK, RowTypes
    <3>3. CASE Claim(s)
      BY <1>1, <3>1, <3>2, <3>3 DEF Claim, Connection
    <3>4. CASE PoolFull(s)
      BY <1>1, <3>1, <3>2, <3>4 DEF PoolFull, Connection
    <3>5. CASE EnsureRunning(s)
      BY <1>1, <3>1, <3>2, <3>5 DEF EnsureRunning, Connection
    <3>6. CASE ConnectFails(s)
      BY <1>1, <3>1, <3>2, <3>6 DEF ConnectFails, Connection
    <3>7. QED
      BY <1>3, <3>3, <3>4, <3>5, <3>6
  <2>3. QED
    BY <2>1, <2>2, Apart_Ender
<1>4. CASE ConnectCommit(s)
  BY <1>4, ConnectCommit_Ender
<1>5. QED
  BY <1>2, <1>3, <1>4 DEF Connect

\* The streaks of m after a step that leaves the rows alone.
CountedNext(m) ==
    \A d \in Desktops :
        /\ desk[d].status # "connected" => streak'[m][d] = 0
        /\ \A s \in SessionIds : Latest(s, d) /\ desk[d].status = "connected" =>
             streak'[m][d] <= quiet'[s]

\* The monitor goes on to the next desktop, or has not yet found a session.
LEMMA Rest_Ender ==
    ASSUME SoleEnder, EnderInv, NEW m \in Monitors, UNCHANGED <<desk, sess, req>>,
           mon'[m].pc \in {"idle", "tick", "gone", "stopped", "find"}, tx'[m].pc = "idle",
           \A d \in mon'[m].todo : desk[d].status = "connected",
           mon'[m].pc \notin {"idle", "tick"} =>
               mon'[m].desk \notin mon'[m].todo /\ desk[mon'[m].desk].status = "connected",
           CountedNext(m)
    PROVE  EnderInv'
<1>1. AtHand(m)'
  BY DEF AtHand, Visiting, Cycling
<1>2. Counted(m)'
  BY Still_Live DEF Counted, CountedNext, Cycling
<1>3. QED
  BY <1>1, <1>2, One_Ender

\* With the streaks and the polls as they were.
LEMMA Still_Counted ==
    ASSUME IInv, EnderInv, NEW m \in Monitors, UNCHANGED <<streak, quiet>>
    PROVE  CountedNext(m)
BY Hand DEF CountedNext, Counted

\* With the streak of the desktop at hand removed.
LEMMA Cleared_Counted ==
    ASSUME IInv, EnderInv, NEW m \in Monitors, ClearStreak(m), mon[m].desk \in Desktops,
           \A s \in SessionIds : ~ Latest(s, mon[m].desk) => quiet'[s] = quiet[s],
           \A s \in SessionIds : quiet'[s] \in 0 .. Threshold
    PROVE  CountedNext(m) /\ streak'[m][mon[m].desk] = 0
<1>1. /\ streak'[m][mon[m].desk] = 0
      /\ \A d \in Desktops \ {mon[m].desk} : streak'[m][d] = streak[m][d]
  BY Hand DEF ClearStreak
<1>2. \A d \in Desktops, s \in SessionIds : Latest(s, d) =>
         d = mon[m].desk \/ quiet'[s] = quiet[s]
  BY DEF Latest, Live
<1>3. \A d \in Desktops :
        /\ desk[d].status # "connected" => streak[m][d] = 0
        /\ \A s \in SessionIds : Latest(s, d) /\ desk[d].status = "connected" =>
             streak[m][d] <= quiet[s]
  BY Hand DEF Counted
<1>4. \A s \in SessionIds : 0 <= quiet'[s]
  BY Sorts
<1>5. QED
  BY <1>1, <1>2, <1>3, <1>4 DEF CountedNext

LEMMA Next_Ender ==
    ASSUME SoleEnder, IInv, EnderInv, NEW m \in Monitors, UNCHANGED <<desk, sess, req>>,
           MonNext(m), tx'[m].pc = "idle", CountedNext(m)
    PROVE  EnderInv' /\ mon'[m].pc \in {"idle", "tick"}
<1>1. /\ mon'[m].pc \in {"idle", "tick"}
      /\ mon'[m].todo = mon[m].todo
  BY Hand DEF MonNext, IdleTick
<1>2. \A d \in mon[m].todo : desk[d].status = "connected"
  BY Hand DEF AtHand
<1>3. QED
  BY <1>1, <1>2, Rest_Ender

LEMMA Poll_Ender ==
    ASSUME SoleEnder, IInv, EnderInv, NEW m \in Monitors,
           \/ Tick(m) \/ PollPower(m) \/ PollPowerFails(m) \/ FindSession(m)
           \/ AgentUnreachable(m)
    PROVE  EnderInv' /\ UNCHANGED <<desk, sess, req>> /\ (Cycling(m)' => Cycling(m))
<1>1. UNCHANGED <<desk, sess, req, tx, quiet>> /\ tx[m].pc = "idle"
  <2>1. mon[m].pc \notin {"endDown", "endLogoff"}
    BY DEF Tick, PollPower, PollPowerFails, FindSession, AgentUnreachable
  <2>2. QED
    BY <2>1, Hand DEF Tick, PollPower, PollPowerFails, FindSession, AgentUnreachable
<1>2. \A d \in mon[m].todo : desk[d].status = "connected"
  BY Hand DEF AtHand
<1>3. CASE Tick(m)
  <2>1. mon'[m].pc \in {"idle", "tick"} /\ mon'[m].todo = Monitored
    BY <1>3, Hand DEF Tick, TickState
  <2>2. \A d \in Monitored : desk[d].status = "connected"
    BY DEF Monitored, EnderInv, NeverStranded
  <2>3. CountedNext(m)
    <3>1. \A d \in Desktops : streak'[m][d] \in {0, streak[m][d]}
      BY <1>3, Hand DEF Tick
    <3>2. \A s \in SessionIds : 0 <= quiet[s]
      BY Hand, Sorts
    <3>3. \A d \in Desktops :
            /\ desk[d].status # "connected" => streak[m][d] = 0
            /\ \A s \in SessionIds : Latest(s, d) /\ desk[d].status = "connected" =>
                 streak[m][d] <= quiet[s]
      BY Hand DEF Counted
    <3>4. QED
      BY <1>1, <3>1, <3>2, <3>3 DEF CountedNext
  <2>4. QED
    BY <1>1, <2>1, <2>2, <2>3, Rest_Ender DEF Cycling
<1>4. CASE PollPower(m)
  <2>1. PICK d \in mon[m].todo :
          mon' = [mon EXCEPT
                    ![m].todo = @ \ {d},
                    ![m].desk = d,
                    ![m].pc   = IF vm[d].power = "running" THEN "find"
                                                           ELSE vm[d].power]
    BY <1>4 DEF PollPower
  <2>2. vm[d].power \in {"running", "stopped", "gone"}
    BY Hand DEF IInv, RestOK, Machine
  <2>3. /\ mon'[m].pc = IF vm[d].power = "running" THEN "find" ELSE vm[d].power
        /\ mon'[m].todo = mon[m].todo \ {d} /\ mon'[m].desk = d
    BY <2>1, Hand DEF TickState
  <2>4. mon'[m].pc \in {"gone", "stopped", "find"}
    BY <2>2, <2>3
  <2>5. CountedNext(m)
    BY <1>1, <1>4, Still_Counted DEF PollPower
  <2>6. QED
    BY <1>1, <1>2, <2>3, <2>4, <2>5, Rest_Ender DEF Cycling
<1>5. CASE PollPowerFails(m)
  <2>1. /\ mon'[m].pc \in {"idle", "tick"}
        /\ mon'[m].todo \subseteq mon[m].todo
    BY <1>5, Hand DEF PollPowerFails, TickState
  <2>2. CountedNext(m)
    BY <1>1, <1>5, Still_Counted DEF PollPowerFails
  <2>3. QED
    BY <1>1, <1>2, <2>1, <2>2, Rest_Ender DEF Cycling
<1>6. CASE MonNext(m) /\ streak' = streak
  <2>1. CountedNext(m)
    BY <1>1, <1>6, Still_Counted
  <2>2. QED
    BY <1>1, <1>6, <2>1, Next_Ender DEF Cycling
<1>7. CASE FindSession(m) /\ ~ MonNext(m)
  <2>1. PICK s \in Live(mon[m].desk) :
          /\ Latest(s, mon[m].desk)
          /\ mon' = [mon EXCEPT ![m].pc = "agent", ![m].sess = s]
    BY <1>7 DEF FindSession
  <2>2. /\ mon'[m].pc = "agent" /\ mon'[m].sess = s /\ mon'[m].desk = mon[m].desk
        /\ mon'[m].todo = mon[m].todo
        /\ mon[m].pc = "find" /\ streak' = streak
    BY <1>7, <2>1, Hand DEF FindSession, TickState
  <2>3. AtHand(m)'
    <3>1. AtHand(m)
      BY Hand
    <3>2. Latest(s, mon[m].desk)'
      BY <1>1, <2>1, <2>2, Still_Live
    <3>3. QED
      BY <1>1, <2>1, <2>2, <3>1, Still_Live DEF AtHand, Visiting, Cycling
  <2>4. Counted(m)'
    <3>1. Counted(m)
      BY Hand
    <3>2. QED
      BY <1>1, <2>2, <3>1, Still_Live DEF Counted, Cycling
  <2>5. QED
    BY <1>1, <2>2, <2>3, <2>4, One_Ender DEF Cycling
<1>8. QED
  BY <1>3, <1>4, <1>5, <1>6, <1>7 DEF FindSession, AgentUnreachable

\* The guest agent's answer.
LEMMA Agent_Ender ==
    ASSUME SoleEnder, IInv, EnderInv, NEW m \in Monitors, UserPresent(m) \/ NobodyPresent(m)
    PROVE  EnderInv' /\ UNCHANGED <<desk, sess, req>> /\ (Cycling(m)' => Cycling(m))
<1>1. PICK d \in Desktops, s \in SessionIds :
        /\ mon[m].pc = "agent" /\ mon[m].desk = d /\ mon[m].sess = s
        /\ Latest(s, d) /\ desk[d].status = "connected"
  BY Hand DEF UserPresent, NobodyPresent, AtHand, Visiting, Latest, Live
<1>2. UNCHANGED <<desk, sess, req, tx>> /\ tx'[m].pc = "idle"
  BY <1>1, Hand DEF UserPresent, NobodyPresent
<1>3. \A t \in SessionIds, e \in Desktops : Latest(t, e) => (t = s <=> e = d)
  <2>1. ASSUME NEW t \in SessionIds, Latest(t, d)
        PROVE  t = s
    <3>1. t <= s /\ s <= t
      BY <1>1, <2>1 DEF Latest
    <3>2. QED
      BY <3>1, Sorts
  <2>2. sess[s].desk = d
    BY <1>1 DEF Latest, Live
  <2>3. ASSUME NEW e \in Desktops, Latest(s, e)
        PROVE  e = d
    BY <2>2, <2>3 DEF Latest, Live
  <2>4. QED
    BY <2>1, <2>3
<1>4. CASE UserPresent(m)
  <2>1. ClearStreak(m) /\ MonNext(m)
    BY <1>4 DEF UserPresent
  <2>2. quiet'[s] = 0 /\ \A t \in SessionIds \ {s} : quiet'[t] = quiet[t]
    BY <1>1, <1>4, Hand DEF UserPresent
  <2>3. \A t \in SessionIds : quiet'[t] \in 0 .. Threshold
    BY <2>2, Hand, Sorts
  <2>4. CountedNext(m)
    BY <1>1, <2>1, <2>2, <2>3, Cleared_Counted
  <2>5. QED
    BY <1>2, <2>1, <2>4, Next_Ender DEF Cycling
<1>5. CASE NobodyPresent(m)
  <2>1. /\ quiet'[s] = IF quiet[s] < Threshold THEN quiet[s] + 1 ELSE quiet[s]
        /\ \A t \in SessionIds \ {s} : quiet'[t] = quiet[t]
    BY <1>1, <1>5, Hand DEF NobodyPresent
  <2>2. /\ streak[m][d] \in 0 .. Threshold /\ quiet[s] \in 0 .. Threshold
        /\ streak[m][d] <= quiet[s] /\ Threshold \in Nat
    BY <1>1, Hand, Sorts DEF Counted
  <2>3. \A e \in Desktops :
          /\ desk[e].status # "connected" => streak[m][e] = 0
          /\ \A t \in SessionIds : Latest(t, e) /\ desk[e].status = "connected" =>
               streak[m][e] <= quiet[t]
    BY Hand DEF Counted
  <2>4. CASE streak[m][d] + 1 < Threshold
    <3>1. MonNext(m)
      BY <1>1, <1>5, <2>4 DEF NobodyPresent
    <3>2. streak' = [streak EXCEPT ![m][d] = @ + 1]
      BY <1>1, <1>5, <2>4 DEF NobodyPresent
    <3>3. /\ streak'[m][d] = streak[m][d] + 1
          /\ \A e \in Desktops \ {d} : streak'[m][e] = streak[m][e]
      BY <3>2, Hand
    <3>4. streak'[m][d] <= quiet'[s]
      BY <2>1, <2>2, <2>4, <3>3
    <3>5. CountedNext(m)
      BY <1>1, <1>3, <2>1, <2>3, <3>3, <3>4 DEF CountedNext
    <3>6. QED
      BY <1>2, <3>1, <3>5, Next_Ender DEF Cycling
  <2>5. CASE ~(streak[m][d] + 1 < Threshold)
    <3>1. /\ mon'[m].pc = "logoff" /\ mon'[m].desk = d /\ mon'[m].sess = s
          /\ mon'[m].todo = mon[m].todo
      <4>1. MonGoto(m, "logoff")
        BY <1>1, <1>5, <2>5 DEF NobodyPresent
      <4>2. QED
        BY <1>1, <4>1, Hand DEF MonGoto, TickState
    <3>2. streak'[m][d] = 0 /\ \A e \in Desktops \ {d} : streak'[m][e] = streak[m][e]
      <4>1. ClearStreak(m)
        BY <1>1, <1>5, <2>5 DEF NobodyPresent
      <4>2. QED
        BY <1>1, <4>1, Hand DEF ClearStreak
    <3>3. quiet'[s] = Threshold
      BY <2>1, <2>2, <2>5
    <3>4. 0 <= quiet'[s]
      BY <2>2, <3>3
    <3>5. Counted(m)'
      <4>1. \A e \in Desktops :
              /\ desk[e].status # "connected" => streak'[m][e] = 0
              /\ \A t \in SessionIds : Latest(t, e) /\ desk[e].status = "connected" =>
                   streak'[m][e] <= quiet'[t]
        BY <1>1, <1>3, <2>1, <2>3, <3>2, <3>4
      <4>2. QED
        BY <1>2, <3>1, <3>2, <4>1, Still_Live DEF Counted
    <3>6. AtHand(m)'
      <4>1. AtHand(m) /\ tx[m].pc = "idle"
        BY <1>1, Hand
      <4>2. Latest(s, d)'
        BY <1>1, <1>2, Still_Live
      <4>3. QED
        BY <1>1, <1>2, <3>1, <4>1, <4>2 DEF AtHand, Visiting, Cycling
    <3>7. QED
      BY <1>2, <3>1, <3>3, <3>5, <3>6, One_Ender DEF Cycling
  <2>6. QED
    BY <2>4, <2>5
<1>6. QED
  BY <1>4, <1>5

\* The monitor begins to end the session at hand, or finds that there is none.
LEMMA Begin_Ender ==
    ASSUME SoleEnder, IInv, EnderInv, NEW m \in Monitors, EndOfDownVM(m) \/ HandleLogoff(m)
    PROVE  EnderInv' /\ UNCHANGED <<desk, sess, req>> /\ (Cycling(m)' => Cycling(m))
<1>1. /\ UNCHANGED <<desk, sess, req, quiet>> /\ tx[m].pc = "idle"
      /\ mon[m].desk \in Desktops /\ Visiting(m)
  <2>1. mon[m].pc \in {"gone", "stopped", "logoff"}
    BY DEF EndOfDownVM, HandleLogoff
  <2>2. QED
    BY <2>1, Hand DEF EndOfDownVM, HandleLogoff, Visiting
<1>2. ASSUME NEW s \in Live(mon[m].desk), EndRead(m, s), streak' = streak,
             \/ MonGoto(m, "endDown")
             \/ MonGoto(m, "endLogoff") /\ mon[m].pc = "logoff"
      PROVE  EnderInv' /\ ~ Cycling(m)'
  <2>1. /\ tx'[m].pc = "read" /\ tx'[m].sess = s /\ tx'[m].desk = mon[m].desk
    BY <1>1, <1>2, Hand DEF EndRead, Live
  <2>2. /\ mon'[m].desk = mon[m].desk /\ mon'[m].todo = mon[m].todo
        /\ \/ mon'[m].pc = "endDown"
           \/ mon'[m].pc = "endLogoff" /\ mon[m].pc = "logoff"
    <3>1. PICK pc \in {"endDown", "endLogoff"} :
            mon' = [mon EXCEPT ![m].pc = pc] /\ (pc = "endLogoff" => mon[m].pc = "logoff")
      BY <1>2 DEF MonGoto
    <3> DEFINE new == [mon[m] EXCEPT !.pc = pc]
    <3>2. mon \in [Monitors -> TickState] /\ mon' = [mon EXCEPT ![m] = new]
      BY <3>1, Hand
    <3>3. new.pc = pc /\ new.desk = mon[m].desk /\ new.todo = mon[m].todo
      BY ONLY <3>2 DEF TickState
    <3> HIDE DEF new
    <3>4. QED
      BY <3>1, <3>2, <3>3
  <2>3. AtHand(m)'
    <3>1. AtHand(m)
      BY Hand
    <3>2. PICK d \in Desktops : d = mon[m].desk /\ d = mon'[m].desk /\ s \in Live(d)
      BY <1>1, <1>2, <2>2
    <3>3. s \in Live(d)'
      BY <1>1, <3>2, Still_Live
    <3>4. QED
      BY <1>1, <2>1, <2>2, <3>1, <3>2, <3>3 DEF AtHand, Visiting, Cycling
  <2>4. Counted(m)'
    <3>1. Counted(m)
      BY Hand
    <3>2. QED
      BY <1>1, <1>2, <2>2, <3>1, Still_Live DEF Counted, Cycling
  <2>5. QED
    BY <1>1, <2>2, <2>3, <2>4, One_Ender DEF Cycling
<1>3. CASE EndOfDownVM(m) /\ Live(mon[m].desk) = {}
  <2>1. MonNext(m) /\ ClearStreak(m) /\ tx' = tx
    BY <1>3 DEF EndOfDownVM
  <2>2. CountedNext(m)
    BY <1>1, <2>1, Cleared_Counted, Hand
  <2>3. QED
    BY <1>1, <2>1, <2>2, Next_Ender DEF Cycling
<1>4. CASE EndOfDownVM(m) /\ Live(mon[m].desk) # {}
  <2>1. PICK s \in Live(mon[m].desk) : EndRead(m, s) /\ MonGoto(m, "endDown") /\ streak' = streak
    BY <1>4 DEF EndOfDownVM
  <2>2. QED
    BY <1>1, <1>2, <2>1
<1>5. CASE HandleLogoff(m)
  <2>1. mon[m].pc = "logoff" /\ mon[m].sess \in Live(mon[m].desk) /\ streak' = streak
    BY <1>5, Hand DEF HandleLogoff, AtHand, Latest
  <2>2. sess[mon[m].sess].status = "active"
    BY <2>1 DEF Live
  <2>3. EndRead(m, mon[m].sess) /\ MonGoto(m, "endLogoff")
    BY <1>5, <2>2 DEF HandleLogoff
  <2>4. QED
    BY <1>1, <1>2, <2>1, <2>3
<1>6. QED
  BY <1>3, <1>4, <1>5

\* The desktop at hand leaves the tick: nobody is served on it any more, or its row is left
\* as it is.
LEMMA Leave_Ender ==
    ASSUME SoleEnder, IInv, EnderInv, NEW m \in Monitors, NEW d \in Desktops,
           d \notin mon[m].todo, UNCHANGED <<req, quiet>>,
           \A e \in Desktops \ {d} : /\ desk'[e] = desk[e] /\ Live(e)' = Live(e)
                                     /\ streak'[m][e] = streak[m][e],
           desk'[d].status \notin {"connected", "disconnected"} \/ desk'[d] = desk[d],
           streak'[m][d] = 0, tx'[m].pc = "idle",
           mon'[m].todo = mon[m].todo, Cycling(m)' => mon'[m].desk = d,
           ~ Visiting(m)', mon'[m].pc = "mark" => mon'[m].saw.status \notin Refused,
           mon'[m].pc \in {"stop", "rebuild", "finish"} => mon'[m].saw.status = InProgress
    PROVE  EnderInv'
<1>1. \A n \in Monitors : n = m
  BY DEF SoleEnder
<1>2. mon'[m].pc \notin {"agent", "logoff", "endDown", "endLogoff"}
  BY DEF Visiting
<1>3. Requesters' /\ NeverStranded' /\ Assigned' /\ LogoffDebounced'
  <2>1. Requesters' /\ NeverStranded' /\ Assigned'
    BY DEF EnderInv, Requesters, NeverStranded, Assigned
  <2>2. LogoffDebounced'
    BY <1>1, <1>2 DEF LogoffDebounced
  <2>3. QED
    BY <2>1, <2>2
<1>4. AtHand(m) /\ Counted(m) /\ mon[m].todo \subseteq Desktops
  BY Hand
<1>5. AtHand(m)'
  BY <1>2, <1>4 DEF AtHand, Cycling
<1>6. Counted(m)'
  <2>1. \A s, e : e \in Desktops \ {d} => (Latest(s, e)' <=> Latest(s, e))
    BY DEF Latest
  <2>2. \A s \in SessionIds : 0 <= quiet'[s]
    BY Hand, Sorts
  <2>3. QED
    BY <1>2, <1>4, <2>1, <2>2 DEF Counted
<1>7. \A n \in Monitors : AtHand(n)' /\ Counted(n)'
  BY <1>1, <1>5, <1>6
<1>8. QED
  BY <1>3, <1>7 DEF EnderInv

\* The monitor's end of the session s of the desktop d at hand.
EndsAtHand(m, d, s) ==
    /\ tx[m].pc = "locked" /\ tx[m].sess = s /\ mon[m].desk = d
    /\ mon[m].pc \in {"endDown", "endLogoff"} /\ s \in Live(d)
    /\ desk[d].status = "connected"
    /\ desk' = [desk EXCEPT ![d] = [status |-> "available", user |-> NoUser]]
    /\ sess' = [sess EXCEPT ![s].status = "ended", ![s].ticket = FALSE]
    /\ tx'[m].pc = "idle" /\ UNCHANGED <<req, quiet>>
    /\ IF mon[m].pc = "endDown" THEN MonNext(m) /\ ClearStreak(m)
                               ELSE LogoffDone(m) /\ UNCHANGED streak

\* Where the monitor ends sessions, nobody else does: the copy of the row it releases is
\* the row, and the desktop returns to the pool.
LEMMA Released_Ender ==
    ASSUME IInv, EnderInv, NEW m \in Monitors, MonitorEnds(m), EndCommit(m)
    PROVE  \E d \in Desktops, s \in SessionIds : EndsAtHand(m, d, s)
<1>1. tx[m].pc = "locked" /\ mon[m].pc \in {"endDown", "endLogoff"}
  BY DEF MonitorEnds, EndCommit
<1>2. PICK d \in Desktops, s \in SessionIds :
        /\ tx[m].desk = d /\ tx[m].sess = s /\ mon[m].desk = d
        /\ s \in Live(d) /\ tx[m].saw = desk[d] /\ desk[d].status = "connected"
  BY <1>1, Hand DEF AtHand, Live, Visiting
<1>3. desk[d].user # NoUser /\ desk[d] \in Row
  BY <1>2, Sorts DEF EnderInv, Assigned, IInv, RowsOK, RowTypes
<1>4. Released(desk[d]) = [status |-> "available", user |-> NoUser]
  BY <1>3 DEF Released
<1>5. Flush(desk[d], desk[d], Released(desk[d])) = [status |-> "available", user |-> NoUser]
  BY <1>2, <1>3, <1>4 DEF Flush
<1>6. desk' = [desk EXCEPT ![d] = Flush(desk[d], desk[d], Released(desk[d]))]
  BY <1>2 DEF EndCommit
<1>7. sess' = [sess EXCEPT ![s].status = "ended", ![s].ticket = FALSE]
  BY <1>2 DEF EndCommit
<1>8. tx' = [tx EXCEPT ![m] = NoTx]
  BY DEF EndCommit
<1>9. tx'[m].pc = "idle" /\ UNCHANGED <<req, quiet>>
  BY <1>8, Hand DEF NoTx, MonitorEnds
<1>10. IF mon[m].pc = "endDown" THEN MonNext(m) /\ ClearStreak(m)
                               ELSE LogoffDone(m) /\ UNCHANGED streak
  BY <1>1 DEF MonitorEnds, EndLock, EndRollback, EndCommit
<1>11. QED
  BY <1>1, <1>2, <1>5, <1>6, <1>7, <1>9, <1>10 DEF EndsAtHand

LEMMA EndCommit_Ender ==
    ASSUME SoleEnder, IInv, EnderInv, NEW m \in Monitors, MonitorEnds(m), EndCommit(m)
    PROVE  EnderInv' /\ UNCHANGED req /\ (Policy = "none" /\ Cycling(m)' => Cycling(m))
<1>0. PICK d \in Desktops, s \in SessionIds : EndsAtHand(m, d, s)
  BY Released_Ender
<1>1. /\ tx[m].pc = "locked" /\ tx[m].sess = s /\ mon[m].desk = d
      /\ mon[m].pc \in {"endDown", "endLogoff"} /\ s \in Live(d)
      /\ desk[d].status = "connected"
      /\ desk' = [desk EXCEPT ![d] = [status |-> "available", user |-> NoUser]]
      /\ sess' = [sess EXCEPT ![s].status = "ended", ![s].ticket = FALSE]
      /\ tx'[m].pc = "idle" /\ UNCHANGED <<req, quiet>>
      /\ IF mon[m].pc = "endDown" THEN MonNext(m) /\ ClearStreak(m)
                                 ELSE LogoffDone(m) /\ UNCHANGED streak
  BY <1>0 DEF EndsAtHand
<1>2. /\ desk'[d].status = "available"
      /\ \A e \in Desktops \ {d} : desk'[e] = desk[e]
  BY <1>1 DEF IInv, RowsOK, RowTypes
<1>3. \A e \in Desktops \ {d} : Live(e)' = Live(e)
  <2>1. /\ sess'[s].desk = sess[s].desk /\ sess[s].desk = d
        /\ \A t \in SessionIds \ {s} : sess'[t] = sess[t]
    BY <1>1 DEF IInv, RowsOK, RowTypes, SessionRow, Live
  <2>2. QED
    BY <2>1 DEF Live
<1>4. streak'[m][d] = 0 /\ \A e \in Desktops \ {d} : streak'[m][e] = streak[m][e]
  <2>1. CASE mon[m].pc = "endDown"
    BY <1>1, <2>1, Hand DEF ClearStreak
  <2>2. CASE mon[m].pc = "endLogoff"
    BY <1>1, <2>2, Hand DEF Counted
  <2>3. QED
    BY <1>1, <2>1, <2>2
<1>5. /\ mon'[m].todo = mon[m].todo
      /\ \/ mon'[m].pc \in {"idle", "tick"}
         \/ mon'[m].pc = "recycle" /\ mon'[m].desk = d /\ Policy # "none"
  <2>1. CASE MonNext(m)
    BY <2>1, Hand DEF MonNext, IdleTick
  <2>2. CASE MonGoto(m, "recycle") /\ Policy # "none"
    BY <1>1, <2>2, Hand DEF MonGoto, TickState
  <2>3. QED
    BY <1>1, <2>1, <2>2 DEF LogoffDone
<1>6. d \notin mon[m].todo
  BY <1>1, Hand DEF AtHand, Visiting
<1>7. ~ Visiting(m)' /\ (Cycling(m)' => mon'[m].desk = d /\ Policy # "none")
  BY <1>5 DEF Visiting, Cycling
<1>8. mon'[m].pc \notin {"mark", "stop", "rebuild", "finish"}
  BY <1>5
<1>9. EnderInv'
  BY <1>1, <1>2, <1>3, <1>4, <1>5, <1>6, <1>7, <1>8, Leave_Ender
<1>10. QED
  BY <1>1, <1>7, <1>9

LEMMA Monitor_Ender ==
    ASSUME SoleEnder, IInv, EnderInv, NEW m \in Monitors, Monitor(m)
    PROVE  /\ EnderInv' /\ UNCHANGED req /\ (Policy = "none" /\ Cycling(m)' => Cycling(m))
           /\ (MonitorEnds(m) /\ EndCommit(m)) \/ UNCHANGED <<desk, sess>>
<1>1. CASE MonitorEnds(m) /\ EndLock(m)
  <2>1. UNCHANGED <<desk, sess, req, mon, streak, quiet>>
    BY <1>1 DEF EndLock, MonitorEnds, EndRollback, EndCommit
  <2>2. /\ tx'[m].pc = "locked" /\ tx'[m].saw = desk[tx[m].desk]
        /\ tx'[m].sess = tx[m].sess /\ tx'[m].desk = tx[m].desk /\ tx[m].pc # "idle"
    BY <1>1, Hand DEF Ending, EndLock
  <2>3. AtHand(m)'
    <3>1. AtHand(m)
      BY Hand
    <3>2. QED
      BY <2>1, <2>2, <3>1, Still_Live DEF AtHand, Visiting, Cycling
  <2>4. Counted(m)'
    <3>1. Counted(m)
      BY Hand
    <3>2. QED
      BY <2>1, <3>1, Still_Live DEF Counted, Cycling
  <2>5. mon'[m].pc # "logoff"
    BY <1>1, <2>1 DEF MonitorEnds
  <2>6. QED
    BY <2>1, <2>3, <2>4, <2>5, One_Ender DEF Cycling
<1>2. CASE MonitorEnds(m) /\ EndRollback(m)
  <2>1. UNCHANGED <<desk, sess, req, streak, quiet>> /\ MonNext(m)
    BY <1>2 DEF EndLock, MonitorEnds, EndRollback, EndCommit
  <2>2. tx'[m].pc = "idle"
    BY <1>2, Hand DEF EndRollback, NoTx
  <2>3. QED
    BY <2>1, <2>2, Next_Ender, Still_Counted DEF Cycling
<1>3. CASE MonitorEnds(m) /\ EndCommit(m)
  BY <1>3, EndCommit_Ender
<1>4. QED
  BY <1>1, <1>2, <1>3, Poll_Ender, Agent_Ender, Begin_Ender DEF Monitor, MonitorEnds

\* The cycle at the desktop at hand.
LEMMA Cycle_Ender ==
    ASSUME SoleEnder, IInv, EnderInv, NEW m \in Monitors, Cycling(m),
           NEW d \in Desktops, d = mon[m].desk,
           UNCHANGED <<req, tx, streak, quiet>>,
           \A e \in Desktops \ {d} : desk'[e] = desk[e] /\ Live(e)' = Live(e),
           desk'[d].status \notin {"connected", "disconnected"} \/ desk'[d] = desk[d],
           \/ MonNext(m)
           \/ /\ mon'[m].desk = d /\ mon'[m].todo = mon[m].todo
              /\ Cycling(m)'
              /\ mon'[m].pc = "mark" => mon'[m].saw.status \notin Refused
              /\ mon'[m].pc \in {"stop", "rebuild", "finish"} =>
                   mon'[m].saw.status = InProgress
    PROVE  EnderInv'
<1>1. /\ d \notin mon[m].todo /\ streak[m][d] = 0 /\ tx[m].pc = "idle"
  BY Hand DEF AtHand, Counted, Cycling
<1>2. CASE MonNext(m)
  <2>1. mon'[m].pc \in {"idle", "tick"} /\ mon'[m].todo = mon[m].todo
    BY <1>2, Hand DEF MonNext, IdleTick
  <2>2. ~ Visiting(m)' /\ ~ Cycling(m)'
    BY <2>1 DEF Visiting, Cycling
  <2>3. QED
    BY <1>1, <2>1, <2>2, Leave_Ender
<1>3. CASE ~ MonNext(m)
  <2>1. ~ Visiting(m)'
    BY <1>3 DEF Visiting, Cycling
  <2>2. QED
    BY <1>1, <1>3, <2>1, Leave_Ender
<1>4. QED
  BY <1>2, <1>3

\* A write of the cycle: the row of the desktop at hand takes the new status.
LEMMA WriteDesk_Ender ==
    ASSUME IInv, NEW m \in Monitors, NEW d \in Desktops, d = mon[m].desk,
           NEW new, WriteDesk(m, new), mon[m].saw.status # new.status,
           new.status \notin {"connected", "disconnected"}
    PROVE  /\ \A e \in Desktops \ {d} : desk'[e] = desk[e]
           /\ desk'[d].status \notin {"connected", "disconnected"} \/ desk'[d] = desk[d]
<1>1. desk' = [desk EXCEPT ![d] = IF HasRow(d) THEN Flush(desk[d], mon[m].saw, new)
                                              ELSE desk[d]]
  BY DEF WriteDesk
<1>2. Flush(desk[d], mon[m].saw, new).status = new.status
  BY DEF Flush
<1>3. QED
  BY <1>1, <1>2 DEF IInv, RowsOK, RowTypes

LEMMA Recycle_Ender ==
    ASSUME SoleEnder, IInv, EnderInv, NEW m \in Monitors, Recycle(m)
    PROVE  EnderInv' /\ Cycling(m)
<1>1. Cycling(m)
  BY DEF Recycle, RecycleRead, RecycleMark, RecycleStop, RecycleVM, RecycleFails,
         RefreshDone, DeleteRow, DeleteCommit, DeadlockAborts, Deadlocked, Cycling
<1> SUFFICES EnderInv'
  BY <1>1
<1>2. PICK d \in Desktops : d = mon[m].desk
  BY <1>1, Hand DEF Cycling
<1>3. /\ tx[m].pc = "idle" /\ \A a \in Actors : a = m
      /\ mon[m].pc = "mark" => mon[m].saw.status \notin Refused
      /\ mon[m].pc \in {"stop", "rebuild", "finish"} => mon[m].saw.status = InProgress
  <2>1. AtHand(m) /\ Monitors = Actors
    BY Hand DEF SoleEnder, Actors
  <2>2. QED
    BY <1>1, <2>1 DEF SoleEnder, AtHand, Cycling
<1>4. InProgress \in Refused /\ InProgress \in {"provisioning", "deleting"}
  BY DEF InProgress, Refused
<1>5. ASSUME UNCHANGED <<desk, sess, req, tx, streak, quiet>>,
             \/ MonNext(m)
             \/ \E pc \in {"rebuild", "finish"} :
                  MonGoto(m, pc) /\ mon[m].pc \in {"stop", "rebuild"}
             \/ MonGoto(m, "erase")
      PROVE  EnderInv'
  <2>1. MonNext(m) \/
        /\ mon'[m].desk = d /\ mon'[m].todo = mon[m].todo
        /\ \/ mon'[m].pc \in {"rebuild", "finish"} /\ mon'[m].saw.status = InProgress
           \/ mon'[m].pc = "erase"
    BY <1>2, <1>3, <1>5, Hand DEF MonGoto, TickState
  <2>2. QED
    BY <1>1, <1>2, <1>5, <2>1, Cycle_Ender, Still_Live DEF Cycling
<1>6. CASE RecycleRead(m)
  <2>1. CASE MonNext(m)
    BY <1>5, <1>6, <2>1 DEF RecycleRead
  <2>2. CASE ~ MonNext(m)
    <3>1. /\ desk[d].status \notin Refused
          /\ mon' = [mon EXCEPT ![m].pc = "mark", ![m].saw = desk[d]]
          /\ UNCHANGED <<desk, sess, req, tx, streak, quiet>>
      BY <1>2, <1>6, <2>2 DEF RecycleRead
    <3>2. /\ mon'[m].pc = "mark" /\ mon'[m].saw = desk[d]
          /\ mon'[m].desk = d /\ mon'[m].todo = mon[m].todo
      BY <1>2, <3>1, Hand DEF TickState
    <3>3. Cycling(m)' /\ \A e : Live(e)' = Live(e)
      BY <3>1, <3>2, Still_Live DEF Cycling
    <3>4. mon'[m].saw.status \notin Refused
      BY <3>1, <3>2
    <3>5. mon'[m].pc \notin {"stop", "rebuild", "finish"}
      BY <3>2
    <3>6. UNCHANGED <<req, tx, streak, quiet>> /\ UNCHANGED desk
      BY <3>1
    <3>7. QED
      BY <1>1, <1>2, <3>2, <3>3, <3>4, <3>5, <3>6, Cycle_Ender
  <2>3. QED
    BY <2>1, <2>2
<1>7. ASSUME NEW new, WriteDesk(m, new), mon[m].saw.status # new.status,
             new.status \notin {"connected", "disconnected"},
             UNCHANGED <<sess, req, tx, streak, quiet>>,
             \/ MonNext(m)
             \/ mon[m].pc = "mark" /\ mon' = [mon EXCEPT ![m].pc = "stop", ![m].saw = new]
                /\ new.status = InProgress
      PROVE  EnderInv'
  <2>1. /\ \A e \in Desktops \ {d} : desk'[e] = desk[e]
        /\ desk'[d].status \notin {"connected", "disconnected"} \/ desk'[d] = desk[d]
    BY <1>2, <1>7, WriteDesk_Ender
  <2>2. MonNext(m) \/
        /\ mon'[m].desk = d /\ mon'[m].todo = mon[m].todo
        /\ mon'[m].pc = "stop" /\ mon'[m].saw.status = InProgress
    BY <1>2, <1>7, Hand DEF TickState
  <2>3. QED
    BY <1>1, <1>2, <1>7, <2>1, <2>2, Cycle_Ender, Still_Live DEF Cycling
<1>8. CASE RecycleMark(m)
  <2>1. PICK new : new = [mon[m].saw EXCEPT !.status = InProgress]
    OBVIOUS
  <2>2. mon[m].saw \in Row
    BY Hand DEF TickState
  <2>3. new.status = InProgress
    BY <2>1, <2>2 DEF Row
  <2>4. /\ WriteDesk(m, new) /\ mon[m].pc = "mark"
        /\ UNCHANGED <<sess, req, tx, streak, quiet>>
        /\ MonNext(m) \/ mon' = [mon EXCEPT ![m].pc = "stop", ![m].saw = new]
    BY <1>8, <2>1 DEF RecycleMark
  <2>5. QED
    BY <1>3, <1>4, <1>7, <2>3, <2>4
<1>9. CASE RecycleStop(m) \/ RecycleVM(m)
  BY <1>5, <1>9 DEF RecycleStop, RecycleVM
<1>10. CASE RecycleFails(m)
  <2>1. PICK new : new = [status |-> "error",
                          user   |-> IF Policy = "refresh" THEN NoUser ELSE mon[m].saw.user]
    OBVIOUS
  <2>2. WriteDesk(m, new) /\ new.status = "error" /\ MonNext(m)
        /\ mon[m].saw.status = InProgress /\ UNCHANGED <<sess, req, tx, streak, quiet>>
    BY <1>3, <1>10, <2>1 DEF RecycleFails
  <2>3. QED
    BY <1>4, <1>7, <2>2
<1>11. CASE RefreshDone(m)
  <2>1. PICK new : new = [status |-> "available", user |-> NoUser]
    OBVIOUS
  <2>2. WriteDesk(m, new) /\ new.status = "available" /\ MonNext(m)
        /\ mon[m].saw.status = InProgress /\ UNCHANGED <<sess, req, tx, streak, quiet>>
    BY <1>3, <1>11, <2>1 DEF RefreshDone
  <2>3. QED
    BY <1>4, <1>7, <2>2
<1>12. CASE DeleteRow(m)
  BY <1>5, <1>12 DEF DeleteRow
<1>13. CASE DeleteCommit(m)
  <2>1. /\ desk' = [desk EXCEPT ![d] = NoRow]
        /\ sess' = [s \in SessionIds |->
                      IF sess[s].desk = d THEN [sess[s] EXCEPT !.desk = NoDesk]
                                          ELSE sess[s]]
        /\ MonNext(m) /\ UNCHANGED <<req, tx, streak, quiet>>
    BY <1>2, <1>13 DEF DeleteCommit
  <2>2. desk'[d].status = "absent" /\ \A e \in Desktops \ {d} : desk'[e] = desk[e]
    BY <2>1 DEF IInv, RowsOK, RowTypes, NoRow
  <2>3. ASSUME NEW e \in Desktops \ {d}
        PROVE  Live(e)' = Live(e)
    <3>1. ASSUME NEW s \in SessionIds
          PROVE  sess'[s].status = sess[s].status /\ (sess'[s].desk = e <=> sess[s].desk = e)
      <4>1. sess[s] \in SessionRow /\ e # NoDesk
        BY Sorts DEF IInv, RowsOK, RowTypes
      <4>2. CASE sess[s].desk = d
        BY <2>1, <4>1, <4>2 DEF SessionRow
      <4>3. CASE sess[s].desk # d
        BY <2>1, <4>3
      <4>4. QED
        BY <4>2, <4>3
    <3>2. QED
      BY <3>1 DEF Live
  <2>4. QED
    BY <1>1, <1>2, <2>1, <2>2, <2>3, Cycle_Ender
<1>14. ~ \E a \in Actors : DeadlockAborts(a, m)
  BY <1>3 DEF DeadlockAborts, Deadlocked
<1>15. QED
  BY <1>1, <1>6, <1>8, <1>9, <1>10, <1>11, <1>12, <1>13, <1>14 DEF Recycle

LEMMA Environment_Ender ==
    ASSUME SoleEnder, IInv, EnderInv, Environment
    PROVE  /\ EnderInv' /\ UNCHANGED <<desk, sess, req>>
           /\ \A m \in Monitors : Cycling(m)' => Cycling(m)
<1>1. CASE \/ \E d \in Desktops : GuestLogoff(d) \/ VMStops(d) \/ VMGone(d)
           \/ \E d \in Desktops, s \in SessionIds : GuestLogin(d, s)
  <2>1. UNCHANGED <<desk, sess, req, tx, mon, streak, quiet>>
    BY <1>1 DEF GuestLogoff, VMStops, VMGone, GuestLogin
  <2>2. QED
    BY <2>1, Apart_Ender DEF Cycling
<1>2. ASSUME NEW a \in Actors, Crash(a)
      PROVE  /\ EnderInv' /\ UNCHANGED <<desk, sess, req>>
             /\ \A m \in Monitors : Cycling(m)' => Cycling(m)
  <2>1. a \in Monitors /\ \A m \in Monitors : m = a
    BY DEF SoleEnder, Actors
  <2>2. /\ UNCHANGED <<desk, sess, req, quiet>> /\ tx'[a].pc = "idle"
        /\ mon'[a].pc = "idle" /\ mon'[a].todo = {}
        /\ \A d \in Desktops : streak'[a][d] = 0
    BY <1>2, <2>1, Hand DEF Crash, NoTx, IdleTick
  <2>3. CountedNext(a)
    BY <2>1, <2>2, Hand, Sorts DEF CountedNext
  <2>4. QED
    BY <2>1, <2>2, <2>3, Rest_Ender DEF Cycling
<1>3. QED
  BY <1>1, <1>2 DEF Environment

LEMMA Next_Ender_Inv ==
    ASSUME SoleEnder, IInv, EnderInv, [Next]_vars
    PROVE  EnderInv'
<1>1. CASE UNCHANGED vars
  BY <1>1, Apart_Ender DEF vars
<1>2. QED
  BY <1>1, Connect_Ender, Monitor_Ender, Recycle_Ender, Environment_Ender DEF Next, SoleEnder

LEMMA Init_Ender ==
    ASSUME Init
    PROVE  EnderInv /\ UseInv /\ Lease!Init
<1>1. \A d \in Desktops : Live(d) = {}
  BY DEF Init, Live
<1>2. \A m \in Monitors : tx[m].pc = "idle" /\ mon[m].pc = "idle" /\ mon[m].todo = {}
  BY Sorts DEF Init, NoTx, IdleTick
<1>3. EnderInv
  <2>1. Requesters /\ NeverStranded /\ Assigned /\ LogoffDebounced
    BY <1>2 DEF Init, Requesters, NeverStranded, Assigned, LogoffDebounced
  <2>2. ASSUME NEW m \in Monitors
        PROVE  AtHand(m) /\ Counted(m)
    <3>1. AtHand(m)
      BY <1>2 DEF AtHand, Visiting, Cycling
    <3>2. Counted(m)
      BY <1>2, Sorts DEF Init, Counted, Cycling
    <3>3. QED
      BY <3>1, <3>2
  <2>3. QED
    BY <2>1, <2>2 DEF EnderInv
<1>4. UseInv
  BY <1>1, <1>2 DEF Init, UseInv, ExclusiveUse, OnOffer, Cycling
<1>5. Lease!Init
  BY <1>1 DEF Init, Lease!Init
<1>6. QED
  BY <1>3, <1>4, <1>5

LEMMA EnderInvariant ==
    ASSUME SoleEnder
    PROVE  Spec => [](IInv /\ EnderInv)
<1>1. Init => IInv /\ EnderInv
  BY Init_IInv, Init_Ender
<1>2. IInv /\ EnderInv /\ [Next]_vars => (IInv /\ EnderInv)'
  BY Next_IInv, Next_Ender_Inv
<1>3. QED
  BY <1>1, <1>2, PTL DEF Spec

\* The end of a session returns its desktop to the pool: with one monitor as the only one
\* that ends sessions, whatever fails or crashes and whatever the policy, no release in
\* transition_to_ended is made from a copy of the row that says it is nobody's.
THEOREM NoneStranded ==
    ASSUME SoleEnder
    PROVE  Spec => []NeverStranded
<1>1. EnderInv => NeverStranded
  BY DEF EnderInv
<1>2. QED
  BY <1>1, EnderInvariant, PTL

\* The monitor's streak, kept per desktop and across ticks, never counts polls of a
\* session that is over: a logoff is declared after Threshold empty polls of the session.
THEOREM LogoffsDebounced ==
    ASSUME SoleEnder
    PROVE  Spec => []LogoffDebounced
<1>1. EnderInv => LogoffDebounced
  BY DEF EnderInv
<1>2. QED
  BY <1>1, EnderInvariant, PTL

-----------------------------------------------------------------------------
(***************************************************************************)
(* With nothing recycled: a desktop for one session, and the lease.        *)
(***************************************************************************)

\* Nothing is granted or returned.
LEMMA Still_Use ==
    ASSUME UseInv, UNCHANGED <<desk, sess>>,
           \A s \in SessionIds : sess[s].status = "active" => req'[s].user = req[s].user,
           \A m \in Monitors : Cycling(m)' => Cycling(m)
    PROVE  UseInv' /\ UNCHANGED Lease!vars
<1>1. \A d : Live(d)' = Live(d)
  BY Still_Live
<1>2. OnOffer' /\ ExclusiveUse'
  BY <1>1 DEF UseInv, OnOffer, ExclusiveUse
<1>3. UNCHANGED Lease!vars
  BY <1>1 DEF Lease!vars
<1>4. QED
  BY <1>2, <1>3 DEF UseInv

\* An active session's desktop is its own after a step too.
LEMMA Exclusive_Next ==
    ASSUME \A t \in SessionIds : sess'[t].status = "active" =>
             /\ sess'[t].desk \in Desktops
             /\ desk'[sess'[t].desk] = [status |-> "connected", user |-> req'[t].user]
             /\ \A x \in SessionIds :
                  sess'[x].status = "active" /\ sess'[x].desk = sess'[t].desk => x = t
    PROVE  ExclusiveUse'
<1>1. ASSUME NEW t \in SessionIds, sess'[t].status = "active"
      PROVE  {x \in SessionIds : sess'[x].status = "active" /\ sess'[x].desk = sess'[t].desk}
               = {t}
  BY <1>1
<1>2. QED
  BY <1>1 DEF ExclusiveUse, Live

LEMMA ConnectCommit_Use ==
    ASSUME IInv, EnderInv, UseInv, NEW s \in SessionIds, ConnectCommit(s)
    PROVE  UseInv' /\ Lease!Next
<1>0. PICK d \in Desktops, u \in Users : d = req[s].desk /\ u = req[s].user
  <2>1. InTransaction(s) /\ req[s].pc # "unused"
    BY DEF ConnectCommit, InTransaction
  <2>2. QED
    BY <2>1 DEF IInv, RowsOK, RequestInv, EnderInv, Requesters
<1>1. /\ InTransaction(s) /\ sess[s].status = "none"
      /\ desk[d].status = "available" /\ Live(d) = {}
      /\ UNCHANGED <<tx, mon, streak, vm, quiet>>
  <2>1. InTransaction(s) /\ req[s].pc # "done"
    BY DEF ConnectCommit, InTransaction
  <2>2. QED
    BY <1>0, <2>1 DEF ConnectCommit, IInv, RowsOK, RequestInv, ClaimHolds, UseInv, OnOffer
<1>2. /\ desk'[d] = [status |-> "connected", user |-> u]
      /\ \A e \in Desktops \ {d} : desk'[e] = desk[e]
  BY <1>0 DEF ConnectCommit, IInv, RowsOK, RowTypes
<1>3. /\ sess'[s] = [status |-> "active", desk |-> d, ticket |-> TRUE]
      /\ \A t \in SessionIds \ {s} : sess'[t] = sess[t]
  BY <1>0 DEF ConnectCommit, IInv, RowsOK, RowTypes
<1>4. /\ req'[s].user = u
      /\ \A t \in SessionIds \ {s} : req'[t] = req[t]
  BY <1>0 DEF ConnectCommit, IInv, RowsOK, RowTypes, Connection
<1>5. /\ Live(d)' = {s}
      /\ \A e \in Desktops \ {d} : Live(e)' = Live(e)
  BY <1>1, <1>3 DEF Live
<1>6. OnOffer'
  BY <1>2, <1>5 DEF UseInv, OnOffer
<1>7. ExclusiveUse'
  <2>1. ASSUME NEW t \in SessionIds, sess'[t].status = "active"
        PROVE  /\ sess'[t].desk \in Desktops
               /\ desk'[sess'[t].desk] = [status |-> "connected", user |-> req'[t].user]
               /\ \A x \in SessionIds :
                    sess'[x].status = "active" /\ sess'[x].desk = sess'[t].desk => x = t
    <3>1. \A x \in SessionIds : sess'[x].status = "active" /\ sess'[x].desk = d => x = s
      BY <1>5 DEF Live
    <3>2. CASE t = s
      BY <1>2, <1>3, <1>4, <3>1, <3>2
    <3>3. CASE t # s
      <4>1. sess'[t] = sess[t] /\ req'[t] = req[t]
        BY <1>3, <1>4, <3>3
      <4>2. /\ sess[t].desk \in Desktops
            /\ desk[sess[t].desk] = [status |-> "connected", user |-> req[t].user]
            /\ Live(sess[t].desk) = {t}
        BY <2>1, <4>1 DEF UseInv, ExclusiveUse
      <4>3. sess[t].desk # d
        BY <1>1, <4>2
      <4>4. \A x \in SessionIds :
               sess[x].status = "active" /\ sess[x].desk = sess[t].desk => x = t
        BY <4>2 DEF Live
      <4>5. QED
        BY <1>2, <1>3, <4>1, <4>2, <4>3, <4>4
    <3>4. QED
      BY <3>2, <3>3
  <2>2. QED
    BY <2>1, Exclusive_Next
<1>8. \A m \in Monitors : ~ Cycling(m)'
  BY <1>1 DEF UseInv, Cycling
<1>9. Lease!Grant(d, s)
  <2>1. [e \in Desktops |-> Live(e)]' = [[e \in Desktops |-> Live(e)] EXCEPT ![d] = {s}]
    BY <1>5
  <2>2. {e \in Desktops : desk[e].status = "available"}' =
          {e \in Desktops : desk[e].status = "available"} \ {d}
    BY <1>2
  <2>3. {t \in SessionIds : sess[t].status # "none"}' =
          {t \in SessionIds : sess[t].status # "none"} \cup {s}
    BY <1>3
  <2>4. QED
    BY <1>1, <2>1, <2>2, <2>3 DEF Lease!Grant
<1>10. QED
  BY <1>6, <1>7, <1>8, <1>9 DEF UseInv, Lease!Next

\* The commit of an end returns the desktop to the pool, as the lease has it.
LEMMA EndCommit_Use ==
    ASSUME SoleWriter, IInv, EnderInv, UseInv, NEW m \in Monitors, MonitorEnds(m), EndCommit(m)
    PROVE  UseInv' /\ Lease!Next
<1>0. PICK d \in Desktops, s \in SessionIds : EndsAtHand(m, d, s)
  BY Released_Ender
<1>1. /\ s \in Live(d) /\ UNCHANGED req
      /\ desk' = [desk EXCEPT ![d] = [status |-> "available", user |-> NoUser]]
      /\ sess' = [sess EXCEPT ![s].status = "ended", ![s].ticket = FALSE]
  BY <1>0 DEF EndsAtHand
<1>2. Live(d) = {s} /\ sess[s].status = "active" /\ sess[s].desk = d
  <2>1. sess[s].status = "active" /\ sess[s].desk = d
    BY <1>1 DEF Live
  <2>2. QED
    BY <2>1 DEF UseInv, ExclusiveUse
<1>3. /\ desk'[d] = [status |-> "available", user |-> NoUser]
      /\ \A e \in Desktops \ {d} : desk'[e] = desk[e]
  BY <1>1 DEF IInv, RowsOK, RowTypes
<1>4. /\ sess'[s].status = "ended" /\ sess'[s].desk = sess[s].desk
      /\ \A t \in SessionIds \ {s} : sess'[t] = sess[t]
  BY <1>1 DEF IInv, RowsOK, RowTypes, SessionRow
<1>5. /\ Live(d)' = {}
      /\ \A e \in Desktops \ {d} : Live(e)' = Live(e)
  <2>1. \A t \in SessionIds : sess'[t].status = "active" => t # s /\ sess'[t] = sess[t]
    BY <1>4
  <2>2. \A t \in SessionIds : sess[t].status = "active" /\ sess[t].desk = d => t = s
    BY <1>2 DEF Live
  <2>3. Live(d)' = {}
    BY <2>1, <2>2 DEF Live
  <2>4. ASSUME NEW e \in Desktops, e # d
        PROVE  Live(e)' = Live(e)
    <3>1. \A t \in SessionIds : sess'[t].status = "active" /\ sess'[t].desk = e
                                 <=> sess[t].status = "active" /\ sess[t].desk = e
      BY <1>2, <1>4, <2>4
    <3>2. QED
      BY <3>1 DEF Live
  <2>5. QED
    BY <2>3, <2>4
<1>6. OnOffer'
  BY <1>3, <1>5 DEF UseInv, OnOffer
<1>7. ExclusiveUse'
  <2>1. ASSUME NEW t \in SessionIds, sess'[t].status = "active"
        PROVE  /\ sess'[t].desk \in Desktops
               /\ desk'[sess'[t].desk] = [status |-> "connected", user |-> req'[t].user]
               /\ \A x \in SessionIds :
                    sess'[x].status = "active" /\ sess'[x].desk = sess'[t].desk => x = t
    <3>1. t # s /\ sess'[t] = sess[t]
      BY <1>4, <2>1
    <3>2. /\ sess[t].desk \in Desktops
          /\ desk[sess[t].desk] = [status |-> "connected", user |-> req[t].user]
          /\ Live(sess[t].desk) = {t}
      BY <2>1, <3>1 DEF UseInv, ExclusiveUse
    <3>3. sess[t].desk # d
      BY <1>2, <3>1, <3>2
    <3>4. \A x \in SessionIds :
             sess[x].status = "active" /\ sess[x].desk = sess[t].desk => x = t
      BY <3>2 DEF Live
    <3>5. \A x \in SessionIds :
             sess'[x].status = "active" /\ sess'[x].desk = sess[t].desk => x = t
      BY <1>4, <3>4
    <3>6. desk'[sess[t].desk] = desk[sess[t].desk] /\ req' = req
      BY <1>1, <1>3, <3>2, <3>3
    <3>7. QED
      BY <3>1, <3>2, <3>5, <3>6
  <2>2. QED
    BY <2>1, Exclusive_Next
<1>8. \A n \in Monitors : ~ Cycling(n)'
  BY EndCommit_Ender DEF SoleWriter, SoleEnder, UseInv
<1>9. Lease!End(d, s)
  <2>1. [e \in Desktops |-> Live(e)]' = [[e \in Desktops |-> Live(e)] EXCEPT ![d] = {}]
    BY <1>5
  <2>2. {e \in Desktops : desk[e].status = "available"}' =
          {e \in Desktops : desk[e].status = "available"} \cup {d}
    BY <1>3
  <2>3. {t \in SessionIds : sess[t].status # "none"}' =
          {t \in SessionIds : sess[t].status # "none"}
    BY <1>2, <1>4
  <2>4. QED
    BY <1>2, <2>1, <2>2, <2>3 DEF Lease!End
<1>10. QED
  BY <1>6, <1>7, <1>8, <1>9 DEF UseInv, Lease!Next

LEMMA Next_Use ==
    ASSUME SoleWriter, IInv, EnderInv, UseInv, [Next]_vars
    PROVE  UseInv' /\ [Lease!Next]_Lease!vars
<1>1. SoleEnder /\ Policy = "none" /\ \A m, n \in Monitors : m = n
  BY DEF SoleWriter, SoleEnder
<1>2. CASE UNCHANGED vars
  BY <1>2, Still_Use DEF vars, Cycling
<1>3. ASSUME NEW s \in SessionIds, Connect(s)
      PROVE  UseInv' /\ [Lease!Next]_Lease!vars
  <2>1. CASE ConnectCommit(s)
    BY <2>1, ConnectCommit_Use
  <2>2. CASE ~ ConnectCommit(s)
    <3>1. /\ UNCHANGED <<desk, sess, mon>>
          /\ \A t \in SessionIds : sess[t].status = "active" => req'[t].user = req[t].user
      BY <1>3, <2>2, Connect_Ender
    <3>2. QED
      BY <3>1, Still_Use DEF Cycling
  <2>3. QED
    BY <2>1, <2>2
<1>4. ASSUME NEW m \in Monitors, Monitor(m)
      PROVE  UseInv' /\ [Lease!Next]_Lease!vars
  <2>1. CASE MonitorEnds(m) /\ EndCommit(m)
    BY <2>1, EndCommit_Use
  <2>2. CASE ~(MonitorEnds(m) /\ EndCommit(m))
    <3>1. /\ UNCHANGED <<desk, sess, req>> /\ (Cycling(m)' => Cycling(m))
      BY <1>1, <1>4, <2>2, Monitor_Ender
    <3>2. \A n \in Monitors : Cycling(n)' => Cycling(n)
      BY <1>1, <3>1
    <3>3. QED
      BY <3>1, <3>2, Still_Use
  <2>3. QED
    BY <2>1, <2>2
<1>5. ASSUME NEW m \in Monitors
      PROVE  ~ Recycle(m)
  BY <1>1, Recycle_Ender DEF UseInv
<1>6. CASE Environment
  BY <1>1, <1>6, Environment_Ender, Still_Use
<1>7. QED
  BY <1>1, <1>2, <1>3, <1>4, <1>5, <1>6 DEF Next, SoleEnder

LEMMA UseInvariant ==
    ASSUME SoleWriter
    PROVE  Spec => [](IInv /\ EnderInv /\ UseInv)
<1>1. SoleEnder
  BY DEF SoleWriter
<1>2. Init => IInv /\ EnderInv /\ UseInv
  BY Init_IInv, Init_Ender
<1>3. IInv /\ EnderInv /\ UseInv /\ [Next]_vars => (IInv /\ EnderInv /\ UseInv)'
  BY <1>1, Next_IInv, Next_Ender_Inv, Next_Use
<1>4. QED
  BY <1>2, <1>3, PTL DEF Spec

\* One desktop, one user: with one monitor as the only one that ends sessions and nothing
\* recycled, whatever fails or crashes, an active session has its connected desktop to
\* itself.
THEOREM UseExclusive ==
    ASSUME SoleWriter
    PROVE  Spec => []ExclusiveUse
<1>1. UseInv => ExclusiveUse
  BY DEF UseInv
<1>2. QED
  BY <1>1, UseInvariant, PTL

\* The pool implements the lease: a commit of a connect grants, a commit of an end
\* returns, and nothing else touches who holds what.
THEOREM LeaseImplemented ==
    ASSUME SoleWriter
    PROVE  Spec => LeaseSpec
<1>1. Init => Lease!Init
  BY Init_Ender
<1>2. IInv /\ EnderInv /\ UseInv /\ [Next]_vars => [Lease!Next]_Lease!vars
  BY Next_Use
<1>3. QED
  BY <1>1, <1>2, UseInvariant, PTL DEF Spec, LeaseSpec, Lease!Spec

=============================================================================
