---------------------------- MODULE PoolCapacity ----------------------------
(***************************************************************************)
(* The pools of a broker: their creation over a range of VMIDs, update,    *)
(* drain and deletion, the provisioning an administrator asks for, and the *)
(* worker that keeps spare desktops.  All of them read the pool and its    *)
(* desktops in one transaction and act in another.                         *)
(*                                                                         *)
(* A desktop is one call of provision_desktop and the row that it leaves;  *)
(* a row not committed yet is seen by the database's constraints only.     *)
(***************************************************************************)
EXTENDS Integers, FiniteSets, FiniteSetsExt

CONSTANTS
    Pools,       \* numbers, in the order of the pools' names
    VMIDs,
    Ranges,      \* the ranges of VMIDs pools are created with
    Desktops,    \* calls of provision_desktop; one whose row is gone is used again
    Sizes,       \* values of max_size
    MinSpare,
    Requests,    \* updates and drains in progress
    Cascades,    \* deletions in progress
    MaxCount,    \* bound: desktops of one manual request
    Faults       \* "clone", "provider", "foreign", "node", "crash"

ASSUME PoolsAssumption  == Pools \subseteq Nat /\ VMIDs \subseteq Nat \ {0}
ASSUME RangesAssumption == Ranges \subseteq SUBSET VMIDs
ASSUME DesktopsAssumption == IsFiniteSet(Desktops)
ASSUME SizesAssumption  == Sizes \subseteq Nat /\ MinSpare \in Nat /\ MaxCount \in Nat

VARIABLES
    pool,   \* rows of pools, and of a creation what it holds so far
    desk,   \* calls of provision_desktop and rows of desktops
    vm,     \* machines on the hypervisor, by VMID
    cas,    \* delete_pool and its background cascade
    req     \* update_pool and drain_pool

vars == <<pool, desk, vm, cas, req>>

\* "checked": a creation that has read the ranges of the other pools.
PoolStatus  == {"none", "checked", "active", "draining", "deleting"}
PoolRow     == [status : PoolStatus, range : Ranges \cup {{}}, max : Nat]
Stored(p)   == pool[p].status \in {"active", "draining", "deleting"}
NoPool      == [status |-> "none", range |-> {}, max |-> 0]

\* "asked": to begin; "begun": the pool read as active; "chosen", "reserved",
\* "dispatched": the transaction that holds the pool's lock; then committed.
CallState   == {"over", "asked", "begun", "chosen", "reserved", "dispatched", "cloning", "booting"}
RowStatus   == {"none", "provisioning", "available", "assigned", "error"}
Desktop     == [at : CallState, by : {"none", "worker", "request"}, pool : Nat,
                vmid : VMIDs \cup {0}, row : RowStatus]
NoDesktop   == [at |-> "over", by |-> "none", pool |-> 0, vmid |-> 0, row |-> "none"]

Machine     == {"none", "cloning", "ready", "foreign"}

CasState    == {"idle", "read", "asked", "running"}
Deletion    == [at : CasState, pool : Nat, failed : BOOLEAN,
                step : [Desktops -> {"none", "todo", "read", "gone"}]]
NoCascade   == [at |-> "idle", pool |-> 0, failed |-> FALSE, step |-> [d \in Desktops |-> "none"]]

Request     == [op : {"none", "update", "drain"}, pool : Nat, max : Nat]
NoRequest   == [op |-> "none", pool |-> 0, max |-> 0]

TypeOK ==
    /\ pool \in [Pools -> PoolRow]
    /\ desk \in [Desktops -> Desktop]
    /\ vm \in [VMIDs -> Machine]
    /\ cas \in [Cascades -> Deletion]
    /\ req \in [Requests -> Request]

Init ==
    /\ pool = [p \in Pools |-> NoPool]
    /\ desk = [d \in Desktops |-> NoDesktop]
    /\ vm = [v \in VMIDs |-> "none"]
    /\ cas = [c \in Cascades |-> NoCascade]
    /\ req = [r \in Requests |-> NoRequest]

Rows(p)     == {d \in Desktops : desk[d].row # "none" /\ desk[d].pool = p}
RowsIn(p, S) == {d \in Rows(p) : desk[d].row \in S}
Locking(p)  == {d \in Desktops : desk[d].pool = p /\ desk[d].at \in {"chosen", "reserved", "dispatched"}}
Inserted(d) == desk[d].at \in {"reserved", "dispatched"} \/ desk[d].row # "none"
Fresh       == {d \in Desktops : /\ desk[d].at = "over" /\ desk[d].row = "none"
                                 /\ \A c \in Cascades : cas[c].step[d] = "none"}

SetStatus(p, status) == pool' = [pool EXCEPT ![p].status = status]
Call(d, at)          == desk' = [desk EXCEPT ![d].at = at]
CallOver(d, row)     == desk' = [desk EXCEPT ![d].at = "over", ![d].by = "none", ![d].row = row]
CallFails(d)         == desk' = [desk EXCEPT ![d] = NoDesktop]      \* nothing was committed

----------------------------------------------------------------------------
(***************************************************************************)
(* create_pool                                                             *)
(***************************************************************************)
\* validate_pool_range: the ranges committed by now, then the machines in the range.
Overlaps(range) == \E q \in Pools : Stored(q) /\ pool[q].range \cap range # {}
Found(p)        == {v \in pool[p].range : vm[v] # "none"}

CreateChecks(p, range, max) ==
    /\ pool[p].status = "none" /\ max <= Cardinality(range)
    /\ ~ Overlaps(range)
    /\ pool' = [pool EXCEPT ![p] = [status |-> "checked", range |-> range, max |-> max]]
    /\ UNCHANGED <<desk, vm, cas, req>>

CreateCommits(p) ==     \* after list_vms, which skips a node that does not answer
    /\ pool[p].status = "checked"
    /\ \E seen \in SUBSET Found(p) :
        /\ seen = Found(p) \/ "node" \in Faults
        /\ IF seen = {} THEN SetStatus(p, "active") ELSE pool' = [pool EXCEPT ![p] = NoPool]
    /\ UNCHANGED <<desk, vm, cas, req>>

(***************************************************************************)
(* update_pool and drain_pool: read, check, commit                         *)
(***************************************************************************)
UpdateReads(r, p, max) ==
    /\ req[r].op = "none" /\ Stored(p)
    /\ Cardinality(Rows(p)) <= max /\ max <= Cardinality(pool[p].range)
    /\ req' = [req EXCEPT ![r] = [op |-> "update", pool |-> p, max |-> max]]
    /\ UNCHANGED <<pool, desk, vm, cas>>

DrainReads(r, p) ==
    /\ req[r].op = "none" /\ pool[p].status = "active"
    /\ req' = [req EXCEPT ![r] = [op |-> "drain", pool |-> p, max |-> 0]]
    /\ UNCHANGED <<pool, desk, vm, cas>>

RequestCommits(r) ==    \* the columns it changed, over what the row says by now
    /\ req[r].op # "none"
    /\ LET p == req[r].pool IN
        IF ~ Stored(p) THEN UNCHANGED pool
        ELSE IF req[r].op = "drain" THEN SetStatus(p, "draining")
        ELSE pool' = [pool EXCEPT ![p].max = req[r].max]
    /\ req' = [req EXCEPT ![r] = NoRequest]
    /\ UNCHANGED <<desk, vm, cas>>

(***************************************************************************)
(* Who asks for desktops                                                   *)
(***************************************************************************)
Ask(D, p, by) == desk' = [d \in Desktops |->
    IF d \in D THEN [NoDesktop EXCEPT !.at = "asked", !.by = by, !.pool = p] ELSE desk[d]]

\* provision_pool: the rows that its background task will add are not there yet.
ProvisionAccepted(p, count) ==
    /\ pool[p].status = "active"
    /\ count <= pool[p].max - Cardinality(Rows(p))
    /\ count < Cardinality(Fresh)       \* bound: the worker keeps a call
    /\ Ask(CHOOSE D \in SUBSET Fresh : Cardinality(D) = count, p, "request")
    /\ UNCHANGED <<pool, vm, cas, req>>

Gap(p)  == MinSpare - Cardinality(RowsIn(p, {"available"}))
Room(p) == pool[p].max - Cardinality(RowsIn(p, {"provisioning", "available", "assigned"}))
Actionable(p) == IF Gap(p) < Room(p) THEN Gap(p) ELSE Room(p)
Candidate(p)  == pool[p].status = "active" /\ Actionable(p) > 0

\* Mutant of Neediest: the first active pool, whether it lacks spares or not.
FirstByName(p) ==
    /\ pool[p].status = "active"
    /\ \A q \in Pools : pool[q].status = "active" => p <= q

\* _pick_neediest_pool: the largest gap that can be filled, ties by name.
Neediest(p) ==
    /\ Candidate(p)
    /\ \A q \in Pools : Candidate(q) =>
        Actionable(q) < Actionable(p) \/ (Actionable(q) = Actionable(p) /\ p <= q)

WorkerPicks(p) ==       \* a tick: one desktop, and the next one when its call is over
    /\ \A d \in Desktops : desk[d].by # "worker"
    /\ Neediest(p) /\ Fresh # {}
    /\ Ask({CHOOSE d \in Fresh : TRUE}, p, "worker")
    /\ UNCHANGED <<pool, vm, cas, req>>

(***************************************************************************)
(* provision_desktop and allocate_vmid                                     *)
(***************************************************************************)
ProvisionBegins(d) ==   \* the pool is read again; PoolInactive unless it is active
    /\ desk[d].at = "asked"
    /\ IF pool[desk[d].pool].status = "active" THEN Call(d, "begun") ELSE CallFails(d)
    /\ UNCHANGED <<pool, vm, cas, req>>

Used(p) == {desk[d].vmid : d \in Rows(p)}
Unused(p) == pool[p].range \ Used(p)

\* Mutant of AllocateVmid: no lock between the choice and the commit of the row.
AllocateUnlocked(d) ==
    LET p == desk[d].pool IN
    /\ desk[d].at = "begun"
    /\ IF Unused(p) = {} THEN CallFails(d)
       ELSE desk' = [desk EXCEPT ![d].at = "chosen", ![d].vmid = Min(Unused(p))]
    /\ UNCHANGED <<pool, vm, cas, req>>

AllocateVmid(d) ==      \* the lowest free number of the range, under the pool's lock
    LET p == desk[d].pool IN
    /\ desk[d].at = "begun" /\ Locking(p) = {}
    /\ IF Unused(p) = {} THEN CallFails(d)
       ELSE desk' = [desk EXCEPT ![d].at = "chosen", ![d].vmid = Min(Unused(p))]
    /\ UNCHANGED <<pool, vm, cas, req>>

\* The two constraints an insert may hit: the pool's row is gone, or another row
\* has the number.  On one that is not committed the insert waits.
Violates(d) == \/ ~ Stored(desk[d].pool)
               \/ \E e \in Desktops : desk[e].row # "none" /\ desk[e].vmid = desk[d].vmid
Waits(d)    == \E e \in Desktops : /\ desk[e].at \in {"reserved", "dispatched"}
                                   /\ desk[e].vmid = desk[d].vmid

\* Mutant of Reserve: the table has no unique constraint on pve_vmid.
ReserveUnconstrained(d) ==
    /\ desk[d].at = "chosen"
    /\ IF ~ Stored(desk[d].pool) THEN CallFails(d) ELSE Call(d, "reserved")
    /\ UNCHANGED <<pool, vm, cas, req>>

Reserve(d) ==
    /\ desk[d].at = "chosen" /\ ~ Waits(d)
    /\ IF Violates(d) THEN CallFails(d) ELSE Call(d, "reserved")
    /\ UNCHANGED <<pool, vm, cas, req>>

CloneDispatched(d) ==
    /\ desk[d].at = "reserved" /\ vm[desk[d].vmid] = "none"
    /\ Call(d, "dispatched")
    /\ vm' = [vm EXCEPT ![desk[d].vmid] = "cloning"]
    /\ UNCHANGED <<pool, cas, req>>

CloneRefused(d) ==      \* the row is kept, in error
    /\ desk[d].at = "reserved" /\ ("clone" \in Faults \/ vm[desk[d].vmid] # "none")
    /\ CallOver(d, "error")
    /\ UNCHANGED <<pool, vm, cas, req>>

CloneRecorded(d) ==     \* the commit: the row is there for all, and the lock is free
    /\ desk[d].at = "dispatched"
    /\ desk' = [desk EXCEPT ![d].at = "cloning", ![d].row = "provisioning"]
    /\ UNCHANGED <<pool, vm, cas, req>>

CloneEnds(d) ==
    /\ desk[d].at = "cloning"
    /\ \/ Call(d, "booting") /\ vm' = [vm EXCEPT ![desk[d].vmid] = "ready"]
       \/ /\ "clone" \in Faults
          /\ CallOver(d, IF desk[d].row = "none" THEN "none" ELSE "error")
          /\ vm' = [vm EXCEPT ![desk[d].vmid] = "none"]
    /\ UNCHANGED <<pool, cas, req>>

ProvisionEnds(d) ==     \* a row that is gone stays gone: the commit raises
    /\ desk[d].at = "booting"
    /\ \E row \in {"available", "error"} :
        /\ row = "available" => vm[desk[d].vmid] = "ready"
        /\ row = "error" => "provider" \in Faults \/ vm[desk[d].vmid] # "ready"
        /\ CallOver(d, IF desk[d].row = "none" THEN "none" ELSE row)
    /\ UNCHANGED <<pool, vm, cas, req>>

CallDies(d) ==          \* with its broker; with a clone under way it is DesktopTasks' matter
    /\ "crash" \in Faults
    /\ desk[d].at \notin {"over", "dispatched", "cloning"}
    /\ IF desk[d].at = "booting" THEN CallOver(d, desk[d].row) ELSE CallFails(d)
    /\ UNCHANGED <<pool, vm, cas, req>>

(***************************************************************************)
(* delete_pool and its cascade                                             *)
(***************************************************************************)
Deletable(p) == pool[p].status \in {"active", "draining"} /\ RowsIn(p, {"assigned"}) = {}

DeleteReads(c, p) ==    \* a pool with sessions is refused, one being deleted is not
    /\ cas[c].at = "idle"
    /\ Deletable(p) \/ pool[p].status = "deleting"
    /\ cas' = [cas EXCEPT ![c] = [NoCascade EXCEPT !.pool = p,
            !.at = IF pool[p].status = "deleting" THEN "asked" ELSE "read"]]
    /\ UNCHANGED <<pool, desk, vm, req>>

DeleteCommits(c) ==
    /\ cas[c].at = "read"
    /\ IF Stored(cas[c].pool)
       THEN /\ SetStatus(cas[c].pool, "deleting")
            /\ cas' = [cas EXCEPT ![c].at = "asked"]
       ELSE UNCHANGED pool /\ cas' = [cas EXCEPT ![c] = NoCascade]
    /\ UNCHANGED <<desk, vm, req>>

Step(c, d, step) == cas' = [cas EXCEPT ![c].step[d] = step]

CascadeLists(c) ==      \* once; what is inserted later is not seen
    /\ cas[c].at = "asked"
    /\ cas' = [cas EXCEPT ![c] =
        IF ~ Stored(cas[c].pool) THEN NoCascade
        ELSE [@ EXCEPT !.at = "running", !.step =
                [d \in Desktops |-> IF d \in Rows(cas[c].pool) THEN "todo" ELSE "none"]]]
    /\ UNCHANGED <<pool, desk, vm, req>>

DestroyReads(c, d) ==   \* a row that is gone counts as destroyed
    /\ cas[c].step[d] = "todo"
    /\ Step(c, d, IF desk[d].row = "none" THEN "none" ELSE "read")
    /\ UNCHANGED <<pool, desk, vm, req>>

DestroyMachine(c, d) == \* whichever machine has the number; none is as good
    /\ cas[c].step[d] = "read" /\ vm[desk[d].vmid] # "cloning"
    /\ Step(c, d, "gone")
    /\ vm' = [vm EXCEPT ![desk[d].vmid] = "none"]
    /\ UNCHANGED <<pool, desk, req>>

\* Mutant of DestroyFails: the row is deleted although the machine is there.
DestroyFailureIgnored(c, d) ==
    /\ cas[c].step[d] = "read"
    /\ "provider" \in Faults \/ vm[desk[d].vmid] = "cloning"
    /\ Step(c, d, "gone")
    /\ UNCHANGED <<pool, desk, vm, req>>

DestroyFails(c, d) ==   \* a machine being cloned is locked
    /\ cas[c].step[d] = "read"
    /\ "provider" \in Faults \/ vm[desk[d].vmid] = "cloning"
    /\ cas' = [cas EXCEPT ![c].step[d] = "none", ![c].failed = TRUE]
    /\ desk' = [desk EXCEPT ![d].row = IF @ = "none" THEN @ ELSE "error"]
    /\ UNCHANGED <<pool, vm, req>>

DeleteRow(c, d) ==
    /\ cas[c].step[d] = "gone"
    /\ Step(c, d, "none")
    /\ desk' = [desk EXCEPT ![d].row = "none"]
    /\ UNCHANGED <<pool, vm, req>>

\* Mutant of CascadeEnds: the row is kept and marked.
CascadeEndsMarks(c) ==
    LET p == cas[c].pool IN
    /\ cas[c].at = "running" /\ \A d \in Desktops : cas[c].step[d] = "none"
    /\ IF cas[c].failed \/ Rows(p) # {} THEN UNCHANGED pool ELSE SetStatus(p, "deleted")
    /\ cas' = [cas EXCEPT ![c] = NoCascade]
    /\ UNCHANGED <<desk, vm, req>>

\* The pool's row goes if every desktop went and no row refers to it; on an insert
\* that is not committed the foreign key waits.
CascadeEnds(c) ==
    LET p == cas[c].pool IN
    /\ cas[c].at = "running" /\ \A d \in Desktops : cas[c].step[d] = "none"
    /\ IF cas[c].failed \/ Rows(p) # {} THEN UNCHANGED pool
       ELSE /\ \A d \in Locking(p) : desk[d].at = "chosen"
            /\ pool' = [pool EXCEPT ![p] = NoPool]
    /\ cas' = [cas EXCEPT ![c] = NoCascade]
    /\ UNCHANGED <<desk, vm, req>>

CascadeDies(c) ==       \* with its broker
    /\ "crash" \in Faults /\ cas[c].at # "idle"
    /\ cas' = [cas EXCEPT ![c] = NoCascade]
    /\ UNCHANGED <<pool, desk, vm, req>>

(***************************************************************************)
(* The surroundings: users, and machines that are none of the broker's     *)
(***************************************************************************)
DesktopTaken(d) ==
    /\ desk[d].at = "over" /\ desk[d].row = "available" /\ pool[desk[d].pool].status = "active"
    /\ desk' = [desk EXCEPT ![d].row = "assigned"]
    /\ UNCHANGED <<pool, vm, cas, req>>

DesktopReturned(d) ==
    /\ desk[d].row = "assigned"
    /\ desk' = [desk EXCEPT ![d].row = "available"]
    /\ UNCHANGED <<pool, vm, cas, req>>

ForeignMachine(v) ==
    /\ "foreign" \in Faults /\ vm[v] = "none"
    /\ vm' = [vm EXCEPT ![v] = "foreign"]
    /\ UNCHANGED <<pool, desk, cas, req>>

----------------------------------------------------------------------------
Provision(d) ==
    \/ ProvisionBegins(d) \/ AllocateVmid(d) \/ Reserve(d) \/ CloneDispatched(d)
    \/ CloneRefused(d) \/ CloneRecorded(d) \/ CloneEnds(d) \/ ProvisionEnds(d)

Cascade(c) ==
    \/ CascadeLists(c) \/ CascadeEnds(c)
    \/ \E d \in Desktops : \/ DestroyReads(c, d) \/ DestroyMachine(c, d)
                            \/ DestroyFails(c, d) \/ DeleteRow(c, d)

Next ==
    \/ \E p \in Pools :
        \/ \E range \in Ranges, max \in Sizes : CreateChecks(p, range, max)
        \/ CreateCommits(p)
        \/ \E r \in Requests : DrainReads(r, p) \/ \E max \in Sizes : UpdateReads(r, p, max)
        \/ \E count \in 1 .. MaxCount : ProvisionAccepted(p, count)
        \/ WorkerPicks(p)
        \/ \E c \in Cascades : DeleteReads(c, p)
    \/ \E r \in Requests : RequestCommits(r)
    \/ \E d \in Desktops : Provision(d) \/ CallDies(d) \/ DesktopTaken(d) \/ DesktopReturned(d)
    \/ \E c \in Cascades : DeleteCommits(c) \/ Cascade(c) \/ CascadeDies(c)
    \/ \E v \in VMIDs : ForeignMachine(v)

Spec == Init /\ [][Next]_vars

\* The worker ticks, and calls and background tasks that began go on.
Fairness ==
    /\ WF_vars(\E p \in Pools : WorkerPicks(p))
    /\ \A d \in Desktops : WF_vars(Provision(d))
    /\ \A c \in Cascades : WF_vars(Cascade(c))

FairSpec == Spec /\ Fairness

----------------------------------------------------------------------------
\* Every machine of the broker has a desktop's row, or the call that will commit it,
\* in a pool that exists.
MachinesOwned ==
    \A v \in VMIDs : vm[v] \in {"cloning", "ready"} =>
        \E d \in Desktops : Inserted(d) /\ desk[d].vmid = v /\ Stored(desk[d].pool)

\* While a pool is active, its desktops on offer or in use have machines, whatever
\* its deletions and provisionings left behind.
OffersBacked ==
    \A d \in Desktops :
        desk[d].row \in {"available", "assigned"} /\ pool[desk[d].pool].status = "active" =>
            vm[desk[d].vmid] = "ready"

\* Machines and rows agree both ways (pools.py's cascade, the provisioner).
MachinesAccounted == MachinesOwned /\ OffersBacked

\* A number chosen under the pool's lock is still free in that pool when the row is
\* inserted: only a pool with an overlapping range can take it.
ChoiceHolds ==
    \A d, e \in Desktops : desk[d].at = "chosen" /\ e # d /\ desk[e].vmid = desk[d].vmid =>
        ~ Inserted(e) \/ desk[e].pool # desk[d].pool

\* The VMIDs are given out and given back as VmidSpace has it.
Held  == [d \in Desktops |-> IF Inserted(d) THEN desk[d].vmid ELSE 0]
Space == INSTANCE VmidSpace WITH NoVMID <- 0, holds <- Held
SpaceSpec == Space!Spec

\* The allocator's choice in p leads nowhere: the range is used up, or the lowest
\* free number is taken by another pool's row.
Blocked(p) == \/ Unused(p) = {}
              \/ \E d \in Desktops : desk[d].row # "none" /\ desk[d].vmid = Min(Unused(p))

\* The bound on rows is reached.
AllRows == \A d \in Desktops : desk[d].row # "none"

Filled(p) == pool[p].status # "active" \/ Actionable(p) <= 0

\* The worker gives every active pool its spares, unless one that it prefers is blocked.
SparesFilled == \A p \in Pools :
    pool[p].status = "active" ~> Filled(p) \/ (\E q \in Pools : Candidate(q) /\ Blocked(q)) \/ AllRows

\* The worker gives every active pool that has a number left its spares, whatever the
\* other pools' state.
SparesKept == \A p \in Pools :
    pool[p].status = "active" ~> Filled(p) \/ Blocked(p) \/ AllRows

\* A pool has at most max_size desktops.
WithinMaxSize == \A p \in Pools : Stored(p) => Cardinality(Rows(p)) <= pool[p].max

\* A deletion that is over has left the pool's row only for desktops in error.
DeletingExplained == \A p \in Pools :
    pool[p].status = "deleting" =>
        RowsIn(p, {"error"}) # {} \/ \E c \in Cascades : cas[c].at # "idle" /\ cas[c].pool = p

\* The broker destroys no machine that it has not made.
ForeignSpared == [][\A v \in VMIDs : vm[v] = "foreign" => vm'[v] = "foreign"]_vars

=============================================================================
