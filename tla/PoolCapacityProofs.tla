------------------------- MODULE PoolCapacityProofs -------------------------
(***************************************************************************)
(* The safety of PoolCapacity for every set of pools, ranges, desktops,    *)
(* requests and faults.                                                    *)
(***************************************************************************)
EXTENDS PoolCapacity, FiniteSetTheorems, FunctionTheorems, WellFoundedInduction, TLAPS

(***************************************************************************)
(* The inductive invariant, one named part per reason.                     *)
(***************************************************************************)

\* A call has its pool from the start, its number from the choice, and its row from
\* the commit.
CallInv ==
    \A d \in Desktops :
        /\ desk[d].at # "over" \/ desk[d].row # "none" => desk[d].pool \in Pools
        /\ desk[d].at \in {"chosen", "reserved", "dispatched", "cloning", "booting"}
             \/ desk[d].row # "none" => desk[d].vmid \in VMIDs
        /\ desk[d].at \in {"asked", "begun", "chosen", "reserved", "dispatched"}
             => desk[d].row = "none"
        /\ desk[d].row \in {"available", "assigned"} => desk[d].at = "over"

\* Requests and cascades have a pool; a cascade is at desktops whose call is past
\* its first commit.
AdminInv ==
    /\ \A r \in Requests : req[r].op # "none" => req[r].pool \in Pools
    /\ \A c \in Cascades :
        /\ cas[c].at # "idle" => cas[c].pool \in Pools
        /\ \A d \in Desktops : cas[c].step[d] # "none" =>
             cas[c].at = "running" /\ desk[d].at \in {"over", "cloning", "booting"}

\* One call at a time is between a pool's lock and its commit.
LockInv ==
    \A d, e \in Desktops :
        d # e /\ desk[e].pool = desk[d].pool /\ desk[d].at \in {"chosen", "reserved", "dispatched"}
          => desk[e].at \notin {"chosen", "reserved", "dispatched"}

\* The constraint on pve_vmid: no two rows have a number in common.
NumbersUnique ==
    \A d, e \in Desktops : Inserted(d) /\ Inserted(e) /\ desk[d].vmid = desk[e].vmid => d = e

\* The foreign key: a row's pool is there.
PoolsKept == \A d \in Desktops : Inserted(d) => Stored(desk[d].pool)

\* A clone under way is the row's own; a number whose clone is not dispatched has no
\* machine of the broker's.
CloneInv ==
    \A d \in Desktops :
        /\ desk[d].at \in {"dispatched", "cloning"} => vm[desk[d].vmid] = "cloning"
        /\ desk[d].at = "cloning" => desk[d].row # "none"
        /\ desk[d].at = "reserved" => vm[desk[d].vmid] \notin {"cloning", "ready"}

\* A desktop whose machine the cascade destroyed is not cloning, and has none until
\* its row goes.
GoneInv ==
    \A c \in Cascades, d \in Desktops : cas[c].step[d] = "gone" =>
        /\ desk[d].at # "cloning"
        /\ desk[d].row # "none" => vm[desk[d].vmid] \notin {"cloning", "ready"}

CallsOK    == CallInv /\ LockInv /\ ChoiceHolds /\ NumbersUnique
AdminOK    == AdminInv /\ PoolsKept
MachinesOK == CloneInv /\ GoneInv /\ MachinesOwned

IInv == TypeOK /\ CallsOK /\ AdminOK /\ MachinesOK

\* One cascade per pool: the pool it empties is not active, and its desktops are
\* the pool's and have their rows.
CascadeAlone ==
    \A c \in Cascades :
        /\ cas[c].at \in {"asked", "running"} => pool[cas[c].pool].status \in {"deleting", "draining"}
        /\ \A d \in Desktops : cas[c].step[d] # "none" =>
             desk[d].pool = cas[c].pool /\ desk[d].row # "none"

OneInv == OffersBacked /\ CascadeAlone

-----------------------------------------------------------------------------
(***************************************************************************)
(* Constants, numbers and sets.                                            *)
(***************************************************************************)

\* The natural numbers are well-ordered: Min is defined on what the allocator gives it.
LEMMA LeastNumber ==
    ASSUME NEW S, S \subseteq Nat, S # {}
    PROVE  Min(S) \in S
<1> DEFINE T == {0 .. x : x \in S}
<1>1. T \subseteq FiniteSubsetsOf(Nat) /\ T # {}
  <2>1. \A x \in S : 0 .. x \in SUBSET Nat /\ IsFiniteSet(0 .. x)
    BY FS_Interval
  <2>2. QED
    BY <2>1 DEF FiniteSubsetsOf
<1>2. PICK m \in T : \A i \in T : <<i, m>> \notin StrictSubsetOrdering(Nat)
  <2> HIDE DEF T
  <2>1. QED
    BY <1>1, FS_StrictSubsetOrderingWellFounded, WFMin
<1>3. PICK x \in S : m = 0 .. x
  OBVIOUS
<1>4. ASSUME NEW y \in S, y < x
      PROVE  FALSE
  <2>1. <<0 .. y, m>> \notin StrictSubsetOrdering(Nat)
    BY <1>2
  <2>2. x \in m /\ x \notin 0 .. y /\ 0 .. y \subseteq m
    BY <1>3, <1>4
  <2>3. QED
    BY <2>1, <2>2, <1>1 DEF StrictSubsetOrdering, FiniteSubsetsOf
<1>5. \A y \in S : x <= y
  BY <1>4
<1>6. QED
  BY <1>5 DEF Min

\* A set has subsets of every size up to its own.
LEMMA SubsetOfSize ==
    ASSUME NEW S, IsFiniteSet(S), NEW n \in Nat, n <= Cardinality(S)
    PROVE  \E D \in SUBSET S : Cardinality(D) = n
<1>1. PICK f \in Bijection(1 .. Cardinality(S), S) : TRUE
  BY FS_CardinalityType DEF ExistsBijection
<1>2. Cardinality(S) \in Nat /\ 1 .. n \subseteq 1 .. Cardinality(S)
  BY FS_CardinalityType
<1> DEFINE D == {f[i] : i \in 1 .. n}
           g == [i \in 1 .. n |-> f[i]]
<1>3. g \in Bijection(1 .. n, D)
  BY <1>1, <1>2 DEF Bijection, Injection, Surjection, IsInjective
<1>4. Cardinality(D) = n
  BY <1>3, FS_CountingElements DEF ExistsBijection
<1>5. D \in SUBSET S
  BY <1>1, <1>2 DEF Bijection, Injection
<1>6. QED
  BY <1>4, <1>5

LEMMA Constants ==
    /\ Pools \subseteq Nat
    /\ 0 \notin VMIDs /\ VMIDs \subseteq Nat
    /\ Sizes \subseteq Nat
    /\ NoPool \in PoolRow
    /\ NoDesktop \in Desktop
    /\ NoCascade \in Deletion
    /\ NoCascade.at = "idle" /\ \A d \in Desktops : NoCascade.step[d] = "none"
    /\ NoRequest \in Request
BY PoolsAssumption, SizesAssumption
   DEF NoPool, PoolRow, PoolStatus, NoDesktop, Desktop, CallState, RowStatus, NoCascade,
       Deletion, CasState, NoRequest, Request

LEMMA LowestFree ==
    ASSUME TypeOK, NEW p \in Pools, Unused(p) # {}
    PROVE  Min(Unused(p)) \in pool[p].range /\ Min(Unused(p)) \notin Used(p)
           /\ Min(Unused(p)) \in VMIDs
<1>1. pool[p].range \subseteq VMIDs
  BY RangesAssumption DEF TypeOK, PoolRow
<1>2. Unused(p) \subseteq Nat
  BY <1>1, Constants DEF Unused
<1>3. Min(Unused(p)) \in Unused(p)
  BY <1>2, LeastNumber
<1>4. QED
  BY <1>1, <1>3 DEF Unused

-----------------------------------------------------------------------------
(***************************************************************************)
(* What the helpers do to a desktop; the others are as they were.          *)
(***************************************************************************)

Only(d) ==
    /\ desk' \in [Desktops -> Desktop]
    /\ \A e \in Desktops \ {d} : desk'[e] = desk[e]

LEMMA CallEffect ==
    ASSUME TypeOK, NEW d \in Desktops, NEW at \in CallState, Call(d, at)
    PROVE  /\ Only(d)
           /\ desk'[d].at = at /\ desk'[d].by = desk[d].by /\ desk'[d].pool = desk[d].pool
           /\ desk'[d].vmid = desk[d].vmid /\ desk'[d].row = desk[d].row
BY DEF TypeOK, Desktop, Call, Only

LEMMA OverEffect ==
    ASSUME TypeOK, NEW d \in Desktops, NEW row \in RowStatus, CallOver(d, row)
    PROVE  /\ Only(d)
           /\ desk'[d].at = "over" /\ desk'[d].by = "none" /\ desk'[d].pool = desk[d].pool
           /\ desk'[d].vmid = desk[d].vmid /\ desk'[d].row = row
<1>1. "over" \in CallState
  BY DEF CallState
<1>2. QED
  BY <1>1 DEF TypeOK, Desktop, CallOver, Only

LEMMA RecordedEffect ==
    ASSUME TypeOK, NEW d \in Desktops, CloneRecorded(d)
    PROVE  /\ Only(d)
           /\ desk'[d].at = "cloning" /\ desk'[d].pool = desk[d].pool
           /\ desk'[d].vmid = desk[d].vmid /\ desk'[d].row = "provisioning"
<1> DEFINE new == [desk[d] EXCEPT !.at = "cloning", !.row = "provisioning"]
<1>1. desk \in [Desktops -> Desktop] /\ desk' = [desk EXCEPT ![d] = new]
  BY DEF TypeOK, CloneRecorded
<1>2. desk[d] \in Desktop /\ "cloning" \in CallState /\ "provisioning" \in RowStatus
  BY <1>1 DEF CallState, RowStatus
<1>3. /\ new \in Desktop /\ new.at = "cloning" /\ new.row = "provisioning"
      /\ new.pool = desk[d].pool /\ new.vmid = desk[d].vmid
  BY ONLY <1>2 DEF Desktop
<1> HIDE DEF new
<1>4. QED
  BY <1>1, <1>3 DEF Only

LEMMA FailEffect ==
    ASSUME TypeOK, NEW d \in Desktops, CallFails(d)
    PROVE  /\ Only(d)
           /\ desk'[d].at = "over" /\ desk'[d].by = "none" /\ desk'[d].pool = 0
           /\ desk'[d].vmid = 0 /\ desk'[d].row = "none"
BY Constants DEF TypeOK, CallFails, Only, NoDesktop

LEMMA RowEffect ==
    ASSUME TypeOK, NEW d \in Desktops, NEW row \in RowStatus,
           desk' = [desk EXCEPT ![d].row = row]
    PROVE  /\ Only(d)
           /\ desk'[d].at = desk[d].at /\ desk'[d].by = desk[d].by
           /\ desk'[d].pool = desk[d].pool /\ desk'[d].vmid = desk[d].vmid
           /\ desk'[d].row = row
BY DEF TypeOK, Desktop, Only

-----------------------------------------------------------------------------
(***************************************************************************)
(* CallsOK: numbers and locks.                                             *)
(***************************************************************************)

\* A step of one desktop that takes no lock and no number.
Quiet(d) ==
    /\ desk'[d].at \in {"chosen", "reserved", "dispatched"} =>
         /\ desk[d].at \in {"chosen", "reserved", "dispatched"}
         /\ desk'[d].pool = desk[d].pool /\ desk'[d].vmid = desk[d].vmid
    /\ desk'[d].at = "chosen" => desk[d].at = "chosen"
    /\ Inserted(d)' => Inserted(d) /\ desk'[d].pool = desk[d].pool /\ desk'[d].vmid = desk[d].vmid

LEMMA QuietKeepsCalls ==
    ASSUME CallsOK, NEW d \in Desktops, Only(d), Quiet(d), CallInv'
    PROVE  CallsOK'
<1>1. LockInv'
  BY DEF CallsOK, LockInv, Only, Quiet
<1>2. ChoiceHolds'
  BY DEF CallsOK, ChoiceHolds, Only, Quiet, Inserted
<1>3. NumbersUnique'
  BY DEF CallsOK, NumbersUnique, Only, Quiet, Inserted
<1>4. QED
  BY <1>1, <1>2, <1>3 DEF CallsOK

LEMMA FailKeepsCalls ==
    ASSUME TypeOK, CallsOK, NEW d \in Desktops, CallFails(d)
    PROVE  CallsOK'
<1>1. CallInv'
  BY FailEffect DEF CallsOK, CallInv, Only
<1>2. Quiet(d)
  BY FailEffect DEF Quiet, Inserted
<1>3. QED
  BY <1>1, <1>2, FailEffect, QuietKeepsCalls

LEMMA OverKeepsCalls ==
    ASSUME TypeOK, CallsOK, NEW d \in Desktops, NEW row \in RowStatus, CallOver(d, row),
           desk[d].pool \in Pools, desk[d].vmid \in VMIDs,
           row = "none" \/ Inserted(d)
    PROVE  CallsOK'
<1>1. CallInv'
  BY OverEffect DEF CallsOK, CallInv, Only
<1>2. Quiet(d)
  BY OverEffect DEF Quiet, Inserted
<1>3. QED
  BY <1>1, <1>2, OverEffect, QuietKeepsCalls

LEMMA AllocateKeepsCalls ==
    ASSUME TypeOK, CallsOK, NEW d \in Desktops, AllocateVmid(d)
    PROVE  CallsOK'
<1> DEFINE p == desk[d].pool
<1>1. p \in Pools /\ desk[d].at = "begun" /\ desk[d].row = "none"
  BY DEF CallsOK, CallInv, AllocateVmid
<1>2. CASE Unused(p) = {}
  BY <1>2, FailKeepsCalls DEF AllocateVmid
<1>3. CASE Unused(p) # {}
  <2> DEFINE v == Min(Unused(p))
  <2>1. v \in VMIDs /\ v \notin Used(p)
    BY <1>1, <1>3, LowestFree
  <2>2. desk' = [desk EXCEPT ![d].at = "chosen", ![d].vmid = v]
    BY <1>3 DEF AllocateVmid
  <2> HIDE DEF v
  <2>3. /\ Only(d)
        /\ desk'[d].at = "chosen" /\ desk'[d].pool = p /\ desk'[d].vmid = v
        /\ desk'[d].row = "none"
    <3>1. "chosen" \in CallState
      BY DEF CallState
    <3>2. QED
      BY <1>1, <2>1, <2>2, <3>1 DEF TypeOK, Desktop, Only
  <2>4. \A e \in Desktops \ {d} :
          desk[e].pool = p => desk[e].at \notin {"chosen", "reserved", "dispatched"}
    BY DEF AllocateVmid, Locking
  <2>5. \A e \in Desktops \ {d} : Inserted(e) /\ desk[e].pool = p => desk[e].vmid # v
    BY <2>1, <2>4 DEF Inserted, Used, Rows
  <2>6. CallInv'
    BY <1>1, <2>1, <2>3 DEF CallsOK, CallInv, Only
  <2>7. LockInv'
    BY <2>3, <2>4 DEF CallsOK, LockInv, Only
  <2>8. ChoiceHolds'
    BY <2>3, <2>5 DEF CallsOK, ChoiceHolds, Only, Inserted
  <2>9. NumbersUnique'
    BY <2>3 DEF CallsOK, NumbersUnique, Only, Inserted
  <2>10. QED
    BY <2>6, <2>7, <2>8, <2>9 DEF CallsOK
<1>4. QED
  BY <1>2, <1>3

LEMMA ReserveKeepsCalls ==
    ASSUME TypeOK, CallsOK, NEW d \in Desktops, Reserve(d)
    PROVE  CallsOK'
<1>1. CASE Violates(d)
  BY <1>1, FailKeepsCalls DEF Reserve
<1>2. CASE ~ Violates(d)
  <2>1. desk[d].at = "chosen" /\ Call(d, "reserved") /\ "reserved" \in CallState
    BY <1>2 DEF Reserve, CallState
  <2>2. \A e \in Desktops \ {d} : Inserted(e) => desk[e].vmid # desk[d].vmid
    BY <1>2 DEF Reserve, Violates, Waits, Inserted
  <2>3. CallInv'
    BY <2>1, CallEffect DEF CallsOK, CallInv, Only
  <2>4. LockInv'
    BY <2>1, CallEffect DEF CallsOK, LockInv, Only
  <2>5. ChoiceHolds'
    BY <2>1, CallEffect DEF CallsOK, ChoiceHolds, LockInv, Only, Inserted
  <2>6. NumbersUnique'
    BY <2>1, <2>2, CallEffect DEF CallsOK, NumbersUnique, Only, Inserted
  <2>7. QED
    BY <2>3, <2>4, <2>5, <2>6 DEF CallsOK
<1>3. QED
  BY <1>1, <1>2

LEMMA ProvisionKeepsCalls ==
    ASSUME TypeOK, CallsOK, MachinesOK, NEW d \in Desktops, Provision(d)
    PROVE  TypeOK' /\ CallsOK'
<1> USE DEF CallState, RowStatus
<1>1. CASE ProvisionBegins(d)
  <2>1. CASE Call(d, "begun")
    <3>1. CallInv' /\ Quiet(d)
      BY <1>1, <2>1, CallEffect
         DEF ProvisionBegins, CallsOK, CallInv, Only, Quiet, Inserted
    <3>2. QED
      BY <1>1, <2>1, <3>1, CallEffect, QuietKeepsCalls DEF ProvisionBegins, TypeOK, Only
  <2>2. CASE CallFails(d)
    BY <1>1, <2>2, FailEffect, FailKeepsCalls DEF ProvisionBegins, TypeOK, Only
  <2>3. QED
    BY <1>1, <2>1, <2>2 DEF ProvisionBegins
<1>2. CASE AllocateVmid(d)
  <2>1. CASE Unused(desk[d].pool) = {}
    <3>1. CallFails(d) /\ UNCHANGED <<pool, vm, cas, req>>
      BY <1>2, <2>1 DEF AllocateVmid
    <3>2. desk' \in [Desktops -> Desktop]
      BY <3>1, FailEffect DEF Only
    <3>3. QED
      BY <1>2, <3>1, <3>2, AllocateKeepsCalls DEF TypeOK
  <2>2. CASE Unused(desk[d].pool) # {}
    <3> DEFINE v == Min(Unused(desk[d].pool))
    <3>1. v \in VMIDs
      BY <1>2, <2>2, LowestFree DEF AllocateVmid, CallsOK, CallInv
    <3> DEFINE new == [desk[d] EXCEPT !.at = "chosen", !.vmid = v]
    <3>2. desk' = [desk EXCEPT ![d] = new]
      BY <1>2, <2>2 DEF AllocateVmid, TypeOK
    <3> HIDE DEF v
    <3>3. desk' \in [Desktops -> Desktop]
      <4>1. desk \in [Desktops -> Desktop]
        BY DEF TypeOK
      <4>2. new \in Desktop
        BY <3>1, <4>1 DEF Desktop
      <4> HIDE DEF new
      <4>3. QED
        BY <3>2, <4>1, <4>2
    <3>4. QED
      BY <1>2, <3>3, AllocateKeepsCalls DEF AllocateVmid, TypeOK
  <2>3. QED
    BY <2>1, <2>2
<1>3. CASE Reserve(d)
  BY <1>3, FailEffect, CallEffect, ReserveKeepsCalls DEF Reserve, TypeOK, Only
<1>4. CASE CloneDispatched(d)
  <2>1. CallInv' /\ Quiet(d)
    BY <1>4, CallEffect DEF CloneDispatched, CallsOK, CallInv, Only, Quiet, Inserted
  <2>2. vm' \in [VMIDs -> Machine]
    BY <1>4 DEF CloneDispatched, TypeOK, Machine
  <2>3. QED
    BY <1>4, <2>1, <2>2, CallEffect, QuietKeepsCalls DEF CloneDispatched, TypeOK, Only
<1>5. CASE CloneRefused(d)
  <2>1. desk[d].pool \in Pools /\ desk[d].vmid \in VMIDs /\ Inserted(d)
    BY <1>5 DEF CloneRefused, CallsOK, CallInv, Inserted
  <2>2. QED
    <3>1. CallOver(d, "error") /\ UNCHANGED <<pool, vm, cas, req>> /\ "error" \in RowStatus
      BY <1>5 DEF CloneRefused, RowStatus
    <3>2. CallsOK' /\ desk' \in [Desktops -> Desktop]
      BY <2>1, <3>1, OverEffect, OverKeepsCalls DEF Only
    <3>3. QED
      BY <3>1, <3>2 DEF TypeOK
<1>6. CASE CloneRecorded(d)
  <2>1. /\ Only(d)
        /\ desk'[d].at = "cloning" /\ desk'[d].pool = desk[d].pool
        /\ desk'[d].vmid = desk[d].vmid /\ desk'[d].row = "provisioning"
    BY <1>6, RecordedEffect
  <2>2. CallInv' /\ Quiet(d)
    BY <1>6, <2>1 DEF CloneRecorded, CallsOK, CallInv, Only, Quiet, Inserted
  <2>3. QED
    BY <1>6, <2>1, <2>2, QuietKeepsCalls DEF CloneRecorded, TypeOK, Only
<1>7. CASE CloneEnds(d)
  <2>1. desk[d].pool \in Pools /\ desk[d].vmid \in VMIDs /\ desk[d].row # "none"
    BY <1>7 DEF CloneEnds, CallsOK, CallInv, MachinesOK, CloneInv
  <2>2. vm' \in [VMIDs -> Machine]
    BY <1>7, <2>1 DEF CloneEnds, TypeOK, Machine
  <2>3. CASE Call(d, "booting")
    <3>1. CallInv' /\ Quiet(d)
      BY <1>7, <2>1, <2>3, CallEffect DEF CloneEnds, CallsOK, CallInv, Only, Quiet, Inserted
    <3>2. QED
      BY <1>7, <2>2, <2>3, <3>1, CallEffect, QuietKeepsCalls DEF CloneEnds, TypeOK, Only
  <2>4. CASE CallOver(d, "error")
    BY <1>7, <2>1, <2>2, <2>4, OverEffect, OverKeepsCalls
       DEF CloneEnds, TypeOK, Only, Inserted
  <2>5. QED
    BY <1>7, <2>1, <2>3, <2>4 DEF CloneEnds
<1>8. CASE ProvisionEnds(d)
  <2>1. desk[d].pool \in Pools /\ desk[d].vmid \in VMIDs
    BY <1>8 DEF ProvisionEnds, CallsOK, CallInv
  <2>2. PICK row \in RowStatus : /\ CallOver(d, row)
                                 /\ row = "none" \/ desk[d].row # "none"
    BY <1>8 DEF ProvisionEnds
  <2>3. QED
    BY <1>8, <2>1, <2>2, OverEffect, OverKeepsCalls DEF ProvisionEnds, TypeOK, Only, Inserted
<1>9. QED
  BY <1>1, <1>2, <1>3, <1>4, <1>5, <1>6, <1>7, <1>8 DEF Provision

\* Asking: calls that are over begin again, with no number and no row.
Asked(D, p) ==
    /\ desk' \in [Desktops -> Desktop]
    /\ \A d \in Desktops \ D : desk'[d] = desk[d]
    /\ \A d \in D : desk'[d].at = "asked" /\ desk'[d].row = "none" /\ desk'[d].pool = p

LEMMA AskEffect ==
    ASSUME TypeOK, NEW D \in SUBSET Fresh, NEW p \in Pools,
           NEW by \in {"worker", "request"}, Ask(D, p, by)
    PROVE  Asked(D, p)
<1>1. [NoDesktop EXCEPT !.at = "asked", !.by = by, !.pool = p] \in Desktop
  BY Constants DEF NoDesktop, Desktop, CallState
<1>2. desk' \in [Desktops -> Desktop]
  BY <1>1 DEF Ask, TypeOK
<1>3. /\ \A d \in Desktops \ D : desk'[d] = desk[d]
      /\ \A d \in D : desk'[d].at = "asked" /\ desk'[d].row = "none" /\ desk'[d].pool = p
  BY DEF Ask, Fresh, NoDesktop
<1>4. QED
  BY <1>2, <1>3 DEF Asked

\* Such calls hold no lock, no choice and no row yet.
LEMMA AskKeepsCalls ==
    ASSUME CallsOK, NEW D \in SUBSET Fresh, NEW p \in Pools, Asked(D, p)
    PROVE  CallsOK'
<1>1. /\ \A d \in Desktops \ D : desk'[d] = desk[d]
      /\ \A d \in D : desk'[d].at = "asked" /\ desk'[d].row = "none" /\ desk'[d].pool = p
  BY DEF Asked
<1>2. D \subseteq Desktops
  BY DEF Fresh
<1>3. CallInv' /\ LockInv' /\ ChoiceHolds' /\ NumbersUnique'
  BY <1>1, <1>2 DEF CallsOK, CallInv, LockInv, ChoiceHolds, NumbersUnique, Inserted
<1>4. QED
  BY <1>3 DEF CallsOK

\* A row changes its status or goes, whatever its call is doing.
LEMMA RowKeepsCalls ==
    ASSUME TypeOK, CallsOK, NEW d \in Desktops, NEW row \in RowStatus,
           desk' = [desk EXCEPT ![d].row = row],
           row # "none" => desk[d].row # "none",
           row \in {"available", "assigned"} => desk[d].at = "over"
    PROVE  CallsOK'
<1>1. CallInv' /\ Quiet(d)
  BY RowEffect DEF CallsOK, CallInv, Only, Quiet, Inserted
<1>2. QED
  BY <1>1, RowEffect, QuietKeepsCalls

-----------------------------------------------------------------------------
(***************************************************************************)
(* Steps that leave desktops and machines alone.                           *)
(***************************************************************************)

LEMMA OwnersStay ==
    ASSUME MachinesOwned, PoolsKept', UNCHANGED <<desk, vm>>
    PROVE  MachinesOwned'
BY DEF MachinesOwned, PoolsKept, Inserted

LEMMA AdminStep ==
    ASSUME IInv, UNCHANGED <<desk, vm>>, TypeOK', AdminOK', GoneInv'
    PROVE  IInv'
<1>1. CallsOK'
  BY DEF IInv, CallsOK, CallInv, LockInv, ChoiceHolds, NumbersUnique, Inserted
<1>2. CloneInv'
  BY DEF IInv, MachinesOK, CloneInv
<1>3. MachinesOwned'
  BY OwnersStay DEF IInv, MachinesOK, AdminOK
<1>4. QED
  BY <1>1, <1>2, <1>3 DEF IInv, MachinesOK

\* A pool's row that goes or is written over is not one that a desktop refers to.
LEMMA PoolStep ==
    ASSUME IInv, UNCHANGED <<desk, vm, cas, req>>, pool' \in [Pools -> PoolRow],
           \A p \in Pools : Stored(p) => Stored(p)'
    PROVE  IInv'
<1>1. TypeOK'
  BY DEF IInv, TypeOK
<1>2. AdminOK'
  BY DEF IInv, AdminOK, AdminInv, PoolsKept, Inserted, CallsOK, CallInv
<1>3. GoneInv'
  BY DEF IInv, MachinesOK, GoneInv
<1>4. QED
  BY <1>1, <1>2, <1>3, AdminStep

LEMMA CreateStep ==
    ASSUME IInv, NEW p \in Pools,
           \/ \E range \in Ranges, max \in Sizes : CreateChecks(p, range, max)
           \/ CreateCommits(p)
    PROVE  IInv'
<1> USE DEF PoolRow, PoolStatus
<1>1. CASE \E range \in Ranges, max \in Sizes : CreateChecks(p, range, max)
  <2>1. PICK range \in Ranges, max \in Sizes : CreateChecks(p, range, max)
    BY <1>1
  <2>2. pool' \in [Pools -> PoolRow] /\ \A q \in Pools : Stored(q) => Stored(q)'
    BY <2>1, Constants DEF CreateChecks, IInv, TypeOK, Stored
  <2>3. QED
    BY <2>1, <2>2, PoolStep DEF CreateChecks
<1>2. CASE CreateCommits(p)
  <2>1. pool' \in [Pools -> PoolRow] /\ \A q \in Pools : Stored(q) => Stored(q)'
    BY <1>2, Constants DEF CreateCommits, SetStatus, IInv, TypeOK, Stored
  <2>2. QED
    BY <1>2, <2>1, PoolStep DEF CreateCommits
<1>3. QED
  BY <1>1, <1>2

LEMMA RequestStep ==
    ASSUME IInv, NEW r \in Requests,
           \/ RequestCommits(r)
           \/ \E p \in Pools : DrainReads(r, p) \/ \E max \in Sizes : UpdateReads(r, p, max)
    PROVE  IInv'
<1>1. UNCHANGED <<desk, vm, cas>>
  BY DEF RequestCommits, DrainReads, UpdateReads
<1>2. req' \in [Requests -> Request] /\ \A q \in Requests : req'[q].op # "none" => req'[q].pool \in Pools
  <2>1. CASE req' = [req EXCEPT ![r] = NoRequest]
    BY <2>1 DEF IInv, TypeOK, Request, AdminOK, AdminInv, NoRequest
  <2>2. ASSUME NEW p \in Pools, NEW op \in {"update", "drain"}, NEW max \in Nat,
               req' = [req EXCEPT ![r] = [op |-> op, pool |-> p, max |-> max]]
        PROVE  /\ req' \in [Requests -> Request]
               /\ \A q \in Requests : req'[q].op # "none" => req'[q].pool \in Pools
    <3>1. [op |-> op, pool |-> p, max |-> max] \in Request
      BY Constants DEF Request
    <3>2. QED
      BY <2>2, <3>1 DEF IInv, TypeOK, AdminOK, AdminInv
  <2>3. QED
    BY <2>1, <2>2, Constants DEF RequestCommits, DrainReads, UpdateReads
<1>3. pool' \in [Pools -> PoolRow] /\ \A q \in Pools : Stored(q) => Stored(q)'
  <2>1. CASE UNCHANGED pool
    BY <2>1 DEF IInv, TypeOK, Stored
  <2>2. CASE SetStatus(req[r].pool, "draining")
    BY <2>2 DEF SetStatus, IInv, TypeOK, PoolRow, PoolStatus, Stored
  <2>3. CASE pool' = [pool EXCEPT ![req[r].pool].max = req[r].max]
    <3>1. req[r].max \in Nat
      BY DEF IInv, TypeOK, Request
    <3>2. QED
      BY <2>3, <3>1 DEF IInv, TypeOK, PoolRow, Stored
  <2>4. QED
    BY <2>1, <2>2, <2>3 DEF RequestCommits, DrainReads, UpdateReads
<1>4. TypeOK' /\ AdminOK'
  BY <1>1, <1>2, <1>3 DEF IInv, TypeOK, AdminOK, AdminInv, PoolsKept, Inserted, CallsOK, CallInv
<1>5. GoneInv'
  BY <1>1 DEF IInv, MachinesOK, GoneInv
<1>6. QED
  BY <1>1, <1>4, <1>5, AdminStep

\* The cascade's own steps, and its request's.
LEMMA CascadeStep ==
    ASSUME IInv, NEW c \in Cascades, UNCHANGED <<desk, vm, req>>,
           cas' \in [Cascades -> Deletion],
           \A b \in Cascades \ {c} : cas'[b] = cas[b],
           cas'[c].at # "idle" => cas'[c].pool \in Pools,
           \A d \in Desktops : cas'[c].step[d] # "none" =>
              /\ cas'[c].at = "running"
              /\ desk[d].at \in {"over", "cloning", "booting"},
           \A d \in Desktops : cas'[c].step[d] = "gone" => cas[c].step[d] = "gone",
           pool' \in [Pools -> PoolRow],
           \A d \in Desktops : Inserted(d) => Stored(desk[d].pool)'
    PROVE  IInv'
<1>1. TypeOK'
  BY DEF IInv, TypeOK
<1>2. AdminOK'
  BY DEF IInv, AdminOK, AdminInv, PoolsKept, Inserted
<1>3. GoneInv'
  BY DEF IInv, MachinesOK, GoneInv
<1>4. QED
  BY <1>1, <1>2, <1>3, AdminStep

LEMMA DeleteStep ==
    ASSUME IInv, NEW c \in Cascades,
           \/ DeleteCommits(c) \/ CascadeLists(c) \/ CascadeEnds(c) \/ CascadeDies(c)
           \/ \E p \in Pools : DeleteReads(c, p)
           \/ \E d \in Desktops : DestroyReads(c, d)
    PROVE  IInv'
<1> USE Constants DEF CasState
<1>0. UNCHANGED <<desk, vm, req>>
  BY DEF DeleteCommits, CascadeLists, CascadeEnds, CascadeDies, DeleteReads, DestroyReads
<1>1. CASE \E p \in Pools : DeleteReads(c, p)
  <2>1. PICK p \in Pools : DeleteReads(c, p)
    BY <1>1
  <2>2. PICK at \in {"asked", "read"} :
          cas' = [cas EXCEPT ![c] = [NoCascade EXCEPT !.pool = p, !.at = at]]
    BY <2>1 DEF DeleteReads
  <2>3. [NoCascade EXCEPT !.pool = p, !.at = at] \in Deletion
    BY DEF NoCascade, Deletion
  <2>4. /\ cas' \in [Cascades -> Deletion]
        /\ \A b \in Cascades \ {c} : cas'[b] = cas[b]
        /\ cas'[c].pool = p /\ \A d \in Desktops : cas'[c].step[d] = "none"
    BY <2>2, <2>3 DEF IInv, TypeOK, NoCascade
  <2>5. pool' = pool /\ pool \in [Pools -> PoolRow]
    BY <2>1 DEF DeleteReads, IInv, TypeOK
  <2>6. QED
    BY <1>0, <2>4, <2>5, CascadeStep DEF IInv, AdminOK, PoolsKept, Stored
<1>2. CASE DeleteCommits(c)
  <2>1. cas[c].pool \in Pools /\ \A d \in Desktops : cas[c].step[d] = "none"
    BY <1>2 DEF DeleteCommits, IInv, AdminOK, AdminInv
  <2>2. /\ cas' \in [Cascades -> Deletion]
        /\ \A b \in Cascades \ {c} : cas'[b] = cas[b]
        /\ cas'[c].at # "idle" => cas'[c].pool \in Pools
        /\ \A d \in Desktops : cas'[c].step[d] = "none"
    <3>1. CASE cas' = [cas EXCEPT ![c].at = "asked"]
      BY <2>1, <3>1 DEF IInv, TypeOK, Deletion
    <3>2. CASE cas' = [cas EXCEPT ![c] = NoCascade]
      BY <3>2 DEF IInv, TypeOK
    <3>3. QED
      BY <1>2, <3>1, <3>2 DEF DeleteCommits
  <2>3. pool' \in [Pools -> PoolRow] /\ \A q \in Pools : Stored(q) => Stored(q)'
    <3>1. CASE UNCHANGED pool
      BY <3>1 DEF IInv, TypeOK, Stored
    <3>2. CASE SetStatus(cas[c].pool, "deleting")
      BY <2>1, <3>2 DEF SetStatus, IInv, TypeOK, PoolRow, PoolStatus, Stored
    <3>3. QED
      BY <1>2, <3>1, <3>2 DEF DeleteCommits
  <2>4. QED
    BY <1>0, <2>2, <2>3, CascadeStep
       DEF IInv, AdminOK, PoolsKept, CallsOK, CallInv, Inserted
<1>3. CASE CascadeLists(c)
  <2> DEFINE todo == [d \in Desktops |-> IF d \in Rows(cas[c].pool) THEN "todo" ELSE "none"]
  <2>1. todo \in [Desktops -> {"none", "todo", "read", "gone"}]
    OBVIOUS
  <2>2. \A d \in Desktops : /\ todo[d] # "gone"
                            /\ todo[d] # "none" => desk[d].at \in {"over", "cloning", "booting"}
    BY DEF Rows, IInv, CallsOK, CallInv, TypeOK, Desktop, CallState
  <2> HIDE DEF todo
  <2>3. cas[c].at = "asked" /\ cas[c].pool \in Pools
    BY <1>3 DEF CascadeLists, IInv, AdminOK, AdminInv
  <2>4. \/ cas' = [cas EXCEPT ![c] = NoCascade]
        \/ cas' = [cas EXCEPT ![c] = [@ EXCEPT !.at = "running", !.step = todo]]
    BY <1>3 DEF CascadeLists, todo
  <2>5. /\ cas' \in [Cascades -> Deletion]
        /\ \A b \in Cascades \ {c} : cas'[b] = cas[b]
        /\ cas'[c].at # "idle" => cas'[c].pool \in Pools
        /\ \A d \in Desktops : cas'[c].step[d] # "none" =>
             cas'[c].at = "running" /\ desk[d].at \in {"over", "cloning", "booting"}
        /\ \A d \in Desktops : cas'[c].step[d] # "gone"
    <3>1. CASE cas' = [cas EXCEPT ![c] = NoCascade]
      BY <3>1 DEF IInv, TypeOK
    <3>2. CASE cas' = [cas EXCEPT ![c] = [@ EXCEPT !.at = "running", !.step = todo]]
      <4> DEFINE new == [cas[c] EXCEPT !.at = "running", !.step = todo]
      <4>1. /\ new \in Deletion
            /\ new.at = "running" /\ new.pool = cas[c].pool /\ new.step = todo
        BY <2>1 DEF IInv, TypeOK, Deletion
      <4>2. cas' = [cas EXCEPT ![c] = new]
        BY <3>2
      <4> HIDE DEF new
      <4>3. QED
        BY <2>2, <2>3, <4>1, <4>2 DEF IInv, TypeOK
    <3>3. QED
      BY <2>4, <3>1, <3>2
  <2>6. pool' = pool /\ pool \in [Pools -> PoolRow]
    BY <1>3 DEF CascadeLists, IInv, TypeOK
  <2>7. QED
    BY <1>0, <2>5, <2>6, CascadeStep DEF IInv, AdminOK, PoolsKept, Stored
<1>4. CASE \E d \in Desktops : DestroyReads(c, d)
  <2>1. PICK d \in Desktops : DestroyReads(c, d)
    BY <1>4
  <2>2. PICK step \in {"none", "read"} : Step(c, d, step)
    BY <2>1 DEF DestroyReads
  <2>3. /\ cas' \in [Cascades -> Deletion]
        /\ \A b \in Cascades \ {c} : cas'[b] = cas[b]
        /\ cas'[c].at = cas[c].at /\ cas'[c].pool = cas[c].pool
        /\ \A e \in Desktops \ {d} : cas'[c].step[e] = cas[c].step[e]
        /\ cas'[c].step[d] = step
    BY <2>2 DEF Step, IInv, TypeOK, Deletion
  <2>4. pool' = pool /\ pool \in [Pools -> PoolRow] /\ cas[c].step[d] = "todo"
    BY <2>1 DEF DestroyReads, IInv, TypeOK
  <2>5. QED
    BY <1>0, <2>3, <2>4, CascadeStep DEF IInv, AdminOK, AdminInv, PoolsKept, Stored
<1>5. CASE CascadeEnds(c) \/ CascadeDies(c)
  <2>1. cas' = [cas EXCEPT ![c] = NoCascade]
    BY <1>5 DEF CascadeEnds, CascadeDies
  <2>2. /\ cas' \in [Cascades -> Deletion]
        /\ \A b \in Cascades \ {c} : cas'[b] = cas[b]
        /\ cas'[c].at = "idle" /\ \A d \in Desktops : cas'[c].step[d] = "none"
    BY <2>1 DEF IInv, TypeOK, NoCascade
  <2>3. CASE UNCHANGED pool
    BY <1>0, <2>2, <2>3, CascadeStep DEF IInv, TypeOK, AdminOK, PoolsKept, Stored
  <2>4. CASE pool' # pool
    <3> DEFINE p == cas[c].pool
    <3>1. /\ pool' = [pool EXCEPT ![p] = NoPool]
          /\ Rows(p) = {} /\ \A d \in Locking(p) : desk[d].at = "chosen"
      BY <1>5, <2>4 DEF CascadeEnds, CascadeDies
    <3>2. \A d \in Desktops : Inserted(d) => desk[d].pool # p
      BY <3>1 DEF Inserted, Rows, Locking
    <3>3. pool' \in [Pools -> PoolRow] /\ \A q \in Pools \ {p} : pool'[q] = pool[q]
      BY <3>1 DEF IInv, TypeOK
    <3>4. \A d \in Desktops : Inserted(d) => Stored(desk[d].pool)'
      BY <1>0, <3>2, <3>3 DEF IInv, AdminOK, PoolsKept, Stored, CallsOK, CallInv, Inserted
    <3>5. QED
      BY <1>0, <2>2, <3>3, <3>4, CascadeStep
  <2>5. QED
    BY <2>3, <2>4
<1>6. QED
  BY <1>1, <1>2, <1>3, <1>4, <1>5

\* One step of the cascade at one desktop.
LEMMA StepEffect ==
    ASSUME TypeOK, NEW c \in Cascades, NEW d \in Desktops,
           NEW step \in {"none", "todo", "read", "gone"}, Step(c, d, step)
    PROVE  /\ cas' \in [Cascades -> Deletion]
           /\ \A b \in Cascades \ {c} : cas'[b] = cas[b]
           /\ cas'[c].at = cas[c].at /\ cas'[c].pool = cas[c].pool
           /\ \A e \in Desktops \ {d} : cas'[c].step[e] = cas[c].step[e]
           /\ cas'[c].step[d] = step
BY DEF Step, TypeOK, Deletion

LEMMA DestroyStep ==
    ASSUME IInv, NEW c \in Cascades, NEW d \in Desktops, DestroyMachine(c, d)
    PROVE  IInv'
<1>1. /\ UNCHANGED <<pool, desk, req>> /\ cas[c].step[d] = "read"
      /\ vm[desk[d].vmid] # "cloning" /\ vm' = [vm EXCEPT ![desk[d].vmid] = "none"]
  BY DEF DestroyMachine
<1>2. /\ cas' \in [Cascades -> Deletion]
      /\ \A b \in Cascades \ {c} : cas'[b] = cas[b]
      /\ cas'[c].at = cas[c].at /\ cas'[c].pool = cas[c].pool
      /\ \A e \in Desktops \ {d} : cas'[c].step[e] = cas[c].step[e]
      /\ cas'[c].step[d] = "gone"
  BY StepEffect DEF DestroyMachine, IInv
<1>3. TypeOK'
  BY <1>1, <1>2 DEF IInv, TypeOK, Machine
<1>4. CallsOK'
  BY <1>1 DEF IInv, CallsOK, CallInv, LockInv, ChoiceHolds, NumbersUnique, Inserted
<1>5. AdminOK'
  BY <1>1, <1>2 DEF IInv, AdminOK, AdminInv, PoolsKept, Inserted, Stored
<1>6. CloneInv'
  BY <1>1 DEF IInv, TypeOK, CallsOK, CallInv, MachinesOK, CloneInv
<1>7. GoneInv'
  BY <1>1, <1>2 DEF IInv, TypeOK, CallsOK, CallInv, MachinesOK, CloneInv, GoneInv
<1>8. MachinesOwned'
  BY <1>1 DEF IInv, TypeOK, MachinesOK, MachinesOwned, Inserted, Stored
<1>9. QED
  BY <1>3, <1>4, <1>5, <1>6, <1>7, <1>8 DEF IInv, MachinesOK

LEMMA FailedStep ==
    ASSUME IInv, NEW c \in Cascades, NEW d \in Desktops, DestroyFails(c, d)
    PROVE  IInv'
<1> DEFINE row == IF desk[d].row = "none" THEN "none" ELSE "error"
<1>1. UNCHANGED <<pool, vm, req>> /\ desk' = [desk EXCEPT ![d].row = row] /\ row \in RowStatus
  BY DEF DestroyFails, RowStatus
<1>2. row = "none" <=> desk[d].row = "none"
  OBVIOUS
<1>3. row \notin {"available", "assigned"}
  OBVIOUS
<1> HIDE DEF row
<1>4. /\ cas' \in [Cascades -> Deletion]
      /\ \A b \in Cascades \ {c} : cas'[b] = cas[b]
      /\ cas'[c].at = cas[c].at /\ cas'[c].pool = cas[c].pool
      /\ \A e \in Desktops \ {d} : cas'[c].step[e] = cas[c].step[e]
      /\ cas'[c].step[d] = "none"
  BY DEF DestroyFails, IInv, TypeOK, Deletion
<1>5. /\ Only(d)
      /\ desk'[d].at = desk[d].at /\ desk'[d].pool = desk[d].pool
      /\ desk'[d].vmid = desk[d].vmid /\ desk'[d].row = row
  BY <1>1, RowEffect DEF IInv
<1>6. TypeOK'
  BY <1>1, <1>4, <1>5 DEF IInv, TypeOK, Only
<1>7. CallsOK'
  BY <1>1, <1>2, <1>3, RowKeepsCalls DEF IInv
<1>8. AdminOK'
  BY <1>1, <1>2, <1>4, <1>5
     DEF IInv, AdminOK, AdminInv, PoolsKept, Inserted, Only, CallsOK, CallInv, Stored
<1>9. MachinesOK'
  BY <1>1, <1>2, <1>4, <1>5
     DEF IInv, MachinesOK, CloneInv, GoneInv, MachinesOwned, Inserted, Only, Stored
<1>10. QED
  BY <1>6, <1>7, <1>8, <1>9 DEF IInv

LEMMA RowStep ==
    ASSUME IInv, NEW c \in Cascades, NEW d \in Desktops, DeleteRow(c, d)
    PROVE  IInv'
<1>1. /\ UNCHANGED <<pool, vm, req>> /\ desk' = [desk EXCEPT ![d].row = "none"]
      /\ "none" \in RowStatus /\ cas[c].step[d] = "gone"
  BY DEF DeleteRow, RowStatus
<1>2. /\ cas' \in [Cascades -> Deletion]
      /\ \A b \in Cascades \ {c} : cas'[b] = cas[b]
      /\ cas'[c].at = cas[c].at /\ cas'[c].pool = cas[c].pool
      /\ \A e \in Desktops \ {d} : cas'[c].step[e] = cas[c].step[e]
      /\ cas'[c].step[d] = "none"
  BY StepEffect DEF DeleteRow, IInv
<1>3. /\ Only(d)
      /\ desk'[d].at = desk[d].at /\ desk'[d].pool = desk[d].pool
      /\ desk'[d].vmid = desk[d].vmid /\ desk'[d].row = "none"
  BY <1>1, RowEffect DEF IInv
<1>4. TypeOK'
  BY <1>1, <1>2, <1>3 DEF IInv, TypeOK, Only
<1>5. CallsOK'
  BY <1>1, RowKeepsCalls DEF IInv
<1>6. AdminOK'
  BY <1>1, <1>2, <1>3
     DEF IInv, AdminOK, AdminInv, PoolsKept, Inserted, Only, CallsOK, CallInv, Stored
<1>7. CloneInv' /\ GoneInv'
  BY <1>1, <1>2, <1>3 DEF IInv, MachinesOK, CloneInv, GoneInv, Only
<1>8. MachinesOwned'
  <2>1. Inserted(d) => vm[desk[d].vmid] \notin {"cloning", "ready"}
    BY <1>1 DEF IInv, MachinesOK, GoneInv, AdminOK, AdminInv, Inserted
  <2>2. QED
    BY <1>1, <1>3, <2>1 DEF IInv, MachinesOK, MachinesOwned, Inserted, Only, Stored
<1>9. QED
  BY <1>4, <1>5, <1>6, <1>7, <1>8 DEF IInv, MachinesOK

-----------------------------------------------------------------------------
(***************************************************************************)
(* The calls of provision_desktop.                                         *)
(***************************************************************************)

\* A call ends with nothing committed: its number is free again, and no machine of
\* the broker's has it.
LEMMA FailStep ==
    ASSUME IInv, NEW d \in Desktops, CallFails(d), UNCHANGED <<pool, vm, cas, req>>,
           desk[d].at \in {"asked", "begun", "chosen", "reserved"}
    PROVE  IInv'
<1>1. Only(d) /\ desk'[d].at = "over" /\ desk'[d].row = "none"
  BY FailEffect DEF IInv
<1>2. TypeOK' /\ CallsOK'
  BY <1>1, FailKeepsCalls DEF IInv, TypeOK, Only
<1>3. AdminOK'
  BY <1>1 DEF IInv, AdminOK, AdminInv, PoolsKept, Inserted, Only, Stored
<1>4. CloneInv' /\ GoneInv'
  BY <1>1 DEF IInv, MachinesOK, CloneInv, GoneInv, Only
<1>5. MachinesOwned'
  <2>1. Inserted(d) => vm[desk[d].vmid] \notin {"cloning", "ready"}
    BY DEF IInv, CallsOK, CallInv, MachinesOK, CloneInv, Inserted
  <2>2. QED
    BY <1>1, <2>1 DEF IInv, MachinesOK, MachinesOwned, Inserted, Only, Stored
<1>6. QED
  BY <1>2, <1>3, <1>4, <1>5 DEF IInv, MachinesOK

\* A call that keeps its number goes on, or ends with its row as it was or in error.
LEMMA OnwardStep ==
    ASSUME IInv, NEW d \in Desktops, UNCHANGED <<pool, vm, cas, req>>,
           TypeOK', CallsOK', Only(d),
           desk'[d].pool = desk[d].pool, desk'[d].vmid = desk[d].vmid,
           Inserted(d)' <=> Inserted(d),
           desk'[d].at \notin {"reserved", "dispatched"},
           desk'[d].at = "cloning" => desk'[d].row # "none" /\ desk[d].at \in {"dispatched", "cloning"},
           desk[d].at \in {"over", "cloning", "booting"} =>
               desk'[d].at \in {"over", "cloning", "booting"}
    PROVE  IInv'
<1>1. AdminOK'
  BY DEF IInv, AdminOK, AdminInv, PoolsKept, Inserted, Only, Stored
<1>2. CloneInv'
  BY DEF IInv, MachinesOK, CloneInv, Only
<1>3. GoneInv'
  BY DEF IInv, MachinesOK, GoneInv, Only, AdminOK, AdminInv, Inserted
<1>4. MachinesOwned'
  BY DEF IInv, MachinesOK, MachinesOwned, Inserted, Only, Stored
<1>5. QED
  BY <1>1, <1>2, <1>3, <1>4 DEF IInv, MachinesOK

LEMMA ProvisionStep ==
    ASSUME IInv, NEW d \in Desktops, Provision(d)
    PROVE  IInv'
<1> USE DEF CallState, RowStatus
<1>0. TypeOK' /\ CallsOK' /\ UNCHANGED <<pool, cas, req>>
  BY ProvisionKeepsCalls
     DEF IInv, Provision, ProvisionBegins, AllocateVmid, Reserve, CloneDispatched, CloneRefused,
         CloneRecorded, CloneEnds, ProvisionEnds
<1>1. CASE ProvisionBegins(d)
  <2>1. CASE Call(d, "begun")
    BY <1>0, <1>1, <2>1, CallEffect, OnwardStep DEF IInv, ProvisionBegins, Inserted
  <2>2. CASE CallFails(d)
    BY <1>1, <2>2, FailStep DEF ProvisionBegins
  <2>3. QED
    BY <1>1, <2>1, <2>2 DEF ProvisionBegins
<1>2. CASE AllocateVmid(d)
  <2>1. CASE CallFails(d)
    BY <1>2, <2>1, FailStep DEF AllocateVmid
  <2>2. CASE ~ CallFails(d)
    <3> DEFINE v == Min(Unused(desk[d].pool))
    <3>1. desk[d].at = "begun" /\ desk[d].row = "none" /\ UNCHANGED vm
      BY <1>2 DEF AllocateVmid, IInv, CallsOK, CallInv
    <3>2. desk' = [desk EXCEPT ![d].at = "chosen", ![d].vmid = v]
      BY <1>2, <2>2 DEF AllocateVmid
    <3> HIDE DEF v
    <3>3. /\ \A e \in Desktops \ {d} : desk'[e] = desk[e]
          /\ desk'[d].at = "chosen" /\ desk'[d].row = "none"
      BY <3>1, <3>2 DEF IInv, TypeOK, Desktop
    <3>4. AdminOK'
      BY <1>0, <3>1, <3>3 DEF IInv, AdminOK, AdminInv, PoolsKept, Inserted, Stored
    <3>5. MachinesOK'
      BY <1>0, <3>1, <3>3
         DEF IInv, MachinesOK, CloneInv, GoneInv, MachinesOwned, Inserted, Stored
    <3>6. QED
      BY <1>0, <3>4, <3>5 DEF IInv
  <2>3. QED
    BY <2>1, <2>2
<1>3. CASE Reserve(d)
  <2>1. CASE Violates(d)
    BY <1>3, <2>1, FailStep DEF Reserve
  <2>2. CASE ~ Violates(d)
    <3>1. desk[d].at = "chosen" /\ desk[d].row = "none" /\ UNCHANGED vm
      BY <1>3 DEF Reserve, IInv, CallsOK, CallInv
    <3>2. /\ Only(d)
          /\ desk'[d].at = "reserved" /\ desk'[d].pool = desk[d].pool
          /\ desk'[d].vmid = desk[d].vmid /\ desk'[d].row = "none"
      BY <1>3, <2>2, <3>1, CallEffect DEF Reserve, IInv
    <3>3. Stored(desk[d].pool) /\ \A e \in Desktops : Inserted(e) => desk[e].vmid # desk[d].vmid
      BY <1>3, <2>2, <3>1 DEF Reserve, Violates, Waits, Inserted
    <3>4. AdminOK'
      BY <1>0, <3>1, <3>2, <3>3 DEF IInv, AdminOK, AdminInv, PoolsKept, Inserted, Only, Stored
    <3>5. desk[d].vmid \in VMIDs /\ vm[desk[d].vmid] \notin {"cloning", "ready"}
      BY <3>1, <3>3 DEF IInv, CallsOK, CallInv, MachinesOK, MachinesOwned
    <3>6. CloneInv' /\ GoneInv'
      BY <1>0, <3>1, <3>2, <3>5 DEF IInv, MachinesOK, CloneInv, GoneInv, Only
    <3>7. MachinesOwned'
      BY <1>0, <3>1, <3>2 DEF IInv, MachinesOK, MachinesOwned, Inserted, Only, Stored
    <3>8. QED
      BY <1>0, <3>4, <3>6, <3>7 DEF IInv, MachinesOK
  <2>3. QED
    BY <2>1, <2>2
<1>4. CASE CloneDispatched(d)
  <2> DEFINE v == desk[d].vmid
  <2>1. /\ desk[d].at = "reserved" /\ v \in VMIDs /\ vm[v] = "none"
        /\ vm' = [vm EXCEPT ![v] = "cloning"]
    BY <1>4 DEF CloneDispatched, IInv, CallsOK, CallInv
  <2>2. /\ Only(d)
        /\ desk'[d].at = "dispatched" /\ desk'[d].pool = desk[d].pool
        /\ desk'[d].vmid = desk[d].vmid /\ desk'[d].row = desk[d].row
    BY <1>4, CallEffect DEF CloneDispatched, IInv
  <2>3. \A e \in Desktops \ {d} : Inserted(e) => desk[e].vmid # v
    BY <2>1 DEF IInv, CallsOK, NumbersUnique, Inserted
  <2>4. AdminOK'
    BY <1>0, <2>1, <2>2 DEF IInv, AdminOK, AdminInv, PoolsKept, Inserted, Only, Stored
  <2>5. \A e \in Desktops \ {d} : desk[e].at = "cloning" => Inserted(e)
    BY DEF IInv, MachinesOK, CloneInv, Inserted
  <2>6. CloneInv'
    BY <1>0, <2>1, <2>2, <2>3, <2>5
       DEF IInv, TypeOK, CallsOK, CallInv, MachinesOK, CloneInv, Inserted, Only
  <2>7. GoneInv'
    BY <1>0, <2>1, <2>2, <2>3
       DEF IInv, TypeOK, CallsOK, CallInv, AdminOK, AdminInv, MachinesOK, GoneInv, Inserted, Only
  <2>8. MachinesOwned'
    BY <1>0, <2>1, <2>2
       DEF IInv, TypeOK, AdminOK, PoolsKept, MachinesOK, MachinesOwned, Inserted, Only, Stored
  <2>9. QED
    BY <1>0, <2>4, <2>6, <2>7, <2>8 DEF IInv, MachinesOK
<1>5. CASE CloneRefused(d)
  BY <1>0, <1>5, OverEffect, OnwardStep DEF IInv, CloneRefused, Inserted
<1>6. CASE CloneRecorded(d)
  <2>1. /\ Only(d)
        /\ desk'[d].at = "cloning" /\ desk'[d].pool = desk[d].pool
        /\ desk'[d].vmid = desk[d].vmid /\ desk'[d].row = "provisioning"
    BY <1>6, RecordedEffect DEF IInv
  <2>2. QED
    BY <1>0, <1>6, <2>1, OnwardStep DEF CloneRecorded, Inserted
<1>7. CASE CloneEnds(d)
  <2> DEFINE v == desk[d].vmid
  <2>1. /\ desk[d].at = "cloning" /\ desk[d].row # "none" /\ v \in VMIDs
        /\ vm[v] = "cloning" /\ Inserted(d)
    BY <1>7 DEF CloneEnds, IInv, CallsOK, CallInv, MachinesOK, CloneInv, Inserted
  <2>2. PICK state \in {"ready", "none"} : vm' = [vm EXCEPT ![v] = state]
    BY <1>7 DEF CloneEnds
  <2>3. /\ Only(d)
        /\ desk'[d].at \in {"over", "booting"} /\ desk'[d].pool = desk[d].pool
        /\ desk'[d].vmid = desk[d].vmid /\ desk'[d].row # "none"
    BY <1>7, <2>1, CallEffect, OverEffect DEF CloneEnds, IInv
  <2>4. \A e \in Desktops \ {d} : Inserted(e) => desk[e].vmid # v
    BY <2>1 DEF IInv, CallsOK, NumbersUnique
  <2>5. AdminOK'
    BY <1>0, <2>1, <2>3 DEF IInv, AdminOK, AdminInv, PoolsKept, Inserted, Only, Stored
  <2>6. \A e \in Desktops \ {d} : desk[e].at = "cloning" => Inserted(e)
    BY DEF IInv, MachinesOK, CloneInv, Inserted
  <2>7. CloneInv'
    BY <1>0, <2>1, <2>2, <2>3, <2>4, <2>6
       DEF IInv, TypeOK, CallsOK, CallInv, MachinesOK, CloneInv, Inserted, Only
  <2>8. GoneInv'
    BY <1>0, <2>1, <2>2, <2>3, <2>4
       DEF IInv, TypeOK, CallsOK, CallInv, AdminOK, AdminInv, MachinesOK, GoneInv, Inserted, Only
  <2>9. MachinesOwned'
    BY <1>0, <2>1, <2>2, <2>3
       DEF IInv, TypeOK, AdminOK, PoolsKept, MachinesOK, MachinesOwned, Inserted, Only, Stored
  <2>10. QED
    BY <1>0, <2>5, <2>7, <2>8, <2>9 DEF IInv, MachinesOK
<1>8. CASE ProvisionEnds(d)
  <2>1. PICK row \in RowStatus : /\ CallOver(d, row)
                                 /\ row = "none" <=> desk[d].row = "none"
    BY <1>8 DEF ProvisionEnds
  <2>2. QED
    BY <1>0, <1>8, <2>1, OverEffect, OnwardStep DEF IInv, ProvisionEnds, Inserted
<1>9. QED
  BY <1>1, <1>2, <1>3, <1>4, <1>5, <1>6, <1>7, <1>8 DEF Provision

LEMMA DiesStep ==
    ASSUME IInv, NEW d \in Desktops, CallDies(d)
    PROVE  IInv'
<1>1. CASE desk[d].at = "booting"
  <2>1. /\ CallOver(d, desk[d].row) /\ UNCHANGED <<pool, vm, cas, req>>
        /\ desk[d].row \in RowStatus /\ desk[d].pool \in Pools /\ desk[d].vmid \in VMIDs
        /\ desk[d].row = "none" \/ Inserted(d)
    BY <1>1 DEF CallDies, IInv, TypeOK, Desktop, CallsOK, CallInv, Inserted
  <2>2. TypeOK' /\ CallsOK'
    BY <2>1, OverEffect, OverKeepsCalls DEF IInv, TypeOK, Only
  <2>3. QED
    BY <1>1, <2>1, <2>2, OverEffect, OnwardStep DEF IInv, Inserted
<1>2. CASE desk[d].at # "booting"
  <2>1. desk[d].at \in {"asked", "begun", "chosen", "reserved"}
    BY <1>2 DEF CallDies, IInv, TypeOK, Desktop, CallState
  <2>2. QED
    BY <1>2, <2>1, FailStep DEF CallDies
<1>3. QED
  BY <1>1, <1>2

\* The calls that a request or the worker asks for are free ones.
LEMMA AskedFresh ==
    ASSUME NEW p \in Pools,
           (\E count \in 1 .. MaxCount : ProvisionAccepted(p, count)) \/ WorkerPicks(p)
    PROVE  \E D \in SUBSET Fresh, by \in {"worker", "request"} :
              Ask(D, p, by) /\ UNCHANGED <<pool, vm, cas, req>>
<1>1. CASE \E count \in 1 .. MaxCount : ProvisionAccepted(p, count)
  <2>1. PICK count \in 1 .. MaxCount : ProvisionAccepted(p, count)
    BY <1>1
  <2>2. IsFiniteSet(Fresh) /\ Cardinality(Fresh) \in Nat
    BY DesktopsAssumption, FS_Subset, FS_CardinalityType DEF Fresh
  <2>3. count \in Nat /\ count <= Cardinality(Fresh)
    BY <2>1, <2>2, SizesAssumption DEF ProvisionAccepted
  <2>4. \E D \in SUBSET Fresh : Cardinality(D) = count
    BY <2>2, <2>3, SubsetOfSize
  <2>5. QED
    BY <2>1, <2>4 DEF ProvisionAccepted
<1>2. CASE WorkerPicks(p)
  BY <1>2 DEF WorkerPicks
<1>3. QED
  BY <1>1, <1>2

LEMMA AskStep ==
    ASSUME IInv, NEW p \in Pools,
           (\E count \in 1 .. MaxCount : ProvisionAccepted(p, count)) \/ WorkerPicks(p)
    PROVE  IInv'
<1>1. PICK D \in SUBSET Fresh, by \in {"worker", "request"} :
         Ask(D, p, by) /\ UNCHANGED <<pool, vm, cas, req>>
  BY AskedFresh
<1>2. Asked(D, p)
  BY <1>1, AskEffect DEF IInv
<1>3. CallsOK'
  BY <1>2, AskKeepsCalls DEF IInv
<1>4. /\ TypeOK'
      /\ \A d \in Desktops \ D : desk'[d] = desk[d]
      /\ \A d \in D : desk'[d].at = "asked" /\ desk'[d].row = "none" /\ desk'[d].pool = p
  BY <1>1, <1>2 DEF IInv, TypeOK, Asked
<1>5. \A d \in D : d \in Desktops /\ ~ Inserted(d) /\ \A c \in Cascades : cas[c].step[d] = "none"
  BY DEF Fresh, Inserted
<1>6. AdminOK'
  BY <1>1, <1>4, <1>5 DEF IInv, AdminOK, AdminInv, PoolsKept, Inserted, Stored
<1>7. MachinesOK'
  BY <1>1, <1>4, <1>5 DEF IInv, MachinesOK, CloneInv, GoneInv, MachinesOwned, Inserted, Stored
<1>8. QED
  BY <1>3, <1>4, <1>6, <1>7 DEF IInv

LEMMA UserStep ==
    ASSUME IInv, NEW d \in Desktops, DesktopTaken(d) \/ DesktopReturned(d)
    PROVE  IInv'
<1>1. PICK row \in {"available", "assigned"} :
         desk' = [desk EXCEPT ![d].row = row] /\ UNCHANGED <<pool, vm, cas, req>>
  BY DEF DesktopTaken, DesktopReturned
<1>2. row \in RowStatus /\ desk[d].row # "none" /\ desk[d].at = "over"
  BY DEF RowStatus, DesktopTaken, DesktopReturned, IInv, CallsOK, CallInv
<1>3. TypeOK' /\ CallsOK'
  BY <1>1, <1>2, RowEffect, RowKeepsCalls DEF IInv, TypeOK, Only
<1>4. QED
  BY <1>1, <1>2, <1>3, RowEffect, OnwardStep DEF IInv, Inserted

LEMMA ForeignStep ==
    ASSUME IInv, NEW v \in VMIDs, ForeignMachine(v)
    PROVE  IInv'
<1>1. vm[v] = "none" /\ vm' = [vm EXCEPT ![v] = "foreign"] /\ UNCHANGED <<pool, desk, cas, req>>
  BY DEF ForeignMachine
<1>2. TypeOK'
  BY <1>1 DEF IInv, TypeOK, Machine
<1>3. CallsOK' /\ AdminOK'
  BY <1>1 DEF IInv, CallsOK, CallInv, LockInv, ChoiceHolds, NumbersUnique, AdminOK, AdminInv,
              PoolsKept, Inserted, Stored
<1>4. MachinesOK'
  BY <1>1 DEF IInv, TypeOK, CallsOK, CallInv, MachinesOK, CloneInv, GoneInv, MachinesOwned,
              Inserted, Stored
<1>5. QED
  BY <1>2, <1>3, <1>4 DEF IInv

-----------------------------------------------------------------------------
(***************************************************************************)
(* The theorems.                                                           *)
(***************************************************************************)

LEMMA InitIInv == Init => IInv
<1> SUFFICES ASSUME Init PROVE IInv
  OBVIOUS
<1>1. TypeOK
  BY Constants DEF Init, TypeOK, Machine
<1>2. CallsOK
  BY DEF Init, NoDesktop, CallsOK, CallInv, LockInv, ChoiceHolds, NumbersUnique, Inserted
<1>3. AdminOK
  BY Constants DEF Init, NoDesktop, NoRequest, AdminOK, AdminInv, PoolsKept, Inserted
<1>4. MachinesOK
  BY Constants DEF Init, NoDesktop, MachinesOK, CloneInv, GoneInv, MachinesOwned
<1>5. QED
  BY <1>1, <1>2, <1>3, <1>4 DEF IInv

LEMMA StepIInv == IInv /\ [Next]_vars => IInv'
<1> SUFFICES ASSUME IInv, [Next]_vars PROVE IInv'
  OBVIOUS
<1>1. CASE UNCHANGED vars
  BY <1>1 DEF vars, IInv, TypeOK, CallsOK, CallInv, LockInv, ChoiceHolds, NumbersUnique, AdminOK,
              AdminInv, PoolsKept, MachinesOK, CloneInv, GoneInv, MachinesOwned, Inserted, Stored
<1>2. ASSUME NEW p \in Pools,
             \/ \E range \in Ranges, max \in Sizes : CreateChecks(p, range, max)
             \/ CreateCommits(p)
             \/ \E r \in Requests : DrainReads(r, p) \/ \E max \in Sizes : UpdateReads(r, p, max)
             \/ \E count \in 1 .. MaxCount : ProvisionAccepted(p, count)
             \/ WorkerPicks(p)
             \/ \E c \in Cascades : DeleteReads(c, p)
      PROVE  IInv'
  BY <1>2, CreateStep, RequestStep, AskStep, DeleteStep
<1>3. ASSUME NEW r \in Requests, RequestCommits(r)
      PROVE  IInv'
  BY <1>3, RequestStep
<1>4. ASSUME NEW d \in Desktops, Provision(d) \/ CallDies(d) \/ DesktopTaken(d) \/ DesktopReturned(d)
      PROVE  IInv'
  BY <1>4, ProvisionStep, DiesStep, UserStep
<1>5. ASSUME NEW c \in Cascades, DeleteCommits(c) \/ Cascade(c) \/ CascadeDies(c)
      PROVE  IInv'
  BY <1>5, DeleteStep, DestroyStep, FailedStep, RowStep DEF Cascade
<1>6. ASSUME NEW v \in VMIDs, ForeignMachine(v)
      PROVE  IInv'
  BY <1>6, ForeignStep
<1>7. QED
  BY <1>1, <1>2, <1>3, <1>4, <1>5, <1>6 DEF Next

LEMMA Invariant == Spec => []IInv
BY InitIInv, StepIInv, PTL DEF Spec

\* Every reachable state is well-typed: in particular the allocator never gives a
\* number outside its pool's range (vmid_allocator.py, allocate_vmid).
THEOREM TypeCorrect == Spec => []TypeOK
<1>1. IInv => TypeOK
  BY DEF IInv
<1>2. QED
  BY <1>1, Invariant, PTL

\* The number that allocate_vmid chose under the pool's lock stays free in that pool
\* until the row is inserted, however many calls provision into however many pools.
THEOREM ChoicesHold == Spec => []ChoiceHolds
<1>1. IInv => ChoiceHolds
  BY DEF IInv, CallsOK
<1>2. QED
  BY <1>1, Invariant, PTL

\* No machine of the broker's is left without a row, or the call that will commit it,
\* in a pool that exists, whatever dies, fails, is deleted and drained meanwhile.
THEOREM MachinesHaveOwners == Spec => []MachinesOwned
<1>1. IInv => MachinesOwned
  BY DEF IInv, MachinesOK
<1>2. QED
  BY <1>1, Invariant, PTL

-----------------------------------------------------------------------------
(***************************************************************************)
(* PoolCapacity implements VmidSpace.                                      *)
(***************************************************************************)

\* A step that gives no desktop another number while it holds one.
NumberKept(d) == Only(d) /\ (Inserted(d) /\ Inserted(d)' => desk'[d].vmid = desk[d].vmid)

LEMMA NumberStep ==
    ASSUME IInv, IInv', NEW d \in Desktops, NumberKept(d)
    PROVE  [Space!Next]_Held
<1>1. \A e \in Desktops \ {d} : Inserted(e)' <=> Inserted(e)
  BY DEF NumberKept, Only, Inserted
<1>2. \A e \in Desktops \ {d} : Held'[e] = Held[e]
  BY <1>1 DEF Held, NumberKept, Only
<1>3. /\ Inserted(d) => desk[d].vmid \in VMIDs
      /\ Inserted(d)' => desk'[d].vmid \in VMIDs
  BY DEF IInv, CallsOK, CallInv, Inserted
<1>4. CASE Inserted(d) /\ ~ Inserted(d)'
  <2>1. Held' = [Held EXCEPT ![d] = 0] /\ Held[d] # 0
    BY <1>2, <1>3, <1>4, Constants DEF Held
  <2>2. QED
    BY <2>1 DEF Space!Next, Space!Release
<1>5. CASE ~ Inserted(d) /\ Inserted(d)'
  <2>1. Held' = [Held EXCEPT ![d] = desk'[d].vmid] /\ Held[d] = 0
    BY <1>2, <1>5 DEF Held
  <2>2. \A e \in Desktops : Held[e] # desk'[d].vmid
    BY <1>1, <1>3, <1>5, Constants DEF IInv, CallsOK, NumbersUnique, Held, NumberKept, Only
  <2>3. QED
    BY <1>3, <1>5, <2>1, <2>2 DEF Space!Next, Space!Claim
<1>6. CASE Inserted(d) <=> Inserted(d)'
  BY <1>2, <1>6 DEF Held, NumberKept
<1>7. QED
  BY <1>4, <1>5, <1>6

\* Every step keeps numbers so, or asks for desktops that hold none yet.
LEMMA NextNumbers ==
    ASSUME IInv, IInv', Next
    PROVE  Held' = Held \/ \E d \in Desktops : NumberKept(d)
<1> USE DEF CallState, RowStatus
<1>1. CASE UNCHANGED desk
  BY <1>1 DEF Held, Inserted
<1>2. ASSUME NEW p \in Pools, NEW D \in SUBSET Fresh, NEW by \in {"worker", "request"}, Ask(D, p, by)
      PROVE  Held' = Held
  <2>1. /\ \A d \in Desktops \ D : desk'[d] = desk[d]
        /\ \A d \in D : desk'[d].at = "asked" /\ desk'[d].row = "none"
    <3>1. Asked(D, p)
      BY <1>2, AskEffect DEF IInv
    <3>2. QED
      BY <3>1 DEF Asked
  <2>2. \A d \in Desktops : /\ Inserted(d)' <=> Inserted(d)
                            /\ Inserted(d) => desk'[d] = desk[d]
    BY <2>1 DEF Fresh, Inserted
  <2>3. QED
    BY <2>2 DEF Held
<1>3. ASSUME NEW d \in Desktops, Provision(d)
      PROVE  NumberKept(d)
  <2>1. CASE CallFails(d)
    BY <2>1, FailEffect DEF IInv, NumberKept, Inserted
  <2>2. CASE \E at \in CallState : Call(d, at)
    BY <2>2, CallEffect DEF IInv, NumberKept
  <2>3. CASE \E row \in RowStatus : CallOver(d, row)
    BY <2>3, OverEffect DEF IInv, NumberKept
  <2>4. CASE AllocateVmid(d) /\ ~ CallFails(d)
    <3> DEFINE v == Min(Unused(desk[d].pool))
    <3>1. desk' = [desk EXCEPT ![d].at = "chosen", ![d].vmid = v] /\ ~ Inserted(d)
      BY <2>4 DEF AllocateVmid, IInv, CallsOK, CallInv, Inserted
    <3> HIDE DEF v
    <3>2. QED
      BY <3>1 DEF IInv, TypeOK, NumberKept, Only
  <2>5. CASE CloneRecorded(d)
    BY <2>5 DEF CloneRecorded, IInv, TypeOK, Desktop, NumberKept, Only
  <2>6. QED
    BY <1>3, <2>1, <2>2, <2>3, <2>4, <2>5
       DEF Provision, ProvisionBegins, AllocateVmid, Reserve, CloneDispatched, CloneRefused,
           CloneEnds, ProvisionEnds
<1>4. ASSUME NEW d \in Desktops, CallDies(d)
      PROVE  NumberKept(d)
  <2>1. desk[d].row \in RowStatus
    BY DEF IInv, TypeOK, Desktop
  <2>2. QED
    BY <1>4, <2>1, FailEffect, OverEffect DEF CallDies, IInv, NumberKept, Inserted
<1>5. ASSUME NEW d \in Desktops, NEW row \in RowStatus, desk' = [desk EXCEPT ![d].row = row]
      PROVE  NumberKept(d)
  BY <1>5, RowEffect DEF IInv, NumberKept
<1>6. ASSUME NEW p \in Pools,
             (\E count \in 1 .. MaxCount : ProvisionAccepted(p, count)) \/ WorkerPicks(p)
      PROVE  Held' = Held
  BY <1>2, <1>6, AskedFresh
<1>7. ASSUME NEW d \in Desktops,
             \/ DesktopTaken(d) \/ DesktopReturned(d)
             \/ \E c \in Cascades : DestroyFails(c, d) \/ DeleteRow(c, d)
      PROVE  NumberKept(d)
  BY <1>5, <1>7 DEF DesktopTaken, DesktopReturned, DestroyFails, DeleteRow
<1>8. QED
  BY <1>1, <1>3, <1>4, <1>6, <1>7
     DEF Next, Cascade, CreateChecks, CreateCommits, DrainReads, UpdateReads, DeleteReads,
         RequestCommits, DeleteCommits, CascadeLists, CascadeEnds, CascadeDies, DestroyReads,
         DestroyMachine, ForeignMachine

\* A number is claimed only while nobody holds it and is given back before the next
\* claim, over all pools, also those whose ranges overlap.
THEOREM SpaceImplemented == Spec => SpaceSpec
<1>1. Init => Space!Init
  BY DEF Init, NoDesktop, Inserted, Held, Space!Init
<1>2. IInv /\ IInv' /\ [Next]_vars => [Space!Next]_Held
  <2>1. UNCHANGED vars => Held' = Held
    BY DEF vars, Held, Inserted
  <2>2. QED
    BY <2>1, NextNumbers, NumberStep
<1>3. QED
  BY <1>1, <1>2, Invariant, PTL DEF Spec, SpaceSpec, Space!Spec

-----------------------------------------------------------------------------
(***************************************************************************)
(* Desktops on offer have machines as long as no pool is deleted twice.    *)
(***************************************************************************)

\* No pool has two deletions under way: asked, or running after the answer.
Deleting(c) == cas[c].at \in {"asked", "running"}
OneCascade ==
    \A b, c \in Cascades : Deleting(b) /\ Deleting(c) /\ cas[b].pool = cas[c].pool => b = c

\* The steps that leave desktops and machines alone.
Administration ==
    \/ \E p \in Pools :
        \/ \E range \in Ranges, max \in Sizes : CreateChecks(p, range, max)
        \/ CreateCommits(p)
        \/ \E r \in Requests : DrainReads(r, p) \/ \E max \in Sizes : UpdateReads(r, p, max)
        \/ \E c \in Cascades : DeleteReads(c, p)
    \/ \E r \in Requests : RequestCommits(r)
    \/ \E c \in Cascades : \/ DeleteCommits(c) \/ CascadeLists(c) \/ CascadeEnds(c) \/ CascadeDies(c)
                            \/ \E d \in Desktops : DestroyReads(c, d)

\* A deletion's step is nobody else's.
LEMMA OtherCascades ==
    ASSUME IInv, NEW c \in Cascades,
           \/ \E p \in Pools : DeleteReads(c, p)
           \/ DeleteCommits(c) \/ CascadeLists(c) \/ CascadeEnds(c) \/ CascadeDies(c)
           \/ \E d \in Desktops : \/ DestroyReads(c, d) \/ DestroyMachine(c, d)
                                   \/ DestroyFails(c, d) \/ DeleteRow(c, d)
    PROVE  \A b \in Cascades \ {c} : cas'[b] = cas[b]
BY DEF DeleteReads, DeleteCommits, CascadeLists, CascadeEnds, CascadeDies, DestroyReads,
       DestroyMachine, DestroyFails, DeleteRow, Step, IInv, TypeOK

LEMMA OneAdminStep ==
    ASSUME IInv, IInv', OneInv, OneCascade, UNCHANGED <<desk, vm>>, Administration
    PROVE  OneInv'
<1>1. ASSUME NEW p \in Pools,
             \/ \E range \in Ranges, max \in Sizes : CreateChecks(p, range, max)
             \/ CreateCommits(p)
      PROVE  OneInv'
  <2>1. ~ Stored(p) /\ cas' = cas /\ \A q \in Pools \ {p} : pool'[q] = pool[q]
    BY <1>1 DEF CreateChecks, CreateCommits, SetStatus, Stored, IInv, TypeOK
  <2>2. \A d \in Desktops : desk[d].row # "none" => desk[d].pool \in Pools \ {p}
    BY <2>1 DEF IInv, CallsOK, CallInv, AdminOK, PoolsKept, Inserted
  <2>3. OffersBacked'
    BY <2>1, <2>2 DEF OneInv, OffersBacked
  <2>4. \A c \in Cascades : cas[c].at \in {"asked", "running"} => cas[c].pool \in Pools \ {p}
    BY <2>1 DEF OneInv, CascadeAlone, Stored, IInv, AdminOK, AdminInv
  <2>5. CascadeAlone'
    BY <2>1, <2>4 DEF OneInv, CascadeAlone
  <2>6. QED
    BY <2>3, <2>5 DEF OneInv
<1>2. ASSUME cas' = cas,
             \A q \in Pools :
                /\ pool'[q].status = "active" => pool[q].status = "active"
                /\ pool[q].status \in {"deleting", "draining"}
                     => pool'[q].status \in {"deleting", "draining"}
      PROVE  OneInv'
  BY <1>2 DEF OneInv, OffersBacked, CascadeAlone, IInv, CallsOK, CallInv, AdminOK, AdminInv
<1>3. ASSUME NEW r \in Requests,
             \/ RequestCommits(r)
             \/ \E p \in Pools : DrainReads(r, p) \/ \E max \in Sizes : UpdateReads(r, p, max)
      PROVE  OneInv'
  BY <1>2, <1>3 DEF RequestCommits, DrainReads, UpdateReads, SetStatus, IInv, TypeOK, PoolRow
<1>4. ASSUME NEW c \in Cascades, NEW p \in Pools, DeleteReads(c, p)
      PROVE  OneInv'
  <2>1. /\ pool' = pool /\ cas'[c].pool = p /\ \A d \in Desktops : cas'[c].step[d] = "none"
        /\ cas'[c].at \in {"asked", "running"} => pool[p].status = "deleting"
    BY <1>4, Constants DEF DeleteReads, IInv, TypeOK, Deletion
  <2>2. QED
    BY <1>4, <2>1, OtherCascades DEF OneInv, OffersBacked, CascadeAlone
<1>5. ASSUME NEW c \in Cascades, DeleteCommits(c)
      PROVE  OneInv'
  <2>1. CASE Stored(cas[c].pool)
    <3>1. /\ cas'[c].pool = cas[c].pool /\ \A d \in Desktops : cas'[c].step[d] = "none"
          /\ pool'[cas[c].pool].status = "deleting"
          /\ \A q \in Pools \ {cas[c].pool} : pool'[q] = pool[q]
      BY <1>5, <2>1 DEF DeleteCommits, SetStatus, IInv, TypeOK, PoolRow, AdminOK, AdminInv, Deletion
    <3>2. QED
      <4>1. OffersBacked'
        BY <3>1 DEF OneInv, OffersBacked, IInv, CallsOK, CallInv
      <4>2. \A b \in Cascades : cas[b].at # "idle" => cas[b].pool \in Pools
        BY DEF IInv, AdminOK, AdminInv
      <4>3. CascadeAlone'
        BY <1>5, <3>1, <4>2, OtherCascades DEF OneInv, CascadeAlone
      <4>4. QED
        BY <4>1, <4>3 DEF OneInv
  <2>2. CASE ~ Stored(cas[c].pool)
    <3>1. pool' = pool /\ cas'[c].at = "idle" /\ \A d \in Desktops : cas'[c].step[d] = "none"
      BY <1>5, <2>2, Constants DEF DeleteCommits, IInv, TypeOK
    <3>2. QED
      BY <1>5, <3>1, OtherCascades DEF OneInv, OffersBacked, CascadeAlone
  <2>3. QED
    BY <2>1, <2>2
<1>6. ASSUME NEW c \in Cascades, CascadeLists(c)
      PROVE  OneInv'
  <2> DEFINE todo == [d \in Desktops |-> IF d \in Rows(cas[c].pool) THEN "todo" ELSE "none"]
             new  == [cas[c] EXCEPT !.at = "running", !.step = todo]
  <2>1. cas[c].at = "asked" /\ pool' = pool
    BY <1>6 DEF CascadeLists
  <2>2. new.pool = cas[c].pool /\ new.step = todo
    BY DEF IInv, TypeOK, Deletion
  <2>3. \A d \in Desktops : todo[d] # "none" => desk[d].pool = cas[c].pool /\ desk[d].row # "none"
    BY DEF Rows
  <2>4. cas' = [cas EXCEPT ![c] = NoCascade] \/ cas' = [cas EXCEPT ![c] = new]
    BY <1>6 DEF CascadeLists
  <2> HIDE DEF todo, new
  <2>5. \/ cas'[c].at = "idle" /\ \A d \in Desktops : cas'[c].step[d] = "none"
        \/ cas'[c].pool = cas[c].pool /\ cas'[c].step = todo
    BY <2>2, <2>4, Constants DEF IInv, TypeOK
  <2>6. QED
    BY <1>6, <2>1, <2>3, <2>5, OtherCascades DEF OneInv, OffersBacked, CascadeAlone
<1>7. ASSUME NEW c \in Cascades, NEW d \in Desktops, DestroyReads(c, d)
      PROVE  OneInv'
  <2>1. PICK step \in {"none", "read"} : Step(c, d, step) /\ pool' = pool /\ cas[c].step[d] = "todo"
    BY <1>7 DEF DestroyReads
  <2>2. /\ cas'[c].at = cas[c].at /\ cas'[c].pool = cas[c].pool
        /\ \A e \in Desktops \ {d} : cas'[c].step[e] = cas[c].step[e]
    BY <2>1, StepEffect DEF IInv
  <2>3. QED
    BY <1>7, <2>1, <2>2, OtherCascades DEF OneInv, OffersBacked, CascadeAlone
<1>8. ASSUME NEW c \in Cascades, CascadeEnds(c) \/ CascadeDies(c)
      PROVE  OneInv'
  <2>1. cas'[c].at = "idle" /\ \A d \in Desktops : cas'[c].step[d] = "none"
    BY <1>8, Constants DEF CascadeEnds, CascadeDies, IInv, TypeOK
  <2>2. \A q \in Pools : pool'[q].status = "active" => pool[q].status = "active"
    BY <1>8 DEF CascadeEnds, CascadeDies, IInv, TypeOK, NoPool
  <2>3. QED
    <3>1. OffersBacked'
      BY <2>2 DEF OneInv, OffersBacked, IInv, CallsOK, CallInv
    <3>2. \A q \in Pools : q # cas[c].pool => pool'[q] = pool[q]
      BY <1>8 DEF CascadeEnds, CascadeDies, IInv, TypeOK
    <3>3. \A b \in Cascades \ {c} : cas'[b] = cas[b]
      BY <1>8, OtherCascades
    <3>4. \A b \in Cascades : cas[b].at # "idle" => cas[b].pool \in Pools
      BY DEF IInv, AdminOK, AdminInv
    <3>5. \A b \in Cascades \ {c} : cas[b].at \in {"asked", "running"} =>
             pool'[cas[b].pool] = pool[cas[b].pool]
      <4>1. CASE CascadeEnds(c)
        BY <3>2, <3>4, <4>1 DEF CascadeEnds, OneCascade, Deleting
      <4>2. CASE CascadeDies(c)
        BY <4>2 DEF CascadeDies
      <4>3. QED
        BY <1>8, <4>1, <4>2
    <3>6. \A b \in Cascades : \/ b \in Cascades \ {c}
                              \/ cas'[b].at = "idle" /\ \A d \in Desktops : cas'[b].step[d] = "none"
      BY <2>1
    <3>7. CascadeAlone'
      BY <3>3, <3>5, <3>6 DEF OneInv, CascadeAlone
    <3>8. QED
      BY <3>1, <3>7 DEF OneInv
<1>9. QED
  BY <1>1, <1>3, <1>4, <1>5, <1>6, <1>7, <1>8 DEF Administration

\* A desktop's own step: the cascade's desktops keep their rows, and what comes on
\* offer has its machine.
LEMMA OneDesktopStep ==
    ASSUME IInv, IInv', OneInv, NEW d \in Desktops, UNCHANGED <<pool, cas>>, Only(d),
           desk[d].at \in {"over", "cloning", "booting"} =>
               desk'[d].pool = desk[d].pool /\ (desk[d].row # "none" => desk'[d].row # "none"),
           desk'[d].row \in {"available", "assigned"} =>
               \/ vm'[desk'[d].vmid] = "ready"
               \/ /\ desk[d].row \in {"available", "assigned"} /\ vm' = vm
                  /\ desk'[d].pool = desk[d].pool /\ desk'[d].vmid = desk[d].vmid,
           \A e \in Desktops \ {d} : desk[e].row \in {"available", "assigned"} =>
               vm'[desk[e].vmid] = vm[desk[e].vmid]
    PROVE  OneInv'
<1>1. OffersBacked'
  BY DEF OneInv, OffersBacked, Only
<1>2. CascadeAlone'
  BY DEF OneInv, CascadeAlone, Only, IInv, AdminOK, AdminInv
<1>3. QED
  BY <1>1, <1>2 DEF OneInv

LEMMA OneProvisionStep ==
    ASSUME IInv, IInv', OneInv, NEW d \in Desktops, Provision(d) \/ CallDies(d)
    PROVE  OneInv'
<1> USE DEF CallState, RowStatus
<1>0. UNCHANGED <<pool, cas>> /\ (desk[d].row \in {"available", "assigned"} => desk[d].at = "over")
  BY DEF Provision, ProvisionBegins, AllocateVmid, Reserve, CloneDispatched, CloneRefused,
         CloneRecorded, CloneEnds, ProvisionEnds, CallDies, IInv, CallsOK, CallInv
<1>1. CASE CallFails(d) /\ UNCHANGED vm /\ desk[d].at \in {"asked", "begun", "chosen", "reserved"}
  BY <1>0, <1>1, FailEffect, OneDesktopStep DEF IInv
<1>2. CASE UNCHANGED vm /\ \E at \in CallState : Call(d, at)
  BY <1>0, <1>2, CallEffect, OneDesktopStep DEF IInv
<1>3. CASE AllocateVmid(d) /\ ~ CallFails(d)
  <2> DEFINE v == Min(Unused(desk[d].pool))
  <2>1. /\ desk' = [desk EXCEPT ![d].at = "chosen", ![d].vmid = v]
        /\ desk[d].at = "begun" /\ desk[d].row = "none" /\ UNCHANGED vm
    BY <1>3 DEF AllocateVmid, IInv, CallsOK, CallInv
  <2> HIDE DEF v
  <2>2. Only(d) /\ desk'[d].row = "none"
    BY <2>1 DEF IInv, TypeOK, Only, Desktop
  <2>3. QED
    BY <1>0, <2>1, <2>2, OneDesktopStep
<1>4. CASE CloneDispatched(d)
  <2>1. /\ Call(d, "dispatched") /\ desk[d].at = "reserved"
        /\ vm' = [vm EXCEPT ![desk[d].vmid] = "cloning"] /\ desk[d].row = "none"
    BY <1>4 DEF CloneDispatched, IInv, CallsOK, CallInv
  <2>2. \A e \in Desktops \ {d} : desk[e].row \in {"available", "assigned"} =>
           vm'[desk[e].vmid] = vm[desk[e].vmid]
    BY <2>1 DEF IInv, TypeOK, CallsOK, CallInv, NumbersUnique, Inserted
  <2>3. QED
    BY <1>0, <2>1, <2>2, CallEffect, OneDesktopStep DEF IInv
<1>5. CASE CloneRefused(d)
  BY <1>0, <1>5, OverEffect, OneDesktopStep DEF CloneRefused, IInv
<1>6. CASE CloneRecorded(d)
  <2>1. /\ Only(d) /\ desk'[d].pool = desk[d].pool /\ desk'[d].row = "provisioning" /\ vm' = vm
    BY <1>6, RecordedEffect DEF CloneRecorded, IInv
  <2>2. QED
    BY <1>0, <2>1, OneDesktopStep
<1>7. CASE CloneEnds(d)
  <2>1. desk[d].at = "cloning" /\ desk[d].row # "none" /\ desk[d].vmid \in VMIDs
    BY <1>7 DEF CloneEnds, IInv, CallsOK, CallInv, MachinesOK, CloneInv
  <2>2. \A e \in Desktops \ {d} : desk[e].row \in {"available", "assigned"} =>
           vm'[desk[e].vmid] = vm[desk[e].vmid]
    BY <1>7, <2>1 DEF CloneEnds, IInv, TypeOK, CallsOK, CallInv, NumbersUnique, Inserted
  <2>3. Only(d) /\ desk'[d].pool = desk[d].pool /\ desk'[d].row \in {desk[d].row, "error"}
    BY <1>7, <2>1, CallEffect, OverEffect DEF CloneEnds, IInv
  <2>4. QED
    BY <1>0, <2>1, <2>2, <2>3, OneDesktopStep
<1>8. CASE ProvisionEnds(d)
  <2>1. PICK row \in {"available", "error"} :
          /\ row = "available" => vm[desk[d].vmid] = "ready"
          /\ CallOver(d, IF desk[d].row = "none" THEN "none" ELSE row)
    BY <1>8 DEF ProvisionEnds
  <2>2. QED
    BY <1>0, <1>8, <2>1, OverEffect, OneDesktopStep DEF ProvisionEnds, IInv
<1>9. CASE CallDies(d) /\ desk[d].at = "booting"
  <2>1. desk[d].row \in RowStatus /\ CallOver(d, desk[d].row) /\ vm' = vm
    BY <1>9 DEF CallDies, IInv, TypeOK, Desktop
  <2>2. QED
    BY <1>0, <1>9, <2>1, OverEffect, OneDesktopStep DEF IInv
<1>10. QED
  <2>1. CallDies(d) /\ desk[d].at # "booting" =>
          desk[d].at \in {"asked", "begun", "chosen", "reserved"}
    BY DEF CallDies, IInv, TypeOK, Desktop
  <2>2. QED
    BY <1>1, <1>2, <1>3, <1>4, <1>5, <1>6, <1>7, <1>8, <1>9, <2>1
       DEF Provision, ProvisionBegins, AllocateVmid, Reserve, CallDies

LEMMA OneDestroyStep ==
    ASSUME IInv, IInv', OneInv, OneCascade, NEW c \in Cascades, NEW d \in Desktops,
           DestroyMachine(c, d) \/ DestroyFails(c, d) \/ DeleteRow(c, d)
    PROVE  OneInv'
<1>1. /\ pool' = pool /\ cas'[c].at = cas[c].at /\ cas'[c].pool = cas[c].pool
      /\ \A e \in Desktops \ {d} : cas'[c].step[e] = cas[c].step[e] /\ desk'[e] = desk[e]
      /\ cas[c].step[d] # "none" /\ desk[d].row # "none"
      /\ desk[d].pool = cas[c].pool /\ cas[c].at = "running"
  <2>1. cas[c].step[d] # "none" /\ pool' = pool
    BY DEF DestroyMachine, DestroyFails, DeleteRow
  <2>2. \A e \in Desktops \ {d} : desk'[e] = desk[e]
    BY DEF DestroyMachine, DestroyFails, DeleteRow, IInv, TypeOK
  <2>3. /\ cas'[c].at = cas[c].at /\ cas'[c].pool = cas[c].pool
        /\ \A e \in Desktops \ {d} : cas'[c].step[e] = cas[c].step[e]
    BY DEF DestroyMachine, DestroyFails, DeleteRow, Step, IInv, TypeOK, Deletion
  <2>4. QED
    BY <2>1, <2>2, <2>3 DEF OneInv, CascadeAlone, IInv, AdminOK, AdminInv
<1>2. pool[desk[d].pool].status # "active"
  BY <1>1 DEF OneInv, CascadeAlone
<1>3. \A b \in Cascades \ {c} : cas'[b] = cas[b] /\ cas[b].step[d] = "none"
  <2>1. \A b \in Cascades \ {c} : cas[b].step[d] # "none" =>
           cas[b].at = "running" /\ cas[b].pool = cas[c].pool
    BY <1>1 DEF OneInv, CascadeAlone, IInv, AdminOK, AdminInv
  <2>2. QED
    BY <1>1, <2>1, OtherCascades DEF OneCascade, Deleting
<1>4. CASE DestroyMachine(c, d)
  <2>1. desk' = desk /\ vm' = [vm EXCEPT ![desk[d].vmid] = "none"]
    BY <1>4 DEF DestroyMachine
  <2>2. OffersBacked'
    BY <1>1, <1>2, <2>1
       DEF OneInv, OffersBacked, IInv, TypeOK, CallsOK, CallInv, NumbersUnique, Inserted
  <2>3. CascadeAlone'
    BY <1>1, <1>3, <2>1 DEF OneInv, CascadeAlone
  <2>4. QED
    BY <2>2, <2>3 DEF OneInv
<1>5. CASE DestroyFails(c, d) \/ DeleteRow(c, d)
  <2>1. vm' = vm /\ desk'[d].row \in {"none", "error"} /\ cas'[c].step[d] = "none"
    BY <1>1, <1>5 DEF DestroyFails, DeleteRow, Step, IInv, TypeOK, Desktop, Deletion
  <2>2. OffersBacked'
    BY <1>1, <2>1 DEF OneInv, OffersBacked
  <2>3. CascadeAlone'
    BY <1>1, <1>3, <2>1 DEF OneInv, CascadeAlone
  <2>4. QED
    BY <2>2, <2>3 DEF OneInv
<1>6. QED
  BY <1>4, <1>5

LEMMA OneStep ==
    ASSUME IInv, IInv', OneInv, OneCascade, [Next]_vars
    PROVE  OneInv'
<1>1. CASE UNCHANGED vars
  BY <1>1 DEF vars, OneInv, OffersBacked, CascadeAlone
<1>2. CASE Administration
  <2>1. UNCHANGED <<desk, vm>>
    BY <1>2 DEF Administration, CreateChecks, CreateCommits, DrainReads, UpdateReads, DeleteReads,
                RequestCommits, DeleteCommits, CascadeLists, CascadeEnds, CascadeDies, DestroyReads
  <2>2. QED
    BY <1>2, <2>1, OneAdminStep
<1>3. ASSUME NEW p \in Pools,
             (\E count \in 1 .. MaxCount : ProvisionAccepted(p, count)) \/ WorkerPicks(p)
      PROVE  OneInv'
  <2>1. PICK D \in SUBSET Fresh, by \in {"worker", "request"} :
           Ask(D, p, by) /\ UNCHANGED <<pool, vm, cas, req>>
    BY <1>3, AskedFresh
  <2>2. Asked(D, p)
    BY <2>1, AskEffect DEF IInv
  <2>3. /\ \A d \in Desktops \ D : desk'[d] = desk[d]
        /\ \A d \in D : desk'[d].at = "asked" /\ desk'[d].row = "none"
    BY <2>2 DEF Asked
  <2>4. OffersBacked'
    BY <2>1, <2>3 DEF OneInv, OffersBacked
  <2>5. CascadeAlone'
    BY <2>1, <2>3 DEF OneInv, CascadeAlone, Fresh
  <2>6. QED
    BY <2>4, <2>5 DEF OneInv
<1>4. ASSUME NEW d \in Desktops, Provision(d) \/ CallDies(d)
      PROVE  OneInv'
  BY <1>4, OneProvisionStep
<1>5. ASSUME NEW d \in Desktops, DesktopTaken(d) \/ DesktopReturned(d)
      PROVE  OneInv'
  <2>1. PICK row \in {"available", "assigned"} :
           desk' = [desk EXCEPT ![d].row = row] /\ UNCHANGED <<pool, vm, cas, req>>
    BY <1>5 DEF DesktopTaken, DesktopReturned
  <2>2. row \in RowStatus /\ desk[d].row \in {"available", "assigned"}
    BY <1>5 DEF RowStatus, DesktopTaken, DesktopReturned
  <2>3. QED
    BY <2>1, <2>2, RowEffect, OneDesktopStep DEF IInv
<1>6. ASSUME NEW c \in Cascades, NEW d \in Desktops,
             DestroyMachine(c, d) \/ DestroyFails(c, d) \/ DeleteRow(c, d)
      PROVE  OneInv'
  BY <1>6, OneDestroyStep
<1>7. ASSUME NEW v \in VMIDs, ForeignMachine(v)
      PROVE  OneInv'
  BY <1>7 DEF ForeignMachine, OneInv, OffersBacked, CascadeAlone, IInv, TypeOK
<1>8. QED
  BY <1>1, <1>2, <1>3, <1>4, <1>5, <1>6, <1>7 DEF Next, Cascade, Administration

\* While no pool is deleted twice at a time, machines and rows agree: what a deletion
\* destroys, or leaves behind in error, is never on offer in an active pool (pools.py's
\* cascade, provision_desktop).
THEOREM AccountedByOneCascade == Spec /\ []OneCascade => []MachinesAccounted
<1>1. Init => OneInv
  BY Constants DEF Init, NoDesktop, OneInv, OffersBacked, CascadeAlone
<1>2. IInv /\ IInv' /\ OneInv /\ OneCascade /\ [Next]_vars => OneInv'
  BY OneStep
<1>3. IInv /\ OneInv => MachinesAccounted
  BY DEF IInv, MachinesOK, OneInv, MachinesAccounted
<1>4. QED
  BY <1>1, <1>2, <1>3, Invariant, PTL DEF Spec

=============================================================================
