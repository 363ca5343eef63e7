---------------------------- MODULE ProviderSync ----------------------------
(***************************************************************************)
(* One hypervisor cluster: its row, and the provider that each broker has  *)
(* built from the row and keeps in memory.  Rotations and deletions change *)
(* the row and the provider of the broker that serves them; every other    *)
(* broker learns of it from its health checker, once it is the elected     *)
(* one.  Pings write their verdict over the status.                        *)
(*                                                                         *)
(* Timestamps are modelled by what is compared: newer[b] says that the row *)
(* was updated after b built its provider.  PostgreSQL stamps an update    *)
(* with the time its transaction began, so each open transaction x keeps   *)
(* in built[x] the brokers that built a provider since it began.           *)
(***************************************************************************)
EXTENDS Naturals, FiniteSets

CONSTANTS
    Brokers,
    Creds,        \* values of the cluster's credentials
    Good,         \* those that the hypervisor accepts
    NoCred,       \* no provider in the cache; a rotation that changes none
    Admins,       \* requests of administrators in progress
    MaxChanges,   \* bound: changes and faults after the registration
    Faults        \* "construct", "crash", "conflict", "maintenance"

ASSUME CredsAssumption == Good \subseteq Creds /\ NoCred \notin Creds
ASSUME BoundAssumption == MaxChanges \in Nat

VARIABLES
    row,      \* the cluster's row
    newer,    \* row.updated_at is later than b's provider_constructed_at, or b has none
    built,    \* by transaction: the brokers whose provider_constructed_at is later than its begin
    cache,    \* app.state.providers of every broker, by the provider's credentials
    boot,     \* the lifespan's start of every broker, with the ping it spawns
    tick,     \* the health checker of every broker
    admin,    \* create_cluster, update_cluster, delete_cluster
    leader,   \* the broker that holds the health checker's lock
    online,   \* the hypervisor answers
    lacking,  \* history: brokers whose provider a deletion took, or nobody could build, and none since
    changes   \* so far (bound)

others == <<leader, online, lacking, changes>>
vars == <<row, newer, built, cache, boot, tick, admin, others>>

\* "absent": before its registration; "gone": deleted for good.
Status   == {"absent", "pending", "active", "offline", "maintenance", "gone"}
Exists   == row.status \notin {"absent", "gone"}
Listed   == row.status \in {"pending", "active", "offline"}

BootAt  == {"down", "loaded", "failed", "spawned", "pinging", "up"}
Up      == [at |-> "up", cred |-> NoCred, prev |-> "absent", dead |-> FALSE]
TickAt  == {"idle", "loaded", "popped", "synced", "pinging"}
NoTick  == [at |-> "idle", cred |-> NoCred, need |-> FALSE, prev |-> "absent", dead |-> FALSE]
AdminAt == {"idle", "registering", "read", "committed", "constructed", "pinging",
            "swapping", "popped"}
NoAdmin(b) == [at |-> "idle", b |-> b, cred |-> NoCred, prev |-> "absent"]
AnyBroker  == CHOOSE b \in Brokers : TRUE

\* The transactions that may update the row; Open: those under way.
Transactions == {"boot", "tick"} \X Brokers \cup {"admin"} \X Admins
Open ==
    {<<"boot", b>> : b \in {c \in Brokers : boot[c].at \in {"loaded", "failed", "pinging"}}}
    \cup {<<"tick", b>> : b \in {c \in Brokers : tick[c].at = "pinging"}}
    \cup {<<"admin", a>> : a \in {d \in Admins : admin[d].at \in {"registering", "read", "pinging"}}}

TypeOK ==
    /\ row \in [status : Status, cred : Creds]
    /\ newer \in [Brokers -> BOOLEAN]
    /\ built \in [Transactions -> SUBSET Brokers]
    /\ cache \in [Brokers -> Creds \cup {NoCred}]
    /\ boot \in [Brokers -> [at : BootAt, cred : Creds \cup {NoCred}, prev : Status, dead : BOOLEAN]]
    /\ tick \in [Brokers -> [at : TickAt, cred : Creds \cup {NoCred}, need : BOOLEAN,
                             prev : Status, dead : BOOLEAN]]
    /\ admin \in [Admins -> [at : AdminAt, b : Brokers, cred : Creds \cup {NoCred}, prev : Status]]
    /\ leader \in Brokers /\ online \in BOOLEAN /\ lacking \subseteq Brokers /\ changes \in 0 .. MaxChanges

Init ==
    /\ row \in [status : {"absent"}, cred : Creds]
    /\ newer = [b \in Brokers |-> TRUE]
    /\ built = [x \in Transactions |-> {}]
    /\ cache = [b \in Brokers |-> NoCred]
    /\ boot = [b \in Brokers |-> Up]
    /\ tick = [b \in Brokers |-> NoTick]
    /\ admin = [a \in Admins |-> NoAdmin(AnyBroker)]
    /\ leader = AnyBroker /\ online = TRUE /\ lacking = {} /\ changes = 0

\* A broker serves requests, and its workers run, once the lifespan's start is through.
Serving(b) == boot[b].at \in {"spawned", "pinging", "up"}
Change     == changes < MaxChanges /\ changes' = changes + 1
Goto(b, state)   == tick' = [tick EXCEPT ![b] = state]
AdminGoto(a, at, cred) ==
    admin' = [admin EXCEPT ![a] = [NoAdmin(admin[a].b) EXCEPT !.at = at, !.cred = cred]]
AdminEnds(a)     == admin' = [admin EXCEPT ![a] = NoAdmin(AnyBroker)]
Boots(b, state)  == boot' = [boot EXCEPT ![b] = state]

Lacks(b)   == lacking' = lacking \cup {b}
Has(b)     == lacking' = lacking \ {b} /\ UNCHANGED <<leader, online, changes>>

\* provider_constructed_at of a broker: set to now, or taken out.
Records(b) ==
    /\ newer' = [newer EXCEPT ![b] = FALSE]
    /\ built' = [x \in Transactions |-> IF x \in Open THEN built[x] \cup {b} ELSE built[x]]

Forgets(b) ==
    /\ newer' = [newer EXCEPT ![b] = TRUE]
    /\ built' = [x \in Transactions |-> built[x] \ {b}]

\* Transaction x commits, with an update of the row or without one.
Commits(x) == built' = [built EXCEPT ![x] = {}]
Stamps(x)  == Commits(x) /\ newer' = [b \in Brokers |-> b \notin built[x]]

\* What a ping of a provider with these credentials answers; an error is as good as FALSE.
Answers(cred) == online /\ cred \in Good

\* A status is written if it differs from the one that x read, whatever the row says by
\* then; if the row is gone by then, the commit raises.
Settles(x, prev, status) ==
    IF prev = status \/ ~ Exists THEN Commits(x) /\ UNCHANGED <<row, newer>>
    ELSE row' = [row EXCEPT !.status = status] /\ Stamps(x)

\* ping_and_update_status.
VerdictOf(ok) == IF ok THEN "active" ELSE "offline"
Verdict(x, prev, ok) == Settles(x, prev, VerdictOf(ok))

\* b's provider is closed: a ping of it that is under way will fail.
Closes(b) ==
    /\ tick' = [tick EXCEPT ![b].dead = @ \/ (tick[b].at = "pinging" /\ cache[b] # NoCred)]
    /\ boot' = [boot EXCEPT ![b].dead = @ \/ (boot[b].at \in {"spawned", "pinging"} /\ cache[b] # NoCred)]

----------------------------------------------------------------------------
(***************************************************************************)
(* create_cluster: the row, then a ping of a provider that is thrown away  *)
(***************************************************************************)
Register(a, b, cred) ==
    /\ admin[a].at = "idle" /\ Serving(b) /\ row.status = "absent"
    /\ row' = [status |-> "pending", cred |-> cred]
    /\ admin' = [admin EXCEPT ![a] = [NoAdmin(b) EXCEPT !.at = "registering", !.cred = cred,
                                                        !.prev = "pending"]]
    /\ UNCHANGED <<newer, built, cache, boot, tick, others>>

Registered(a) ==        \* the status is written over whatever the row says
    /\ admin[a].at = "registering"
    /\ Verdict(<<"admin", a>>, admin[a].prev, Answers(admin[a].cred))
    /\ AdminEnds(a)
    /\ UNCHANGED <<cache, boot, tick, others>>

(***************************************************************************)
(* update_cluster                                                          *)
(***************************************************************************)
UpdateReads(a, b, cred) ==      \* cred = NoCred: no credential changes
    /\ admin[a].at = "idle" /\ Serving(b) /\ Exists /\ cred # row.cred /\ Change
    /\ admin' = [admin EXCEPT ![a] = [NoAdmin(b) EXCEPT !.at = "read", !.cred = cred,
                                                        !.prev = row.status]]
    /\ UNCHANGED <<row, newer, built, cache, boot, tick, leader, online, lacking>>

\* Mutant of UpdateCommits: an update of other fields counts as a rotation.
UpdateCommitsRotation(a) ==
    /\ admin[a].at = "read"
    /\ IF ~ Exists THEN Commits(<<"admin", a>>) /\ UNCHANGED <<row, newer>> /\ AdminEnds(a)
       ELSE /\ Stamps(<<"admin", a>>)
            /\ row' = [status |-> "pending", cred |-> admin[a].cred]
            /\ AdminGoto(a, "committed", NoCred)
    /\ UNCHANGED <<cache, boot, tick, others>>

\* Of the row only what the request changed is written: the status if it read another.
UpdateCommits(a) ==
    /\ admin[a].at = "read"
    /\ IF ~ Exists THEN Commits(<<"admin", a>>) /\ UNCHANGED <<row, newer>> /\ AdminEnds(a)
       ELSE /\ Stamps(<<"admin", a>>)
            /\ IF admin[a].cred = NoCred THEN UNCHANGED row /\ AdminEnds(a)
               ELSE /\ row' = [status |-> IF admin[a].prev = "pending" THEN row.status ELSE "pending",
                               cred |-> admin[a].cred]
                    /\ AdminGoto(a, "committed", NoCred)
    /\ UNCHANGED <<cache, boot, tick, others>>

RotationConstructs(a) ==        \* from the row as it is by now; 400 if it cannot
    /\ admin[a].at = "committed"
    /\ \/ /\ Exists
          /\ AdminGoto(a, "constructed", row.cred)
       \/ (~ Exists \/ "construct" \in Faults) /\ AdminEnds(a)
    /\ UNCHANGED <<row, newer, built, cache, boot, tick, others>>

RotationPings(a) ==
    /\ admin[a].at = "constructed"
    /\ IF Exists THEN admin' = [admin EXCEPT ![a].at = "pinging", ![a].prev = row.status]
       ELSE AdminEnds(a)
    /\ UNCHANGED <<row, newer, built, cache, boot, tick, others>>

\* 502, and the old provider stays, unless active; 500 if the row to write is gone.
RotationPinged(a) ==
    /\ admin[a].at = "pinging"
    /\ LET ok == Answers(admin[a].cred) IN
        /\ Verdict(<<"admin", a>>, admin[a].prev, ok)
        /\ IF ok /\ (Exists \/ admin[a].prev = "active") THEN AdminGoto(a, "swapping", admin[a].cred)
           ELSE AdminEnds(a)
    /\ UNCHANGED <<cache, boot, tick, others>>

RotationSwaps(a) ==             \* provider_constructed_at stays as it is
    LET b == admin[a].b IN
    /\ admin[a].at = "swapping"
    /\ cache' = [cache EXCEPT ![b] = admin[a].cred]
    /\ Closes(b)
    /\ AdminEnds(a)
    /\ Has(b)
    /\ UNCHANGED <<row, newer, built>>

(***************************************************************************)
(* delete_cluster, of a cluster without pools and templates                *)
(***************************************************************************)
DeletePops(a, b) ==             \* and provider_constructed_at stays as it is
    /\ admin[a].at = "idle" /\ Serving(b) /\ Exists /\ Change
    /\ cache' = [cache EXCEPT ![b] = NoCred]
    /\ admin' = [admin EXCEPT ![a] = [NoAdmin(b) EXCEPT !.at = "popped"]]
    /\ Lacks(b)
    /\ UNCHANGED <<row, newer, built, boot, tick, leader, online>>

DeleteCommits(a) ==
    /\ admin[a].at = "popped"
    /\ row' = [row EXCEPT !.status = "gone"]
    /\ AdminEnds(a)
    /\ UNCHANGED <<newer, built, cache, boot, tick, others>>

DeleteConflicts(a) ==           \* a pool was created meanwhile: 500, the row stays
    /\ admin[a].at = "popped" /\ "conflict" \in Faults
    /\ AdminEnds(a)
    /\ UNCHANGED <<row, newer, built, cache, boot, tick, others>>

----------------------------------------------------------------------------
(***************************************************************************)
(* A broker's start: its providers, then a ping of each beside the service *)
(***************************************************************************)
Start(b) ==                     \* the clusters that are not in maintenance
    /\ boot[b].at = "down"
    /\ Boots(b, IF Listed THEN [Up EXCEPT !.at = "loaded", !.cred = row.cred, !.prev = row.status]
                ELSE Up)
    /\ UNCHANGED <<row, newer, built, cache, tick, admin, others>>

BootConstructs(b) ==            \* whatever updated_at says
    /\ boot[b].at = "loaded"
    /\ cache' = [cache EXCEPT ![b] = boot[b].cred]
    /\ newer' = [newer EXCEPT ![b] = FALSE]
    /\ built' = [x \in Transactions |->
                    IF x = <<"boot", b>> THEN {} ELSE IF x \in Open THEN built[x] \cup {b} ELSE built[x]]
    /\ Boots(b, [Up EXCEPT !.at = "spawned", !.cred = boot[b].cred])
    /\ Has(b)
    /\ UNCHANGED <<row, tick, admin>>

BootFails(b) ==                 \* no provider: the cluster is to be marked offline
    /\ boot[b].at = "loaded" /\ "construct" \in Faults /\ Change
    /\ boot' = [boot EXCEPT ![b].at = "failed"]
    /\ Lacks(b)
    /\ UNCHANGED <<row, newer, built, cache, tick, admin, leader, online>>

BootMarks(b) ==                 \* the start fails if the row to mark is gone
    /\ boot[b].at = "failed"
    /\ Settles(<<"boot", b>>, boot[b].prev, "offline")
    /\ Boots(b, IF Exists \/ boot[b].prev = "offline" THEN Up ELSE [Up EXCEPT !.at = "down"])
    /\ UNCHANGED <<cache, tick, admin, others>>

BootPings(b) ==
    /\ boot[b].at = "spawned"
    /\ Boots(b, IF Exists THEN [boot[b] EXCEPT !.at = "pinging", !.prev = row.status] ELSE Up)
    /\ UNCHANGED <<row, newer, built, cache, tick, admin, others>>

BootPinged(b) ==
    /\ boot[b].at = "pinging"
    /\ Verdict(<<"boot", b>>, boot[b].prev, Answers(boot[b].cred) /\ ~ boot[b].dead)
    /\ Boots(b, Up)
    /\ UNCHANGED <<cache, tick, admin, others>>

----------------------------------------------------------------------------
(***************************************************************************)
(* The tick of the health checker that is elected                          *)
(***************************************************************************)
Load(b) ==                      \* the clusters that are not in maintenance
    /\ tick[b].at = "idle" /\ leader = b /\ Serving(b)
    /\ Goto(b, [NoTick EXCEPT !.at = "loaded", !.need = newer[b],
                              !.cred = IF Listed THEN row.cred ELSE NoCred])
    /\ UNCHANGED <<row, newer, built, cache, boot, admin, others>>

\* Mutant of SyncDrops: the provider of a cluster that is gone is kept.
SyncDropsNothing(b) ==
    /\ tick[b].at = "loaded" /\ tick[b].cred = NoCred
    /\ Goto(b, NoTick)
    /\ UNCHANGED <<row, newer, built, cache, boot, admin, others>>

\* Of the providers that are there, those whose clusters were not loaded; with the
\* time of construction.
SyncDrops(b) ==
    /\ tick[b].at = "loaded" /\ tick[b].cred = NoCred
    /\ cache' = [cache EXCEPT ![b] = NoCred]
    /\ IF cache[b] # NoCred THEN Forgets(b) ELSE UNCHANGED <<newer, built>>
    /\ boot' = [boot EXCEPT ![b].dead = @ \/ (boot[b].at \in {"spawned", "pinging"} /\ cache[b] # NoCred)]
    /\ Goto(b, NoTick)
    /\ UNCHANGED <<row, admin, others>>

SyncKeeps(b) ==
    /\ tick[b].at = "loaded" /\ tick[b].cred # NoCred /\ ~ tick[b].need
    /\ Goto(b, [NoTick EXCEPT !.at = "synced"])
    /\ UNCHANGED <<row, newer, built, cache, boot, admin, others>>

SyncPops(b) ==                  \* the time of construction stays as it is
    /\ tick[b].at = "loaded" /\ tick[b].cred # NoCred /\ tick[b].need /\ cache[b] # NoCred
    /\ cache' = [cache EXCEPT ![b] = NoCred]
    /\ boot' = [boot EXCEPT ![b].dead = @ \/ boot[b].at \in {"spawned", "pinging"}]
    /\ Goto(b, [NoTick EXCEPT !.at = "popped", !.cred = tick[b].cred])
    /\ UNCHANGED <<row, newer, built, admin, others>>

Due(b) == \/ tick[b].at = "popped"
          \/ tick[b].at = "loaded" /\ tick[b].cred # NoCred /\ tick[b].need /\ cache[b] = NoCred

\* Mutant of SyncConstructs: the time of construction is not recorded.
SyncConstructsUntimed(b) ==
    /\ Due(b)
    /\ cache' = [cache EXCEPT ![b] = tick[b].cred]
    /\ Goto(b, [NoTick EXCEPT !.at = "synced"])
    /\ Has(b)
    /\ UNCHANGED <<row, newer, built, boot, admin>>

\* From the row as it was loaded; and from now on the row counts as known.
SyncConstructs(b) ==
    /\ Due(b)
    /\ cache' = [cache EXCEPT ![b] = tick[b].cred]
    /\ Records(b)
    /\ Goto(b, [NoTick EXCEPT !.at = "synced"])
    /\ Has(b)
    /\ UNCHANGED <<row, boot, admin>>

SyncFails(b) ==                 \* logged; the next tick tries again
    /\ Due(b) /\ "construct" \in Faults /\ Change /\ Lacks(b)
    /\ Goto(b, [NoTick EXCEPT !.at = "synced"])
    /\ UNCHANGED <<row, newer, built, cache, boot, admin, leader, online>>

PingBegins(b) ==
    /\ tick[b].at = "synced"
    /\ Goto(b, IF cache[b] = NoCred \/ ~ Exists THEN NoTick
               ELSE [NoTick EXCEPT !.at = "pinging", !.cred = cache[b], !.prev = row.status])
    /\ UNCHANGED <<row, newer, built, cache, boot, admin, others>>

\* Mutant of PingEnds: a ping that fails leaves the status alone.
PingEndsIfOk(b) ==
    /\ tick[b].at = "pinging"
    /\ LET ok == Answers(tick[b].cred) /\ ~ tick[b].dead IN
        IF ok THEN Verdict(<<"tick", b>>, tick[b].prev, ok)
        ELSE Commits(<<"tick", b>>) /\ UNCHANGED <<row, newer>>
    /\ Goto(b, NoTick)
    /\ UNCHANGED <<cache, boot, admin, others>>

PingEnds(b) ==                  \* a provider closed meanwhile does not answer
    /\ tick[b].at = "pinging"
    /\ Verdict(<<"tick", b>>, tick[b].prev, Answers(tick[b].cred) /\ ~ tick[b].dead)
    /\ Goto(b, NoTick)
    /\ UNCHANGED <<cache, boot, admin, others>>

----------------------------------------------------------------------------
(***************************************************************************)
(* The surroundings                                                        *)
(***************************************************************************)
Outage ==
    /\ Change
    /\ online' = ~ online
    /\ UNCHANGED <<row, newer, built, cache, boot, tick, admin, leader, lacking>>

Elect(b) ==             \* LeaderElection; a tick that runs goes on
    /\ b # leader /\ Serving(b) /\ Change
    /\ leader' = b
    /\ UNCHANGED <<row, newer, built, cache, boot, tick, admin, online, lacking>>

Maintain ==             \* an administrator's SQL: no endpoint sets this status
    /\ "maintenance" \in Faults /\ Exists /\ Change
    /\ row' = [row EXCEPT !.status = IF @ = "maintenance" THEN "pending" ELSE "maintenance"]
    /\ UNCHANGED <<newer, built, cache, boot, tick, admin, leader, online, lacking>>

\* Of the broker's memory nothing is left, and its transactions are rolled back.
Crash(b) ==
    /\ "crash" \in Faults /\ boot[b].at # "down" /\ Change
    /\ Boots(b, [Up EXCEPT !.at = "down"])
    /\ Goto(b, NoTick)
    /\ cache' = [cache EXCEPT ![b] = NoCred]
    /\ newer' = [newer EXCEPT ![b] = TRUE]
    /\ admin' = [a \in Admins |-> IF admin[a].b = b THEN NoAdmin(AnyBroker) ELSE admin[a]]
    /\ LET ended == {<<"boot", b>>, <<"tick", b>>} \cup {<<"admin", a>> : a \in {c \in Admins : admin[c].b = b}}
       IN built' = [x \in Transactions |-> IF x \in ended THEN {} ELSE built[x] \ {b}]
    /\ lacking' = lacking \ {b}
    /\ UNCHANGED <<row, leader, online>>

----------------------------------------------------------------------------
Lifespan(b) ==
    Start(b) \/ BootConstructs(b) \/ BootFails(b) \/ BootMarks(b) \/ BootPings(b) \/ BootPinged(b)

HealthChecker(b) ==
    \/ Load(b) \/ SyncDrops(b) \/ SyncKeeps(b) \/ SyncPops(b)
    \/ SyncConstructs(b) \/ SyncFails(b) \/ PingBegins(b) \/ PingEnds(b)

Handling(a) ==
    \/ Registered(a) \/ UpdateCommits(a) \/ RotationConstructs(a) \/ RotationPings(a)
    \/ RotationPinged(a) \/ RotationSwaps(a) \/ DeleteCommits(a) \/ DeleteConflicts(a)

Next ==
    \/ \E a \in Admins, b \in Brokers :
        \/ \E cred \in Creds : Register(a, b, cred)
        \/ \E cred \in Creds \cup {NoCred} : UpdateReads(a, b, cred)
        \/ DeletePops(a, b)
    \/ \E a \in Admins : Handling(a)
    \/ \E b \in Brokers : Lifespan(b) \/ HealthChecker(b) \/ Elect(b) \/ Crash(b)
    \/ Outage \/ Maintain

Spec == Init /\ [][Next]_vars

\* The workers' loop ticks for ever, a broker is started again, requests end.
Fairness == /\ \A b \in Brokers : WF_vars(Lifespan(b)) /\ WF_vars(HealthChecker(b))
            /\ \A a \in Admins : WF_vars(Handling(a))

FairSpec == Spec /\ Fairness

----------------------------------------------------------------------------
\* No provider of a deleted cluster stays on the elected broker, although a rotation
\* may put one there after the deletion has taken it out.
DeletedForgotten == \A b \in Brokers :
    <>[](leader = b) /\ <>[](row.status = "gone") => <>[](cache[b] = NoCred)

\* health_checker.py:122-123, "cluster.updated_at newer than the broker's construction time":
\* the elected broker comes to a provider built after the row's last update.  It is
\* excused from having one only where a deletion that failed took it out, or where it
\* could not be built: ProviderKept says it is not.
UpdatesSeen == \A b \in Brokers :
    <>[](leader = b /\ Listed) => <>[](newer[b] = FALSE /\ (cache[b] # NoCred \/ b \in lacking))

\* The status settles on what the elected broker's provider can do: a cluster that
\* comes back is active again, one that has gone away is offline.
StatusSettles == \A b \in Brokers :
    <>[](leader = b /\ Listed) =>
        <>[](cache[b] # NoCred => row.status = IF Answers(cache[b]) THEN "active" ELSE "offline")

\* health_checker.py:223, "skip and let next tick retry": an elected broker has a provider
\* for every cluster in service.
ProviderKept == \A b \in Brokers :
    <>[](leader = b /\ Listed) => <>[](cache[b] # NoCred)

\* The elected broker works with the credentials of the row, sooner or later.
RotationArrives == \A b \in Brokers :
    <>[](leader = b /\ Listed) => <>[](cache[b] = row.cred)

\* A ping does not end an administrator's maintenance.
MaintenanceKept == [][row.status = "maintenance" /\ changes' = changes =>
                        row'.status = "maintenance"]_vars

=============================================================================
