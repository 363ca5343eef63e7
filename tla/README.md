# A TLA+ model of OpenVDI

OpenVDI hands virtual desktops on Proxmox VE to users: a FastAPI **broker**
(`broker/app`), a React **portal** (`portal/src`) and an admin **MCP server**
(`mcp/openvdi-admin`), all over one PostgreSQL database. This directory holds
TLA+ modules of the parts whose correctness depends on order and failure, the
TLC runs that check them on small instances, and TLAPS proofs.

## Inventory

| Component | State | Operations | What is hard |
|---|---|---|---|
| Brokering (`services/broker.py`, `api/user.py`) | `desktops`, `sessions` rows; advisory lock per user and pool; row locks | connect, list, tickets | claims held over a VM boot; provisioning inside a connect (persistent pools) |
| Session tracker (`services/session_tracker.py`) | `sessions.status`, `connection_info`, the desktop's assignment | to active, to ended | several callers end one session from copies read earlier |
| Disconnect endpoints (`api/user.py`, `api/sessions.py`) | - | user disconnect, admin force-disconnect | race with each other and with the monitor |
| Session monitor (`workers/session_monitor.py`) | empty-poll streaks per desktop, in memory | tick: power, agent users, logoff, orphans | every poll is an await; streaks survive what happens in between |
| Refresh / delete on logoff (`services/provisioner.py`) | `desktops.status` committed per phase | stop, roll back, start / stop, destroy, delete | stale copies, failures between phases, crash between phases |
| Provisioning (`services/provisioner.py`, `vmid_allocator.py`) | new `desktops` rows, VMIDs, cluster tasks | clone, configure, start, snapshot | VMID races, phase commits, cleanup |
| Task tracking (`services/task_tracker.py`, `workers/task_tracker.py`) | `pve_task_upid`, `pve_task_kind` | poll, complete, two-leg rebuild | results applied to a row that moved on |
| Desktop administration (`api/desktops.py`) | `desktops` rows | power, assign, unassign, rebuild, destroy | check, await, write |
| Pool capacity (`api/pools.py`, `workers/pool_provisioner.py`) | `pools` rows, number of desktops | create, update, provision, drain, delete; top-up worker | count, await, insert; deletion under provisioning |
| Workers (`workers/base.py`) | advisory lock per worker, heartbeat | elect, tick, fail, stop | a leader that lost its lock while ticking |
| Cluster health (`workers/health_checker.py`, `services/cluster_service.py`, `api/clusters.py`) | provider per cluster, ping failures, stuck desktops | sync, ping, stuck sweep, CRUD | a provider replaced while in use; per-broker caches |
| Proxmox provider (`providers/proxmox`) | HTTP client, task handles | operations as tasks, reads, the wait | timeouts, retries of what was done |
| Auth (`api/auth.py`, `services/jwt_service.py`, `middleware/auth.py`) | `auth_tokens` rows, the clients' cookie | login, refresh with rotation, logout, bearer check | two refreshes with one secret; a lost answer |
| Portal authentication (`portal/src/auth`, `api/client.ts`) | the state of a tab, one refresh in flight | first refresh, timer, login, logout, replay after a 401 | tabs share the cookie and nothing else; answers arrive after the state they were asked in |
| Portal console (`pages/ConsolePage.tsx`) | view, session, refs | connect on mount, disconnect, cleanup, retry | effects that depend on state run when it changes |
| MCP server (`mcp/openvdi-admin`) | one token and its lock, the shared refresh | intents of several steps, tools that poll | tools that meet a 401 together; deadlines; plans that stop half way |

How they interact: the portal and the MCP server call the broker over HTTP; API
handlers and workers of every broker share the database and call the hypervisor;
workers elect one leader each through PostgreSQL advisory locks. Nothing else is
shared between brokers, so the database rows and the hypervisor's VMs are the
shared state of every model here.

What makes each part correct: a desktop is used by the user it is assigned to
and by nobody else; a session ends once and releases its desktop; a row never
disappears before its VM (and no VM is left behind); a status that says that work
is in progress is left again; a pool does not exceed its size; one broker runs a
worker; a replaced credential or token is not used.

## Modules

| Module | What it is |
|---|---|
| `FloatingPool` | one non-persistent pool: connect, the disconnect endpoints, the session monitor, refresh / delete on logoff |
| `DesktopLease` | what a non-persistent pool promises; `FloatingPool` implements it |
| `DesktopTasks` | provisioning, the admin API's requests on a desktop, the task tracker, the stuck sweep, with the users' connects reduced to what these see of them |
| `LeaderElection` | one background worker on every broker: election, heartbeat, tick, shutdown |
| `PoolCapacity` | pools over ranges of VMIDs: create, update, drain, delete with its cascade, manual provisioning, the top-up worker, the VMID allocator |
| `VmidSpace` | what the allocator promises: a number is held by one desktop; `PoolCapacity` implements it |
| `ProviderSync` | one cluster: registration, rotation, deletion, and the provider each broker keeps, with the health checker's synchronisation and pings |
| `ProxmoxProvider` | operations on one machine through the HTTP client: retries, tasks, waits |
| `ProviderContract` | what callers rely on when a provider call answers; `ProxmoxProvider` implements it |
| `AuthTokens` | the broker's auth API and the cookie jar its clients keep; used by the next two |
| `Portal` | the tabs of a browser: authentication state, API calls, console page |
| `AgentPlans` | the MCP server: token, client, the intents and the tools that poll |
| `FloatingPoolProofs`, `LeaderElectionProofs`, `PoolCapacityProofs`, `DesktopTasksProofs`, `ProxmoxProviderProofs`, `AuthTokensProofs`, `PortalProofs`, `AgentPlansProofs` | inductive invariants and theorems |
| `MC...` | for TLC: symmetry where it is sound; otherwise the module as it is |

How they compose. `Portal` and `AgentPlans` are each composed with `AuthTokens`:
the first by INSTANCE with a tab's refresh and form as the callers, the second with
the tools and the direct login as callers; every step of a client that sends or
receives an auth request is a joint step of both. `AuthSpec` is the API with callers
that may send anything at any time; both clients are proved to implement it, so what
is proved of the API is not proved again for each. `VmidSpace`, `ProviderContract`
and `DesktopLease` are abstract specifications with a refinement that a run checks.
The others meet in what one promises and another assumes: `LeaderElection` says how
many brokers may run a worker at once, which `FloatingPool` takes as `Monitors`,
`DesktopTasks` as `Trackers` and `PoolCapacity` as its one worker; `ProviderContract`
is what the calls of `FloatingPool`, `DesktopTasks` and `PoolCapacity` assume; the
desktops of `FloatingPool` are provisioned by `DesktopTasks`, and numbered by
`PoolCapacity`. Each has the other's writers only as far as its own properties
need them.

Some operators have a variant above them whose comment begins "Mutant of". It is the
same operator with a mistake in it, and no behaviour uses it: each
property of a run was seen to fail when the variant takes the operator's place,
which shows that the property depends on that code.

### FloatingPool

State and code:

| Variable | Code |
|---|---|
| `desk` | rows of `desktops` of the pool: `status` and `assigned_user` (`assignment_type` is set and cleared together with it in such a pool) |
| `sess` | rows of `sessions`: `status`, `desktop_id` (null after the desktop's deletion), whether `connection_info` is set |
| `req` | a `connect` request: where it is in its transaction, for whom, on which desktop. Session ids are handed out in the order the transactions start, which is `created_at` (`now()` in PostgreSQL) |
| `tx` | a `transition_to_ended` under way: the session and desktop read, and the copy `saw` of the desktop row in the ORM session |
| `mon`, `streak` | the session monitor: the rest of the tick's desktops, the desktop and session at hand, the refresh cycle's copy; `_empty_streaks` |
| `vm` | the hypervisor: power, user logged in to the guest, and who has written to the disk since the snapshot |
| `quiet` | a history variable for one property: empty polls in a row taken of a session |

One action is one stretch of code between two awaits that others can observe.
Three facts of SQLAlchemy and PostgreSQL carry the races, and are modelled:

* An ORM session keeps its copy: `expire_on_commit=False` (`database.py`), and a
  SELECT of a row already in the identity map does not overwrite it. So
  `transition_to_ended` checks the status its caller read, and `refresh_desktop`
  goes on with the row of its step 0. `tx.saw` and `mon.saw` are these copies.
* A flush sends the changed attributes only. `Flush(row, saw, new)` writes an
  attribute exactly when the new value differs from the copy, which is why a
  stale copy overwrites a status in one order and leaves it alone in another.
* The autoflush before `transition_to_ended`'s SELECT of the desktop already
  locks the session row (`EndLock`), and an UPDATE of a desktop row waits for a
  `SELECT ... FOR UPDATE` of a connect (`RowLocked`).

A session in `connecting` is inserted and made active in one transaction and is
never visible. Rejections before the advisory lock (entitlement, pool status,
missing provider) change nothing and are left out.

`DesktopLease` is the promise: a desktop on offer is granted to one session,
which keeps it to itself until it ends, and it is on offer again. The mapping is
`holders` = the active sessions of a desktop, `offered` = the desktops in status
`available`, `past` = the sessions whose row exists.

### DesktopTasks

| Variable | Code |
|---|---|
| `desk` | rows of `desktops`: `status`, whether `assigned_user` is set, `pve_task_upid`, `pve_task_kind`; `absent` and `deleted` are rows that do not exist yet and no more |
| `run` | a call of `provision_desktop`, for a new desktop or, inside a tracker's tick, for the one whose rebuild's first leg is over: where it is, its copy of the row, the clone's UPID |
| `req` | an admin request: power, rebuild, destroy, assign, unassign, with the copy of the row its checks were made on |
| `trk` | a tick of the task tracker: the rows it fetched, the one at hand and the verdict on its task |
| `con` | a connect, and the session it leads to |
| `vm`, `tasks` | the hypervisor: machines, and tasks by UPID. A task takes its machine's lock where Proxmox does, ends in success only on a machine that allows it, and may fail |
| `pool` | whether the pool's status is still `active` |

The race this module is about: the tracker fetches rows, polls each task, and
applies the result to the row as it is by then, in a transaction of its own. A
handler checks the row, stops the machine, waits for it, and records its task from
the copy it checked. Provisioning commits the clone's UPID without a kind while it
waits for it. The sweep turns a row that has been in `provisioning` for ten
minutes into `error`; time is left out, so it may come at any moment when the run
has the fault "slow", and only for rows nobody works on when it has not.

External: the hypervisor (`TaskSucceeds`, `TaskFails`, `Dispatch`), from the way
the code waits for tasks and reads their status; PostgreSQL's row locks; the ORM's
flush, as in `FloatingPool`. The provider answers every call or raises ("provider"
in `Faults`); that a call which raised may have taken effect is in
`ProxmoxProvider`. The broker has a provider for the cluster (see `ProviderSync`),
and `provision_desktop` finds a free VMID (see `PoolCapacity`).

### LeaderElection

| Variable | Code |
|---|---|
| `task` | where the asyncio task of the worker is in `_run_worker`, `_lead` and `_tick_loop` |
| `conn` | the connection that carries the advisory lock: open, or broken without the broker's knowing |
| `lock` | who holds the lock by PostgreSQL's account; `Orphaned` is a session whose client is gone and whose end PostgreSQL has not noticed |
| `faults` | how many faults there were (a bound) |

A connection that drops is found out by its owner at the next heartbeat, and by
PostgreSQL at a moment of its own. A cancelled task runs `_acquire_leader_lock`'s
`finally`, which unlocks. Intervals are left out: a sleep ends at any moment.

### PoolCapacity

| Variable | Code |
|---|---|
| `pool` | rows of `pools`: `status`, the range, `max_size`; `checked` is a creation between its look at the other ranges and its commit |
| `desk` | a call of `provision_desktop`, where it is, and the row of `desktops` it leaves. An inserted row that is not committed is seen by the constraints only |
| `vm` | the hypervisor's machines by VMID, those of others included |
| `cas` | `_delete_pool_shim`, with the step of every desktop it destroys in parallel |
| `req` | an update or drain between its read and its commit, the size it read with it |

All of them read in one transaction and act in another: `ProvisionAccepted` counts
and answers 202, the desktops are inserted by tasks in the background; the worker
picks a pool in one session and provisions in the next; the cascade lists the
desktops once. `AllocateVmid` takes the pool's advisory lock, which ends with the
transaction that inserts the row (`Reserve`). `Violates` and `Waits` are the unique
constraint on `pve_vmid` and the foreign key to `pools`: an insert that meets another
uncommitted one waits for it. The numbers given out refine `VmidSpace` by
`holds` = the VMID of each row that is inserted.

### ProviderSync

| Variable | Code |
|---|---|
| `row`, `newer` | the cluster's row; whether `updated_at` is later than a broker's `provider_constructed_at` |
| `built` | for each open transaction, the brokers whose `provider_constructed_at` is later than its begin |
| `cache` | `app.state.providers` of each broker, by the credentials it was built with |
| `boot` | a broker's start: it builds a provider for the cluster or, at the end, marks it offline; then the ping it spawns beside the service |
| `tick` | the health checker's tick: load, drop, pop, construct, ping |
| `admin` | `create_cluster`, `update_cluster` with its construct, ping and swap, `delete_cluster` |
| `leader`, `online` | who runs the health checker; whether the hypervisor answers |
| `lacking` | history, for one property: brokers whose provider a deletion took out or nobody could build, and none was built since |

Time is modelled by the one comparison the code makes. `updated_at` is the time a
transaction began, so a provider built while the update was open counts as newer
than it: the broker is in the transaction's `built`. A broker that crashes, or that
drops the provider of a cluster it no longer finds, forgets the time with it (`Forgets`,
`Crash`), and builds again whatever the row says. A deletion and a failed
reconstruction take the provider and leave the time: once the row's time is behind it,
no tick builds another. That is why `UpdatesSeen` excuses the brokers in `lacking`, and
what `ProviderKept` (below) says should not be.

### ProxmoxProvider

| Variable | Code |
|---|---|
| `call` | a coroutine: the operation, what its request is for (check, operation, poll), attempts, outer attempts of `destroy_vm`, polls, the reply |
| `vm`, `task` | the machine and its tasks; one runs at a time (Proxmox's lock) |
| `late` | requests that were given up and may still be performed |
| `asked`, `facts`, `outcome` | history, for the contract |

External: what Proxmox refuses and answers, and what its tasks do. A timeout may
mean that a request is lost, performed with its reply lost, or performed later, and
the client sends it again whatever its method. `ProviderContract` is weak on
purpose: what raised may have happened, may happen later, and twice; what answers
has seen what it answers. `ErrorsAreFinal` says why it cannot be stronger.

### AuthTokens, Portal, AgentPlans

| Variable | Code |
|---|---|
| `rows` | `auth_tokens`: the current secret (its hash, in the code), revoked or expired |
| `cookie` | the refresh cookie in the jar the callers share |
| `call` | a caller's auth request, with the cookie it left with, and its answer until that is received or lost |
| `lost` | history: the answer of something that was done was lost |
| `tab`, `api` (Portal) | `AuthState` and whether its access token is refused by now; a `BrokerClient` call |
| `page`, `del`, `ses` (Portal) | the console page's state and refs, the keepalive DELETE, the broker's session |
| `token`, `flight` (AgentPlans) | `_access_token`; `_in_flight_refresh` and whether it refreshes or logs in again |
| `run` (AgentPlans) | a tool: its plan, its step, its request; and what it was promised, for the properties |
| `pool` (AgentPlans) | what tools see of a pool with room for one desktop |

In a tab JavaScript runs to completion, so an action is what runs between two
awaits, with the state updates it makes and the effects and cleanups React then
runs: `SignsIn` and `SignsOut` run the console's cleanup effect, because that depends on the
state object. A call that met a 401 awaits the refresh and nothing else: a login or a
logout meanwhile leaves it waiting, and when the refresh settles it is replayed
(`Replays`), with the token of the state that is rendered by then, old, new or none, or
ends with its 401 (`GivesUp`). The login page is public and shows its form while the
first refresh is under way, so a login can be faster than that refresh, whose failure
then signs the tab out again. A tab has one form request at a time. In the MCP server an action is a stretch between
two awaits of asyncio; a plan is the sequence of an intent's or a tool's requests.
What the broker does for a plan is reduced to the guards and effects the plan can
tell apart; `PoolMoves` is everybody else.

## Runs

Every bound is a constant of its module: `Desktops`, `Users`, `MaxSessions`
(connects in a behaviour), `Enders` (disconnect requests in flight), `Monitors`
(brokers that believe they lead), `Threshold` (3 in the code); `Requests`,
`Provisions`, `Connects`, `Trackers`, `Overlap` (admin requests under way at once),
`MaxTasks`, `MaxCrashes`; `Brokers`, `MaxFaults`; `Pools`, `VMIDs`, `Sizes`,
`MaxCount`, `Cascades`; `Creds`, `Admins`, `MaxChanges`; `Calls`, `Attempts`,
`MaxPolls`, `MaxAsks`; `Tabs`, `MaxRows`, `MaxSecret`; `Agents`, `Deadline`; and
`Faults`, which names the faults that occur. Deadlock is checked in
`LeaderElection`, whose workers never stop. In the others it is not: when a run's
sessions, requests or bounds are used up, or nobody wants anything, the system
rests.

| Run | Instance | Shows |
|---|---|---|
| `fp_races` | 1 desktop, 2 users, 3 sessions, 2 enders and the monitor, refresh on logoff, crashes | types, `AssignmentBacked` under every overlap of the ends of a session, made from stale copies |
| `fp_delete` | 1 desktop, 3 sessions, 1 ender, delete on logoff, failures, crashes, a vanishing VM | `NoForgottenVM`, `ClaimHolds`; the PostgreSQL deadlock of deletion and end occurs |
| `fp_monitor_only` | 2 desktops, 2 sessions, no ender, failing polls, stopping VMs, fairness | `ExclusiveUse`, `NeverStranded`, `LogoffDebounced`, `GhostSessionsEnd`, and the pool implements `DesktopLease`, when only the monitor ends sessions |
| `dt_one_tracker` | 1 desktop, 3 requests one after the other, a provisioning, a connect, one tracker, every fault | types, `VMsAccounted`: no machine without a row |
| `dt_live` | a persistent pool, one each of everything, a crash, every fault, fairness | `WorkEnds`, `TasksFollowed` |
| `le_faults` | 3 brokers, 3 faults of any kind, fairness | `NoLockLeftBehind`, `OneConnectedRunner`, `TickBeginsUnderLock`, `WorkerKeepsRunning` |
| `pc_admin` | a pool of 2 numbers, 3 calls of provision, an update or drain, a deletion at a time, failures and crashes | types, `MachinesAccounted` (no machine without a row, no desktop on offer without a machine), `ChoiceHolds` |
| `pc_spares` | 2 pools that may overlap in one number, 3 rows, others' machines, fairness | numbers are given out as `VmidSpace` has it; `SparesFilled`: the worker tops up every pool |
| `ps_sync` | 2 brokers, 2 requests, a good and a bad credential, 2 changes, elections, crashes and starts, fairness | `DeletedForgotten`, `UpdatesSeen`, `StatusSettles` |
| `px_calls` | 2 coroutines, 8 operations, 2 attempts, 2 polls, a fault, hanging tasks, fairness | `ProviderContract` is implemented; `EveryCallEnds` |
| `pt_tabs` | 2 tabs, one with form and console, one login, 2 secrets, lost answers, refusals, expiry, fairness | `GrantsCurrent`, `CookieCurrent`, `PagesSettle`, `PerformedOnce` |
| `ap_plans` | 2 tools, 2 logins, 2 secrets, 2 polls, lost answers, refusals, expiry, fairness | `OkMeansDone`, `HintNamesPool`, `RefreshHonoured`, `ToolsReturn` |

Why the bounds are enough. In `FloatingPool` the hazards need two ends of one
session and a third party that connects in between (two enders, three sessions on
one desktop), or the monitor between two sessions (two sessions); a second desktop
adds the choice of `ORDER BY pve_vmid` and a user with two. The threshold only has
to be reachable in one poll and in several. In `DesktopTasks` a row names one task
at a time, so three requests in a row, with the clone and the second leg of a
rebuild, have every task that another can follow on a row, each of them read by
the tracker before or after the next one is recorded; `MaxTasks` is as many as these
can start: it never holds a call back. A second desktop would share nothing with the
first. In `LeaderElection` the third broker is the one that waits while two
exchange the lock, and three faults are one for each of them. In `PoolCapacity` two
numbers and three calls are one call more than a pool has numbers, and a pool's
number can be given back and taken again; the second pool is needed only for
overlapping ranges and for the worker's preference. In `ProviderSync` a broker that
serves a request and one that is elected are two, two requests are what overlaps,
and after two changes the system must settle. In `ProxmoxProvider` one fault of one
coroutine, with another that uses the machine meanwhile, has every order of a lost
request and its second performance; the number of attempts only has to be more than
one. In `Portal` a secret is exchanged once, so two secrets are a current one and a
spent one, the second tab is the one that spends it, and the login that is over
leaves its tab at the form; that login also races the first refresh and a logout the next. In `AgentPlans` two tools are the one that refreshes and
the one that joins it or comes too late, and the second login is the one the refresh
falls back to; one pool with one desktop has every answer a plan can get. What is
proved holds without bounds.

What the passing runs leave out, and why it matters: `fp_monitor_only` has no
ender and no refresh, since `ExclusiveUse`, `NeverStranded` and `LogoffDebounced`
fail when a disconnect races the monitor (the stale copies behind `EndsOnce`), and
since a user who connects between the commit of a logoff and the refresh keeps a
session on a desktop in `available`, which the monitor does not watch;
`dt_one_tracker` has one tracker, requests that do not overlap and no crash, since
with two trackers a late result deletes the row of a machine that exists, with three
requests of which two overlap a kind that an earlier task left on the row does the
same (below), and a crash between the clone's dispatch and its commit leaves a
machine without a row; `dt_live` has one request,
since with two the late result of one task takes the other's UPID off the row, which
then stays in `deleting`; `pc_admin` has one cascade, since a second one that a
crash of the first let begin destroys machines made after it listed them;
`pc_spares` has no deletions, which would take away what the worker fills.

Fairness. `FloatingPool`: a request the server has begun goes on, and a monitor's
loop goes on (weak fairness of the handlers and of the tick); the hypervisor and
the guest agent, asked for ever about a desktop, answer for ever (strong fairness,
per desktop, of the polls that succeed). `DesktopTasks`: what a process has begun
goes on, the tracker keeps ticking, the sweep keeps coming, and a task at the
hypervisor ends in one way or the other. `LeaderElection`: the loop of a broker that
is up goes on, and PostgreSQL's keepalive finds a lost client. `PoolCapacity`: the
worker ticks, and calls and background tasks that began go on. `ProviderSync`: the
health checker's loop goes on, a broker that is down is started and its start and its
ping come to an end, requests end.
`ProxmoxProvider`: a request is answered or times out and the event loop runs every
coroutine; no fairness of the tasks, which may hang. `Portal`: a request is answered
or fails, a refresh that waits for the row's lock in the end too (strong fairness, as
PostgreSQL's lock queue is fair), and what waits for an answer then runs.
`AgentPlans`: the same, and asyncio's lock is first come, first served (strong
fairness of a tool that waits for it). Everywhere the code's loops retry for ever at
a fixed interval, and every await on the network has a deadline, which is what
justifies it. Users, administrators, agents and timers owe nothing: nobody has to
connect, log out, make a request or restart a broker.

## Proofs

`FloatingPoolProofs` proves, for every value of the constants under the named
assumptions of `FloatingPool` (a VMID is positive, `NoUser` is not a user, a
request is not a worker, the bounds are numbers):

* `TypeCorrect`: `Spec => []TypeOK`
* `ClaimsHold`: `Spec => []ClaimHolds`
* `AssignmentsBacked`: `Spec => []AssignmentBacked`
* `NoVMForgotten`: `Spec => []NoForgottenVM`

and, with every fault and crash, assuming `SoleEnder` (nobody disconnects through the API,
one broker leads):

* `NoneStranded`: `Spec => []NeverStranded`
* `LogoffsDebounced`: `Spec => []LogoffDebounced`

or `SoleWriter` (besides, nothing is recycled on logoff):

* `UseExclusive`: `Spec => []ExclusiveUse`
* `LeaseImplemented`: `Spec => LeaseSpec`, the refinement of `DesktopLease`

The inductive invariant `IInv` has four parts. `RowsOK` speaks of the rows and
transactions. `AssignmentBacked` is not inductive: a session that backs an
assignment may be about to be ended by somebody whose copy says the desktop is
unassigned, and who will therefore not clear it. `BackedInv` strengthens the
witness: among the sessions that back an assignment there is one that nobody is
about to end from such a copy. It holds because a copy of the row is taken while
the row is assigned, or else before the witness existed; and a witness that does
end clears the row with it. `TxInv` ties an end to the desktop it read;
`EraseInv` says a delete that holds the row's lock shares it with no connect.
`ControlOK` places the monitor. `CycleOK` holds `VMInv`: a delete past the destroy
has a VM that is gone, and a VM that is gone stays gone. The proofs have one lemma
per part and action; `Demotes` sums up what every write to a desktop row other than
a connect's does, and `Calm` what every step of a monitor other than the two that
reach the end of a cycle does.

The other four rest on `EnderInv`, which says what is true when one actor alone ends
sessions. `AtHand`: the desktops a tick has still to visit stay connected, the session the
monitor found stays the latest one of its desktop through all its awaits, and its copy of
the desktop's row stays equal to the row, so that what it writes is `available`. `Counted`:
the streak of a desktop is no longer than the run of empty polls of its latest session, and
0 where the desktop is not connected; it is what fails when somebody else ends the session
between two polls and another user connects. A refresh or delete breaks neither: while the
monitor is in the cycle it ends no session, and the cycle's writes put the desktop in a
status that is not connected. `UseInv` adds what holds when there is no cycle: a desktop on
offer has no session. Each part of each hypothesis is needed for its theorems: with an
ender, or a second monitor, TLC has a counterexample to all four, and with refresh or
delete on logoff to `ExclusiveUse` and `LeaseSpec` (below, and under Runs).

`LeaderElectionProofs` proves, for any set of brokers and any number of faults:

* `TypeCorrect`: `Spec => []TypeOK`
* `LocksReleased`: `Spec => []NoLockLeftBehind`
* `TicksUnderLock`: `Spec => TickBeginsUnderLock`
* `SingleConnectedRunner`: `Spec => []OneConnectedRunner`
* `SingleRunner`: `Spec => []OneRunner`, assuming that no lock connection drops

The invariant relates two views of the election. `LeadersHold`: a broker that leads
on an open connection is the lock's holder. `NoLockLeftBehind`: PostgreSQL
takes a broker for the holder only while it leads on an open connection. Neither is
inductive without the other. `SingleRunner` names what the
deployment's promise depends on: with drops it does not hold (below).

`PoolCapacityProofs` proves, for any pools, ranges, desktops, requests and faults:

* `TypeCorrect`: `Spec => []TypeOK`
* `ChoicesHold`: `Spec => []ChoiceHolds`
* `MachinesHaveOwners`: `Spec => []MachinesOwned`, the half of `MachinesAccounted` that
  says no machine is without a row
* `SpaceImplemented`: `Spec => SpaceSpec`, the refinement of `VmidSpace`
* `AccountedByOneCascade`: `Spec /\ []OneCascade => []MachinesAccounted`, where
  `OneCascade` says that no pool has two deletions under way at a time

A desktop's number passes from the choice under the pool's lock to the row that is
inserted with it and to the machine that is cloned under it; `IInv` follows it.
`LockInv` says that one call per pool is between the two ends, `NumbersUnique` is the
constraint on `pve_vmid`, `PoolsKept` the foreign key, `CloneInv` ties the machine that
is being cloned to its call, and `GoneInv` says what a cascade that destroyed a machine
may rely on until it deletes the row. The second half of `MachinesAccounted`, that a
desktop on offer has a machine, needs the pool's status besides. It is false with two
deletions of one pool: TLC finds the one that read a desktop before the other deleted
it, and then destroys the machine of the desktop that got its number in the meantime.

`DesktopTasksProofs` proves, for any desktops, requests, provisionings and connects:

* `TypeCorrect`: `Spec => []TypeOK`, with any number of trackers and crashes; with it
  goes that a UPID that a row, a request or a tick holds is of a task that exists
* `MachinesInSight`: `Spec /\ []KindsClear => [](crashes = 0 => VMsAccounted)`, with one
  tracker
* `MachinesAlwaysInSight`: `Spec => []VMsAccounted`, with one tracker, one request at a
  time (`Overlap` at most 1) and no crash

The tracker deletes a row when a task of kind destroy has ended well, so `VMsAccounted`
rests on which task a row can name. `KindInv`: where a row, a request or a tick has a
kind that removes the machine, its task is the removal of that machine. `EndedInv`:
while a removal that was carried out waits to be acted upon, the machine is gone, it is
the only one, and it has been acted upon before a clone takes over. `UniqueInv`: a
task that a request has been given is known to nobody else yet. `ReadInv`: a request
that will put a task on the row read it without one. `PlaceInv`, `AloneInv`,
`RunRowInv`, `PresentInv`: until its clone is on record a run has its desktop to
itself, and its copy of the row has no kind. `KindsClear` says that
requests come one at a time or that a row without a UPID has no kind. The second is
what the last commits of `provision_desktop` break, and where neither is the case the
property fails (next section), as it does with two trackers and after a crash: each
hypothesis is one without which TLC has a counterexample.

`ProxmoxProviderProofs` proves, for any number of coroutines, attempts, polls, tasks and
faults (the operations are the provider's, the faults those the client knows):

* `TypeCorrect`: `Spec => []TypeOK`, so neither the retries nor the polls exceed their
  numbers
* `ContractImplemented`: `Spec => ContractSpec`, the refinement of `ProviderContract`
* `CallsGoForward`: `Spec => OnlyForward`: a step of a call ends it or takes it to a later
  state (the stage of the operation, its polls, the attempts, the request), and the steps
  of the others leave it where it is. Together with `TypeCorrect`, which bounds them, no
  call retries, waits or polls for ever; it is the safety half of `EveryCallEnds`

The contract speaks of what was true between a call's start and its answer, the code of
what a reply says. `AskedInv`: what is performed, now or from a request that was given
up, was asked for. `CourseInv` says which request of which operation a call is at.
`HandleInv`: the task a call polls is one of its own operation and still known to the
hypervisor, and if it ended well the call has that among its facts. `SeenInv`: every
answer that reports the machine or the task is among them.

`AuthTokensProofs` proves of the API alone, for any callers that send anything, with
the bounds numbers:

* `AuthInvariant`: `AuthSpec => []AuthInv`
* `SecretsExchangedOnce`: `AuthSpec => GrantsCurrent`
* `JarCurrent`: `AuthSpec => []CookieCurrent`

`CookieCurrent` speaks of a jar at rest. While requests are under way the cookie may be
behind, and `CookieInv` says that then the answer that brings it up to date is on its
way. That this answer is not overtaken by an older one needs `SecretInv`: a new secret
is nowhere but in the answer, so nobody can have it exchanged before it arrives.
`OneLocker` is the row's lock, `StageInv` that the check made when it was taken is good
until the commit, `IssuedInv` that a cookie's secret is one that was issued.

`PortalProofs` proves, for any tabs, forms and consoles:

* `ClientOfTheApi`: `Spec => Api!AuthSpec`
* `TabsExchangeOnce`: `Spec => GrantsCurrent`, `JarOfTabsCurrent`:
  `Spec => []CookieCurrent`, from the two above
* `TypeCorrect`: `Spec => []TypeOK`
* `ClicksPerformedOnce`: `Spec => []PerformedOnce`. Its invariant `TabsInv` says more than
  the property: a request that has not been answered has not been performed, which is
  what a replay after a 401 relies on.

`AgentPlansProofs` proves, for any number of concurrent tools and any deadline:

* `ClientOfTheApi`: `Spec => Api!AuthSpec`
* `TypeCorrect`: `Spec => []TypeOK`
* `OkIsDone`: `Spec => []OkMeansDone`, and `FailureNamesPool`: `Spec => []HintNamesPool`,
  where only the lost answer to the creation itself excuses a failure that names no pool
* `RefreshesHonoured`: `Spec => RefreshHonoured`
* `ToolsGoForward`: `Spec => ToolsOnlyForward`: each step of a tool takes it to a later
  state (the step of the plan, the polls, the stage of the request), and no other tool,
  refresh, expiry or change of the pool sends it back; the safety half of `ToolsReturn`

The properties of the plans speak of a tool that is done. `Sound` says what leads there,
at step `n` of a plan: every promised step before `n` has been performed, nothing else
has, and the pool is known as soon as it is made (`UpTo`, `Named`). That no step is
performed twice then follows because a plan has every step once (`PlanFacts`) and a step
that failed is never gone back to. `RefreshHonoured` needs the other part, `FlightInv`:
one request of the shared task is under way at a time (`OneFlight`), and the secret a
refresh was sent with is the current one unless an answer was lost (`OwnSecret`). The
second stays true because the only other request that can be under way is `get_token`'s
login, whose row is a new one (`FreshLogin`), because nobody logs out (`NoLogout`), and
because whoever gets a 401 has a cookie (`Signed`).

Only model-checked: the types of `ProviderSync`; and everything about liveness
(`GhostSessionsEnd`, `WorkEnds`, `TasksFollowed`, `WorkerKeepsRunning`, `SparesFilled`,
the three of `ProviderSync`, `EveryCallEnds`, `PagesSettle`, `ToolsReturn`), which under
fairness is out of the prover's reach. Of two of them, `EveryCallEnds` and `ToolsReturn`,
the part that needs no fairness is proved (`CallsGoForward`, `ToolsGoForward`): with it
only that a waiting call or tool can move, and is scheduled, rests on TLC. Every other property of a run is stated by a
theorem; six of them under a hypothesis beyond the constants' assumptions
(`SoleEnder`, `SoleWriter`, `OneCascade`, one tracker), each named where the theorem is.

## Stated, and not kept by the code

The modules state these, with the promise they come from. No configuration here
checks them; each fails in TLC on the instance given, in the model as it is.

| Property | What the sources say | What happens | Instance |
|---|---|---|---|
| `FloatingPool!EndsOnce` | `session_tracker.py:109-111`, a race "surfaces a loud error" | two ends pass the `ended` check on rows read without a lock, the later one writes the desktop from a stale copy | 1 desktop, 2 enders, no monitor, no policy |
| `FloatingPool!CleanHandout` | `docs/architecture.md:38`, rolled back or destroyed on logoff | a portal disconnect makes the desktop available at once, no refresh follows | 1 desktop, refresh, 1 ender, 1 monitor |
| `FloatingPool!OneDesktopPerUser` | `docs/api-design.md:236` | a second connect gets a second desktop | 1 user, 2 desktops, 2 sessions |
| `FloatingPool!GoneDesktopLeftAlone` | `session_monitor.py:168-170` | the end of the session puts it back on offer | 1 session, `Faults = {"vmGone"}` |
| `DesktopTasks!ProvisioningLeftAlone` | `db/001_schema.sql:170-172`, `docs/session-tracking.md:276-278` | a clone's UPID is recorded without a kind, and the tracker marks the row failed while it runs | a provisioning, a tracker, no fault |
| `DesktopTasks!SessionsSpared` | `desktops.py:563-564` | a connect while destroy waits for the machine to stop | a request, a connect, no fault |
| `DesktopTasks!SessionsAssigned` | `desktops.py:312` | unassign's count is stale | a persistent pool, 1 request, 1 connect |
| `DesktopTasks!AcceptedRemovalKept` | a 202 of rebuild or destroy | the second leg of a rebuild wipes a destroy's task | 2 requests, 1 tracker, `Overlap = 1` |
| `DesktopTasks!VMsAccounted` | a row outlives its machine | the last commits of provisioning (`provisioner.py:435`, `:446`) clear the UPID and leave the kind; beside it, two requests that overlap write a kind that is not their task's, and the tracker deletes the row of a machine that runs | 3 requests, `Overlap = 2`, 1 tracker, no fault |
| `LeaderElection!OneRunner` | `docs/deploy.md:204`, "exactly one broker runs each worker" | a connection drops during a tick, another broker is elected | 2 brokers, a drop |
| `PoolCapacity!WithinMaxSize` | `max_size` | requests count rows that are inserted later | `pc_admin` |
| `PoolCapacity!DeletingExplained` | `pools.py:487-501`, `deleting` with the failed desktops in `error` | a desktop provisioned during the cascade keeps the row | `pc_admin` |
| `PoolCapacity!SparesKept` | `pool_provisioner.py:5-6` | a neediest pool that cannot be filled is picked at every tick | `pc_spares` |
| `PoolCapacity!ForeignSpared` | - | an error row's number may be that of a machine somebody else made; the cascade destroys it | `Faults` with "foreign" and a cascade |
| `ProviderSync!RotationArrives` | `docs/deploy.md:208-210` | two rotations commit in one order and swap in the other; the timestamps hide it | `ps_sync` |
| `ProviderSync!ProviderKept` | `health_checker.py:223`, "let next tick retry" | a deletion that fails has taken the provider and left its time; or a reconstruction fails, and a transaction begun before the old provider was built then sets `updated_at` back: no tick builds another until the row changes | `ps_sync` |
| `ProviderSync!MaintenanceKept` | `maintenance` | a ping under way writes its verdict over it | `ps_sync` |
| `ProxmoxProvider!ErrorsAreFinal` | what an error suggests | a retried or lost request is performed after the call raised | `px_calls` |
| `Portal!LiveConsoleKept` | `ConsolePage.tsx:97-101`, the DELETE fires when the page unmounts or the tab closes | the cleanup effect depends on the authentication state: a silent refresh fires it | 1 tab, 1 refresh |
| `Portal!ReplayRenewed` | `client.test.ts:271` | the replay reads the token of the state rendered by then | 1 tab |
| `AgentPlans!OneLogin` | `mcp auth.py:113`, `:223` | the shared task logs in without the lock while a tool logs in with it | `ap_plans` |
| `AgentPlans!ProvisionAwaited` | `tools/pools.py:347-348` | 202 comes before any row exists, and the first poll finds nothing in progress | 1 tool |
| `AgentPlans!ResetContinues` | `reset_environment.py:229` | the pool the first run left deleting refuses the drain | 1 tool run twice |

Smaller ones seen on the way, with no property of their own: a network error
raises `ProxmoxError` where `docs/providers/proxmox.md:330` says `ProviderTimeoutError`; SPICE is among the declared
console kinds (`provider.py:104-106`) and raises; of two tabs that refresh at the
same time the loser is signed out; a refresh in flight signs in again after a logout,
and replays what waited for it; a first refresh that fails late signs out a tab that has
logged in meanwhile;
`tools/pools.py:289-290` and `reset_environment.py:150-151` say that delete goes
ahead with sessions, where the broker answers 409.

## Plan

Proofs next: the races that `SoleEnder` and `SoleWriter` leave out, that is, what of
`ExclusiveUse` survives an ender or a policy beside the monitor; the types of
`ProviderSync`.

Models that would come after: connects that provision on demand (persistent pools),
with assign and unassign; and the recycle cycle of `FloatingPool` composed with the
sweep of `DesktopTasks`, for a crash in the middle of a refresh or a delete.

## Not modelled

* Persistent pools' provisioning inside a connect (`broker.py:193-222`): its pieces are
  in `DesktopTasks` (provisioning, a connect to an assigned desktop), their
  composition is not.
* Templates, entitlements, users, dashboard, audit: reads, and writes of one row in
  one transaction whose conflicts the schema's constraints refuse.
* Portal pages other than login and console: views and forms over the API; the cache
  they show is the query library's.
* The MCP server's tools of one call, its diagnoses and health check (reads), the
  smoke test and the reset's templates and clusters; a tool that is cancelled.
* The provider's inventory calls, `agent_exec`, the reading of bodies into records;
  `app/proxmox/client.py`, an older client.
* The cluster's status beside `ProviderSync`: the task tracker, the top-up worker and the
  session monitor pass over the rows of a cluster that is not active, or without a
  provider (`task_tracker.py:78`, `:91-100`, `pool_provisioner.py:172`,
  `session_monitor.py:122-143`). `DesktopTasks`, `PoolCapacity` and `FloatingPool` are of
  a cluster that is active; their liveness holds while it is.
* LDAP beyond its outcomes, signatures, roles, schemas, configuration, crypto,
  migrations, the image build.
* Formats, tickets' contents, telemetry columns, log and audit rows, entitlement
  checks that only reject, and all timing but the order of events.
