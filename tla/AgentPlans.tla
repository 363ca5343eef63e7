----------------------------- MODULE AgentPlans -----------------------------
(***************************************************************************)
(* The MCP server: an agent's tools (intents and long-running operations)  *)
(* over BrokerClient and BrokerAuthClient, with the broker's auth API      *)
(* (AuthTokens) and what the tools see of one pool with room for one       *)
(* desktop.                                                                *)
(*                                                                         *)
(* Tools run concurrently as coroutines of one process and share the       *)
(* access token, the lock, the refresh in flight and the cookie jar.  A    *)
(* tool is a plan: the sequence of requests it makes.  An action is what a *)
(* coroutine does between two awaits.                                      *)
(***************************************************************************)
EXTENDS Naturals, Sequences

CONSTANTS
    Agents,      \* calls of tools, each made once
    NoAgent,
    Deadline,    \* a poll's timeout, in polls
    MaxRows,     \* bound: logins
    MaxSecret,   \* bound: secrets issued for one login
    Faults       \* what may go wrong: those of AuthTokens, and "broker"

ASSUME AgentsAssumption == NoAgent \notin Agents /\ "direct" \notin Agents
ASSUME BoundsAssumption == Deadline \in Nat /\ MaxRows \in Nat /\ MaxSecret \in Nat \ {0}

VARIABLES
    rows, cookie, call, lost,   \* of AuthTokens
    token,    \* _access_token: "none", "live" or "stale"
    flight,   \* _do_refresh_or_login by who started it: "none", "refresh", "relogin"
    run,      \* a tool's call: see Run
    pool      \* of the broker: [status, desk, used]; used: its desktop has a session

\* get_token's login, made under the lock, and the tasks force_new_token creates.
Callers == Agents \cup {"direct"}

INSTANCE AuthTokens

tokens == <<rows, cookie, call, lost>>
vars   == <<tokens, token, flight, run, pool>>

----------------------------------------------------------------------------
(***************************************************************************)
(* The plans                                                               *)
(***************************************************************************)
\* Tools that ask for an operation and then poll for its end.
Provision == <<"provision", "provisioned">>
Drain     == <<"drain", "drained">>
Rebuild   == <<"rebuild", "rebuilt">>

\* Intents, over one pool.
DeployPool == <<"verify", "create", "grant">> \o Provision
ResetEnvironment == <<"list">> \o Drain \o <<"sessions", "disconnect", "delete">>

Plan == [deploy |-> DeployPool, reset |-> ResetEnvironment, rebuild |-> Rebuild]

\* What must have been performed for the plan's answer to be ok.
Promised ==
    [deploy  |-> {"create", "grant", "provision"},
     reset   |-> {"drain", "delete"},
     rebuild |-> {"rebuild"}]

Changes == (UNION {Promised[p] : p \in DOMAIN Plan}) \cup {"disconnect"}

Step(r) == Plan[r.plan][r.n]

NoRun == [plan |-> "deploy", n |-> 1, at |-> "idle", live |-> FALSE, wait |-> NoAgent,
          polls |-> 0, pool |-> FALSE, did |-> {}, twice |-> FALSE, unheard |-> FALSE,
          result |-> "none", hint |-> FALSE]

Run ==
    [plan : DOMAIN Plan, n : 1 .. 6,
     at : {"idle", "ready", "login", "sent", "denied", "joined", "again", "done"},
     live : BOOLEAN,                  \* the token it holds
     wait : Agents \cup {NoAgent},    \* the promise it awaits
     polls : 0 .. Deadline,
     pool : BOOLEAN,                  \* it knows the pool it works on
     did : SUBSET Changes,            \* what the broker performed for it
     twice : BOOLEAN,                 \* and performed again
     unheard : BOOLEAN,               \* the answer to its creation of a pool was lost
     result : {"none", "ok", "failed"}, hint : BOOLEAN]

Pool == [status : {"none", "active", "draining", "deleting"},
         desk : {"none", "accepted", "provisioning", "available", "error"},
         used : BOOLEAN]

TypeOK ==
    /\ AuthTypeOK
    /\ token \in {"none", "live", "stale"}
    /\ flight \in [Agents -> {"none", "refresh", "relogin"}]
    /\ run \in [Agents -> Run]
    /\ pool \in Pool

NoPool == [status |-> "none", desk |-> "none", used |-> FALSE]

Init ==
    /\ AuthInit
    /\ token  = "none"
    /\ flight = [a \in Agents |-> "none"]
    /\ run    = [a \in Agents |-> NoRun]
    /\ pool \in {NoPool, [NoPool EXCEPT !.status = "active", !.desk = "available"]}


Ends(r, result) ==
    [r EXCEPT !.at = "done", !.n = 1, !.live = FALSE, !.polls = 0, !.result = result,
              !.hint = result = "failed" /\ r.plan = "deploy" /\ r.pool]

\* On to step n, or to the end of the plan.
Goes(r, n) ==
    IF n > Len(Plan[r.plan]) THEN Ends(r, "ok")
    ELSE [r EXCEPT !.n = n, !.at = "ready", !.polls = 0]

\* Mutant of Fails: the step swallows the exception and the plan goes on.
FailsSilently(r) == Goes(r, r.n + 1)

\* A BrokerError ends the plan.  Only the intent's force-disconnects ignore it.
Fails(r) == IF Step(r) = "disconnect" THEN Goes(r, r.n + 1) ELSE Ends(r, "failed")

----------------------------------------------------------------------------
(***************************************************************************)
(* BrokerAuthClient                                                        *)
(***************************************************************************)
LockFree == \A a \in Agents : run[a].at # "login"

Sent(r) == [r EXCEPT !.at = "sent", !.live = token = "live"]

Begins(a) ==
    /\ run[a].at = "idle"
    /\ \E p \in DOMAIN Plan : run' = [run EXCEPT ![a] = [@ EXCEPT !.plan = p, !.at = "ready"]]
    /\ UNCHANGED <<tokens, token, flight, pool>>

\* get_token finds one, at once or under the lock, and the request goes out.
Requests(a) ==
    /\ run[a].at = "ready" /\ token # "none"
    /\ run' = [run EXCEPT ![a] = Sent(run[a])]
    /\ UNCHANGED <<tokens, token, flight, pool>>

LogsIn(a) ==
    /\ run[a].at = "ready" /\ token = "none" /\ LockFree
    /\ run' = [run EXCEPT ![a].at = "login"]
    /\ Sends("direct", "login")
    /\ UNCHANGED <<token, flight, pool>>

LoginSettles(a) ==
    /\ run[a].at = "login"
    /\ Receives("direct") \/ Loses("direct")
    /\ IF Granted("direct") /\ cookie' = SetCookie("direct")
       THEN /\ token' = "live"
            /\ run' = [run EXCEPT ![a] = [@ EXCEPT !.at = "sent", !.live = TRUE]]
       ELSE /\ run' = [run EXCEPT ![a] = Fails(run[a])]
            /\ UNCHANGED token
    /\ UNCHANGED <<flight, pool>>

\* The broker refuses the token.
Denied(a) ==
    /\ run[a].at = "sent" /\ ~run[a].live
    /\ run' = [run EXCEPT ![a].at = "denied"]
    /\ UNCHANGED <<tokens, token, flight, pool>>

InFlight == {f \in Agents : flight[f] # "none"}

\* Mutant of ForceNewToken: the task in flight is not joined.
ForceNewTokenAlone(a) ==
    /\ run[a].at = "denied" /\ LockFree
    /\ run' = [run EXCEPT ![a].at = "joined", ![a].wait = a]
    /\ flight' = [flight EXCEPT ![a] = "refresh"] /\ Sends(a, "refresh")
    /\ UNCHANGED <<token, pool>>

\* Under the lock: joins the task in flight, or creates one.
ForceNewToken(a) ==
    /\ run[a].at = "denied" /\ LockFree
    /\ \/ \E f \in InFlight :
            /\ run' = [run EXCEPT ![a] = [@ EXCEPT !.at = "joined", !.wait = f]]
            /\ UNCHANGED <<tokens, flight>>
       \/ /\ InFlight = {}
          /\ run' = [run EXCEPT ![a] = [@ EXCEPT !.at = "joined", !.wait = a]]
          /\ flight' = [flight EXCEPT ![a] = "refresh"] /\ Sends(a, "refresh")
    /\ UNCHANGED <<token, pool>>

\* The task f is done: who awaits it has a token, or an exception.
Resolves(f, ok) ==
    /\ flight' = [flight EXCEPT ![f] = "none"]
    /\ run' = [a \in Agents |->
                 LET r == [run[a] EXCEPT !.wait = NoAgent] IN
                 IF run[a].at # "joined" \/ run[a].wait # f THEN run[a]
                 ELSE IF ok THEN [r EXCEPT !.at = "again", !.live = TRUE]
                 ELSE Fails(r)]

FlightGranted(f) ==
    /\ flight[f] # "none" /\ Granted(f) /\ Receives(f)
    /\ token' = "live" /\ Resolves(f, TRUE)
    /\ UNCHANGED pool

\* _do_refresh_or_login clears the token and logs in, without the lock.
RefreshRefused(f) ==
    /\ flight[f] = "refresh" /\ call[f].reply = "401" /\ Receives(f)
    /\ token' = "none"
    /\ flight' = [flight EXCEPT ![f] = "relogin"]
    /\ UNCHANGED <<run, pool>>

Relogs(f) ==
    /\ flight[f] = "relogin" /\ Sends(f, "login")
    /\ UNCHANGED <<token, flight, run, pool>>

\* The directory is unreachable, the login is refused, or the answer is lost.
FlightFails(f) ==
    /\ flight[f] # "none"
    /\ \/ /\ call[f].reply = "503" \/ (flight[f] = "relogin" /\ call[f].reply = "401")
          /\ Receives(f)
       \/ Loses(f)
    /\ Resolves(f, FALSE)
    /\ UNCHANGED <<token, pool>>

\* The process's token is refused from now on, wherever it is.
AccessExpires ==
    /\ token = "live" /\ token' = "stale"
    /\ run' = [a \in Agents |-> [run[a] EXCEPT !.live = FALSE]]
    /\ UNCHANGED <<tokens, flight, pool>>

----------------------------------------------------------------------------
(***************************************************************************)
(* BrokerClient: the request of a plan's step                              *)
(***************************************************************************)
\* What the broker's handlers ask of the pool.
Can(s) ==
    CASE s = "create"    -> pool.status = "none"
      [] s = "provision" -> pool.status = "active" /\ pool.desk = "none"
      [] s = "drain"     -> pool.status \in {"active", "draining"}
      [] s = "delete"    -> pool.status = "deleting" \/ (pool.status # "none" /\ ~pool.used)
      [] s = "rebuild"   -> pool.desk \in {"available", "error"} /\ ~pool.used
      [] s = "rebuilt"   -> pool.desk \notin {"none", "accepted"}
      [] s \in {"verify", "list", "sessions", "disconnect"} -> TRUE
      [] s \in {"grant", "provisioned", "drained"} -> pool.status # "none"

\* And what they change; the other steps read.
Does(s) ==
    pool' = CASE s = "create"     -> [NoPool EXCEPT !.status = "active"]
              [] s = "provision"  -> [pool EXCEPT !.desk = "accepted"]
              [] s = "drain"      -> [pool EXCEPT !.status = "draining"]
              [] s = "delete"     -> [pool EXCEPT !.status = "deleting"]
              [] s = "rebuild"    -> [pool EXCEPT !.desk = "provisioning"]
              [] s = "disconnect" -> [pool EXCEPT !.used = FALSE]
              [] OTHER            -> pool

Terminal(s) ==
    CASE s = "provisioned" -> pool.desk # "provisioning"
      [] s = "drained"     -> ~pool.used
      [] s = "rebuilt"     -> pool.desk = "available"

Waiting(s) == s \in {"provisioned", "drained", "rebuilt"}

Performing(a) == run[a].at \in {"sent", "again"} /\ run[a].live /\ Can(Step(run[a]))

Did(r) ==
    IF Step(r) \notin Changes THEN r
    ELSE [r EXCEPT !.did = r.did \cup {Step(r)}, !.twice = r.twice \/ Step(r) \in r.did]

\* Mutant of Hears: the new pool's id is not kept.
HearsNoPool(r) ==
    CASE Step(r) = "list" -> IF pool.status = "none" THEN Ends(r, "ok")
                             ELSE Goes([r EXCEPT !.pool = TRUE], r.n + 1)
      [] Step(r) = "sessions" /\ ~pool.used -> Goes(r, r.n + 2)
      [] OTHER -> Goes(r, r.n + 1)

\* The answer to a request that is not a poll.
Hears(r) ==
    CASE Step(r) = "create" -> Goes([r EXCEPT !.pool = TRUE], r.n + 1)
      [] Step(r) = "list"   -> IF pool.status = "none" THEN Ends(r, "ok")
                               ELSE Goes([r EXCEPT !.pool = TRUE], r.n + 1)
      [] Step(r) = "sessions" /\ ~pool.used -> Goes(r, r.n + 2)
      [] OTHER -> Goes(r, r.n + 1)

Answered(a) ==
    /\ Performing(a) /\ ~Waiting(Step(run[a]))
    /\ Does(Step(run[a]))
    /\ run' = [run EXCEPT ![a] = Hears(Did(run[a]))]
    /\ UNCHANGED <<tokens, token, flight>>

\* Mutant of Polled: the deadline is not looked at.
PolledForEver(a) ==
    /\ Performing(a) /\ Waiting(Step(run[a]))
    /\ run' = [run EXCEPT ![a] =
                 IF Terminal(Step(@)) THEN Goes(@, @.n + 1) ELSE [@ EXCEPT !.at = "ready"]]
    /\ UNCHANGED <<tokens, token, flight, pool>>

\* Mutant of Polled: the deadline is looked at a poll late.
PolledOnceMore(a) ==
    /\ Performing(a) /\ Waiting(Step(run[a]))
    /\ \/ run' = [run EXCEPT ![a] = Goes(@, @.n + 1)]
       \/ /\ ~Terminal(Step(run[a])) /\ run[a].polls <= Deadline
          /\ run' = [run EXCEPT ![a].at = "ready", ![a].polls = @ + 1]
    /\ UNCHANGED <<tokens, token, flight, pool>>

\* wait_for_..._terminal_state: until it is terminal, or the deadline has passed;
\* polls that take long are fewer.
Polled(a) ==
    /\ Performing(a) /\ Waiting(Step(run[a]))
    /\ \/ run' = [run EXCEPT ![a] = Goes(run[a], run[a].n + 1)]
       \/ /\ ~Terminal(Step(run[a])) /\ run[a].polls < Deadline
          /\ run' = [run EXCEPT ![a] = [@ EXCEPT !.at = "ready", !.polls = run[a].polls + 1]]
    /\ UNCHANGED <<tokens, token, flight, pool>>

\* A conflict, a 404, a provider error; or the replay's token is refused as well.
Refused(a) ==
    /\ \/ run[a].at \in {"sent", "again"} /\ run[a].live
          /\ (~Can(Step(run[a])) \/ "broker" \in Faults)
       \/ run[a].at = "again" /\ ~run[a].live
    /\ run' = [run EXCEPT ![a] = Fails(run[a])]
    /\ UNCHANGED <<tokens, token, flight, pool>>

\* The broker did it, and the tool meets an exception.
Misses(r) == Fails([Did(r) EXCEPT !.unheard = Step(r) = "create"])

\* A network error, after the broker performed the request; before it is as Refused.
Unheard(a) ==
    /\ "lost" \in Faults /\ Performing(a)
    /\ Does(Step(run[a]))
    /\ run' = [run EXCEPT ![a] = Misses(run[a])]
    /\ UNCHANGED <<tokens, token, flight>>

----------------------------------------------------------------------------
(***************************************************************************)
(* The pool meanwhile: the provisioning of what was accepted, the top-up   *)
(* worker, users, and the deletion cascade                                 *)
(***************************************************************************)
PoolMoves ==
    /\ \/ /\ pool.status = "active" /\ pool.desk \in {"none", "accepted"}
          /\ pool' = [pool EXCEPT !.desk = "provisioning"]
       \/ /\ pool.status # "active" /\ pool.desk = "accepted"
          /\ pool' = [pool EXCEPT !.desk = "none"]
       \/ /\ pool.desk = "provisioning"
          /\ \E d \in {"available", "error"} : pool' = [pool EXCEPT !.desk = d]
       \/ /\ pool.status = "active" /\ pool.desk = "available" /\ ~pool.used
          /\ pool' = [pool EXCEPT !.used = TRUE]
       \/ pool.used /\ pool' = [pool EXCEPT !.used = FALSE]
       \/ pool.status = "deleting" /\ pool' = NoPool
    /\ UNCHANGED <<tokens, token, flight, run>>

BrokerAuth(c) == Handles(c) /\ UNCHANGED <<token, flight, run, pool>>

\* 24 hours without a refresh, of which the access token lasted 15 minutes, and in
\* which no tool was called.
LoginExpires(r) ==
    /\ token = "stale" /\ \A a \in Agents : run[a].at \in {"idle", "done"}
    /\ RowExpires(r)
    /\ UNCHANGED <<token, flight, run, pool>>

Tool(a) ==
    \/ Requests(a) \/ LogsIn(a) \/ LoginSettles(a) \/ Denied(a) \/ ForceNewToken(a)
    \/ Answered(a) \/ Polled(a) \/ Refused(a) \/ Unheard(a)

Flight(f) == FlightGranted(f) \/ RefreshRefused(f) \/ Relogs(f) \/ FlightFails(f)

Next ==
    \/ \E a \in Agents : Begins(a) \/ Tool(a) \/ Flight(a)
    \/ \E c \in Callers : BrokerAuth(c)
    \/ AccessExpires
    \/ \E r \in Rows : LoginExpires(r)
    \/ PoolMoves

Spec == Init /\ [][Next]_vars

\* A request is answered or fails within its timeout, and the event loop runs what
\* can run; asyncio's lock is first come, first served.  Nothing else has to happen.
FairSpec ==
    /\ Spec
    /\ \A a \in Agents : SF_vars(Tool(a)) /\ WF_vars(Flight(a))
    /\ \A c \in Callers : WF_vars(BrokerAuth(c))

----------------------------------------------------------------------------
(***************************************************************************)
(* Properties                                                              *)
(***************************************************************************)

\* A tool that says ok has had each change it promises performed, and no
\* tool has one performed twice: neither the replay after a 401 nor a lost
\* answer repeats a request the broker had performed.
OkMeansDone ==
    \A a \in Agents :
        /\ ~run[a].twice
        /\ run[a].result = "ok" /\ (run[a].plan = "reset" => run[a].pool) =>
             Promised[run[a].plan] \subseteq run[a].did

\* deploy_pool.py:58-61: a deployment that fails with its pool made names the
\* delete_pool that cleans up, unless the answer to the creation was lost: then
\* nobody told it the pool's id.  Whatever is lost or refused later does not excuse it.
HintNamesPool ==
    \A a \in Agents :
        run[a].result = "failed" /\ "create" \in run[a].did =>
            run[a].hint \/ run[a].unheard

\* The broker accepts a refresh of the server's own cookie: tools that meet a
\* 401 together share one refresh, so none of them spends the secret of another.
\* Only a login that is over, or a lost answer, sends it back to the password.
RefreshHonoured ==
    [][\A f \in Agents :
          At(f, "sent", "refresh") /\ call'[f].reply = "401" =>
              lost \/ rows[call[f].row].over]_vars

\* Every tool returns: polls have a deadline, a replay is made once, and
\* neither the lock nor the shared refresh can keep a tool waiting.
ToolsReturn == \A a \in Agents : run[a].at # "idle" ~> run[a].at = "done"

(***************************************************************************)
(* What the sources say and the code does not do.                          *)
(***************************************************************************)

\* auth.py:113 and 223, "Caller MUST hold _lock" and "no concurrent mutation": a
\* tool and the task in flight do not log in at the same time.
OneLogin ==
    \A c, d \in Callers :
        call[c].op = "login" /\ call[d].op = "login" => c = d

\* pools.py:347 of the tools: provision_pool returns the state after provisioning
\* completes, unless the timeout fires; so the first poll does not see a pool whose
\* desktop is still to be made.
ProvisionAwaited ==
    [][\A a \in Agents :
          Polled(a) /\ Step(run[a]) = "provisioned" /\ Terminal("provisioned")
              => pool.desk # "accepted"]_vars

\* reset_environment.py:229: the agent re-runs the tool to continue the cleanup, so
\* a drain is not refused for a pool whose deletion an earlier run began.
ResetContinues ==
    \A a \in Agents :
        run[a].at \in {"sent", "again"} /\ run[a].plan = "reset" /\ Step(run[a]) = "drain"
            => Can("drain")

=============================================================================
