-------------------------- MODULE AgentPlansProofs --------------------------
(***************************************************************************)
(* The MCP server's tools: a plan that says ok was performed, a            *)
(* deployment that fails says how to clean up, the server's own cookie is  *)
(* honoured, and every tool goes forward.                                  *)
(***************************************************************************)
EXTENDS AgentPlans, TLAPS

\* The proofs about the API, for this module's callers.
Api == INSTANCE AuthTokensProofs

----------------------------------------------------------------------------
(***************************************************************************)
(* The plans                                                               *)
(***************************************************************************)
LEMMA PlanSteps ==
  /\ DOMAIN Plan = {"deploy", "reset", "rebuild"}
  /\ Len(Plan["deploy"]) = 5
  /\ Plan["deploy"][1] = "verify" /\ Plan["deploy"][2] = "create"
  /\ Plan["deploy"][3] = "grant" /\ Plan["deploy"][4] = "provision"
  /\ Plan["deploy"][5] = "provisioned"
  /\ Len(Plan["reset"]) = 6
  /\ Plan["reset"][1] = "list" /\ Plan["reset"][2] = "drain" /\ Plan["reset"][3] = "drained"
  /\ Plan["reset"][4] = "sessions" /\ Plan["reset"][5] = "disconnect"
  /\ Plan["reset"][6] = "delete"
  /\ Len(Plan["rebuild"]) = 2
  /\ Plan["rebuild"][1] = "rebuild" /\ Plan["rebuild"][2] = "rebuilt"
<1>1. /\ DOMAIN Plan = {"deploy", "reset", "rebuild"}
      /\ Plan["deploy"] = DeployPool /\ Plan["reset"] = ResetEnvironment
      /\ Plan["rebuild"] = Rebuild
  BY DEF Plan
<1>2. /\ Len(DeployPool) = 5
      /\ DeployPool[1] = "verify" /\ DeployPool[2] = "create" /\ DeployPool[3] = "grant"
      /\ DeployPool[4] = "provision" /\ DeployPool[5] = "provisioned"
  BY DEF DeployPool, Provision
<1>3. /\ Len(ResetEnvironment) = 6
      /\ ResetEnvironment[1] = "list" /\ ResetEnvironment[2] = "drain"
      /\ ResetEnvironment[3] = "drained" /\ ResetEnvironment[4] = "sessions"
      /\ ResetEnvironment[5] = "disconnect" /\ ResetEnvironment[6] = "delete"
  BY DEF ResetEnvironment, Drain
<1>4. Len(Rebuild) = 2 /\ Rebuild[1] = "rebuild" /\ Rebuild[2] = "rebuilt"
  BY DEF Rebuild
<1> QED
  BY <1>1, <1>2, <1>3, <1>4

LEMMA PromisesMade ==
  /\ Promised["deploy"] = {"create", "grant", "provision"}
  /\ Promised["reset"] = {"drain", "delete"}
  /\ Promised["rebuild"] = {"rebuild"}
  /\ Changes = {"create", "grant", "provision", "drain", "delete", "rebuild", "disconnect"}
<1>1. /\ Promised["deploy"] = {"create", "grant", "provision"}
      /\ Promised["reset"] = {"drain", "delete"}
      /\ Promised["rebuild"] = {"rebuild"}
  BY DEF Promised
<1> QED
  BY <1>1, PlanSteps DEF Changes

\* What the proofs need of the plans: no step is in a plan twice, a plan has a step for
\* each promise, and nothing is promised of a step whose failure or absence is ignored.
LEMMA PlanFacts ==
  ASSUME NEW p \in DOMAIN Plan
  PROVE  /\ Len(Plan[p]) \in 1 .. 6
         /\ \A i, j \in 1 .. Len(Plan[p]) : Plan[p][i] = Plan[p][j] => i = j
         /\ \A s \in Promised[p] : \E i \in 1 .. Len(Plan[p]) : Plan[p][i] = s
         /\ Promised[p] \subseteq Changes
         /\ \A i \in 1 .. Len(Plan[p]) :
              /\ Plan[p][i] = "sessions" =>
                    /\ i + 2 \in 1 .. Len(Plan[p]) /\ i + 1 \in 1 .. Len(Plan[p])
                    /\ Plan[p][i] \notin Promised[p] /\ Plan[p][i + 1] \notin Promised[p]
              /\ Plan[p][i] = "disconnect" =>
                    i + 1 \in 1 .. Len(Plan[p]) /\ Plan[p][i] \notin Promised[p]
              /\ Plan[p][i] = "create" => p = "deploy"
              /\ Plan[p][i] = "list" => p = "reset" /\ i = 1 /\ Plan[p][i] \notin Changes
              /\ Waiting(Plan[p][i]) => Plan[p][i] \notin Changes
<1>1. CASE p = "deploy"
  <2>1. \A i \in 1 .. 5 : i = 1 \/ i = 2 \/ i = 3 \/ i = 4 \/ i = 5
    OBVIOUS
  <2>2. QED
    BY <1>1, <2>1, PlanSteps, PromisesMade DEF Waiting
<1>2. CASE p = "reset"
  <2>1. \A i \in 1 .. 6 : i = 1 \/ i = 2 \/ i = 3 \/ i = 4 \/ i = 5 \/ i = 6
    OBVIOUS
  <2>2. QED
    BY <1>2, <2>1, PlanSteps, PromisesMade DEF Waiting
<1>3. CASE p = "rebuild"
  <2>1. \A i \in 1 .. 2 : i = 1 \/ i = 2
    OBVIOUS
  <2>2. QED
    BY <1>3, <2>1, PlanSteps, PromisesMade DEF Waiting
<1> QED
  BY <1>1, <1>2, <1>3, PlanSteps

----------------------------------------------------------------------------
(***************************************************************************)
(* Runs, a field at a time                                                 *)
(***************************************************************************)
LEMMA Sets ==
  ASSUME NEW r \in Run
  PROVE  /\ \A v \in DOMAIN Plan : [r EXCEPT !.plan = v] \in Run
         /\ \A v \in 1 .. 6 : [r EXCEPT !.n = v] \in Run
         /\ \A v \in {"idle", "ready", "login", "sent", "denied", "joined", "again", "done"} :
              [r EXCEPT !.at = v] \in Run
         /\ \A v \in BOOLEAN : [r EXCEPT !.live = v] \in Run
         /\ \A v \in Agents \cup {NoAgent} : [r EXCEPT !.wait = v] \in Run
         /\ \A v \in 0 .. Deadline : [r EXCEPT !.polls = v] \in Run
         /\ \A v \in BOOLEAN : [r EXCEPT !.pool = v] \in Run
         /\ \A v \in SUBSET Changes : [r EXCEPT !.did = v] \in Run
         /\ \A v \in BOOLEAN : [r EXCEPT !.twice = v] \in Run
         /\ \A v \in BOOLEAN : [r EXCEPT !.unheard = v] \in Run
         /\ \A v \in {"none", "ok", "failed"} : [r EXCEPT !.result = v] \in Run
         /\ \A v \in BOOLEAN : [r EXCEPT !.hint = v] \in Run
<1>1. /\ \A v \in DOMAIN Plan : [r EXCEPT !.plan = v] \in Run
      /\ \A v \in 1 .. 6 : [r EXCEPT !.n = v] \in Run
      /\ \A v \in {"idle", "ready", "login", "sent", "denied", "joined", "again", "done"} :
           [r EXCEPT !.at = v] \in Run
  BY DEF Run
<1>2. /\ \A v \in BOOLEAN : [r EXCEPT !.live = v] \in Run
      /\ \A v \in Agents \cup {NoAgent} : [r EXCEPT !.wait = v] \in Run
      /\ \A v \in 0 .. Deadline : [r EXCEPT !.polls = v] \in Run
  BY DEF Run
<1>3. /\ \A v \in BOOLEAN : [r EXCEPT !.pool = v] \in Run
      /\ \A v \in SUBSET Changes : [r EXCEPT !.did = v] \in Run
      /\ \A v \in BOOLEAN : [r EXCEPT !.twice = v] \in Run
  BY DEF Run
<1>4. /\ \A v \in BOOLEAN : [r EXCEPT !.unheard = v] \in Run
      /\ \A v \in {"none", "ok", "failed"} : [r EXCEPT !.result = v] \in Run
      /\ \A v \in BOOLEAN : [r EXCEPT !.hint = v] \in Run
  BY DEF Run
<1> QED
  BY <1>1, <1>2, <1>3, <1>4

\* The fields no request changes.
Kept(e, r) == /\ e.plan = r.plan /\ e.did = r.did /\ e.twice = r.twice
              /\ e.unheard = r.unheard /\ e.pool = r.pool

LEMMA EndsFields ==
  ASSUME NEW r \in Run, NEW result \in {"none", "ok", "failed"}
  PROVE  /\ Ends(r, result) \in Run /\ Kept(Ends(r, result), r)
         /\ Ends(r, result).at = "done" /\ Ends(r, result).result = result
         /\ Ends(r, result).hint = (result = "failed" /\ r.plan = "deploy" /\ r.pool)
<1> DEFINE hint == result = "failed" /\ r.plan = "deploy" /\ r.pool
           e == [r EXCEPT !.at = "done", !.n = 1, !.live = FALSE, !.polls = 0,
                          !.result = result, !.hint = hint]
<1>1. 1 \in 1 .. 6 /\ 0 \in 0 .. Deadline
  BY BoundsAssumption
<1>2. hint \in BOOLEAN
  OBVIOUS
<1>3. Ends(r, result) = e
  BY DEF Ends
<1> HIDE DEF hint
<1>4. e \in Run
  BY <1>1, <1>2, Sets
<1>5. Kept(e, r) /\ e.at = "done" /\ e.result = result /\ e.hint = hint
  BY DEF Run, Kept
<1> HIDE DEF e
<1> QED
  BY <1>3, <1>4, <1>5 DEF hint

----------------------------------------------------------------------------
(***************************************************************************)
(* What a run has had performed, by how far its plan has come              *)
(***************************************************************************)

\* Of the steps before n: nothing else was performed, and everything promised was.
UpTo(r, n) ==
    /\ r.result = "none" /\ ~ r.twice
    /\ \A s \in r.did : \E i \in 1 .. Len(Plan[r.plan]) : i < n /\ s = Plan[r.plan][i]
    /\ \A i \in 1 .. Len(Plan[r.plan]) :
         i < n /\ Plan[r.plan][i] \in Promised[r.plan] => Plan[r.plan][i] \in r.did
    /\ n = 1 => ~ r.pool

\* Its pool is known as soon as it is made.
Named(r) == "create" \in r.did => r.pool /\ r.plan = "deploy"

Sound(r) ==
    /\ r \in Run
    /\ r.at # "done" => /\ r.n \in 1 .. Len(Plan[r.plan])
                        /\ UpTo(r, r.n) /\ Named(r)
    /\ r.at = "idle" => r.n = 1
    /\ r.at = "done" =>
         /\ ~ r.twice
         /\ r.result = "ok" /\ (r.plan = "reset" => r.pool) => Promised[r.plan] \subseteq r.did
         /\ r.result = "failed" /\ "create" \in r.did => r.hint \/ r.unheard

LEMMA NoRunSound == Sound(NoRun)
<1>1. "deploy" \in DOMAIN Plan /\ Len(Plan["deploy"]) = 5
  BY PlanSteps
<1>2. 1 \in 1 .. 6 /\ 0 \in 0 .. Deadline
  BY BoundsAssumption
<1>3. NoRun \in Run
  BY <1>1, <1>2 DEF NoRun, Run
<1>4. /\ NoRun.plan = "deploy" /\ NoRun.n = 1 /\ NoRun.at = "idle" /\ NoRun.did = {}
      /\ NoRun.twice = FALSE /\ NoRun.result = "none" /\ NoRun.pool = FALSE
  BY DEF NoRun
<1> HIDE DEF NoRun
<1>5. NoRun.n \in 1 .. Len(Plan[NoRun.plan])
  <2>1. 1 \in 1 .. 5
    OBVIOUS
  <2>2. Len(Plan[NoRun.plan]) = 5 /\ NoRun.n = 1
    BY <1>1, <1>4
  <2>3. QED
    BY <2>1, <2>2
<1>6. UpTo(NoRun, 1)
  BY <1>1, <1>4 DEF UpTo
<1> QED
  BY <1>3, <1>4, <1>5, <1>6 DEF Sound, Named

\* A request under way changes nothing of that.
LEMMA MovesSound ==
  ASSUME NEW r, Sound(r), NEW e \in Run, Kept(e, r), e.n = r.n, e.result = r.result,
         e.hint = r.hint,
         e.at = r.at \/ (r.at # "done" /\ e.at \notin {"idle", "done"})
  PROVE  Sound(e)
BY DEF Sound, UpTo, Named, Kept

LEMMA GoesSound ==
  ASSUME NEW r \in Run, NEW n \in Nat, n > 1, UpTo(r, n), Named(r)
  PROVE  Sound(Goes(r, n)) /\ Goes(r, n).at \in {"ready", "done"}
<1>1. r.plan \in DOMAIN Plan
  BY DEF Run
<1>2. Len(Plan[r.plan]) \in 1 .. 6
  BY <1>1, PlanFacts
<1>3. CASE n > Len(Plan[r.plan])
  <2> DEFINE e == Ends(r, "ok")
  <2>1. Goes(r, n) = e
    BY <1>3 DEF Goes
  <2>2. e \in Run /\ Kept(e, r) /\ e.at = "done" /\ e.result = "ok"
    BY EndsFields
  <2> HIDE DEF e
  <2>3. Promised[r.plan] \subseteq r.did
    BY <1>1, <1>2, <1>3, PlanFacts DEF UpTo
  <2> QED
    BY <2>1, <2>2, <2>3 DEF Sound, Kept, UpTo
<1>4. CASE n <= Len(Plan[r.plan])
  <2> DEFINE e == [r EXCEPT !.n = n, !.at = "ready", !.polls = 0]
  <2>1. Goes(r, n) = e
    BY <1>2, <1>4 DEF Goes
  <2>2. n \in 1 .. 6 /\ 0 \in 0 .. Deadline /\ n \in 1 .. Len(Plan[r.plan])
    <3> DEFINE len == Len(Plan[r.plan])
    <3>1. len \in 1 .. 6 /\ n <= len
      BY <1>2, <1>4
    <3> HIDE DEF len
    <3>2. n \in 1 .. 6 /\ n \in 1 .. len
      BY <3>1
    <3>3. 0 \in 0 .. Deadline
      BY BoundsAssumption
    <3> QED
      BY <3>2, <3>3 DEF len
  <2>3. e \in Run
    BY <2>2, Sets
  <2>4. Kept(e, r) /\ e.n = n /\ e.at = "ready" /\ e.result = r.result
    BY DEF Kept, Run
  <2> HIDE DEF e
  <2> QED
    BY <2>1, <2>2, <2>3, <2>4 DEF Sound, Kept, UpTo, Named
<1> QED
  BY <1>2, <1>3, <1>4

\* What a failure may leave behind: the creation of a pool whose answer was lost.
LEMMA FailsSound ==
  ASSUME NEW r \in Run, r.n \in 1 .. Len(Plan[r.plan]), UpTo(r, r.n + 1) \/ UpTo(r, r.n),
         Named(r) \/ (r.unheard /\ Step(r) = "create")
  PROVE  Sound(Fails(r)) /\ Fails(r).at \in {"ready", "done"}
<1>1. r.plan \in DOMAIN Plan /\ r.n \in Nat
  BY DEF Run
<1>2. CASE Step(r) = "disconnect"
  <2>1. Step(r) \notin Promised[r.plan]
    BY <1>1, <1>2, PlanFacts DEF Step
  <2>2. UpTo(r, r.n + 1)
    BY <1>1, <2>1 DEF UpTo, Step
  <2>3. Fails(r) = Goes(r, r.n + 1) /\ Named(r)
    BY <1>2 DEF Fails
  <2> QED
    BY <1>1, <2>2, <2>3, GoesSound
<1>3. CASE Step(r) # "disconnect"
  <2> DEFINE e == Ends(r, "failed")
  <2>1. Fails(r) = e
    BY <1>3 DEF Fails
  <2>2. /\ e \in Run /\ Kept(e, r) /\ e.at = "done" /\ e.result = "failed"
        /\ e.hint = (r.plan = "deploy" /\ r.pool)
    BY EndsFields
  <2> HIDE DEF e
  <2> QED
    BY <2>1, <2>2 DEF Sound, Kept, UpTo, Named
<1> QED
  BY <1>2, <1>3

----------------------------------------------------------------------------
(***************************************************************************)
(* A request that is performed                                             *)
(***************************************************************************)
LEMMA DidFields ==
  ASSUME NEW r, Sound(r), r.at # "done"
  PROVE  LET d == Did(r) IN
         /\ d \in Run /\ d.plan = r.plan /\ d.n = r.n /\ d.pool = r.pool
         /\ d.unheard = r.unheard /\ d.result = r.result
         /\ UpTo(d, r.n + 1)
         /\ Step(r) # "create" => Named(d)
<1>1. /\ r \in Run /\ r.plan \in DOMAIN Plan /\ r.n \in 1 .. Len(Plan[r.plan])
      /\ UpTo(r, r.n) /\ Named(r)
  BY DEF Sound, Run
<1>2. r.n \in Nat /\ r.n # 0 /\ r.did \in SUBSET Changes /\ r.twice \in BOOLEAN
  BY <1>1 DEF Run
<1>3. Step(r) \notin r.did
  BY <1>1, <1>2, PlanFacts DEF UpTo, Step
<1>4. CASE Step(r) \notin Changes
  <2>1. Did(r) = r
    BY <1>4 DEF Did
  <2>2. Step(r) \notin Promised[r.plan]
    BY <1>1, <1>4, PlanFacts
  <2>3. UpTo(r, r.n + 1)
    BY <1>1, <1>2, <2>2 DEF UpTo, Step
  <2> QED
    BY <1>1, <2>1, <2>3
<1>5. CASE Step(r) \in Changes
  <2> DEFINE dids == r.did \cup {Step(r)}
             twice == r.twice \/ Step(r) \in r.did
             d == [r EXCEPT !.did = dids, !.twice = twice]
  <2>1. Did(r) = d
    BY <1>5 DEF Did
  <2>2. dids \in SUBSET Changes /\ twice \in BOOLEAN /\ twice = FALSE
    BY <1>1, <1>2, <1>3, <1>5 DEF UpTo
  <2>3. \A s : s \in dids <=> s \in r.did \/ s = Step(r)
    OBVIOUS
  <2> HIDE DEF dids, twice
  <2>4. d \in Run
    BY <1>1, <2>2, Sets
  <2>5. /\ d.plan = r.plan /\ d.n = r.n /\ d.pool = r.pool /\ d.unheard = r.unheard
        /\ d.result = r.result /\ d.did = dids /\ d.twice = twice
    BY <1>1 DEF Run
  <2> HIDE DEF d
  <2>6. UpTo(d, r.n + 1)
    BY <1>1, <1>2, <2>2, <2>3, <2>5 DEF UpTo, Step
  <2>7. Step(r) # "create" => Named(d)
    BY <1>1, <2>3, <2>5 DEF Named
  <2> QED
    BY <2>1, <2>4, <2>5, <2>6, <2>7
<1> QED
  BY <1>4, <1>5

LEMMA HearsSound ==
  ASSUME NEW r, Sound(r), r.at # "done"
  PROVE  Sound(Hears(Did(r)))
<1> DEFINE d == Did(r)
<1>1. /\ r \in Run /\ r.plan \in DOMAIN Plan /\ r.n \in 1 .. Len(Plan[r.plan])
      /\ r.n \in Nat /\ r.n # 0 /\ UpTo(r, r.n) /\ Named(r)
  BY DEF Sound, Run
<1>2. /\ d \in Run /\ d.plan = r.plan /\ d.n = r.n /\ d.pool = r.pool
      /\ UpTo(d, d.n + 1) /\ (Step(r) # "create" => Named(d))
  BY DidFields
<1> HIDE DEF d
<1>3. Step(d) = Step(r)
  BY <1>2 DEF Step
<1> DEFINE told == [d EXCEPT !.pool = TRUE]
<1>4. told \in Run /\ told.pool = TRUE /\ told.plan = d.plan /\ told.n = d.n
  <2>1. told \in Run
    BY <1>2, Sets
  <2>2. QED
    BY <1>2, <2>1 DEF Run
<1>5. told.did = d.did /\ told.twice = d.twice /\ told.result = d.result
  BY <1>2 DEF Run
<1> HIDE DEF told
<1>6. UpTo(told, d.n + 1)
  BY <1>1, <1>2, <1>4, <1>5 DEF UpTo
<1>7. ASSUME Named(told)
      PROVE  Sound(Goes(told, d.n + 1))
  BY <1>1, <1>2, <1>4, <1>6, <1>7, GoesSound
<1>8. CASE Step(r) = "create"
  <2>1. r.plan = "deploy"
    BY <1>1, <1>8, PlanFacts DEF Step
  <2>2. Named(told)
    BY <1>2, <1>4, <2>1 DEF Named
  <2>3. Hears(d) = Goes(told, d.n + 1)
    BY <1>3, <1>8 DEF Hears, told
  <2> QED
    BY <1>7, <2>2, <2>3 DEF d
<1>9. CASE Step(r) = "list"
  <2>1. r.plan = "reset" /\ r.n = 1
    BY <1>1, <1>9, PlanFacts DEF Step
  <2>2. Named(d) /\ Named(told)
    BY <1>2, <1>4, <1>5, <1>9 DEF Named
  <2>3. CASE pool.status = "none"
    <3> DEFINE e == Ends(d, "ok")
    <3>1. Hears(d) = e
      BY <1>3, <1>9, <2>3 DEF Hears
    <3>2. e \in Run /\ Kept(e, d) /\ e.at = "done" /\ e.result = "ok"
      BY <1>2, EndsFields
    <3> HIDE DEF e
    <3>3. ~ e.pool /\ e.plan = "reset"
      BY <1>1, <1>2, <2>1, <3>2 DEF UpTo, Kept
    <3> QED
      BY <1>2, <3>1, <3>2, <3>3 DEF Sound, UpTo, Kept, d
  <2>4. CASE pool.status # "none"
    <3>1. Hears(d) = Goes(told, d.n + 1)
      BY <1>3, <1>9, <2>4 DEF Hears, told
    <3> QED
      BY <1>7, <2>2, <3>1 DEF d
  <2> QED
    BY <2>3, <2>4
<1>10. CASE Step(r) \notin {"create", "list"}
  <2>1. Named(d)
    BY <1>2, <1>10
  <2>2. CASE Step(r) = "sessions" /\ ~ pool.used
    <3>1. Hears(d) = Goes(d, d.n + 2)
      BY <1>3, <1>10, <2>2 DEF Hears
    <3>2. Plan[r.plan][r.n + 1] \notin Promised[r.plan]
      BY <1>1, <2>2, PlanFacts DEF Step
    <3>3. UpTo(d, d.n + 2)
      BY <1>1, <1>2, <3>2 DEF UpTo
    <3> QED
      BY <1>1, <1>2, <2>1, <3>1, <3>3, GoesSound DEF d
  <2>3. CASE ~ (Step(r) = "sessions" /\ ~ pool.used)
    <3>1. Hears(d) = Goes(d, d.n + 1)
      BY <1>3, <1>10, <2>3 DEF Hears
    <3> QED
      BY <1>1, <1>2, <2>1, <3>1, GoesSound DEF d
  <2> QED
    BY <2>2, <2>3
<1> QED
  BY <1>8, <1>9, <1>10

LEMMA MissesSound ==
  ASSUME NEW r, Sound(r), r.at # "done"
  PROVE  Sound(Misses(r))
<1> DEFINE d == Did(r)
           creating == Step(r) = "create"
           e == [d EXCEPT !.unheard = creating]
<1>1. r \in Run /\ r.n \in 1 .. Len(Plan[r.plan]) /\ r.n \in Nat
  BY DEF Sound, Run
<1>2. /\ d \in Run /\ d.plan = r.plan /\ d.n = r.n /\ d.pool = r.pool
      /\ UpTo(d, r.n + 1) /\ (~ creating => Named(d))
  BY DidFields
<1>3. creating \in BOOLEAN /\ (creating <=> Step(d) = "create")
  BY <1>2 DEF Step
<1> HIDE DEF d, creating
<1>4. /\ e \in Run
      /\ e.plan = d.plan /\ e.n = d.n /\ e.pool = d.pool /\ e.unheard = creating
  <2>1. e \in Run
    BY <1>2, <1>3, Sets
  <2>2. QED
    BY <1>2, <2>1 DEF Run
<1>5. e.did = d.did /\ e.twice = d.twice /\ e.result = d.result
  BY <1>2 DEF Run
<1>6. Misses(r) = Fails(e)
  BY DEF Misses, d, creating
<1> HIDE DEF e
<1>7. UpTo(e, e.n + 1)
  BY <1>2, <1>4, <1>5 DEF UpTo
<1>8. Named(e) \/ (e.unheard /\ Step(e) = "create")
  BY <1>2, <1>3, <1>4, <1>5 DEF Named, Step
<1>9. Sound(Fails(e))
  BY <1>1, <1>2, <1>4, <1>7, <1>8, FailsSound
<1> QED
  BY <1>6, <1>9

----------------------------------------------------------------------------
(***************************************************************************)
(* Every run stays sound                                                   *)
(***************************************************************************)
RunsInv == run \in [Agents -> Run] /\ \A a \in Agents : Sound(run[a])

LEMMA OneRun ==
  ASSUME RunsInv, NEW a \in Agents, NEW e, Sound(e), run' = [run EXCEPT ![a] = e]
  PROVE  RunsInv'
<1>1. e \in Run
  BY DEF Sound
<1>2. run' \in [Agents -> Run] /\ \A b \in Agents : run'[b] = IF b = a THEN e ELSE run[b]
  BY <1>1 DEF RunsInv
<1>3. \A b \in Agents : Sound(run'[b])
  BY <1>2 DEF RunsInv
<1> HIDE DEF Sound
<1> QED
  BY <1>2, <1>3 DEF RunsInv


LEMMA FailsOf ==
  ASSUME NEW r, Sound(r), r.at # "done"
  PROVE  Sound(Fails(r))
<1>1. r \in Run /\ r.n \in 1 .. Len(Plan[r.plan]) /\ UpTo(r, r.n) /\ Named(r)
  BY DEF Sound
<1> QED
  BY <1>1, FailsSound

LEMMA BeginsSound ==
  ASSUME RunsInv, NEW a \in Agents, Begins(a)
  PROVE  RunsInv'
<1> DEFINE r == run[a]
<1>1. PICK p \in DOMAIN Plan : run' = [run EXCEPT ![a] = [@ EXCEPT !.plan = p, !.at = "ready"]]
  BY DEF Begins
<1> DEFINE e == [r EXCEPT !.plan = p, !.at = "ready"]
<1>2. r \in Run /\ Sound(r) /\ r.at = "idle"
  BY DEF RunsInv, Begins
<1>3. run' = [run EXCEPT ![a] = e]
  BY <1>1
<1> HIDE DEF r
<1>4. e \in Run
  BY <1>2, Sets
<1>5. /\ e.plan = p /\ e.at = "ready" /\ e.n = r.n /\ e.did = r.did /\ e.twice = r.twice
      /\ e.result = r.result /\ e.pool = r.pool
  BY <1>2 DEF Run
<1> HIDE DEF e
<1>6. r.n = 1 /\ UpTo(r, 1) /\ r.did = {}
  BY <1>2 DEF Sound, UpTo
<1>7. Len(Plan[p]) \in 1 .. 6
  BY PlanFacts
<1>8. UpTo(e, 1) /\ Named(e)
  BY <1>5, <1>6, <1>7 DEF UpTo, Named
<1>9. e.n \in 1 .. Len(Plan[e.plan])
  <2> DEFINE len == Len(Plan[e.plan])
  <2>1. len \in 1 .. 6
    BY <1>5, <1>7
  <2> HIDE DEF len
  <2>2. 1 \in 1 .. len
    BY <2>1
  <2> QED
    BY <1>5, <1>6, <2>2 DEF len
<1>10. Sound(e)
  BY <1>4, <1>5, <1>6, <1>8, <1>9 DEF Sound
<1> QED
  BY <1>3, <1>10, OneRun

LEMMA MovesOf ==
  ASSUME RunsInv, NEW a \in Agents,
         Requests(a) \/ LogsIn(a) \/ Denied(a) \/ ForceNewToken(a)
  PROVE  RunsInv'
<1> DEFINE r == run[a]
<1>1. r \in Run /\ Sound(r) /\ r.at # "done"
  BY DEF RunsInv, Requests, LogsIn, Denied, ForceNewToken
<1>2. /\ r.live \in BOOLEAN /\ r.wait \in Agents \cup {NoAgent} /\ r.polls \in 0 .. Deadline
  BY <1>1 DEF Run
<1>3. CASE Requests(a)
  <2> DEFINE live == token = "live"
             e == [r EXCEPT !.at = "sent", !.live = live]
  <2>1. run' = [run EXCEPT ![a] = e]
    BY <1>3 DEF Requests, Sent
  <2>2. live \in BOOLEAN
    OBVIOUS
  <2> HIDE DEF live, r
  <2>3. e \in Run
    BY <1>1, <2>2, Sets
  <2>4. /\ Kept(e, r) /\ e.n = r.n /\ e.result = r.result /\ e.hint = r.hint /\ e.at = "sent"
    BY <1>1 DEF Run, Kept
  <2> HIDE DEF e
  <2>5. Sound(e)
    BY <1>1, <2>3, <2>4, MovesSound
  <2> QED
    BY <2>1, <2>5, OneRun
<1>4. ASSUME NEW at \in {"login", "denied"}, run' = [run EXCEPT ![a].at = at]
      PROVE  RunsInv'
  <2> DEFINE e == [r EXCEPT !.at = at]
  <2>1. run' = [run EXCEPT ![a] = e]
    BY <1>4
  <2> HIDE DEF r
  <2>2. e \in Run
    BY <1>1, Sets
  <2>3. /\ Kept(e, r) /\ e.n = r.n /\ e.result = r.result /\ e.hint = r.hint /\ e.at = at
    BY <1>1 DEF Run, Kept
  <2> HIDE DEF e
  <2>4. Sound(e)
    BY <1>1, <2>2, <2>3, MovesSound
  <2> QED
    BY <2>1, <2>4, OneRun
<1>5. ASSUME NEW f \in Agents, run' = [run EXCEPT ![a] = [@ EXCEPT !.at = "joined", !.wait = f]]
      PROVE  RunsInv'
  <2> DEFINE e == [r EXCEPT !.at = "joined", !.wait = f]
  <2>1. run' = [run EXCEPT ![a] = e]
    BY <1>5
  <2> HIDE DEF r
  <2>2. e \in Run
    BY <1>1, Sets
  <2>3. /\ Kept(e, r) /\ e.n = r.n /\ e.result = r.result /\ e.hint = r.hint /\ e.at = "joined"
    BY <1>1 DEF Run, Kept
  <2> HIDE DEF e
  <2>4. Sound(e)
    BY <1>1, <2>2, <2>3, MovesSound
  <2> QED
    BY <2>1, <2>4, OneRun
<1> QED
  BY <1>3, <1>4, <1>5 DEF LogsIn, Denied, ForceNewToken, InFlight

LEMMA SettlesOf ==
  ASSUME RunsInv, NEW a \in Agents, LoginSettles(a)
  PROVE  RunsInv'
<1> DEFINE r == run[a]
<1>1. r \in Run /\ Sound(r) /\ r.at # "done"
  BY DEF RunsInv, LoginSettles
<1>2. ASSUME run' = [run EXCEPT ![a] = [@ EXCEPT !.at = "sent", !.live = TRUE]]
      PROVE  RunsInv'
  <2> DEFINE e == [r EXCEPT !.at = "sent", !.live = TRUE]
  <2>1. run' = [run EXCEPT ![a] = e]
    BY <1>2
  <2> HIDE DEF r
  <2>2. e \in Run
    BY <1>1, Sets
  <2>3. /\ Kept(e, r) /\ e.n = r.n /\ e.result = r.result /\ e.hint = r.hint /\ e.at = "sent"
    BY <1>1 DEF Run, Kept
  <2> HIDE DEF e
  <2>4. Sound(e)
    BY <1>1, <2>2, <2>3, MovesSound
  <2> QED
    BY <2>1, <2>4, OneRun
<1>3. ASSUME run' = [run EXCEPT ![a] = Fails(run[a])]
      PROVE  RunsInv'
  BY <1>1, <1>3, FailsOf, OneRun
<1> QED
  BY <1>2, <1>3 DEF LoginSettles

LEMMA PolledOf ==
  ASSUME RunsInv, NEW a \in Agents, Polled(a)
  PROVE  RunsInv'
<1> DEFINE r == run[a]
<1>1. r \in Run /\ Sound(r) /\ r.at # "done" /\ Waiting(Step(r))
  BY DEF RunsInv, Polled, Performing
<1>2. /\ r.plan \in DOMAIN Plan /\ r.n \in 1 .. Len(Plan[r.plan])
      /\ UpTo(r, r.n) /\ Named(r) /\ r.n \in Nat /\ r.n # 0 /\ r.polls \in Nat
  BY <1>1, BoundsAssumption DEF Sound, Run
<1>3. ASSUME run' = [run EXCEPT ![a] = Goes(run[a], run[a].n + 1)]
      PROVE  RunsInv'
  <2>1. Step(r) \notin Promised[r.plan]
    BY <1>1, <1>2, PlanFacts DEF Step
  <2>2. UpTo(r, r.n + 1)
    BY <1>2, <2>1 DEF UpTo, Step
  <2>3. Sound(Goes(r, r.n + 1))
    BY <1>1, <1>2, <2>2, GoesSound
  <2> QED
    BY <1>3, <2>3, OneRun
<1>4. ASSUME run[a].polls < Deadline,
             run' = [run EXCEPT ![a] = [@ EXCEPT !.at = "ready", !.polls = run[a].polls + 1]]
      PROVE  RunsInv'
  <2> DEFINE polls == r.polls + 1
             e == [r EXCEPT !.at = "ready", !.polls = polls]
  <2>1. run' = [run EXCEPT ![a] = e]
    BY <1>4
  <2>2. polls \in 0 .. Deadline
    BY <1>2, <1>4, BoundsAssumption
  <2> HIDE DEF r, polls
  <2>3. e \in Run
    BY <1>1, <2>2, Sets
  <2>4. /\ Kept(e, r) /\ e.n = r.n /\ e.result = r.result /\ e.hint = r.hint /\ e.at = "ready"
    BY <1>1 DEF Run, Kept
  <2> HIDE DEF e
  <2>5. Sound(e)
    BY <1>1, <2>3, <2>4, MovesSound
  <2> QED
    BY <2>1, <2>5, OneRun
<1> QED
  BY <1>3, <1>4 DEF Polled

LEMMA RequestsOf ==
  ASSUME RunsInv, NEW a \in Agents, Answered(a) \/ Refused(a) \/ Unheard(a)
  PROVE  RunsInv'
<1>1. Sound(run[a]) /\ run[a].at # "done"
  BY DEF RunsInv, Answered, Refused, Unheard, Performing
<1>2. CASE Answered(a)
  BY <1>1, <1>2, HearsSound, OneRun DEF Answered
<1>3. CASE Refused(a)
  BY <1>1, <1>3, FailsOf, OneRun DEF Refused
<1>4. CASE Unheard(a)
  BY <1>1, <1>4, MissesSound, OneRun DEF Unheard
<1> QED
  BY <1>2, <1>3, <1>4

LEMMA ResolvesSound ==
  ASSUME RunsInv, NEW f \in Agents, NEW ok \in BOOLEAN, Resolves(f, ok)
  PROVE  RunsInv'
<1>1. ASSUME NEW a \in Agents
      PROVE  Sound(run'[a])
  <2> DEFINE r == run[a]
             w == [r EXCEPT !.wait = NoAgent]
             e == [w EXCEPT !.at = "again", !.live = TRUE]
  <2>1. Sound(r) /\ r \in Run
    BY DEF RunsInv
  <2>2. run'[a] = IF r.at # "joined" \/ r.wait # f THEN r ELSE IF ok THEN e ELSE Fails(w)
    BY DEF Resolves
  <2> HIDE DEF r
  <2>3. w \in Run
    BY <2>1, Sets
  <2>4. Kept(w, r) /\ w.n = r.n /\ w.result = r.result /\ w.hint = r.hint /\ w.at = r.at
    BY <2>1 DEF Run, Kept
  <2> HIDE DEF w
  <2>5. Sound(w)
    BY <2>1, <2>3, <2>4, MovesSound
  <2>6. e \in Run
    BY <2>3, Sets
  <2>7. Kept(e, w) /\ e.n = w.n /\ e.result = w.result /\ e.hint = w.hint /\ e.at = "again"
    BY <2>3 DEF Run, Kept
  <2> HIDE DEF e
  <2>8. r.at # "done" => Sound(e)
    BY <2>4, <2>5, <2>6, <2>7, MovesSound
  <2>9. r.at # "done" => Sound(Fails(w))
    BY <2>4, <2>5, FailsOf
  <2> QED
    BY <2>1, <2>2, <2>8, <2>9
<1>2. DOMAIN run' = Agents /\ run' = [a \in Agents |-> run'[a]]
  BY DEF Resolves
<1>3. \A a \in Agents : run'[a] \in Run
  BY <1>1 DEF Sound
<1> HIDE DEF Sound
<1> QED
  BY <1>1, <1>2, <1>3 DEF RunsInv

LEMMA ExpirySound ==
  ASSUME RunsInv, AccessExpires
  PROVE  RunsInv'
<1>1. ASSUME NEW a \in Agents
      PROVE  Sound(run'[a])
  <2> DEFINE r == run[a]
             e == [r EXCEPT !.live = FALSE]
  <2>1. Sound(r) /\ r \in Run
    BY DEF RunsInv
  <2>2. run'[a] = e
    BY DEF AccessExpires
  <2> HIDE DEF r
  <2>3. e \in Run
    BY <2>1, Sets
  <2>4. Kept(e, r) /\ e.n = r.n /\ e.result = r.result /\ e.hint = r.hint /\ e.at = r.at
    BY <2>1 DEF Run, Kept
  <2> HIDE DEF e
  <2> QED
    BY <2>1, <2>2, <2>3, <2>4, MovesSound
<1>2. run' = [a \in Agents |-> run'[a]]
  BY DEF AccessExpires
<1>3. \A a \in Agents : run'[a] \in Run
  BY <1>1 DEF Sound
<1> HIDE DEF Sound
<1> QED
  BY <1>1, <1>2, <1>3 DEF RunsInv

LEMMA RunsStep ==
  ASSUME RunsInv, [Next]_vars
  PROVE  RunsInv'
<1>1. ASSUME NEW a \in Agents, Begins(a) \/ Tool(a)
      PROVE  RunsInv'
  BY <1>1, BeginsSound, MovesOf, SettlesOf, PolledOf, RequestsOf DEF Tool
<1>2. ASSUME UNCHANGED run
      PROVE  RunsInv'
  BY <1>2 DEF RunsInv, Sound, UpTo, Named
<1>3. ASSUME NEW f \in Agents, Flight(f)
      PROVE  RunsInv'
  <2>1. CASE FlightGranted(f) \/ FlightFails(f)
    BY <2>1, ResolvesSound DEF FlightGranted, FlightFails
  <2>2. CASE RefreshRefused(f) \/ Relogs(f)
    BY <1>2, <2>2 DEF RefreshRefused, Relogs
  <2> QED
    BY <1>3, <2>1, <2>2 DEF Flight
<1> QED
  BY <1>1, <1>2, <1>3, ExpirySound DEF Next, BrokerAuth, LoginExpires, PoolMoves, vars

LEMMA RunsAlways == Spec => []RunsInv
<1>1. Init => RunsInv
  BY NoRunSound DEF Init, RunsInv, Sound
<1>2. RunsInv /\ [Next]_vars => RunsInv'
  BY RunsStep
<1> QED
  BY <1>1, <1>2, PTL DEF Spec

----------------------------------------------------------------------------
(***************************************************************************)
(* The server is a client of the auth API                                  *)
(***************************************************************************)
LEMMA SameApi ==
  /\ AuthInit => Api!AuthInit
  /\ \A c, op : Sends(c, op) <=> Api!Sends(c, op)
  /\ \A c : Handles(c) <=> Api!Handles(c)
  /\ \A c : Receives(c) <=> Api!Receives(c)
  /\ \A c : Loses(c) <=> Api!Loses(c)
  /\ \A r : RowExpires(r) <=> Api!RowExpires(r)
  /\ Rows = Api!Rows
  /\ auth = Api!auth
<1>1. AuthInit => Api!AuthInit
  BY DEF AuthInit, Api!AuthInit, Rows, Api!Rows, Absent, Api!Absent, NoCookie, Api!NoCookie,
         NoCall, Api!NoCall
<1>2. \A c, op : Sends(c, op) <=> Api!Sends(c, op)
  BY DEF Sends, Api!Sends
<1>3. \A c : Handles(c) <=> Api!Handles(c)
  <2> USE DEF At, Api!At, Answer, Api!Answer, Rows, Api!Rows, Absent, Api!Absent,
              RowLocked, Api!RowLocked, Accepted, Api!Accepted
  <2>1. \A c : LoginIssues(c) <=> Api!LoginIssues(c)
    BY DEF LoginIssues, Api!LoginIssues
  <2>2. \A c : LoginRefused(c) <=> Api!LoginRefused(c)
    BY DEF LoginRefused, Api!LoginRefused
  <2>3. \A c : RefreshReads(c) <=> Api!RefreshReads(c)
    BY DEF RefreshReads, Api!RefreshReads
  <2>4. \A c : RefreshRotates(c) <=> Api!RefreshRotates(c)
    BY DEF RefreshRotates, Api!RefreshRotates
  <2>5. \A c : RefreshUserGone(c) <=> Api!RefreshUserGone(c)
    BY DEF RefreshUserGone, Api!RefreshUserGone
  <2>6. \A c : RefreshUnavailable(c) <=> Api!RefreshUnavailable(c)
    BY DEF RefreshUnavailable, Api!RefreshUnavailable
  <2>7. \A c : LogoutReads(c) <=> Api!LogoutReads(c)
    BY DEF LogoutReads, Api!LogoutReads
  <2>8. \A c : LogoutRevokes(c) <=> Api!LogoutRevokes(c)
    BY DEF LogoutRevokes, Api!LogoutRevokes
  <2> HIDE DEF At, Api!At, Answer, Api!Answer, Rows, Api!Rows, Absent, Api!Absent,
               RowLocked, Api!RowLocked, Accepted, Api!Accepted
  <2> QED
    BY <2>1, <2>2, <2>3, <2>4, <2>5, <2>6, <2>7, <2>8 DEF Handles, Api!Handles
<1>4. \A c : Receives(c) <=> Api!Receives(c)
  BY DEF Receives, Api!Receives, SetCookie, Api!SetCookie, NoCookie, Api!NoCookie,
         NoCall, Api!NoCall
<1>5. \A c : Loses(c) <=> Api!Loses(c)
  BY DEF Loses, Api!Loses, NoCall, Api!NoCall
<1>6. \A r : RowExpires(r) <=> Api!RowExpires(r)
  BY DEF RowExpires, Api!RowExpires, Absent, Api!Absent
<1>7. Rows = Api!Rows /\ auth = Api!auth
  BY DEF Rows, Api!Rows, auth, Api!auth
<1> QED
  BY <1>1, <1>2, <1>3, <1>4, <1>5, <1>6, <1>7

LEMMA SameTypes == AuthTypeOK <=> Api!AuthTypeOK
BY DEF AuthTypeOK, Api!AuthTypeOK, AuthRow, Api!AuthRow, Cookie, Api!Cookie,
       AuthCall, Api!AuthCall, Rows, Api!Rows, Secrets, Api!Secrets

LEMMA StepIsApiStep ==
  ASSUME [Next]_vars
  PROVE  [Api!AuthNext]_auth
<1> USE SameApi
<1>1. Agents \subseteq Callers /\ "direct" \in Callers
  BY DEF Callers
<1>2. ASSUME NEW c \in Callers, NEW op \in {"login", "refresh", "logout"}, Sends(c, op)
      PROVE  Api!AuthNext
  BY <1>2 DEF Api!AuthNext
<1>3. ASSUME NEW c \in Callers, Receives(c) \/ Loses(c) \/ Handles(c)
      PROVE  Api!AuthNext
  BY <1>3 DEF Api!AuthNext
<1>4. ASSUME NEW a \in Agents, Tool(a)
      PROVE  Api!AuthNext \/ UNCHANGED auth
  <2>1. CASE LogsIn(a) \/ LoginSettles(a)
    BY <1>1, <1>2, <1>3, <2>1 DEF LogsIn, LoginSettles
  <2>2. CASE ForceNewToken(a)
    BY <1>1, <1>2, <2>2 DEF ForceNewToken, tokens, auth
  <2>3. CASE Requests(a) \/ Denied(a) \/ Answered(a) \/ Polled(a) \/ Refused(a) \/ Unheard(a)
    BY <2>3 DEF Requests, Denied, Answered, Polled, Refused, Unheard, tokens, auth
  <2> QED
    BY <1>4, <2>1, <2>2, <2>3 DEF Tool
<1>5. ASSUME NEW f \in Agents, Flight(f)
      PROVE  Api!AuthNext
  BY <1>1, <1>2, <1>3, <1>5 DEF Flight, FlightGranted, RefreshRefused, Relogs, FlightFails
<1>6. ASSUME NEW a \in Agents, Begins(a)
      PROVE  UNCHANGED auth
  BY <1>6 DEF Begins, tokens, auth
<1>7. ASSUME NEW r \in Rows, LoginExpires(r)
      PROVE  Api!AuthNext
  BY <1>7 DEF LoginExpires, Api!AuthNext
<1>8. CASE AccessExpires \/ PoolMoves
  BY <1>8 DEF AccessExpires, PoolMoves, tokens, auth
<1>9. CASE UNCHANGED vars
  BY <1>9 DEF vars, tokens, auth
<1> QED
  BY <1>3, <1>4, <1>5, <1>6, <1>7, <1>8, <1>9 DEF Next, BrokerAuth

\* Whatever the tools do, the broker's auth API sees clients that send requests and get
\* answers: BrokerAuthClient's logins and refreshes.
THEOREM ClientOfTheApi == Spec => Api!AuthSpec
<1>1. Init => Api!AuthInit
  BY SameApi DEF Init
<1>2. [Next]_vars => [Api!AuthNext]_Api!auth
  BY StepIsApiStep DEF auth, Api!auth
<1> QED
  BY <1>1, <1>2, PTL DEF Spec, Api!AuthSpec

LEMMA ApiAlways == Spec => []Api!AuthInv
<1>1. MaxRows \in Nat /\ MaxSecret \in Nat \ {0}
  BY BoundsAssumption
<1>2. Api!AuthSpec => []Api!AuthInv
  BY <1>1, Api!AuthInvariant
<1> QED
  BY <1>2, ClientOfTheApi, PTL

----------------------------------------------------------------------------
(***************************************************************************)
(* Types                                                                   *)
(***************************************************************************)
RestInv ==
    /\ token \in {"none", "live", "stale"}
    /\ flight \in [Agents -> {"none", "refresh", "relogin"}]
    /\ pool \in Pool

LEMMA PoolFields ==
  ASSUME NEW p \in Pool
  PROVE  /\ \A v \in {"none", "active", "draining", "deleting"} : [p EXCEPT !.status = v] \in Pool
         /\ \A v \in {"none", "accepted", "provisioning", "available", "error"} :
              [p EXCEPT !.desk = v] \in Pool
         /\ \A v \in BOOLEAN : [p EXCEPT !.used = v] \in Pool
         /\ NoPool \in Pool /\ [NoPool EXCEPT !.status = "active"] \in Pool
         /\ [NoPool EXCEPT !.status = "active", !.desk = "available"] \in Pool
BY DEF Pool, NoPool

LEMMA DoesTyped ==
  ASSUME pool \in Pool, NEW s, Does(s)
  PROVE  pool' \in Pool
BY PoolFields DEF Does

LEMMA RestStep ==
  ASSUME RestInv, [Next]_vars
  PROVE  RestInv'
<1> USE DEF RestInv
<1>1. ASSUME NEW a \in Agents, Tool(a)
      PROVE  RestInv'
  <2>1. CASE Requests(a) \/ LogsIn(a) \/ Denied(a) \/ Polled(a) \/ Refused(a)
    BY <2>1 DEF Requests, LogsIn, Denied, Polled, Refused
  <2>2. CASE LoginSettles(a)
    BY <2>2 DEF LoginSettles
  <2>3. CASE ForceNewToken(a)
    BY <2>3 DEF ForceNewToken
  <2>4. CASE Answered(a) \/ Unheard(a)
    BY <2>4, DoesTyped DEF Answered, Unheard
  <2> QED
    BY <1>1, <2>1, <2>2, <2>3, <2>4 DEF Tool
<1>2. ASSUME NEW f \in Agents, Flight(f)
      PROVE  RestInv'
  BY <1>2 DEF Flight, FlightGranted, RefreshRefused, Relogs, FlightFails, Resolves
<1>3. CASE PoolMoves
  BY <1>3, PoolFields DEF PoolMoves
<1>4. CASE AccessExpires
  BY <1>4 DEF AccessExpires
<1>5. ASSUME UNCHANGED <<token, flight, pool>>
      PROVE  RestInv'
  BY <1>5
<1> QED
  BY <1>1, <1>2, <1>3, <1>4, <1>5 DEF Next, BrokerAuth, LoginExpires, Begins, vars

LEMMA RestAlways == Spec => []RestInv
<1>1. Init => RestInv
  <2>1. NoPool \in Pool
    BY DEF NoPool, Pool
  <2>2. [NoPool EXCEPT !.status = "active", !.desk = "available"] \in Pool
    BY <2>1, PoolFields
  <2> QED
    BY <2>1, <2>2 DEF Init, RestInv
<1>2. RestInv /\ [Next]_vars => RestInv'
  BY RestStep
<1> QED
  BY <1>1, <1>2, PTL DEF Spec

\* Every variable of the server, the auth API's included, keeps its type.
THEOREM TypeCorrect == Spec => []TypeOK
<1>1. RunsInv /\ RestInv /\ AuthTypeOK => TypeOK
  BY DEF RunsInv, RestInv, TypeOK
<1>2. Api!AuthInv => AuthTypeOK
  BY SameTypes DEF Api!AuthInv
<1> QED
  BY <1>1, <1>2, ApiAlways, RunsAlways, RestAlways, PTL

\* A tool that says ok has had each change it promises performed, and no tool has one
\* performed twice, whatever requests were refused, replayed after a 401, or lost.
THEOREM OkIsDone == Spec => []OkMeansDone
<1>1. RunsInv => OkMeansDone
  BY DEF RunsInv, Sound, UpTo, OkMeansDone
<1> QED
  BY <1>1, RunsAlways, PTL

\* deploy_pool's remediation hint: a deployment that fails with its pool made names the
\* pool to delete, unless the answer to the creation itself was lost.
THEOREM FailureNamesPool == Spec => []HintNamesPool
<1>1. RunsInv => HintNamesPool
  BY DEF RunsInv, Sound, UpTo, HintNamesPool
<1> QED
  BY <1>1, RunsAlways, PTL

----------------------------------------------------------------------------
(***************************************************************************)
(* The server's own cookie                                                 *)
(***************************************************************************)

\* The refresh in flight is the one that makes auth requests, besides get_token's
\* login; it refreshes once, and may then log in.
OneFlight ==
    /\ \A f, g \in Agents : flight[f] # "none" /\ flight[g] # "none" => f = g
    /\ \A f \in Agents :
         /\ flight[f] = "none" => call[f].at = "idle"
         /\ call[f].op = "refresh" => flight[f] = "refresh"
    /\ call["direct"].op # "refresh"

\* Nobody logs out, so the cookie stays once it is set.
NoLogout ==
    \A c \in Callers : /\ call[c].op # "logout" /\ call[c].reply # "204"
                       /\ call[c].at # "idle" => call[c].op # "none"

\* A login's answer is the only place its row is in.
FreshLogin ==
    \A c \in Callers : Granted(c) /\ call[c].op = "login" =>
        /\ cookie.row # call[c].row
        /\ \A d \in Callers \ {c} : call[d].row # call[c].row

\* Who holds a token, or has held the one that is refused, has a cookie.
Signed ==
    /\ token # "none" => cookie # NoCookie
    /\ \A a \in Agents : run[a].at \in {"sent", "denied", "joined", "again"} => cookie # NoCookie

\* The secret a refresh was sent with is the current one.
OwnSecret ==
    \A f \in Agents : At(f, "sent", "refresh") =>
        /\ call[f].row # 0
        /\ lost \/ call[f].secret = rows[call[f].row].secret

FlightInv == OneFlight /\ NoLogout /\ FreshLogin /\ Signed /\ OwnSecret

\* What is needed of the API's own invariant.
ApiFacts ==
    /\ AuthTypeOK
    /\ \A c \in Callers : call[c].row # 0 => rows[call[c].row].secret >= 1
    /\ cookie.row # 0 => rows[cookie.row].secret >= 1
    /\ cookie.row = 0 => cookie = NoCookie
    /\ \A c \in Callers : call[c].at # "answered" => call[c].reply = "none"
    /\ \A c \in Callers : call[c].at = "locked" => call[c].op = "refresh" /\ call[c].row # 0
    /\ \A c \in Callers : Granted(c) => call[c].row # 0
    /\ ~ lost /\ cookie # NoCookie =>
         \/ cookie.secret = rows[cookie.row].secret
         \/ \E c \in Callers : Granted(c) /\ call[c].row = cookie.row

LEMMA ApiFactsHold ==
  ASSUME Api!AuthInv
  PROVE  ApiFacts
<1>1. AuthTypeOK
  BY SameTypes DEF Api!AuthInv
<1>2. /\ \A c \in Callers : call[c].row # 0 => rows[call[c].row].secret >= 1
      /\ cookie.row # 0 => rows[cookie.row].secret >= 1
      /\ cookie.row = 0 => cookie = NoCookie
  BY DEF Api!AuthInv, Api!IssuedInv, Api!Issued, NoCookie, Api!NoCookie
<1>3. \A c \in Callers : /\ call[c].at # "answered" => call[c].reply = "none"
                         /\ call[c].at = "locked" => call[c].op = "refresh" /\ call[c].row # 0
                         /\ Granted(c) => call[c].row # 0
  BY DEF Api!AuthInv, Api!StageInv, Api!Granted, Granted, Api!Accepted
<1>4. ~ lost /\ cookie # NoCookie =>
         \/ cookie.secret = rows[cookie.row].secret
         \/ \E c \in Callers : Granted(c) /\ call[c].row = cookie.row
  BY DEF Api!AuthInv, Api!CookieInv, Api!Granted, Granted, NoCookie, Api!NoCookie
<1> QED
  BY <1>1, <1>2, <1>3, <1>4 DEF ApiFacts

\* The broker's part of a request: the row is the request's, or a new one.
NewRow(c) ==
    /\ call[c].op = "login" /\ call'[c].row # 0
    /\ cookie.row # call'[c].row
    /\ \A d \in Callers : call[d].row # call'[c].row

LEMMA HandlesEffect ==
  ASSUME ApiFacts, NoLogout, NEW c \in Callers, Handles(c)
  PROVE  /\ cookie' = cookie /\ lost' = lost
         /\ \A d \in Callers \ {c} : call'[d] = call[d]
         /\ call[c].at \in {"sent", "locked"} /\ call'[c].at \in {"locked", "answered"}
         /\ call'[c].op = call[c].op /\ call'[c].reply # "204"
         /\ call'[c].row = call[c].row \/ NewRow(c)
         /\ Granted(c)' /\ call[c].op = "login" => NewRow(c)
         /\ \A r \in Rows : rows[r].secret >= 1 /\ rows'[r].secret # rows[r].secret =>
              call[c].op = "refresh"
<1> USE DEF ApiFacts
<1>1. /\ rows \in [Rows -> AuthRow] /\ call \in [Callers -> AuthCall]
      /\ call[c] \in AuthCall /\ call[c].op # "logout" /\ call[c].reply # "204"
      /\ \A d \in Callers : call[d].row \in Rows \cup {0}
  BY DEF AuthTypeOK, NoLogout, AuthCall
<1>2. ASSUME NEW reply \in {"401", "503"}, Answer(c, reply)
      PROVE  /\ \A d \in Callers \ {c} : call'[d] = call[d]
             /\ call'[c].at = "answered" /\ call'[c].op = call[c].op
             /\ call'[c].reply = reply /\ call'[c].row = call[c].row
  BY <1>1, <1>2 DEF Answer, AuthCall
<1>3. CASE LoginIssues(c)
  <2>1. PICK r \in Rows :
          /\ rows[r] = Absent
          /\ rows' = [rows EXCEPT ![r].secret = 1]
          /\ call' = [call EXCEPT ![c] = [@ EXCEPT !.at = "answered", !.reply = "ok",
                                                   !.row = r, !.secret = 1]]
    BY <1>3 DEF LoginIssues
  <2> DEFINE given == [call[c] EXCEPT !.at = "answered", !.reply = "ok", !.row = r, !.secret = 1]
  <2>2. /\ given.at = "answered" /\ given.reply = "ok" /\ given.row = r
        /\ given.op = call[c].op
    BY <1>1 DEF AuthCall
  <2>3. call' = [call EXCEPT ![c] = given]
    BY <2>1
  <2> HIDE DEF given
  <2>4. /\ \A d \in Callers \ {c} : call'[d] = call[d]
        /\ call'[c].at = "answered" /\ call'[c].reply = "ok" /\ call'[c].row = r
        /\ call'[c].op = call[c].op
    BY <1>1, <2>2, <2>3
  <2>5. rows[r].secret = 0 /\ \A s \in Rows \ {r} : rows'[s] = rows[s]
    BY <1>1, <2>1 DEF Absent
  <2>6. /\ cookie.row # r /\ \A d \in Callers : call[d].row # r
    <3>1. r # 0
      BY DEF Rows
    <3>2. QED
      BY <2>5, <3>1
  <2>7. /\ call[c].at = "sent" /\ call[c].op = "login" /\ cookie' = cookie /\ lost' = lost
        /\ r # 0
    BY <1>3 DEF LoginIssues, At, Rows
  <2>8. NewRow(c)
    BY <2>4, <2>6, <2>7 DEF NewRow
  <2> QED
    BY <2>4, <2>5, <2>7, <2>8
<1>4. CASE LoginRefused(c)
  BY <1>2, <1>4 DEF LoginRefused, At, Granted
<1>5. CASE RefreshReads(c)
  <2>1. /\ call[c].at = "sent" /\ call[c].op = "refresh" /\ UNCHANGED <<rows, cookie, lost>>
        /\ call' = [call EXCEPT ![c].at = "locked"] \/ Answer(c, "401")
    BY <1>5 DEF RefreshReads, At
  <2>2. CASE call' = [call EXCEPT ![c].at = "locked"]
    BY <1>1, <2>1, <2>2 DEF AuthCall, Granted
  <2>3. CASE Answer(c, "401")
    BY <1>2, <2>1, <2>3 DEF Granted
  <2> QED
    BY <2>1, <2>2, <2>3
<1>6. CASE RefreshRotates(c)
  <2> DEFINE s == rows[call[c].row].secret + 1
             given == [call[c] EXCEPT !.at = "answered", !.reply = "ok", !.secret = s]
  <2>1. call' = [call EXCEPT ![c] = given]
    BY <1>6 DEF RefreshRotates
  <2> HIDE DEF s
  <2>2. /\ given.at = "answered" /\ given.reply = "ok" /\ given.row = call[c].row
        /\ given.op = call[c].op
    BY <1>1 DEF AuthCall
  <2> HIDE DEF given
  <2>3. /\ call[c].at = "locked" /\ call[c].op = "refresh" /\ cookie' = cookie /\ lost' = lost
    BY <1>6 DEF RefreshRotates, At
  <2> QED
    BY <1>1, <2>1, <2>2, <2>3
<1>7. CASE RefreshUserGone(c)
  <2>1. /\ call[c].at = "locked" /\ call[c].op = "refresh" /\ cookie' = cookie /\ lost' = lost
        /\ Answer(c, "401")
    BY <1>7 DEF RefreshUserGone, At
  <2> QED
    BY <1>2, <2>1 DEF Granted
<1>8. CASE RefreshUnavailable(c)
  <2>1. /\ call[c].at = "locked" /\ UNCHANGED <<rows, cookie, lost>>
        /\ Answer(c, "503")
    BY <1>8 DEF RefreshUnavailable, At
  <2> QED
    BY <1>2, <2>1 DEF Granted
<1>9. ~ LogoutReads(c) /\ ~ LogoutRevokes(c)
  BY <1>1 DEF LogoutReads, LogoutRevokes, At
<1> QED
  BY <1>3, <1>4, <1>5, <1>6, <1>7, <1>8, <1>9 DEF Handles

LEMMA BrokerKeeps ==
  ASSUME ApiFacts, FlightInv, NEW c \in Callers, BrokerAuth(c)
  PROVE  FlightInv'
<1> USE DEF FlightInv
<1>1. UNCHANGED <<token, flight, run>> /\ Handles(c)
  BY DEF BrokerAuth
<1>2. /\ cookie' = cookie /\ lost' = lost
      /\ \A d \in Callers \ {c} : call'[d] = call[d]
      /\ call[c].at \in {"sent", "locked"} /\ call'[c].at \in {"locked", "answered"}
      /\ call'[c].op = call[c].op /\ call'[c].reply # "204"
      /\ call'[c].row = call[c].row \/ NewRow(c)
      /\ Granted(c)' /\ call[c].op = "login" => NewRow(c)
      /\ \A r \in Rows : rows[r].secret >= 1 /\ rows'[r].secret # rows[r].secret =>
              call[c].op = "refresh"
  BY <1>1, HandlesEffect
<1>3. Agents \subseteq Callers /\ Callers = Agents \cup {"direct"}
  BY DEF Callers
<1>4. OneFlight'
  BY <1>1, <1>2, <1>3 DEF OneFlight
<1>5. NoLogout'
  BY <1>2 DEF NoLogout
<1>6. FreshLogin'
  <2>1. ASSUME NEW d \in Callers, Granted(d)', call'[d].op = "login"
        PROVE  cookie'.row # call'[d].row
               /\ \A e \in Callers \ {d} : call'[e].row # call'[d].row
    <3>1. CASE d = c
      BY <1>2, <2>1, <3>1 DEF NewRow
    <3>2. CASE d # c
      <4>1. Granted(d) /\ call[d].op = "login"
        BY <1>2, <2>1, <3>2 DEF Granted
      <4>2. /\ cookie.row # call[d].row
            /\ \A e \in Callers \ {d} : call[e].row # call[d].row
        BY <4>1 DEF FreshLogin
      <4>3. call'[c].row # call[d].row
        BY <1>2, <3>2, <4>2 DEF NewRow
      <4> QED
        BY <1>2, <3>2, <4>2, <4>3
    <3> QED
      BY <3>1, <3>2
  <2> QED
    BY <2>1 DEF FreshLogin, Granted
<1>7. Signed'
  BY <1>1, <1>2 DEF Signed
<1>8. OwnSecret'
  <2>1. ASSUME NEW f \in Agents, At(f, "sent", "refresh")'
        PROVE  /\ call'[f].row # 0
               /\ lost' \/ call'[f].secret = rows'[call'[f].row].secret
    <3>1. f \in Callers /\ f # c /\ call'[f] = call[f] /\ At(f, "sent", "refresh")
      BY <1>2, <1>3, <2>1 DEF At
    <3>2. call[f].row # 0 /\ (lost \/ call[f].secret = rows[call[f].row].secret)
      BY <3>1 DEF OwnSecret
    <3>3. call[f].row \in Rows /\ rows[call[f].row].secret >= 1
      BY <3>1, <3>2 DEF ApiFacts, AuthTypeOK, AuthCall
    <3>4. call[c].op # "refresh"
      <4>1. flight[f] # "none"
        BY <3>1 DEF OneFlight, At
      <4>2. c \in Agents => flight[c] # "refresh"
        BY <3>1, <4>1 DEF OneFlight
      <4> QED
        BY <1>3, <4>2 DEF OneFlight
    <3> QED
      BY <1>2, <3>1, <3>2, <3>3, <3>4
  <2> QED
    BY <2>1 DEF OwnSecret, At
<1> QED
  BY <1>4, <1>5, <1>6, <1>7, <1>8

\* A request that leaves.
LEMMA SendsKeep ==
  ASSUME ApiFacts, FlightInv, NEW c \in Callers, NEW op \in {"login", "refresh"}, Sends(c, op),
         op = "refresh" => cookie # NoCookie /\ \A a \in Agents : flight[a] = "none"
  PROVE  /\ NoLogout' /\ FreshLogin' /\ OwnSecret'
         /\ cookie' = cookie /\ \A d \in Callers \ {c} : call'[d] = call[d]
         /\ call'[c].op = op
<1> USE DEF FlightInv
<1>1. /\ \A d \in Callers \ {c} : call'[d] = call[d]
      /\ call'[c].at = "sent" /\ call'[c].op = op /\ call'[c].row = cookie.row
      /\ call'[c].secret = cookie.secret /\ call'[c].reply = "none"
      /\ rows' = rows /\ cookie' = cookie /\ lost' = lost /\ call[c].at = "idle"
  BY DEF Sends, ApiFacts, AuthTypeOK
<1>2. Agents \subseteq Callers /\ Callers = Agents \cup {"direct"}
  BY DEF Callers
<1>3. NoLogout'
  BY <1>1 DEF NoLogout
<1>4. FreshLogin'
  BY <1>1 DEF FreshLogin, Granted
<1>5. OwnSecret'
  <2>1. ASSUME NEW f \in Agents, At(f, "sent", "refresh")'
        PROVE  /\ call'[f].row # 0
               /\ lost' \/ call'[f].secret = rows'[call'[f].row].secret
    <3>1. CASE f = c
      <4>1. op = "refresh" /\ cookie.row # 0 /\ cookie # NoCookie
        BY <1>1, <2>1, <3>1 DEF At, ApiFacts
      <4>2. ASSUME NEW d \in Callers, Granted(d), call[d].row = cookie.row
            PROVE  FALSE
        <5>1. d = "direct"
          BY <1>2, <4>1, <4>2 DEF OneFlight, Granted
        <5>2. call[d].op = "login"
          <6>1. call[d].op \in {"none", "login", "refresh", "logout"}
            BY DEF ApiFacts, AuthTypeOK, AuthCall
          <6>2. call[d].op # "none"
            BY <4>2 DEF Granted, NoLogout
          <6> QED
            BY <5>1, <6>1, <6>2 DEF OneFlight, NoLogout
        <5> QED
          BY <4>2, <5>2 DEF FreshLogin
      <4> QED
        BY <1>1, <3>1, <4>1, <4>2 DEF ApiFacts
    <3>2. CASE f # c
      BY <1>1, <1>2, <2>1, <3>2 DEF OwnSecret, At
    <3> QED
      BY <3>1, <3>2
  <2> QED
    BY <2>1 DEF OwnSecret, At
<1> QED
  BY <1>1, <1>3, <1>4, <1>5

\* A request that is over.
LEMMA EndsKeep ==
  ASSUME ApiFacts, FlightInv, NEW c \in Callers, Receives(c) \/ Loses(c)
  PROVE  /\ NoLogout' /\ FreshLogin' /\ OwnSecret'
         /\ cookie # NoCookie => cookie' # NoCookie
         /\ Granted(c) /\ cookie' = SetCookie(c) => cookie' # NoCookie
         /\ \A d \in Callers \ {c} : call'[d] = call[d]
         /\ call'[c].at = "idle" /\ call'[c].op = "none"
<1> USE DEF FlightInv
<1>1. /\ \A d \in Callers \ {c} : call'[d] = call[d]
      /\ call'[c].at = "idle" /\ call'[c].op = "none" /\ call'[c].row = 0
      /\ call'[c].reply = "none"
      /\ rows' = rows /\ (lost => lost')
  BY DEF Receives, Loses, ApiFacts, AuthTypeOK, NoCall
<1>2. Agents \subseteq Callers
  BY DEF Callers
<1>3. NoCookie.row = 0
  BY DEF NoCookie
<1>4. CASE Loses(c) \/ call[c].reply # "ok"
  <2>1. cookie' = cookie
    BY <1>4 DEF Receives, Loses, SetCookie, NoLogout
  <2>2. Granted(c) => SetCookie(c).row = call[c].row /\ call[c].row # 0
    BY DEF Granted, SetCookie, ApiFacts
  <2>3. Granted(c) /\ cookie' = SetCookie(c) => cookie' # NoCookie
    BY <1>3, <2>2
  <2>4. FreshLogin'
    BY <1>1, <2>1 DEF FreshLogin, Granted, ApiFacts
  <2>5. NoLogout' /\ OwnSecret'
    BY <1>1, <1>2 DEF NoLogout, OwnSecret, At
  <2> QED
    BY <1>1, <2>1, <2>3, <2>4, <2>5
<1>5. CASE Receives(c) /\ call[c].reply = "ok"
  <2>1. cookie' = [row |-> call[c].row, secret |-> call[c].secret] /\ Granted(c)
    BY <1>5 DEF Receives, SetCookie, Granted
  <2>2. cookie'.row = call[c].row /\ call[c].row # 0
    BY <2>1 DEF ApiFacts
  <2>3. cookie' # NoCookie
    BY <1>3, <2>2
  <2>4. FreshLogin'
    BY <1>1, <2>2 DEF FreshLogin, Granted, ApiFacts
  <2>5. NoLogout' /\ OwnSecret'
    BY <1>1, <1>2 DEF NoLogout, OwnSecret, At
  <2> QED
    BY <1>1, <2>3, <2>4, <2>5
<1> QED
  BY <1>4, <1>5

LEMMA ToolKeeps ==
  ASSUME ApiFacts, RunsInv, RestInv, FlightInv, NEW a \in Agents, Tool(a)
  PROVE  FlightInv'
<1> USE DEF FlightInv
<1>1. /\ a \in Callers /\ "direct" \in Callers /\ "direct" \notin Agents
      /\ Agents \subseteq Callers
  BY AgentsAssumption DEF Callers
<1>2. CASE Requests(a)
  BY <1>2 DEF Requests, Sent, tokens, OneFlight, NoLogout, FreshLogin, Granted, Signed,
              OwnSecret, At, RunsInv
<1>3. CASE Denied(a) \/ Answered(a) \/ Polled(a) \/ Refused(a) \/ Unheard(a)
  <2>1. /\ UNCHANGED <<rows, cookie, call, lost, token, flight>>
        /\ run[a].at \in {"sent", "again"}
    BY <1>3 DEF Denied, Answered, Polled, Refused, Unheard, Performing, tokens
  <2>2. Signed'
    BY <2>1 DEF Signed
  <2> QED
    BY <2>1, <2>2 DEF OneFlight, NoLogout, FreshLogin, Granted, OwnSecret, At
<1>4. CASE LogsIn(a)
  <2>1. /\ Sends("direct", "login") /\ UNCHANGED <<token, flight>>
        /\ run' = [run EXCEPT ![a].at = "login"]
    BY <1>4 DEF LogsIn
  <2>2. /\ NoLogout' /\ FreshLogin' /\ OwnSecret'
        /\ cookie' = cookie /\ \A d \in Callers \ {"direct"} : call'[d] = call[d]
        /\ call'["direct"].op = "login"
    BY <1>1, <2>1, SendsKeep
  <2>3. OneFlight'
    BY <1>1, <2>1, <2>2 DEF OneFlight
  <2>4. Signed'
    BY <2>1, <2>2 DEF Signed, RunsInv, Run
  <2> QED
    BY <2>2, <2>3, <2>4
<1>5. CASE LoginSettles(a)
  <2>1. /\ Receives("direct") \/ Loses("direct")
        /\ flight' = flight /\ run[a].at = "login"
        /\ \/ Granted("direct") /\ cookie' = SetCookie("direct")
           \/ run' = [run EXCEPT ![a] = Fails(run[a])] /\ token' = token
    BY <1>5 DEF LoginSettles
  <2>2. /\ NoLogout' /\ FreshLogin' /\ OwnSecret'
        /\ cookie # NoCookie => cookie' # NoCookie
        /\ Granted("direct") /\ cookie' = SetCookie("direct") => cookie' # NoCookie
        /\ \A d \in Callers \ {"direct"} : call'[d] = call[d]
        /\ call'["direct"].op = "none"
    BY <1>1, <2>1, EndsKeep
  <2>3. OneFlight'
    BY <1>1, <2>1, <2>2 DEF OneFlight
  <2>4. Signed'
    <3>1. CASE cookie' # NoCookie
      BY <3>1 DEF Signed
    <3>2. CASE run' = [run EXCEPT ![a] = Fails(run[a])] /\ token' = token
      <4>1. Sound(run[a]) /\ run \in [Agents -> Run]
        BY DEF RunsInv
      <4>2. Fails(run[a]).at \in {"ready", "done"}
        <5>1. /\ run[a] \in Run /\ run[a].n \in 1 .. Len(Plan[run[a].plan])
              /\ UpTo(run[a], run[a].n) /\ Named(run[a])
          BY <2>1, <4>1 DEF Sound
        <5> QED
          BY <5>1, FailsSound
      <4>3. run'[a] = Fails(run[a]) /\ \A b \in Agents \ {a} : run'[b] = run[b]
        BY <3>2, <4>1
      <4>4. run'[a].at \notin {"sent", "denied", "joined", "again"}
        BY <4>2, <4>3
      <4> HIDE DEF Sound
      <4> QED
        BY <2>2, <3>2, <4>3, <4>4 DEF Signed
    <3> QED
      BY <2>1, <2>2, <3>1, <3>2
  <2> QED
    BY <2>2, <2>3, <2>4
<1>6. CASE ForceNewToken(a)
  <2>1. run[a].at = "denied" /\ token' = token /\ cookie # NoCookie
    BY <1>6 DEF ForceNewToken, Signed
  <2>2. CASE UNCHANGED <<tokens, flight>>
    BY <2>1, <2>2 DEF tokens, OneFlight, NoLogout, FreshLogin, Granted, Signed, OwnSecret, At
  <2>3. CASE InFlight = {} /\ flight' = [flight EXCEPT ![a] = "refresh"] /\ Sends(a, "refresh")
    <3>1. \A f \in Agents : flight[f] = "none"
      BY <2>3 DEF InFlight
    <3>2. /\ NoLogout' /\ FreshLogin' /\ OwnSecret'
          /\ cookie' = cookie /\ \A d \in Callers \ {a} : call'[d] = call[d]
          /\ call'[a].op = "refresh"
      BY <1>1, <2>1, <2>3, <3>1, SendsKeep
    <3>3. OneFlight'
      BY <1>1, <2>3, <3>1, <3>2 DEF OneFlight, RestInv
    <3> QED
      BY <2>1, <3>2, <3>3 DEF Signed
  <2> QED
    BY <1>6, <2>2, <2>3 DEF ForceNewToken
<1> QED
  BY <1>2, <1>3, <1>4, <1>5, <1>6 DEF Tool

LEMMA FlightKeeps ==
  ASSUME ApiFacts, RunsInv, RestInv, FlightInv, NEW f \in Agents, Flight(f)
  PROVE  FlightInv'
<1> USE DEF FlightInv
<1>1. /\ f \in Callers /\ "direct" \in Callers /\ "direct" \notin Agents
      /\ Agents \subseteq Callers
  BY AgentsAssumption DEF Callers
<1>2. flight[f] # "none"
  BY DEF Flight, FlightGranted, RefreshRefused, Relogs, FlightFails
<1>3. CASE Relogs(f)
  <2>1. Sends(f, "login") /\ UNCHANGED <<token, flight, run>>
    BY <1>3 DEF Relogs
  <2>2. /\ NoLogout' /\ FreshLogin' /\ OwnSecret'
        /\ cookie' = cookie /\ \A d \in Callers \ {f} : call'[d] = call[d]
        /\ call'[f].op = "login"
    BY <1>1, <2>1, SendsKeep
  <2>3. OneFlight'
    BY <1>1, <1>2, <2>1, <2>2 DEF OneFlight
  <2> QED
    BY <2>1, <2>2, <2>3 DEF Signed
<1>4. CASE ~ Relogs(f)
  <2>1. Receives(f) \/ Loses(f)
    BY <1>4 DEF Flight, FlightGranted, RefreshRefused, FlightFails
  <2>2. /\ NoLogout' /\ FreshLogin' /\ OwnSecret'
        /\ cookie # NoCookie => cookie' # NoCookie
        /\ Granted(f) /\ cookie' = SetCookie(f) => cookie' # NoCookie
        /\ \A d \in Callers \ {f} : call'[d] = call[d]
        /\ call'[f].at = "idle" /\ call'[f].op = "none"
    BY <1>1, <2>1, EndsKeep
  <2>3. flight' = [flight EXCEPT ![f] = "none"] \/ flight' = [flight EXCEPT ![f] = "relogin"]
    BY <1>4 DEF Flight, FlightGranted, RefreshRefused, FlightFails, Resolves
  <2>4. OneFlight'
    BY <1>1, <1>2, <2>2, <2>3 DEF OneFlight, RestInv
  <2>5. Signed'
    <3>1. CASE FlightGranted(f)
      BY <2>2, <3>1 DEF FlightGranted, Receives, Signed
    <3>2. CASE RefreshRefused(f)
      BY <2>2, <3>2 DEF RefreshRefused, Signed
    <3>3. CASE FlightFails(f)
      <4>1. token' = token /\ Resolves(f, FALSE)
        BY <3>3 DEF FlightFails
      <4>2. \A a \in Agents : run'[a] = run[a] \/ run[a].at = "joined"
        BY <4>1 DEF Resolves
      <4> QED
        BY <2>2, <4>1, <4>2 DEF Signed
    <3> QED
      BY <1>4, <3>1, <3>2, <3>3 DEF Flight
  <2> QED
    BY <2>2, <2>4, <2>5
<1> QED
  BY <1>3, <1>4

LEMMA FlightStep ==
  ASSUME ApiFacts, RunsInv, RestInv, FlightInv, [Next]_vars
  PROVE  FlightInv'
<1> USE DEF FlightInv
<1>1. ASSUME NEW a \in Agents, Tool(a)
      PROVE  FlightInv'
  BY <1>1, ToolKeeps
<1>2. ASSUME NEW f \in Agents, Flight(f)
      PROVE  FlightInv'
  BY <1>2, FlightKeeps
<1>3. ASSUME NEW c \in Callers, BrokerAuth(c)
      PROVE  FlightInv'
  BY <1>3, BrokerKeeps
<1>4. ASSUME NEW a \in Agents, Begins(a)
      PROVE  FlightInv'
  <2>1. UNCHANGED <<rows, cookie, call, lost, token, flight>>
    BY <1>4 DEF Begins, tokens
  <2>2. OneFlight' /\ NoLogout' /\ FreshLogin' /\ OwnSecret'
    BY <2>1 DEF OneFlight, NoLogout, FreshLogin, Granted, OwnSecret, At
  <2>3. \A b \in Agents : run'[b] = run[b] \/ run'[b].at = "ready"
    <3>1. PICK p \in DOMAIN Plan :
            run' = [run EXCEPT ![a] = [run[a] EXCEPT !.plan = p, !.at = "ready"]]
      BY <1>4 DEF Begins
    <3>2. run \in [Agents -> Run] /\ run[a] \in Run
      BY DEF RunsInv
    <3> DEFINE begun == [run[a] EXCEPT !.plan = p, !.at = "ready"]
    <3>3. begun.at = "ready"
      BY <3>2 DEF Run
    <3>4. run' = [run EXCEPT ![a] = begun]
      BY <3>1
    <3> HIDE DEF begun
    <3> QED
      BY <3>2, <3>3, <3>4
  <2>4. Signed'
    BY <2>1, <2>3 DEF Signed
  <2> QED
    BY <2>2, <2>4
<1>5. CASE AccessExpires
  <2>1. UNCHANGED <<rows, cookie, call, lost, flight>> /\ token = "live"
    BY <1>5 DEF AccessExpires, tokens
  <2>2. OneFlight' /\ NoLogout' /\ FreshLogin' /\ OwnSecret'
    BY <2>1 DEF OneFlight, NoLogout, FreshLogin, Granted, OwnSecret, At
  <2>3. \A b \in Agents : run'[b].at = run[b].at
    <3>1. \A b \in Agents : run[b] \in Run
      BY DEF RunsInv
    <3> QED
      BY <1>5, <3>1 DEF AccessExpires, Run
  <2>4. Signed'
    BY <2>1, <2>3 DEF Signed
  <2> QED
    BY <2>2, <2>4
<1>6. ASSUME NEW r \in Rows, LoginExpires(r)
      PROVE  FlightInv'
  <2>1. /\ UNCHANGED <<cookie, call, lost, token, flight, run>>
        /\ rows' = [rows EXCEPT ![r].over = TRUE]
    BY <1>6 DEF LoginExpires, RowExpires
  <2>2. \A s \in Rows : rows'[s].secret = rows[s].secret
    <3>1. rows \in [Rows -> AuthRow]
      BY DEF ApiFacts, AuthTypeOK
    <3> QED
      BY <2>1, <3>1 DEF AuthRow
  <2>3. \A f \in Agents : call[f].row # 0 => call[f].row \in Rows
    BY DEF ApiFacts, AuthTypeOK, AuthCall, Callers
  <2>4. OwnSecret'
    BY <2>1, <2>2, <2>3 DEF OwnSecret, At
  <2> QED
    BY <2>1, <2>4 DEF OneFlight, NoLogout, FreshLogin, Granted, Signed
<1>7. CASE PoolMoves \/ UNCHANGED vars
  <2>1. UNCHANGED <<rows, cookie, call, lost, token, flight, run>>
    BY <1>7 DEF PoolMoves, vars, tokens
  <2> QED
    BY <2>1 DEF OneFlight, NoLogout, FreshLogin, Granted, Signed, OwnSecret, At
<1> QED
  BY <1>1, <1>2, <1>3, <1>4, <1>5, <1>6, <1>7 DEF Next

LEMMA FlightAlways == Spec => [](FlightInv /\ ApiFacts)
<1>1. Init => FlightInv
  <2> SUFFICES ASSUME Init
               PROVE  FlightInv
    OBVIOUS
  <2>1. /\ \A c \in Callers : call[c] = NoCall
        /\ token = "none" /\ \A a \in Agents : flight[a] = "none" /\ run[a].at = "idle"
    BY DEF Init, AuthInit, NoRun
  <2>2. /\ NoCall.at = "idle" /\ NoCall.op = "none" /\ NoCall.reply = "none"
    BY DEF NoCall
  <2>3. Agents \subseteq Callers /\ "direct" \in Callers
    BY DEF Callers
  <2> QED
    BY <2>1, <2>2, <2>3
       DEF FlightInv, OneFlight, NoLogout, FreshLogin, Granted, Signed, OwnSecret, At
<1>2. Api!AuthInv => ApiFacts
  BY ApiFactsHold
<1>3. ApiFacts /\ RunsInv /\ RestInv /\ FlightInv /\ [Next]_vars => FlightInv'
  BY FlightStep
<1> QED
  BY <1>1, <1>2, <1>3, ApiAlways, RunsAlways, RestAlways, PTL DEF Spec

\* force_new_token: the refresh of the server's own cookie is refused only when the
\* login is over or an answer was lost.  Tools that meet a 401 together share one
\* refresh, so none of them spends the secret another one sent.
THEOREM RefreshesHonoured == Spec => RefreshHonoured
<1> DEFINE Honoured == \A f \in Agents :
             At(f, "sent", "refresh") /\ call'[f].reply = "401" =>
                 lost \/ rows[call[f].row].over
<1>1. ASSUME FlightInv, ApiFacts, [Next]_vars
      PROVE  [Honoured]_vars
  <2> SUFFICES ASSUME NEW f \in Agents, At(f, "sent", "refresh"), call'[f].reply = "401"
               PROVE  lost \/ rows[call[f].row].over
    OBVIOUS
  <2>1. /\ f \in Callers /\ call[f].at = "sent" /\ call[f].op = "refresh"
        /\ call \in [Callers -> AuthCall] /\ call[f].reply = "none" /\ call[f].row \in Rows \cup {0}
    BY <1>1 DEF Callers, At, ApiFacts, AuthTypeOK, AuthCall
  <2>2. Api!AuthNext
    <3>1. call' # call
      BY <2>1
    <3> QED
      BY <1>1, <3>1, StepIsApiStep DEF auth
  <2>3. Handles(f)
    <3>1. \A c \in Callers, op \in {"login", "refresh", "logout"} : ~ Sends(c, op)
      BY <2>1 DEF Sends
    <3>2. \A c \in Callers : ~ Receives(c) /\ ~ Loses(c)
      BY <2>1 DEF Receives, Loses, NoCall
    <3>3. \A r \in Rows : ~ RowExpires(r)
      BY <2>1 DEF RowExpires
    <3>4. PICK c \in Callers : Handles(c)
      BY <2>2, <3>1, <3>2, <3>3, SameApi DEF Api!AuthNext
    <3>5. c = f
      BY <1>1, <2>1, <3>4, HandlesEffect DEF FlightInv
    <3> QED
      BY <3>4, <3>5
  <2>4. RefreshReads(f)
    BY <2>1, <2>3 DEF Handles, LoginIssues, LoginRefused, RefreshRotates, RefreshUserGone,
                      RefreshUnavailable, LogoutReads, LogoutRevokes, At
  <2>5. ~ Accepted(call[f].row, call[f].secret)
    <3>1. CASE call' = [call EXCEPT ![f].at = "locked"]
      BY <2>1, <3>1 DEF AuthCall
    <3> QED
      BY <2>4, <3>1 DEF RefreshReads
  <2>6. call[f].row # 0 /\ (lost \/ call[f].secret = rows[call[f].row].secret)
    BY <1>1, <2>1 DEF FlightInv, OwnSecret, At
  <2> QED
    BY <2>5, <2>6 DEF Accepted
<1> QED
  BY <1>1, FlightAlways, PTL DEF Spec, RefreshHonoured

----------------------------------------------------------------------------
(***************************************************************************)
(* Every tool goes forward                                                 *)
(***************************************************************************)
Stage == [idle |-> 0, ready |-> 1, login |-> 2, sent |-> 3, denied |-> 4,
          joined |-> 5, again |-> 6]

\* e is a later state of the tool's call than r.  A plan has at most six steps, and the
\* polls are at most Deadline, so that there is no infinite sequence of later states.
Later(r, e) ==
    /\ r.at # "done"
    /\ \/ e.at = "done"
       \/ r.n < e.n
       \/ r.n = e.n /\ r.polls < e.polls
       \/ r.n = e.n /\ r.polls = e.polls /\ Stage[r.at] < Stage[e.at]

SamePlace(r, e) == e.n = r.n /\ e.polls = r.polls /\ e.at = r.at

GoesForward(a) ==
    \/ Later(run[a], run'[a])
    \/ SamePlace(run[a], run'[a]) /\ ~ Tool(a)

\* A tool goes forward in each of its steps, and nothing sends it back: neither what
\* another tool does, nor a login, a refresh or the end of a token, nor the pool
\* (auth.py, client.py, polling.py).
ToolsOnlyForward == [][\A a \in Agents : GoesForward(a)]_vars

Advances(a) == \E e : run' = [run EXCEPT ![a] = e] /\ Later(run[a], e)

LEMMA PlanGoesOn ==
  ASSUME NEW r \in Run, r.at # "done", NEW w \in Run, NEW n \in Nat, r.n < n
  PROVE  Later(r, Goes(w, n))
<1>1. CASE n > Len(Plan[w.plan])
  <2>1. Goes(w, n) = Ends(w, "ok")
    BY <1>1 DEF Goes
  <2> QED
    BY <2>1, EndsFields DEF Later
<1>2. CASE ~ (n > Len(Plan[w.plan]))
  <2> DEFINE e == [w EXCEPT !.n = n, !.at = "ready", !.polls = 0]
  <2>1. Goes(w, n) = e
    BY <1>2 DEF Goes
  <2>2. e.n = n
    BY DEF Run
  <2> HIDE DEF e
  <2> QED
    BY <2>1, <2>2 DEF Later
<1> QED
  BY <1>1, <1>2

LEMMA PlanFails ==
  ASSUME NEW r \in Run, r.at # "done", NEW w \in Run, w.n = r.n
  PROVE  Later(r, Fails(w))
<1>1. r.n \in Nat /\ r.n + 1 \in Nat /\ r.n < r.n + 1
  BY DEF Run
<1>2. CASE Step(w) = "disconnect"
  BY <1>1, <1>2, PlanGoesOn DEF Fails
<1>3. CASE Step(w) # "disconnect"
  BY <1>3, EndsFields DEF Fails, Later
<1> QED
  BY <1>2, <1>3

LEMMA StageOrder ==
  /\ Stage["idle"] < Stage["ready"]
  /\ Stage["ready"] < Stage["login"] /\ Stage["ready"] < Stage["sent"]
  /\ Stage["login"] < Stage["sent"] /\ Stage["sent"] < Stage["denied"]
  /\ Stage["denied"] < Stage["joined"] /\ Stage["joined"] < Stage["again"]
BY DEF Stage

LEMMA MovesAdvance ==
  ASSUME RunsInv, NEW a \in Agents,
         Requests(a) \/ LogsIn(a) \/ Denied(a) \/ ForceNewToken(a) \/ LoginSettles(a)
  PROVE  Advances(a)
<1> DEFINE r == run[a]
<1>1. r \in Run
  BY DEF RunsInv
<1>2. ASSUME NEW e, run' = [run EXCEPT ![a] = e],
             e.n = r.n, e.polls = r.polls, Stage[r.at] < Stage[e.at], r.at # "done"
      PROVE  Advances(a)
  BY <1>2 DEF Advances, Later
<1>3. CASE Requests(a)
  <2> DEFINE live == token = "live"
             e == [r EXCEPT !.at = "sent", !.live = live]
  <2>1. run' = [run EXCEPT ![a] = e] /\ r.at = "ready"
    BY <1>3 DEF Requests, Sent
  <2> HIDE DEF live
  <2>2. e.n = r.n /\ e.polls = r.polls /\ e.at = "sent"
    BY ONLY <1>1 DEF Run
  <2> HIDE DEF e, r
  <2> QED
    BY <1>2, <2>1, <2>2, StageOrder
<1>4. ASSUME NEW at \in {"login", "denied"}, run' = [run EXCEPT ![a].at = at],
             Stage[r.at] < Stage[at], r.at # "done"
      PROVE  Advances(a)
  <2> DEFINE e == [r EXCEPT !.at = at]
  <2>1. run' = [run EXCEPT ![a] = e]
    BY <1>4
  <2>2. e.n = r.n /\ e.polls = r.polls /\ e.at = at
    BY ONLY <1>1 DEF Run
  <2> HIDE DEF e, r
  <2> QED
    BY <1>2, <1>4, <2>1, <2>2
<1>5. ASSUME NEW f, run' = [run EXCEPT ![a] = [@ EXCEPT !.at = "joined", !.wait = f]], r.at = "denied"
      PROVE  Advances(a)
  <2> DEFINE e == [r EXCEPT !.at = "joined", !.wait = f]
  <2>1. run' = [run EXCEPT ![a] = e]
    BY <1>5
  <2>2. e.n = r.n /\ e.polls = r.polls /\ e.at = "joined"
    BY ONLY <1>1 DEF Run
  <2> HIDE DEF e, r
  <2> QED
    BY <1>2, <1>5, <2>1, <2>2, StageOrder
<1>6. CASE LoginSettles(a)
  <2>1. ASSUME run' = [run EXCEPT ![a] = [@ EXCEPT !.at = "sent", !.live = TRUE]]
        PROVE  Advances(a)
    <3> DEFINE e == [r EXCEPT !.at = "sent", !.live = TRUE]
    <3>1. run' = [run EXCEPT ![a] = e] /\ r.at = "login"
      BY <1>6, <2>1 DEF LoginSettles
    <3>2. e.n = r.n /\ e.polls = r.polls /\ e.at = "sent"
      BY ONLY <1>1 DEF Run
    <3> HIDE DEF e, r
    <3> QED
      BY <1>2, <3>1, <3>2, StageOrder
  <2>2. ASSUME run' = [run EXCEPT ![a] = Fails(run[a])]
        PROVE  Advances(a)
    <3>1. Later(r, Fails(r))
      BY <1>1, <1>6, PlanFails DEF LoginSettles
    <3> QED
      BY <2>2, <3>1 DEF Advances
  <2> QED
    BY <1>6, <2>1, <2>2 DEF LoginSettles
<1> QED
  <2>1. CASE LogsIn(a)
    BY <1>4, <2>1, StageOrder DEF LogsIn
  <2>2. CASE Denied(a)
    BY <1>4, <2>2, StageOrder DEF Denied
  <2>3. CASE ForceNewToken(a)
    BY <1>5, <2>3 DEF ForceNewToken
  <2> QED
    BY <1>3, <1>6, <2>1, <2>2, <2>3

\* What a step hears, it hears for a later step of the plan.
LEMMA HearsAdvances ==
  ASSUME NEW r, Sound(r), r.at # "done"
  PROVE  Later(r, Hears(Did(r)))
<1> DEFINE d == Did(r)
           told == [d EXCEPT !.pool = TRUE]
<1>1. r \in Run /\ r.n \in Nat /\ r.n < r.n + 1 /\ r.n < r.n + 2
  BY DEF Sound, Run
<1>2. d \in Run /\ d.n = r.n
  BY DidFields
<1> HIDE DEF d
<1>3. told \in Run
  BY <1>2, Sets
<1>4. /\ Later(r, Goes(told, d.n + 1)) /\ Later(r, Goes(d, d.n + 1))
      /\ Later(r, Goes(d, d.n + 2))
  BY <1>1, <1>2, <1>3, PlanGoesOn
<1>5. Later(r, Ends(d, "ok"))
  BY <1>2, EndsFields DEF Later
<1>6. \/ Hears(d) = Goes(told, d.n + 1) \/ Hears(d) = Goes(d, d.n + 1)
      \/ Hears(d) = Goes(d, d.n + 2) \/ Hears(d) = Ends(d, "ok")
  BY DEF Hears
<1> QED
  BY <1>4, <1>5, <1>6 DEF d

LEMMA MissesAdvances ==
  ASSUME NEW r, Sound(r), r.at # "done"
  PROVE  Later(r, Misses(r))
<1> DEFINE d == Did(r)
           creating == Step(r) = "create"
           e == [d EXCEPT !.unheard = creating]
<1>1. r \in Run /\ creating \in BOOLEAN
  BY DEF Sound
<1>2. d \in Run /\ d.n = r.n
  BY DidFields
<1>3. Misses(r) = Fails(e)
  BY DEF Misses
<1> HIDE DEF d, creating
<1>4. e \in Run /\ e.n = d.n
  <2>1. e \in Run
    BY <1>1, <1>2, Sets
  <2>2. e.n = d.n
    BY ONLY <1>2 DEF Run
  <2> QED
    BY <2>1, <2>2
<1> HIDE DEF e
<1>5. Later(r, Fails(e))
  BY <1>1, <1>2, <1>4, PlanFails
<1> QED
  BY <1>3, <1>5

LEMMA PollAdvances ==
  ASSUME RunsInv, NEW a \in Agents, Polled(a)
  PROVE  Advances(a)
<1> DEFINE r == run[a]
<1>1. r \in Run /\ r.at # "done" /\ r.n \in Nat /\ r.n < r.n + 1
  BY DEF RunsInv, Polled, Performing, Run
<1>2. ASSUME run' = [run EXCEPT ![a] = Goes(run[a], run[a].n + 1)]
      PROVE  Advances(a)
  <2>1. Later(r, Goes(r, r.n + 1))
    BY <1>1, PlanGoesOn
  <2> QED
    BY <1>2, <2>1 DEF Advances
<1>3. ASSUME run' = [run EXCEPT ![a] = [@ EXCEPT !.at = "ready", !.polls = run[a].polls + 1]]
      PROVE  Advances(a)
  <2> DEFINE polls == r.polls + 1
             e == [r EXCEPT !.at = "ready", !.polls = polls]
  <2>1. run' = [run EXCEPT ![a] = e]
    BY <1>3
  <2>2. r.polls < polls
    BY <1>1, BoundsAssumption DEF Run
  <2> HIDE DEF polls
  <2>3. e.n = r.n /\ e.polls = polls
    BY ONLY <1>1 DEF Run
  <2> HIDE DEF e
  <2>4. Later(r, e)
    BY <1>1, <2>2, <2>3 DEF Later
  <2> QED
    BY <2>1, <2>4 DEF Advances
<1> QED
  BY <1>2, <1>3 DEF Polled

LEMMA ToolAdvances ==
  ASSUME RunsInv, NEW a \in Agents, Tool(a)
  PROVE  Advances(a)
<1>1. CASE Answered(a) \/ Refused(a) \/ Unheard(a)
  <2>1. run[a] \in Run /\ Sound(run[a]) /\ run[a].at # "done"
    BY <1>1 DEF RunsInv, Answered, Refused, Unheard, Performing
  <2>2. CASE Answered(a)
    BY <2>1, <2>2, HearsAdvances DEF Answered, Advances
  <2>3. CASE Refused(a)
    BY <2>1, <2>3, PlanFails DEF Refused, Advances
  <2>4. CASE Unheard(a)
    BY <2>1, <2>4, MissesAdvances DEF Unheard, Advances
  <2> QED
    BY <1>1, <2>2, <2>3, <2>4
<1> QED
  BY <1>1, PollAdvances, MovesAdvance DEF Tool

\* The end of the shared refresh takes those that wait for it on, and nobody back.
LEMMA ResolveAdvances ==
  ASSUME RunsInv, NEW f \in Agents, NEW ok \in BOOLEAN, Resolves(f, ok), NEW a \in Agents
  PROVE  run'[a] = run[a] \/ Later(run[a], run'[a])
<1> DEFINE r == run[a]
           w == [r EXCEPT !.wait = NoAgent]
           e == [w EXCEPT !.at = "again", !.live = TRUE]
<1>1. r \in Run
  BY DEF RunsInv
<1>2. run'[a] = IF r.at # "joined" \/ r.wait # f THEN r ELSE IF ok THEN e ELSE Fails(w)
  BY DEF Resolves
<1> HIDE DEF r
<1>3. w \in Run
  BY <1>1, Sets
<1>4. w.n = r.n /\ w.polls = r.polls
  BY ONLY <1>1 DEF Run
<1> HIDE DEF w
<1>5. e.n = w.n /\ e.polls = w.polls /\ e.at = "again"
  BY ONLY <1>3 DEF Run
<1> HIDE DEF e
<1>6. r.at = "joined" => Later(r, e)
  BY <1>4, <1>5, StageOrder DEF Later
<1>7. r.at = "joined" => Later(r, Fails(w))
  BY <1>1, <1>3, <1>4, PlanFails
<1>8. run'[a] = r \/ Later(r, run'[a])
  BY <1>2, <1>6, <1>7
<1> QED
  BY <1>8 DEF r

LEMMA BeginAdvances ==
  ASSUME RunsInv, NEW a \in Agents, Begins(a)
  PROVE  Advances(a)
<1> DEFINE r == run[a]
<1>1. PICK p \in DOMAIN Plan : run' = [run EXCEPT ![a] = [@ EXCEPT !.plan = p, !.at = "ready"]]
  BY DEF Begins
<1> DEFINE e == [r EXCEPT !.plan = p, !.at = "ready"]
<1>2. r \in Run /\ r.at = "idle"
  BY DEF RunsInv, Begins
<1>3. run' = [run EXCEPT ![a] = e]
  BY <1>1
<1>4. e.n = r.n /\ e.polls = r.polls /\ e.at = "ready"
  BY ONLY <1>2 DEF Run
<1> HIDE DEF e
<1>5. Later(r, e)
  BY <1>2, <1>4, StageOrder DEF Later
<1> QED
  BY <1>3, <1>5 DEF Advances

LEMMA ExpiryKeepsPlaces ==
  ASSUME RunsInv, AccessExpires, NEW a \in Agents
  PROVE  SamePlace(run[a], run'[a])
<1> DEFINE r == run[a]
           e == [r EXCEPT !.live = FALSE]
<1>1. r \in Run
  BY DEF RunsInv
<1>2. run'[a] = e
  BY DEF AccessExpires
<1>3. e.n = r.n /\ e.polls = r.polls /\ e.at = r.at
  BY ONLY <1>1 DEF Run
<1> HIDE DEF e
<1> QED
  BY <1>2, <1>3 DEF SamePlace

LEMMA ToolsForwardStep ==
  ASSUME RunsInv, [Next]_vars, NEW a \in Agents
  PROVE  GoesForward(a)
<1> DEFINE Onward == Later(run[a], run'[a]) \/ SamePlace(run[a], run'[a])
<1>1. ASSUME NEW b \in Agents, Advances(b)
      PROVE  IF b = a THEN Later(run[a], run'[a]) ELSE run'[a] = run[a]
  BY <1>1 DEF Advances, RunsInv
<1>2. Tool(a) => Later(run[a], run'[a])
  BY <1>1, ToolAdvances
<1>3. ASSUME run'[a] = run[a]
      PROVE  Onward
  BY <1>3 DEF SamePlace
<1>4. ASSUME NEW b \in Agents, Begins(b) \/ Tool(b)
      PROVE  Onward
  BY <1>1, <1>3, <1>4, BeginAdvances, ToolAdvances
<1>5. ASSUME NEW f \in Agents, Flight(f)
      PROVE  Onward
  <2>1. CASE FlightGranted(f) \/ FlightFails(f)
    BY <1>3, <2>1, ResolveAdvances DEF FlightGranted, FlightFails
  <2>2. CASE RefreshRefused(f) \/ Relogs(f)
    BY <1>3, <2>2 DEF RefreshRefused, Relogs
  <2> QED
    BY <1>5, <2>1, <2>2 DEF Flight
<1>6. ASSUME UNCHANGED run
      PROVE  Onward
  BY <1>3, <1>6
<1>7. AccessExpires => Onward
  BY ExpiryKeepsPlaces
<1>8. Onward
  <2> HIDE DEF Onward
  <2> QED
    BY <1>4, <1>5, <1>6, <1>7 DEF Next, BrokerAuth, LoginExpires, PoolMoves, vars
<1> QED
  BY <1>2, <1>8 DEF GoesForward

\* No tool polls, retries or logs in for ever, for any number of tools and any deadline:
\* each of its steps takes it to a later state, and there are finitely many.  What is
\* left of ToolsReturn is that a tool that waits is let on, and fairness.
THEOREM ToolsGoForward == Spec => ToolsOnlyForward
<1>1. RunsInv /\ [Next]_vars => [\A a \in Agents : GoesForward(a)]_vars
  BY ToolsForwardStep
<1>2. QED
  BY <1>1, RunsAlways, PTL DEF Spec, ToolsOnlyForward

=============================================================================
