---------------------------- MODULE PortalProofs ----------------------------
(***************************************************************************)
(* The portal is a client of the auth API, so what the API promises any    *)
(* client holds of its tabs; and each of its calls is performed once.      *)
(***************************************************************************)
EXTENDS Portal, TLAPS

\* The proofs about the API, for this module's callers.
Api == INSTANCE AuthTokensProofs WITH Callers <- Slots

----------------------------------------------------------------------------
(***************************************************************************)
(* The portal implements the API's clients                                 *)
(***************************************************************************)
LEMMA SameApi ==
  /\ AuthInit => Api!AuthInit
  /\ \A c, op : Sends(c, op) <=> Api!Sends(c, op)
  /\ \A c : Handles(c) <=> Api!Handles(c)
  /\ \A c : Receives(c) <=> Api!Receives(c)
  /\ \A c : Loses(c) <=> Api!Loses(c)
  /\ \A r : RowExpires(r) <=> Api!RowExpires(r)
  /\ Rows = Api!Rows
  /\ auth = Api!auth
<1>1. AuthInit => Api!AuthInit
  BY DEF AuthInit, Api!AuthInit, Rows, Api!Rows, Absent, Api!Absent, NoCookie, Api!NoCookie,
         NoCall, Api!NoCall
<1>2. \A c, op : Sends(c, op) <=> Api!Sends(c, op)
  BY DEF Sends, Api!Sends
<1>3. \A c : Handles(c) <=> Api!Handles(c)
  <2> USE DEF At, Api!At, Answer, Api!Answer, Rows, Api!Rows, Absent, Api!Absent,
              RowLocked, Api!RowLocked, Accepted, Api!Accepted
  <2>1. \A c : LoginIssues(c) <=> Api!LoginIssues(c)
    BY DEF LoginIssues, Api!LoginIssues
  <2>2. \A c : LoginRefused(c) <=> Api!LoginRefused(c)
    BY DEF LoginRefused, Api!LoginRefused
  <2>3. \A c : RefreshReads(c) <=> Api!RefreshReads(c)
    BY DEF RefreshReads, Api!RefreshReads
  <2>4. \A c : RefreshRotates(c) <=> Api!RefreshRotates(c)
    BY DEF RefreshRotates, Api!RefreshRotates
  <2>5. \A c : RefreshUserGone(c) <=> Api!RefreshUserGone(c)
    BY DEF RefreshUserGone, Api!RefreshUserGone
  <2>6. \A c : RefreshUnavailable(c) <=> Api!RefreshUnavailable(c)
    BY DEF RefreshUnavailable, Api!RefreshUnavailable
  <2>7. \A c : LogoutReads(c) <=> Api!LogoutReads(c)
    BY DEF LogoutReads, Api!LogoutReads
  <2>8. \A c : LogoutRevokes(c) <=> Api!LogoutRevokes(c)
    BY DEF LogoutRevokes, Api!LogoutRevokes
  <2> HIDE DEF At, Api!At, Answer, Api!Answer, Rows, Api!Rows, Absent, Api!Absent,
               RowLocked, Api!RowLocked, Accepted, Api!Accepted
  <2> QED
    BY <2>1, <2>2, <2>3, <2>4, <2>5, <2>6, <2>7, <2>8 DEF Handles, Api!Handles
<1>4. \A c : Receives(c) <=> Api!Receives(c)
  BY DEF Receives, Api!Receives, SetCookie, Api!SetCookie, NoCookie, Api!NoCookie,
         NoCall, Api!NoCall
<1>5. \A c : Loses(c) <=> Api!Loses(c)
  BY DEF Loses, Api!Loses, NoCall, Api!NoCall
<1>6. \A r : RowExpires(r) <=> Api!RowExpires(r)
  BY DEF RowExpires, Api!RowExpires, Absent, Api!Absent
<1>7. Rows = Api!Rows /\ auth = Api!auth
  BY DEF Rows, Api!Rows, auth, Api!auth
<1> QED
  BY <1>1, <1>2, <1>3, <1>4, <1>5, <1>6, <1>7

LEMMA SameProperties ==
  /\ AuthTypeOK <=> Api!AuthTypeOK
  /\ CookieCurrent <=> Api!CookieCurrent
<1>1. AuthTypeOK <=> Api!AuthTypeOK
  BY DEF AuthTypeOK, Api!AuthTypeOK, AuthRow, Api!AuthRow, Cookie, Api!Cookie,
         AuthCall, Api!AuthCall, Rows, Api!Rows, Secrets, Api!Secrets
<1>2. CookieCurrent <=> Api!CookieCurrent
  BY DEF CookieCurrent, Api!CookieCurrent, NoCookie, Api!NoCookie
<1> QED
  BY <1>1, <1>2

\* A tab's refresh, or its form's request.
LEMMA TabSlots ==
  ASSUME NEW t \in Tabs
  PROVE  Ref(t) \in Slots /\ (t \in Forms => Form(t) \in Slots)
BY DEF Ref, Form, Slots

LEMMA StepIsApiStep ==
  ASSUME [Next]_vars
  PROVE  [Api!AuthNext]_auth
<1> USE SameApi
<1>1. ASSUME NEW c \in Slots, BrokerAuth(c)
      PROVE  Api!AuthNext
  BY <1>1 DEF BrokerAuth, Api!AuthNext
<1>2. ASSUME NEW t \in Tabs, BrokerApi(t)
      PROVE  UNCHANGED auth
  BY <1>2 DEF BrokerApi, BrokerPerforms, BrokerRefuses, tokens, auth
<1>3. ASSUME NEW t \in Tabs, RefreshSettles(t)
      PROVE  Api!AuthNext
  BY <1>3, TabSlots DEF RefreshSettles, Api!AuthNext
<1>4. ASSUME NEW t \in Tabs, FormSettles(t)
      PROVE  Api!AuthNext
  BY <1>4, TabSlots DEF FormSettles, Api!AuthNext
<1>5. ASSUME NEW t \in Tabs, CallSettles(t)
      PROVE  Api!AuthNext \/ UNCHANGED auth
  BY <1>5, TabSlots DEF CallSettles, Unauthorized, ApiSettles, ApiLost, tokens, auth, Api!AuthNext
<1>6. ASSUME NEW t \in Tabs, User(t)
      PROVE  Api!AuthNext \/ UNCHANGED auth
  <2>1. CASE Opens(t) \/ RefreshTimer(t)
    BY <2>1, TabSlots DEF Opens, RefreshTimer, Api!AuthNext
  <2>2. CASE LoginSubmitted(t) \/ LogoutClicked(t)
    BY <2>2, TabSlots DEF LoginSubmitted, LogoutClicked, Api!AuthNext
  <2>3. CASE AccessExpires(t) \/ ConsoleMounts(t) \/ Retries(t) \/ ViewerReports(t)
             \/ DisconnectClicked(t) \/ Leaves(t)
    BY <2>3 DEF AccessExpires, ConsoleMounts, Retries, ViewerReports, DisconnectClicked, Leaves,
                tokens, auth
  <2> QED
    BY <1>6, <2>1, <2>2, <2>3 DEF User
<1>7. ASSUME NEW t \in Tabs, DeleteArrives(t) \/ MonitorEnds(t)
      PROVE  UNCHANGED auth
  BY <1>7 DEF DeleteArrives, MonitorEnds, tokens, auth
<1>8. ASSUME NEW r \in Rows, RowExpires(r)
      PROVE  Api!AuthNext
  BY <1>8 DEF Api!AuthNext
<1>9. CASE UNCHANGED vars
  BY <1>9 DEF vars, tokens, auth
<1> QED
  BY <1>1, <1>2, <1>3, <1>4, <1>5, <1>6, <1>7, <1>8, <1>9 DEF Next

\* Whatever the tabs do, the broker's auth API sees clients that send requests and get
\* answers: AuthContext's refreshes, and the forms.
THEOREM ClientOfTheApi == Spec => Api!AuthSpec
<1>1. Init => Api!AuthInit
  BY SameApi DEF Init
<1>2. [Next]_vars => [Api!AuthNext]_Api!auth
  BY StepIsApiStep DEF auth, Api!auth
<1> QED
  BY <1>1, <1>2, PTL DEF Spec, Api!AuthSpec

\* However the tabs' refreshes interleave, with each other and with a logout, a secret is
\* exchanged once, and never after its login is over.
THEOREM TabsExchangeOnce == Spec => GrantsCurrent
<1>1. MaxRows \in Nat /\ MaxSecret \in Nat \ {0}
  BY BoundsAssumption
<1>2. Api!AuthSpec => Api!GrantsCurrent
  BY <1>1, Api!SecretsExchangedOnce
<1>3. Api!GrantsCurrent => GrantsCurrent
  BY DEF GrantsCurrent, Api!GrantsCurrent, At, Api!At, Granted, Api!Granted, auth, Api!auth
<1> QED
  BY <1>2, <1>3, ClientOfTheApi, PTL

\* The tabs share one jar; with no request under way and no answer lost it holds the
\* current secret, whichever tab's refresh was the last.
THEOREM JarOfTabsCurrent == Spec => []CookieCurrent
<1>1. MaxRows \in Nat /\ MaxSecret \in Nat \ {0}
  BY BoundsAssumption
<1>2. Api!AuthSpec => []Api!CookieCurrent
  BY <1>1, Api!JarCurrent
<1> QED
  BY <1>2, SameProperties, ClientOfTheApi, PTL

----------------------------------------------------------------------------
(***************************************************************************)
(* The tabs: types, and one performance of each call                       *)
(***************************************************************************)

\* A request is performed as it is answered, and not before or after that.
Single == {a \in Request : /\ a.at # "answered" => a.done = 0
                           /\ a.done <= 1
                           /\ a.at # "idle" => a.op # "none"}

TabsInv ==
    /\ tab \in [Tabs -> TabState]
    /\ api \in [Tabs -> Single]
    /\ page \in [Tabs -> Page]
    /\ del \in [Tabs -> Delete]
    /\ ses \in [Tabs -> {"none", "active", "ended"}]

LEMMA Values ==
  /\ NoApi \in Single /\ NoPage \in Page /\ NoDel \in Delete
  /\ [NoPage EXCEPT !.at = "left"] \in Page
<1>1. NoApi \in Request /\ NoApi.at = "idle" /\ NoApi.done = 0
  BY DEF NoApi, Request
<1>2. NoApi \in Single
  BY <1>1 DEF Single
<1>3. NoPage \in Page
  BY DEF NoPage, Page
<1>4. [NoPage EXCEPT !.at = "left"] \in Page
  BY <1>3 DEF Page
<1>5. NoDel \in Delete
  BY DEF NoDel, Delete
<1> QED
  BY <1>2, <1>3, <1>4, <1>5

LEMMA GoneIsTyped ==
  ASSUME TabsInv, NEW t \in Tabs
  PROVE  Gone(t) \in [Tabs -> Page]
BY Values DEF TabsInv, Gone

LEMMA FiresTyped ==
  ASSUME TabsInv, NEW t \in Tabs, NEW token \in BOOLEAN, FiresDelete(t, token)
  PROVE  del' \in [Tabs -> Delete]
BY DEF TabsInv, FiresDelete, Delete

LEMMA SignsInTyped ==
  ASSUME TabsInv, NEW t \in Tabs, NEW leaves \in BOOLEAN, SignsIn(t, leaves), api' \in [Tabs -> Single]
  PROVE  TabsInv'
<1>1. tab' \in [Tabs -> TabState]
  BY DEF TabsInv, SignsIn, TabState
<1>2. page' \in [Tabs -> Page]
  <2> DEFINE fired == page[t].fired \/ Fires(t)
  <2>1. fired \in BOOLEAN /\ page \in [Tabs -> Page]
    BY DEF TabsInv, Page, Fires, In
  <2>2. page' = IF leaves THEN Gone(t) ELSE [page EXCEPT ![t].fired = fired]
    BY DEF SignsIn
  <2> HIDE DEF fired
  <2>3. [page EXCEPT ![t].fired = fired] \in [Tabs -> Page]
    BY <2>1 DEF Page
  <2>4. QED
    BY <2>2, <2>3, GoneIsTyped
<1>3. del' \in [Tabs -> Delete]
  BY FiresTyped DEF SignsIn
<1> QED
  BY <1>1, <1>2, <1>3 DEF TabsInv, SignsIn

LEMMA SignsOutTyped ==
  ASSUME TabsInv, NEW t \in Tabs, SignsOut(t), api' \in [Tabs -> Single]
  PROVE  TabsInv'
<1>1. tab' \in [Tabs -> TabState]
  BY DEF TabsInv, SignsOut, TabState
<1> QED
  BY <1>1, GoneIsTyped DEF TabsInv, SignsOut

\* The call that waits for the refresh has not been performed.
LEMMA WaitingCallTyped ==
  ASSUME TabsInv, NEW t \in Tabs, Replays(t) \/ GivesUp(t)
  PROVE  api' \in [Tabs -> Single]
<1>1. CASE Replays(t)
  <2>1. PICK token \in {TRUE, tab[t].live} :
          api' = IF api[t].at # "refreshing" THEN api
                 ELSE [api EXCEPT ![t] = [@ EXCEPT !.at = "again", !.token = token]]
    BY <1>1 DEF Replays
  <2>2. token \in BOOLEAN
    BY DEF TabsInv, TabState
  <2>3. api[t] \in Single
    BY DEF TabsInv
  <2>4. CASE api[t].at = "refreshing"
    <3> DEFINE new == [api[t] EXCEPT !.at = "again", !.token = token]
    <3>1. new \in Single
      BY <2>2, <2>3, <2>4 DEF Single, Request
    <3>2. api' = [api EXCEPT ![t] = new]
      BY <2>1, <2>4
    <3> HIDE DEF new
    <3> QED
      BY <3>1, <3>2 DEF TabsInv
  <2>5. CASE api[t].at # "refreshing"
    BY <2>1, <2>5 DEF TabsInv
  <2> QED
    BY <2>4, <2>5
<1>2. CASE GivesUp(t)
  BY <1>2, Values DEF TabsInv, GivesUp
<1> QED
  BY <1>1, <1>2

LEMMA CallingTyped ==
  ASSUME TabsInv, NEW t \in Tabs, NEW op \in {"connect", "disconnect"}
  PROVE  Calling(t, op) \in [Tabs -> Single]
<1> DEFINE live == tab[t].live
           new == [NoApi EXCEPT !.at = "sent", !.op = op, !.token = live]
<1>1. live \in BOOLEAN
  BY DEF TabsInv, TabState
<1>2. new \in Single
  <2> HIDE DEF live
  <2>1. NoApi \in Request /\ NoApi.done = 0
    BY DEF NoApi, Request
  <2>2. new \in Request /\ new.at = "sent" /\ new.op = op /\ new.done = 0
    BY <1>1, <2>1 DEF Request
  <2> HIDE DEF new
  <2>3. QED
    BY <2>2 DEF Single
<1>3. Calling(t, op) = [api EXCEPT ![t] = new]
  BY DEF Calling
<1> HIDE DEF new, live
<1> QED
  BY <1>2, <1>3 DEF TabsInv

LEMMA BrokerTyped ==
  ASSUME TabsInv, NEW t \in Tabs, BrokerApi(t)
  PROVE  TabsInv'
<1>1. api[t] \in Single
  BY DEF TabsInv
<1>2. CASE BrokerPerforms(t)
  <2> DEFINE done == api[t].done + 1
             new == [api[t] EXCEPT !.at = "answered", !.reply = "ok", !.done = done]
  <2>1. api[t].done = 0 /\ api[t].op # "none"
    BY <1>1, <1>2 DEF Single, BrokerPerforms
  <2>2. new \in Single
    <3>1. api[t] \in Request /\ done \in Nat /\ done = 1
      BY <1>1, <2>1 DEF Single
    <3> HIDE DEF done
    <3>2. new \in Request /\ new.op = api[t].op /\ new.at = "answered" /\ new.done = done
      BY <3>1 DEF Request
    <3> HIDE DEF new
    <3>3. QED
      BY <2>1, <3>1, <3>2 DEF Single
  <2>3. api' = [api EXCEPT ![t] = new]
    BY <1>2 DEF BrokerPerforms
  <2> HIDE DEF new
  <2> QED
    BY <1>2, <2>2, <2>3 DEF TabsInv, BrokerPerforms
<1>3. CASE BrokerRefuses(t)
  <2> DEFINE new == [api[t] EXCEPT !.at = "answered", !.reply = "error"]
  <2>1. new \in Single
    BY <1>1, <1>3 DEF Single, Request, BrokerRefuses
  <2>2. api' = [api EXCEPT ![t] = new]
    BY <1>3 DEF BrokerRefuses
  <2> HIDE DEF new
  <2> QED
    BY <1>3, <2>1, <2>2 DEF TabsInv, BrokerRefuses, console
<1> QED
  BY <1>2, <1>3 DEF BrokerApi

LEMMA AnswerToPage ==
  ASSUME TabsInv, NEW t \in Tabs, NEW ok \in BOOLEAN, api[t].at # "idle"
  PROVE  PageAfter(t, api[t].op, ok) \in [Tabs -> Page]
<1>1. api[t].op \in {"connect", "disconnect"}
  BY DEF TabsInv, Single, Request
<1>2. page \in [Tabs -> Page]
  BY DEF TabsInv
<1>3. [page EXCEPT ![t].known = TRUE] \in [Tabs -> Page]
  BY <1>2 DEF Page
<1>4. [page EXCEPT ![t].view = "error"] \in [Tabs -> Page]
  BY <1>2 DEF Page
<1> QED
  BY <1>1, <1>2, <1>3, <1>4, GoneIsTyped DEF PageAfter

LEMMA CallTyped ==
  ASSUME TabsInv, NEW t \in Tabs, CallSettles(t)
  PROVE  TabsInv'
<1>1. api[t] \in Single
  BY DEF TabsInv
<1>2. CASE Unauthorized(t)
  <2>1. [api[t] EXCEPT !.at = "refreshing"] \in Single
    BY <1>1, <1>2 DEF Unauthorized, Single, Request
  <2>2. QED
    BY <1>2, <2>1 DEF TabsInv, Unauthorized, console
<1>3. CASE ApiSettles(t) \/ ApiLost(t)
  <2>1. api' \in [Tabs -> Single]
    BY <1>3, Values DEF TabsInv, ApiSettles, ApiLost
  <2>2. page' \in [Tabs -> Page]
    BY <1>3, AnswerToPage DEF ApiSettles, ApiLost
  <2>3. QED
    BY <1>3, <2>1, <2>2 DEF TabsInv, ApiSettles, ApiLost
<1> QED
  BY <1>2, <1>3 DEF CallSettles

LEMMA UserTyped ==
  ASSUME TabsInv, NEW t \in Tabs, User(t)
  PROVE  TabsInv'
<1>1. CASE Opens(t)
  BY <1>1 DEF TabsInv, Opens, TabState, console
<1>2. CASE RefreshTimer(t) \/ LoginSubmitted(t) \/ LogoutClicked(t)
  BY <1>2 DEF TabsInv, RefreshTimer, LoginSubmitted, LogoutClicked, console
<1>3. CASE AccessExpires(t)
  <2>1. tab' \in [Tabs -> TabState] /\ del' \in [Tabs -> Delete]
    BY <1>3 DEF TabsInv, AccessExpires, TabState, Delete
  <2> DEFINE new == [api[t] EXCEPT !.token = FALSE]
  <2>2. new \in Single
    <3>1. api[t] \in Request
      BY DEF TabsInv, Single
    <3>2. new \in Request /\ new.at = api[t].at /\ new.op = api[t].op /\ new.done = api[t].done
      BY <3>1 DEF Request
    <3> HIDE DEF new
    <3>3. QED
      BY <3>2 DEF TabsInv, Single
  <2>3. api' = [api EXCEPT ![t] = new]
    BY <1>3 DEF AccessExpires
  <2> HIDE DEF new
  <2>4. QED
    BY <1>3, <2>1, <2>2, <2>3 DEF TabsInv, AccessExpires
<1>4. CASE ConsoleMounts(t) \/ Retries(t)
  <2>1. page' \in [Tabs -> Page]
    BY <1>4 DEF TabsInv, ConsoleMounts, Retries, Page
  <2>2. QED
    BY <1>4, <2>1, CallingTyped DEF TabsInv, ConsoleMounts, Retries
<1>5. CASE DisconnectClicked(t)
  <2> DEFINE new == [page[t] EXCEPT !.fired = TRUE, !.view = "disconnecting"]
  <2>1. new \in Page
    BY DEF TabsInv, Page
  <2>2. page' = [page EXCEPT ![t] = new]
    BY <1>5 DEF DisconnectClicked
  <2> HIDE DEF new
  <2> QED
    BY <1>5, <2>1, <2>2, CallingTyped DEF TabsInv, DisconnectClicked
<1>6. CASE ViewerReports(t)
  BY <1>6 DEF TabsInv, ViewerReports, Page
<1>7. CASE Leaves(t)
  <2>1. tab[t].live \in BOOLEAN
    BY DEF TabsInv, TabState
  <2>2. del' \in [Tabs -> Delete]
    BY <1>7, <2>1, FiresTyped DEF Leaves
  <2>3. QED
    BY <1>7, <2>2, GoneIsTyped DEF TabsInv, Leaves
<1> QED
  BY <1>1, <1>2, <1>3, <1>4, <1>5, <1>6, <1>7 DEF User

LEMMA TabsStep ==
  ASSUME TabsInv, [Next]_vars
  PROVE  TabsInv'
<1>1. ASSUME NEW t \in Tabs, RefreshSettles(t)
      PROVE  TabsInv'
  BY <1>1, WaitingCallTyped, SignsInTyped, SignsOutTyped DEF RefreshSettles
<1>2. ASSUME NEW t \in Tabs, FormSettles(t)
      PROVE  TabsInv'
  <2>1. api' \in [Tabs -> Single]
    BY <1>2 DEF FormSettles, TabsInv
  <2>2. QED
    BY <1>2, <2>1, SignsInTyped, SignsOutTyped DEF FormSettles, TabsInv, console
<1>3. ASSUME NEW t \in Tabs, DeleteArrives(t)
      PROVE  TabsInv'
  BY <1>3, Values DEF TabsInv, DeleteArrives
<1>4. ASSUME NEW t \in Tabs, MonitorEnds(t)
      PROVE  TabsInv'
  BY <1>4 DEF TabsInv, MonitorEnds
<1>5. ASSUME UNCHANGED <<tab, api, console>>
      PROVE  TabsInv'
  BY <1>5 DEF TabsInv, console
<1> QED
  BY <1>1, <1>2, <1>3, <1>4, <1>5, BrokerTyped, CallTyped, UserTyped DEF Next, BrokerAuth, vars

LEMMA TabsAlways == Spec => []TabsInv
<1>1. Init => TabsInv
  BY Values DEF Init, TabsInv, TabState
<1>2. TabsInv /\ [Next]_vars => TabsInv'
  BY TabsStep
<1> QED
  BY <1>1, <1>2, PTL DEF Spec

----------------------------------------------------------------------------
\* Every variable of the portal keeps its type.
THEOREM TypeCorrect == Spec => []TypeOK
<1>1. TabsInv /\ AuthTypeOK => TypeOK
  <2>1. Single \subseteq Request
    BY DEF Single
  <2>2. QED
    BY <2>1 DEF TabsInv, TypeOK
<1>2. Api!AuthInv => AuthTypeOK
  BY SameProperties DEF Api!AuthInv
<1>3. MaxRows \in Nat /\ MaxSecret \in Nat \ {0}
  BY BoundsAssumption
<1>4. Api!AuthSpec => []Api!AuthInv
  BY <1>3, Api!AuthInvariant
<1> QED
  BY <1>1, <1>2, <1>4, TabsAlways, ClientOfTheApi, PTL

\* BrokerClient's replay after a 401 repeats a request that was not performed, and the
\* page's retry makes a new one: a click is performed once.
THEOREM ClicksPerformedOnce == Spec => []PerformedOnce
<1>1. TabsInv => PerformedOnce
  BY DEF TabsInv, PerformedOnce, Single
<1> QED
  BY <1>1, TabsAlways, PTL

=============================================================================
