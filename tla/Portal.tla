------------------------------- MODULE Portal -------------------------------
(***************************************************************************)
(* The portal in a browser: the tabs' authentication state (AuthContext),  *)
(* the requests they make with an access token (BrokerClient), and the     *)
(* console page, with the broker's auth API (AuthTokens) and the sessions  *)
(* the console pages make and end.                                         *)
(*                                                                         *)
(* The tabs share the cookie jar and nothing else.  In a tab JavaScript    *)
(* runs to completion: an action is what runs between two awaits, with the *)
(* state updates it makes and the effects and cleanups React then runs.    *)
(***************************************************************************)
EXTENDS Naturals

CONSTANTS
    Tabs,        \* tabs of one browser, signing in as one user
    Forms,       \* the tabs in which the user signs in and out
    Consoles,    \* the tabs that open a console page, each for its own pool
    MaxRows,     \* bound: logins
    MaxSecret,   \* bound: secrets issued for one login
    Faults       \* what may go wrong: those of AuthTokens, and "broker"

ASSUME TabsAssumption   == Forms \subseteq Tabs /\ Consoles \subseteq Tabs
ASSUME BoundsAssumption == MaxRows \in Nat /\ MaxSecret \in Nat \ {0}

VARIABLES
    rows, cookie, call, lost,   \* of AuthTokens
    tab,     \* AuthState: [auth, live]; live: the access token has not expired
    api,     \* a request with a bearer token: [at, op, token, reply, done]
    page,    \* the console page: [at, known, view, fired]
    del,     \* the keepalive DELETE: [at, token]
    ses      \* the broker's session of the console

\* One refresh at a time (inFlightRefreshRef), and one form: login or logout.
Slots == (Tabs \X {"refresh"}) \cup (Forms \X {"form"})
Ref(t)  == <<t, "refresh">>
Form(t) == <<t, "form">>

INSTANCE AuthTokens WITH Callers <- Slots

console == <<page, del, ses>>
tokens  == <<rows, cookie, call, lost>>
vars    == <<tokens, tab, api, console>>

NoApi  == [at |-> "idle", op |-> "none", token |-> FALSE, reply |-> "none", done |-> 0]
NoPage == [at |-> "off", known |-> FALSE, view |-> "connecting", fired |-> FALSE]
NoDel  == [at |-> "none", token |-> FALSE]

TabState == [auth : {"closed", "initializing", "authenticated", "unauthenticated"}, live : BOOLEAN]
Request  == [at : {"idle", "sent", "refreshing", "again", "answered"},
             op : {"none", "connect", "disconnect"},
             token : BOOLEAN, reply : {"none", "ok", "error"}, done : Nat]
Page     == [at : {"off", "on", "left"}, known : BOOLEAN, fired : BOOLEAN,
             view : {"connecting", "connected", "disconnecting", "ended", "error"}]
Delete   == [at : {"none", "sent"}, token : BOOLEAN]

TypeOK ==
    /\ AuthTypeOK
    /\ tab \in [Tabs -> TabState]
    /\ api \in [Tabs -> Request]
    /\ page \in [Tabs -> Page]
    /\ del \in [Tabs -> Delete]
    /\ ses \in [Tabs -> {"none", "active", "ended"}]

Init ==
    /\ AuthInit
    /\ tab   = [t \in Tabs |-> [auth |-> "closed", live |-> FALSE]]
    /\ api   = [t \in Tabs |-> NoApi]
    /\ page  = [t \in Tabs |-> NoPage]
    /\ del   = [t \in Tabs |-> NoDel]
    /\ ses   = [t \in Tabs |-> "none"]

In(t) == tab[t].auth = "authenticated"

----------------------------------------------------------------------------
(***************************************************************************)
(* What a change of the authentication state sets off                      *)
(***************************************************************************)
\* fireKeepalive: it needs a known session, no earlier DELETE, and a token.
Fires(t) == page[t].known /\ ~page[t].fired /\ In(t)

FiresDelete(t, token) ==
    del' = IF Fires(t) THEN [del EXCEPT ![t] = [at |-> "sent", token |-> token]] ELSE del

\* The page unmounts, and its state goes with it.
Gone(t) == [page EXCEPT ![t] = IF @.at = "on" THEN [NoPage EXCEPT !.at = "left"] ELSE @]

\* setState(authenticated).  The state is new, so the console page's cleanup effect
\* runs: it depends on it.  A login then goes on to its page, which may be another one.
SignsIn(t, leaves) ==
    /\ tab' = [tab EXCEPT ![t] = [auth |-> "authenticated", live |-> TRUE]]
    /\ page' = IF leaves THEN Gone(t) ELSE [page EXCEPT ![t].fired = @ \/ Fires(t)]
    /\ FiresDelete(t, TRUE)
    /\ UNCHANGED ses

\* setState(unauthenticated).  The routes are replaced by the login page; the console's
\* cleanup finds no token.
SignsOut(t) ==
    /\ tab' = [tab EXCEPT ![t] = [auth |-> "unauthenticated", live |-> FALSE]]
    /\ page' = Gone(t)
    /\ UNCHANGED <<del, ses>>

(***************************************************************************)
(* AuthContext                                                             *)
(***************************************************************************)
\* The provider mounts, and tries the cookie.
Opens(t) ==
    /\ tab[t].auth = "closed"
    /\ tab' = [tab EXCEPT ![t].auth = "initializing"]
    /\ Sends(Ref(t), "refresh")
    /\ UNCHANGED <<api, console>>

\* The timer set a minute before expiry fires: on time, or late in a tab that slept.
RefreshTimer(t) ==
    /\ In(t)
    /\ Sends(Ref(t), "refresh")
    /\ UNCHANGED <<tab, api, console>>

\* Mutant of Replays: a call that waits for the refresh is not told of it.
ReplaysNever(t) == UNCHANGED api

\* The refresh answers what awaits it, and nothing else does.  A call goes out again
\* with the token of the state that is rendered by then, which may be the old state
\* and, after a logout, have none; or it ends with its 401.
Replays(t) ==
    \E token \in {TRUE, tab[t].live} :
        api' = IF api[t].at # "refreshing" THEN api
               ELSE [api EXCEPT ![t] = [@ EXCEPT !.at = "again", !.token = token]]

GivesUp(t) == api' = IF api[t].at # "refreshing" THEN api ELSE [api EXCEPT ![t] = NoApi]

\* It has the last word: a login or a logout meanwhile is overturned.
RefreshSettles(t) ==
    \/ /\ Receives(Ref(t))
       /\ IF Granted(Ref(t)) THEN SignsIn(t, FALSE) /\ Replays(t) ELSE SignsOut(t) /\ GivesUp(t)
    \/ Loses(Ref(t)) /\ SignsOut(t) /\ GivesUp(t)

\* The login page is there while the first refresh is under way, too.
LoginSubmitted(t) ==
    /\ t \in Forms /\ tab[t].auth \in {"initializing", "unauthenticated"}
    /\ Sends(Form(t), "login")
    /\ UNCHANGED <<tab, api, console>>

LogoutClicked(t) ==
    /\ t \in Forms /\ In(t)
    /\ Sends(Form(t), "logout")
    /\ UNCHANGED <<tab, api, console>>

\* A login that fails leaves the state; a logout clears it whatever the answer.
FormSettles(t) ==
    /\ t \in Forms
    /\ \/ /\ call[Form(t)].op = "logout" /\ SignsOut(t)
          /\ Receives(Form(t)) \/ Loses(Form(t))
       \/ /\ call[Form(t)].op = "login" /\ Receives(Form(t))
          /\ IF Granted(Form(t)) THEN \E leaves \in BOOLEAN : SignsIn(t, leaves)
             ELSE UNCHANGED <<tab, console>>
       \/ /\ call[Form(t)].op = "login" /\ Loses(Form(t))
          /\ UNCHANGED <<tab, console>>
    /\ UNCHANGED api

\* 15 minutes: the tokens the tab holds, and those it has sent, are refused.  Only
\* in the tabs that make calls is this told apart.
AccessExpires(t) ==
    /\ t \in Consoles /\ tab[t].live
    /\ tab' = [tab EXCEPT ![t].live = FALSE]
    /\ api' = [api EXCEPT ![t].token = FALSE]
    /\ del' = [del EXCEPT ![t].token = FALSE]
    /\ UNCHANGED <<tokens, page, ses>>

----------------------------------------------------------------------------
(***************************************************************************)
(* BrokerClient: a request, and after a 401 a refresh and one replay       *)
(***************************************************************************)
Calling(t, op) ==
    [api EXCEPT ![t] = [NoApi EXCEPT !.at = "sent", !.op = op, !.token = tab[t].live]]

\* connect commits a session; the user's disconnect ends it, if it is not ended.
BrokerPerforms(t) ==
    /\ api[t].at \in {"sent", "again"} /\ api[t].token
    /\ ses' = [ses EXCEPT ![t] = IF api[t].op = "connect" THEN "active" ELSE "ended"]
    /\ api' = [api EXCEPT ![t] = [@ EXCEPT !.at = "answered", !.reply = "ok",
                                               !.done = api[t].done + 1]]
    /\ UNCHANGED <<tokens, tab, page, del>>

\* Pool full, provider errors; or the replay's token is refused as well.
BrokerRefuses(t) ==
    /\ api[t].at \in {"sent", "again"}
    /\ \/ api[t].token /\ "broker" \in Faults
       \/ ~api[t].token /\ api[t].at = "again"
    /\ api' = [api EXCEPT ![t] = [@ EXCEPT !.at = "answered", !.reply = "error"]]
    /\ UNCHANGED <<tokens, tab, console>>

\* Joins the refresh in flight or starts one (refresh).
Unauthorized(t) ==
    /\ api[t].at = "sent" /\ ~api[t].token
    /\ api' = [api EXCEPT ![t].at = "refreshing"]
    /\ IF call[Ref(t)].at = "idle" THEN Sends(Ref(t), "refresh") ELSE UNCHANGED tokens
    /\ UNCHANGED <<tab, console>>

----------------------------------------------------------------------------
(***************************************************************************)
(* ConsolePage                                                             *)
(***************************************************************************)
On(t) == page[t].at = "on"

\* The one-shot connect of the mount.
ConsoleMounts(t) ==
    /\ t \in Consoles /\ In(t) /\ page[t].at = "off" /\ api[t].at = "idle"
    /\ page' = [page EXCEPT ![t].at = "on"]
    /\ api' = Calling(t, "connect")
    /\ UNCHANGED <<tokens, tab, del, ses>>

\* "Try again" is there after a connect that failed, not after a lost viewer.
Retries(t) ==
    /\ On(t) /\ page[t].view = "error" /\ ~page[t].known /\ api[t].at = "idle"
    /\ page' = [page EXCEPT ![t].view = "connecting"]
    /\ api' = Calling(t, "connect")
    /\ UNCHANGED <<tokens, tab, del, ses>>

\* The mutation's callbacks; they do nothing for a page that is gone.
PageAfter(t, op, ok) ==
    IF ~On(t) THEN page
    ELSE CASE op = "connect" /\ ok  -> [page EXCEPT ![t].known = TRUE]
           [] op = "connect" /\ ~ok -> [page EXCEPT ![t].view = "error"]
           [] op = "disconnect"     -> Gone(t)

ApiSettles(t) ==
    /\ api[t].at = "answered"
    /\ page' = PageAfter(t, api[t].op, api[t].reply = "ok")
    /\ api' = [api EXCEPT ![t] = NoApi]
    /\ UNCHANGED <<tokens, tab, del, ses>>

\* Mutant of ApiLost: a connect that met a network error is sent again.
ApiLostResends(t) ==
    /\ "lost" \in Faults /\ api[t].at \in {"sent", "again", "answered"}
    /\ api' = [api EXCEPT ![t].at = "again", ![t].reply = "none"]
    /\ UNCHANGED <<tokens, tab, console>>

\* A network error, before or after the broker performed the request.
ApiLost(t) ==
    /\ "lost" \in Faults /\ api[t].at \in {"sent", "again", "answered"}
    /\ page' = PageAfter(t, api[t].op, FALSE)
    /\ api' = [api EXCEPT ![t] = NoApi]
    /\ UNCHANGED <<tokens, tab, del, ses>>

\* Once the page has fired its DELETE it no longer listens to the viewer's ends.
ViewerReports(t) ==
    /\ On(t) /\ page[t].known
    /\ \/ page[t].view = "connecting" /\ page' = [page EXCEPT ![t].view = "connected"]
       \/ /\ page[t].view \in {"connecting", "connected"} /\ ~page[t].fired
          /\ page' = [page EXCEPT ![t].view = "ended"]
    /\ UNCHANGED <<tokens, tab, api, del, ses>>

DisconnectClicked(t) ==
    /\ On(t) /\ page[t].known /\ api[t].at = "idle"
    /\ page' = [page EXCEPT ![t] = [@ EXCEPT !.fired = TRUE, !.view = "disconnecting"]]
    /\ api' = Calling(t, "disconnect")
    /\ UNCHANGED <<tokens, tab, del, ses>>

\* Another route, "Back", or the tab is closed: the cleanup runs.
Leaves(t) ==
    /\ On(t)
    /\ page' = Gone(t)
    /\ FiresDelete(t, tab[t].live)
    /\ UNCHANGED <<tokens, tab, api, ses>>

\* No refresh and no replay: an expired token and a lost request end alike.
DeleteArrives(t) ==
    /\ del[t].at = "sent"
    /\ del' = [del EXCEPT ![t] = NoDel]
    /\ \/ ses' = [ses EXCEPT ![t] = IF del[t].token THEN "ended" ELSE @]
       \/ "lost" \in Faults /\ UNCHANGED ses
    /\ UNCHANGED <<tokens, tab, api, page>>

\* The session monitor, which sees nobody at the desktop.
MonitorEnds(t) ==
    /\ ses[t] = "active" /\ ~(On(t) /\ page[t].view = "connected")
    /\ ses' = [ses EXCEPT ![t] = "ended"]
    /\ UNCHANGED <<tokens, tab, api, page, del>>

----------------------------------------------------------------------------
BrokerAuth(c) == Handles(c) /\ UNCHANGED <<tab, api, console>>
BrokerApi(t)  == BrokerPerforms(t) \/ BrokerRefuses(t)
CallSettles(t) == Unauthorized(t) \/ ApiSettles(t) \/ ApiLost(t)

User(t) ==
    \/ Opens(t) \/ RefreshTimer(t) \/ LoginSubmitted(t) \/ LogoutClicked(t)
    \/ AccessExpires(t) \/ ConsoleMounts(t) \/ Retries(t) \/ ViewerReports(t)
    \/ DisconnectClicked(t) \/ Leaves(t)

Next ==
    \/ \E c \in Slots : BrokerAuth(c)
    \/ \E t \in Tabs :
         \/ BrokerApi(t) \/ RefreshSettles(t) \/ FormSettles(t) \/ CallSettles(t)
         \/ User(t) \/ DeleteArrives(t) \/ MonitorEnds(t)
    \/ \E r \in Rows : RowExpires(r) /\ UNCHANGED <<tab, api, console>>

Spec == Init /\ [][Next]_vars

\* A request is answered or fails, even a refresh that has to wait for the row's lock,
\* and what waits for it then runs.  The user need do nothing; no timer has to fire.
FairSpec ==
    /\ Spec
    /\ \A t \in Tabs : SF_vars(BrokerAuth(Ref(t))) /\ WF_vars(RefreshSettles(t))
    /\ \A t \in Consoles : WF_vars(BrokerApi(t)) /\ WF_vars(CallSettles(t))

----------------------------------------------------------------------------
(***************************************************************************)
(* Properties                                                              *)
(***************************************************************************)

\* A click is performed once: the replay after a 401 repeats a request that was not
\* performed, and nothing else is repeated.  A second connect for one visit to the
\* page could take a second desktop.
PerformedOnce == \A t \in Tabs : api[t].done <= 1

\* A tab does not hang: the first refresh, or a login that is faster, ends its
\* initializing, and a call with an expired token waits for the one refresh in flight,
\* whatever the forms do meanwhile, and then ends.
Waits(t) == tab[t].auth = "initializing" \/ api[t].at # "idle"
PagesSettle == \A t \in Tabs : Waits(t) ~> ~Waits(t)

\* "(a) the page unmounts via SPA navigation, (b) the user closes the tab": the
\* console's session is not ended while its page is open on a running viewer.
LiveConsoleKept ==
    [][\A t \in Tabs : On(t) /\ page[t].view = "connected" => ses'[t] = ses[t]]_vars

\* client.test.ts:271, "replays original request with new token after refresh".
ReplayRenewed ==
    [][\A t \in Tabs : api[t].at = "refreshing" /\ api'[t].at = "again" => api'[t].token]_vars

=============================================================================
