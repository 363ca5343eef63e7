----------------------------- MODULE AuthTokens -----------------------------
(***************************************************************************)
(* The broker's auth API: login, refresh and logout over the auth_tokens   *)
(* table, and the cookie jar its clients keep the refresh token in.        *)
(*                                                                         *)
(* A row is one login.  Its id never changes; its refresh secret is        *)
(* replaced by every refresh and reaches the client in a Set-Cookie of the *)
(* answer.  Only the hash of the current secret is stored, so a client     *)
(* that misses an answer holds a cookie nobody accepts any more.           *)
(*                                                                         *)
(* Callers share one cookie jar (the tabs of a browser, the tasks of an    *)
(* agent) and have at most one of these requests under way each.  A module *)
(* that extends this one says what a caller does with an answer.           *)
(***************************************************************************)
EXTENDS Naturals

CONSTANTS
    Callers,     \* who makes auth requests, sharing the cookie jar
    MaxRows,     \* bound: logins in a behaviour
    MaxSecret,   \* bound: secrets issued for one login
    Faults       \* what may go wrong: "ldap", "gone", "lost", "expire"

VARIABLES
    rows,     \* auth_tokens by id: [secret, over]; secret 0: no row; over: revoked_at
              \* is set or expires_at has passed
    cookie,   \* the refresh cookie in the jar: [row, secret]
    call,     \* a caller's auth request: [at, op, row, secret, reply]
    lost      \* the answer of a successful login, refresh or logout was lost

auth == <<rows, cookie, call, lost>>

Rows     == 1 .. MaxRows
Secrets  == 0 .. MaxSecret
NoCookie == [row |-> 0, secret |-> 0]
Absent   == [secret |-> 0, over |-> FALSE]
NoCall   == [at |-> "idle", op |-> "none", row |-> 0, secret |-> 0, reply |-> "none"]

AuthRow  == [secret : Secrets, over : BOOLEAN]
Cookie   == [row : Rows \cup {0}, secret : Secrets]
AuthCall == [at : {"idle", "sent", "locked", "read", "answered"},
             op : {"none", "login", "refresh", "logout"},
             row : Rows \cup {0}, secret : Secrets,
             reply : {"none", "ok", "401", "503", "204"}]

AuthTypeOK ==
    /\ rows \in [Rows -> AuthRow]
    /\ cookie \in Cookie
    /\ call \in [Callers -> AuthCall]
    /\ lost \in BOOLEAN

AuthInit ==
    /\ rows = [r \in Rows |-> Absent]
    /\ cookie = NoCookie
    /\ call = [c \in Callers |-> NoCall]
    /\ lost = FALSE

----------------------------------------------------------------------------
(***************************************************************************)
(* The request leaves with the cookie that is in the jar                   *)
(***************************************************************************)
Sends(c, op) ==
    /\ call[c].at = "idle"
    /\ call' = [call EXCEPT ![c] = [at |-> "sent", op |-> op, row |-> cookie.row,
                                    secret |-> cookie.secret, reply |-> "none"]]
    /\ UNCHANGED <<rows, cookie, lost>>

At(c, at, op) == call[c].at = at /\ call[c].op = op

Answer(c, reply) == call' = [call EXCEPT ![c] = [@ EXCEPT !.at = "answered", !.reply = reply]]

\* SELECT ... FOR UPDATE, held until the refresh commits or rolls back.
RowLocked(r) == \E c \in Callers : At(c, "locked", "refresh") /\ call[c].row = r

(***************************************************************************)
(* POST /auth/login                                                        *)
(***************************************************************************)
LoginIssues(c) ==
    /\ At(c, "sent", "login")
    /\ \E r \in Rows :
         /\ rows[r] = Absent /\ \A s \in 1 .. r - 1 : rows[s] # Absent
         /\ rows' = [rows EXCEPT ![r].secret = 1]
         /\ call' = [call EXCEPT ![c] = [@ EXCEPT !.at = "answered", !.reply = "ok",
                                                  !.row = r, !.secret = 1]]
    /\ UNCHANGED <<cookie, lost>>

\* A wrong password, or the directory is unreachable.
LoginRefused(c) ==
    /\ At(c, "sent", "login")
    /\ Answer(c, "401") \/ Answer(c, "503")
    /\ UNCHANGED <<rows, cookie, lost>>

(***************************************************************************)
(* POST /auth/refresh                                                      *)
(***************************************************************************)
Accepted(r, secret) ==
    r # 0 /\ secret = rows[r].secret /\ ~rows[r].over

\* Mutant of RefreshReads: the row is read without FOR UPDATE.
RefreshReadsUnlocked(c) ==
    /\ At(c, "sent", "refresh")
    /\ IF Accepted(call[c].row, call[c].secret)
       THEN call' = [call EXCEPT ![c].at = "locked"]
       ELSE Answer(c, "401")
    /\ UNCHANGED <<rows, cookie, lost>>

RefreshReads(c) ==
    /\ At(c, "sent", "refresh") /\ ~RowLocked(call[c].row)
    /\ IF Accepted(call[c].row, call[c].secret)
       THEN call' = [call EXCEPT ![c].at = "locked"]
       ELSE Answer(c, "401")
    /\ UNCHANGED <<rows, cookie, lost>>

\* Mutant of RefreshRotates: the answer carries the secret the client sent.
RefreshRotatesSilently(c) ==
    LET r == call[c].row IN
    /\ At(c, "locked", "refresh") /\ rows[r].secret < MaxSecret
    /\ rows' = [rows EXCEPT ![r].secret = @ + 1]
    /\ Answer(c, "ok")
    /\ UNCHANGED <<cookie, lost>>

\* The directory knows the user: a new secret on the same row, a new expiry.
RefreshRotates(c) ==
    LET r == call[c].row IN
    /\ At(c, "locked", "refresh") /\ rows[r].secret < MaxSecret
    /\ rows' = [rows EXCEPT ![r].secret = @ + 1]
    /\ call' = [call EXCEPT ![c] = [@ EXCEPT !.at = "answered", !.reply = "ok",
                                             !.secret = rows[r].secret + 1]]
    /\ UNCHANGED <<cookie, lost>>

\* The directory no longer knows the user: the row is revoked.
RefreshUserGone(c) ==
    /\ "gone" \in Faults /\ At(c, "locked", "refresh")
    /\ rows' = [rows EXCEPT ![call[c].row].over = TRUE]
    /\ Answer(c, "401")
    /\ UNCHANGED <<cookie, lost>>

\* Mutant of RefreshUnavailable: the row is rotated before the directory is asked.
RefreshUnavailableRotated(c) ==
    /\ At(c, "locked", "refresh")
    /\ "ldap" \in Faults \/ rows[call[c].row].secret = MaxSecret
    /\ rows' = [rows EXCEPT ![call[c].row].secret = @ + 1]
    /\ Answer(c, "503")
    /\ UNCHANGED <<cookie, lost>>

\* The directory is unreachable: nothing changes.  Past the bound on secrets it
\* always is.
RefreshUnavailable(c) ==
    /\ At(c, "locked", "refresh")
    /\ "ldap" \in Faults \/ rows[call[c].row].secret = MaxSecret
    /\ Answer(c, "503")
    /\ UNCHANGED <<rows, cookie, lost>>

(***************************************************************************)
(* POST /auth/logout                                                       *)
(***************************************************************************)
\* The row is read without a lock, and the secret is not looked at.
LogoutReads(c) ==
    LET r == call[c].row IN
    /\ At(c, "sent", "logout")
    /\ IF r = 0 \/ rows[r].over THEN Answer(c, "204")
                                   ELSE call' = [call EXCEPT ![c].at = "read"]
    /\ UNCHANGED <<rows, cookie, lost>>

\* The UPDATE waits for a refresh that holds the row, and sets revoked_at alone.
LogoutRevokes(c) ==
    LET r == call[c].row IN
    /\ At(c, "read", "logout") /\ ~RowLocked(r)
    /\ rows' = [rows EXCEPT ![r].over = TRUE]
    /\ Answer(c, "204")
    /\ UNCHANGED <<cookie, lost>>

Handles(c) ==
    \/ LoginIssues(c) \/ LoginRefused(c)
    \/ RefreshReads(c) \/ RefreshRotates(c) \/ RefreshUserGone(c) \/ RefreshUnavailable(c)
    \/ LogoutReads(c) \/ LogoutRevokes(c)

\* 24 hours without a refresh, longer than any request takes.
RowExpires(r) ==
    /\ "expire" \in Faults /\ rows[r] # Absent /\ ~rows[r].over
    /\ \A c \in Callers : call[c].row # r
    /\ rows' = [rows EXCEPT ![r].over = TRUE]
    /\ UNCHANGED <<cookie, call, lost>>

----------------------------------------------------------------------------
(***************************************************************************)
(* The answer reaches the caller, or the caller sees a network error: the  *)
(* request never arrived, the broker died on it, or the answer was lost.   *)
(***************************************************************************)
SetCookie(c) ==
    CASE call[c].reply = "ok"  -> [row |-> call[c].row, secret |-> call[c].secret]
      [] call[c].reply = "204" -> NoCookie
      [] OTHER -> cookie

Receives(c) ==
    /\ call[c].at = "answered"
    /\ cookie' = SetCookie(c)
    /\ call' = [call EXCEPT ![c] = NoCall]
    /\ UNCHANGED <<rows, lost>>

Loses(c) ==
    /\ "lost" \in Faults /\ call[c].at # "idle"
    /\ lost' = (lost \/ call[c].reply \in {"ok", "204"})
    /\ call' = [call EXCEPT ![c] = NoCall]
    /\ UNCHANGED <<rows, cookie>>

Granted(c) == call[c].at = "answered" /\ call[c].reply = "ok"

\* The API with clients that may send anything at any time.  What it promises them,
\* it promises the portal and the agents, whose specifications implement this one.
AuthNext ==
    \/ \E c \in Callers :
         \/ \E op \in {"login", "refresh", "logout"} : Sends(c, op)
         \/ Handles(c) \/ Receives(c) \/ Loses(c)
    \/ \E r \in Rows : RowExpires(r)

AuthSpec == AuthInit /\ [][AuthNext]_auth

----------------------------------------------------------------------------
(***************************************************************************)
(* Properties of the API, whoever calls it                                 *)
(***************************************************************************)

\* A refresh is granted for the secret that is current and for a login that is not
\* over by then: a secret is exchanged once, even by two callers at the
\* same time, and a logout that has committed is final.
GrantsCurrent ==
    [][\A c \in Callers :
          At(c, "locked", "refresh") /\ Granted(c)' =>
              /\ call[c].secret = rows[call[c].row].secret
              /\ ~rows[call[c].row].over]_auth

\* With no request under way and no answer lost, the cookie in the jar is the
\* current secret of its login: answers cannot overtake each other, since the
\* next rotation needs the previous answer.
CookieCurrent ==
    ~lost /\ (\A c \in Callers : call[c].at = "idle") /\ cookie # NoCookie
        => cookie.secret = rows[cookie.row].secret

=============================================================================
