-------------------------- MODULE AuthTokensProofs --------------------------
(***************************************************************************)
(* What the auth API promises, whoever calls it in whatever order: a       *)
(* secret is exchanged once, and a jar that lost no answer holds a current *)
(* one.                                                                    *)
(***************************************************************************)
EXTENDS AuthTokens, TLAPS

(***************************************************************************)
(* The inductive invariant                                                 *)
(***************************************************************************)

\* A cookie is of a login that was made, and of a secret that was issued for it.
Issued(row, secret) ==
    row # 0 => rows[row].secret >= 1 /\ secret <= rows[row].secret

IssuedInv ==
    /\ Issued(cookie.row, cookie.secret)
    /\ cookie.row = 0 => cookie = NoCookie
    /\ \A c \in Callers : Issued(call[c].row, call[c].secret)

\* How far a request has come, and what has been checked of it.  The check of a refresh
\* stays good while it holds the row's lock.
StageInv ==
    \A c \in Callers :
        /\ call[c].at # "answered" => call[c].reply = "none"
        /\ call[c].at = "locked" => /\ call[c].op = "refresh"
                                    /\ Accepted(call[c].row, call[c].secret)
        /\ call[c].at = "read" => call[c].op = "logout" /\ call[c].row # 0
        /\ Granted(c) => call[c].row # 0 /\ call[c].secret = rows[call[c].row].secret

\* SELECT ... FOR UPDATE has one holder.
OneLocker ==
    \A c, d \in Callers :
        call[c].at = "locked" /\ call[d].at = "locked" /\ call[c].row = call[d].row => c = d

\* A new secret is in the answer alone until that arrives.
SecretInv ==
    \A c \in Callers : Granted(c) =>
        /\ cookie # [row |-> call[c].row, secret |-> call[c].secret]
        /\ \A d \in Callers \ {c} :
             ~ (call[d].row = call[c].row /\ call[d].secret = call[c].secret)

\* A cookie that is not current is about to be replaced.
CookieInv ==
    ~ lost /\ cookie # NoCookie =>
        \/ cookie.secret = rows[cookie.row].secret
        \/ \E c \in Callers : Granted(c) /\ call[c].row = cookie.row

AuthInv == AuthTypeOK /\ IssuedInv /\ StageInv /\ OneLocker /\ SecretInv /\ CookieInv

----------------------------------------------------------------------------
(***************************************************************************)
(* What a step does to the requests: one of them changes                   *)
(***************************************************************************)
Becomes(c, new) ==
    /\ call' = [d \in Callers |-> IF d = c THEN new ELSE call[d]]
    /\ new \in AuthCall

LEMMA FieldsOf ==
  ASSUME NEW r \in AuthCall
  PROVE  /\ r.at \in {"idle", "sent", "locked", "read", "answered"}
         /\ r.op \in {"none", "login", "refresh", "logout"}
         /\ r.row \in Rows \cup {0}
         /\ r.secret \in Secrets
         /\ r.reply \in {"none", "ok", "401", "503", "204"}
BY DEF AuthCall

LEMMA AnswerFields ==
  ASSUME AuthTypeOK, NEW c \in Callers, NEW reply \in {"none", "ok", "401", "503", "204"},
         Answer(c, reply)
  PROVE  /\ call' \in [Callers -> AuthCall]
         /\ \A d \in Callers \ {c} : call'[d] = call[d]
         /\ call'[c].at = "answered" /\ call'[c].op = call[c].op
         /\ call'[c].row = call[c].row /\ call'[c].secret = call[c].secret
         /\ call'[c].reply = reply
BY DEF Answer, AuthTypeOK, AuthCall

LEMMA InitHolds ==
  ASSUME MaxRows \in Nat, MaxSecret \in Nat \ {0}, AuthInit
  PROVE  AuthInv
<1>1. /\ \A r \in Rows : rows[r].secret = 0
      /\ cookie.row = 0 /\ cookie.secret = 0 /\ cookie = NoCookie
      /\ \A c \in Callers : /\ call[c].at = "idle" /\ call[c].reply = "none"
                            /\ call[c].row = 0
  BY DEF AuthInit, Absent, NoCookie, NoCall
<1>2. AuthTypeOK
  <2>1. 0 \in Secrets /\ Absent \in AuthRow /\ NoCookie \in Cookie
    BY DEF Absent, AuthRow, NoCookie, Cookie, Secrets
  <2>2. NoCall \in AuthCall
    BY <2>1 DEF NoCall, AuthCall
  <2>3. QED
    BY <2>1, <2>2 DEF AuthInit, AuthTypeOK
<1>3. /\ IssuedInv /\ StageInv /\ OneLocker /\ SecretInv /\ CookieInv
  BY <1>1 DEF IssuedInv, Issued, StageInv, Granted, OneLocker, SecretInv, CookieInv
<1> QED
  BY <1>2, <1>3 DEF AuthInv

LEMMA SendsKeeps ==
  ASSUME MaxRows \in Nat, MaxSecret \in Nat \ {0}, AuthInv,
         NEW c \in Callers, NEW op \in {"login", "refresh", "logout"}, Sends(c, op)
  PROVE  AuthInv'
<1> USE DEF AuthInv
<1>1. /\ AuthTypeOK'
      /\ \A d \in Callers \ {c} : call'[d] = call[d]
      /\ call'[c].at = "sent" /\ call'[c].op = op /\ call'[c].row = cookie.row
      /\ call'[c].secret = cookie.secret /\ call'[c].reply = "none"
      /\ rows' = rows /\ cookie' = cookie /\ lost' = lost /\ call[c].at = "idle"
  BY DEF Sends, AuthTypeOK, AuthCall, Cookie
<1>2. IssuedInv'
  BY <1>1 DEF IssuedInv, Issued
<1>3. StageInv'
  BY <1>1 DEF StageInv, Granted, Accepted
<1>4. OneLocker'
  BY <1>1 DEF OneLocker
<1>5. SecretInv'
  BY <1>1 DEF SecretInv, Granted, AuthTypeOK, Cookie
<1>6. CookieInv'
  BY <1>1 DEF CookieInv, Granted
<1> QED
  BY <1>1, <1>2, <1>3, <1>4, <1>5, <1>6

----------------------------------------------------------------------------
(***************************************************************************)
(* A request refused, or answered with nothing new                         *)
(***************************************************************************)
LEMMA RefusalKeeps ==
  ASSUME AuthInv, NEW c \in Callers, call[c].at # "answered",
         NEW reply \in {"401", "503", "204"}, Answer(c, reply), UNCHANGED <<rows, cookie, lost>>
  PROVE  AuthInv'
<1> USE DEF AuthInv
<1>1. /\ call' \in [Callers -> AuthCall]
      /\ \A d \in Callers \ {c} : call'[d] = call[d]
      /\ call'[c].at = "answered"
      /\ call'[c].row = call[c].row /\ call'[c].secret = call[c].secret
      /\ call'[c].reply = reply
  BY AnswerFields
<1>2. AuthTypeOK'
  BY <1>1 DEF AuthTypeOK
<1>3. IssuedInv'
  BY <1>1 DEF IssuedInv, Issued
<1>4. StageInv'
  BY <1>1 DEF StageInv, Granted, Accepted
<1>5. OneLocker'
  BY <1>1 DEF OneLocker
<1>6. SecretInv'
  BY <1>1 DEF SecretInv, Granted
<1>7. CookieInv'
  BY <1>1 DEF CookieInv, Granted
<1> QED
  BY <1>2, <1>3, <1>4, <1>5, <1>6, <1>7

LEMMA RevocationKeeps ==
  ASSUME AuthInv, NEW c \in Callers, call[c].at # "answered", call[c].row # 0,
         \A d \in Callers \ {c} : ~ (call[d].at = "locked" /\ call[d].row = call[c].row),
         NEW reply \in {"401", "204"}, Answer(c, reply),
         rows' = [rows EXCEPT ![call[c].row].over = TRUE], UNCHANGED <<cookie, lost>>
  PROVE  AuthInv'
<1> USE DEF AuthInv
<1>1. /\ call' \in [Callers -> AuthCall]
      /\ \A d \in Callers \ {c} : call'[d] = call[d]
      /\ call'[c].at = "answered"
      /\ call'[c].row = call[c].row /\ call'[c].secret = call[c].secret
      /\ call'[c].reply = reply
  BY AnswerFields
<1>2. /\ rows' \in [Rows -> AuthRow]
      /\ \A r \in Rows : /\ rows'[r].secret = rows[r].secret
                         /\ r # call[c].row => rows'[r] = rows[r]
  BY DEF AuthTypeOK, AuthRow
<1>3. AuthTypeOK'
  BY <1>1, <1>2 DEF AuthTypeOK
<1>4. /\ cookie.row \in Rows \cup {0}
      /\ \A d \in Callers : call[d].row \in Rows \cup {0}
  BY DEF AuthTypeOK, Cookie, AuthCall
<1>5. IssuedInv'
  BY <1>1, <1>2, <1>4 DEF IssuedInv, Issued
<1>6. StageInv'
  BY <1>1, <1>2, <1>4 DEF StageInv, Granted, Accepted
<1>7. OneLocker'
  BY <1>1 DEF OneLocker
<1>8. SecretInv'
  BY <1>1 DEF SecretInv, Granted
<1>9. CookieInv'
  <2>1. cookie # NoCookie => cookie.row \in Rows
    BY <1>4 DEF IssuedInv
  <2>2. QED
    BY <1>1, <1>2, <2>1 DEF CookieInv, Granted
<1> QED
  BY <1>3, <1>5, <1>6, <1>7, <1>8, <1>9

----------------------------------------------------------------------------
(***************************************************************************)
(* Login                                                                   *)
(***************************************************************************)
LEMMA LoginIssuesKeeps ==
  ASSUME MaxRows \in Nat, MaxSecret \in Nat \ {0}, AuthInv, NEW c \in Callers, LoginIssues(c)
  PROVE  AuthInv'
<1> USE DEF AuthInv
<1>1. PICK r \in Rows :
        /\ rows[r] = Absent
        /\ rows' = [rows EXCEPT ![r].secret = 1]
        /\ call' = [call EXCEPT ![c] = [@ EXCEPT !.at = "answered", !.reply = "ok",
                                                 !.row = r, !.secret = 1]]
  BY DEF LoginIssues
<1>2. call[c].at = "sent" /\ cookie' = cookie /\ lost' = lost /\ rows[r].secret = 0 /\ r # 0
  BY <1>1 DEF LoginIssues, At, Absent, Rows
<1>3. /\ call' \in [Callers -> AuthCall]
      /\ \A d \in Callers \ {c} : call'[d] = call[d]
      /\ call'[c].at = "answered" /\ call'[c].reply = "ok"
      /\ call'[c].row = r /\ call'[c].secret = 1
  <2> DEFINE given == [call[c] EXCEPT !.at = "answered", !.reply = "ok", !.row = r, !.secret = 1]
  <2>1. call[c] \in AuthCall /\ 1 \in Secrets
    BY DEF AuthTypeOK, Secrets
  <2>2. /\ given \in AuthCall /\ given.at = "answered" /\ given.reply = "ok"
        /\ given.row = r /\ given.secret = 1
    BY <2>1 DEF AuthCall
  <2>3. call' = [call EXCEPT ![c] = given]
    BY <1>1
  <2> HIDE DEF given
  <2>4. QED
    BY <2>2, <2>3 DEF AuthTypeOK
<1>4. /\ rows' \in [Rows -> AuthRow]
      /\ rows'[r].secret = 1
      /\ \A s \in Rows \ {r} : rows'[s] = rows[s]
  BY <1>1 DEF AuthTypeOK, AuthRow, Secrets
<1>5. /\ cookie.row \in Rows \cup {0} /\ cookie.row # r
      /\ \A d \in Callers : call[d].row \in Rows \cup {0} /\ call[d].row # r
  BY <1>2 DEF AuthTypeOK, Cookie, AuthCall, IssuedInv, Issued
<1>6. AuthTypeOK'
  BY <1>2, <1>3, <1>4 DEF AuthTypeOK
<1>7. IssuedInv'
  BY <1>2, <1>3, <1>4, <1>5 DEF IssuedInv, Issued
<1>8. StageInv'
  BY <1>2, <1>3, <1>4, <1>5 DEF StageInv, Granted, Accepted
<1>9. OneLocker'
  BY <1>3 DEF OneLocker
<1>10. SecretInv'
  BY <1>2, <1>3, <1>5 DEF SecretInv, Granted
<1>11. CookieInv'
  <2>1. cookie # NoCookie => cookie.row \in Rows
    BY <1>5 DEF IssuedInv
  <2>2. QED
    BY <1>2, <1>3, <1>4, <1>5, <2>1 DEF CookieInv, Granted
<1> QED
  BY <1>6, <1>7, <1>8, <1>9, <1>10, <1>11

LEMMA LoginRefusedKeeps ==
  ASSUME AuthInv, NEW c \in Callers, LoginRefused(c)
  PROVE  AuthInv'
BY RefusalKeeps DEF LoginRefused, At

----------------------------------------------------------------------------
(***************************************************************************)
(* Refresh                                                                 *)
(***************************************************************************)
LEMMA RefreshReadsKeeps ==
  ASSUME AuthInv, NEW c \in Callers, RefreshReads(c)
  PROVE  AuthInv'
<1> USE DEF AuthInv
<1>1. CASE ~ Accepted(call[c].row, call[c].secret)
  BY <1>1, RefusalKeeps DEF RefreshReads, At
<1>2. CASE Accepted(call[c].row, call[c].secret)
  <2>1. /\ call[c].at = "sent" /\ call[c].op = "refresh" /\ call[c].reply = "none"
        /\ call' = [call EXCEPT ![c].at = "locked"] /\ UNCHANGED <<rows, cookie, lost>>
    BY <1>2 DEF RefreshReads, At, StageInv
  <2>2. \A d \in Callers : ~ (call[d].at = "locked" /\ call[d].row = call[c].row)
    BY DEF RefreshReads, RowLocked, At, StageInv
  <2>3. /\ call' \in [Callers -> AuthCall]
        /\ \A d \in Callers \ {c} : call'[d] = call[d]
        /\ call'[c].at = "locked" /\ call'[c].op = "refresh" /\ call'[c].reply = "none"
        /\ call'[c].row = call[c].row /\ call'[c].secret = call[c].secret
    BY <2>1 DEF AuthTypeOK, AuthCall
  <2>4. AuthTypeOK'
    BY <2>1, <2>3 DEF AuthTypeOK
  <2>5. IssuedInv'
    BY <2>1, <2>3 DEF IssuedInv, Issued
  <2>6. StageInv'
    BY <1>2, <2>1, <2>3 DEF StageInv, Granted, Accepted
  <2>7. OneLocker'
    BY <2>2, <2>3 DEF OneLocker
  <2>8. SecretInv'
    BY <2>1, <2>3 DEF SecretInv, Granted
  <2>9. CookieInv'
    BY <2>1, <2>3 DEF CookieInv, Granted
  <2> QED
    BY <2>4, <2>5, <2>6, <2>7, <2>8, <2>9
<1> QED
  BY <1>1, <1>2

LEMMA RefreshRotatesKeeps ==
  ASSUME MaxRows \in Nat, MaxSecret \in Nat \ {0}, AuthInv, NEW c \in Callers, RefreshRotates(c)
  PROVE  AuthInv'
<1> USE DEF AuthInv
<1> DEFINE r == call[c].row
           s == rows[r].secret + 1
           given == [call[c] EXCEPT !.at = "answered", !.reply = "ok", !.secret = s]
<1>1. /\ call[c].at = "locked" /\ rows[r].secret < MaxSecret
      /\ rows' = [rows EXCEPT ![r].secret = @ + 1]
      /\ call' = [call EXCEPT ![c] = given]
      /\ cookie' = cookie /\ lost' = lost
  BY DEF RefreshRotates, At
<1>2. r \in Rows /\ r # 0 /\ Accepted(r, call[c].secret) /\ call[c] \in AuthCall
  <2>1. call[c] \in AuthCall
    BY DEF AuthTypeOK
  <2>2. QED
    BY <1>1, <2>1 DEF StageInv, Accepted, AuthCall
<1>3. s \in Secrets /\ s = rows[r].secret + 1
  <2>1. rows[r] \in AuthRow
    BY <1>2 DEF AuthTypeOK
  <2>2. QED
    BY <1>1, <2>1 DEF AuthRow, Secrets
<1>4. /\ rows' \in [Rows -> AuthRow]
      /\ rows'[r].secret = s
      /\ \A q \in Rows \ {r} : rows'[q] = rows[q]
  BY <1>1, <1>2, <1>3 DEF AuthTypeOK, AuthRow
<1> HIDE DEF s
<1>5. /\ given \in AuthCall /\ given.at = "answered" /\ given.reply = "ok"
      /\ given.row = r /\ given.secret = s
  BY <1>2, <1>3 DEF AuthCall
<1> HIDE DEF given, r
<1>6. /\ call' \in [Callers -> AuthCall]
      /\ \A d \in Callers \ {c} : call'[d] = call[d]
      /\ call'[c].at = "answered" /\ call'[c].reply = "ok"
      /\ call'[c].row = r /\ call'[c].secret = s
  BY <1>1, <1>5 DEF AuthTypeOK
<1>7. r = call[c].row
  BY DEF r
<1>8. /\ cookie.row \in Rows \cup {0} /\ cookie.secret \in Nat
      /\ \A q \in Rows : rows[q].secret \in Nat
      /\ \A d \in Callers : call[d].row \in Rows \cup {0} /\ call[d].secret \in Nat
  BY DEF AuthTypeOK, AuthRow, Cookie, AuthCall, Secrets
<1>9. \A d \in Callers \ {c} :
        call[d].row = r => call[d].at # "locked" /\ ~ Granted(d) /\ call[d].secret < s
  <2>1. ASSUME NEW d \in Callers \ {c}, call[d].row = r
        PROVE  call[d].at # "locked" /\ call[d].secret < s
    BY <1>1, <1>2, <1>3, <1>7, <1>8, <2>1 DEF OneLocker, IssuedInv, Issued
  <2>2. ASSUME NEW d \in Callers \ {c}, call[d].row = r, Granted(d)
        PROVE  FALSE
    BY <1>2, <1>7, <2>2 DEF StageInv, SecretInv, Accepted
  <2>3. QED
    BY <2>1, <2>2
<1>10. cookie.row = r => cookie.secret < s
  BY <1>2, <1>3, <1>8 DEF IssuedInv, Issued
<1>11. AuthTypeOK'
  BY <1>1, <1>4, <1>6 DEF AuthTypeOK
<1>12. IssuedInv'
  BY <1>1, <1>2, <1>3, <1>4, <1>6, <1>8 DEF IssuedInv, Issued
<1>13. StageInv'
  BY <1>2, <1>4, <1>6, <1>8, <1>9 DEF StageInv, Granted, Accepted
<1>14. OneLocker'
  BY <1>6 DEF OneLocker
<1>15. SecretInv'
  BY <1>1, <1>6, <1>8, <1>9, <1>10 DEF SecretInv, Granted
<1>16. CookieInv'
  <2>1. cookie # NoCookie => cookie.row \in Rows
    BY <1>8 DEF IssuedInv
  <2>2. QED
    BY <1>1, <1>4, <1>6, <1>7, <2>1 DEF CookieInv, Granted
<1> QED
  BY <1>11, <1>12, <1>13, <1>14, <1>15, <1>16

LEMMA RefreshUserGoneKeeps ==
  ASSUME AuthInv, NEW c \in Callers, RefreshUserGone(c)
  PROVE  AuthInv'
<1>1. /\ call[c].at = "locked" /\ call[c].row # 0
      /\ \A d \in Callers \ {c} : ~ (call[d].at = "locked" /\ call[d].row = call[c].row)
  BY DEF RefreshUserGone, At, AuthInv, StageInv, OneLocker, Accepted
<1>2. QED
  BY <1>1, RevocationKeeps DEF RefreshUserGone

LEMMA RefreshUnavailableKeeps ==
  ASSUME AuthInv, NEW c \in Callers, RefreshUnavailable(c)
  PROVE  AuthInv'
BY RefusalKeeps DEF RefreshUnavailable, At

----------------------------------------------------------------------------
(***************************************************************************)
(* Logout, and the end of a login                                          *)
(***************************************************************************)
LEMMA LogoutReadsKeeps ==
  ASSUME AuthInv, NEW c \in Callers, LogoutReads(c)
  PROVE  AuthInv'
<1> USE DEF AuthInv
<1>1. CASE Answer(c, "204")
  BY <1>1, RefusalKeeps DEF LogoutReads, At
<1>2. CASE ~ Answer(c, "204")
  <2>1. /\ call[c].at = "sent" /\ call[c].op = "logout" /\ call[c].reply = "none"
        /\ call[c].row # 0
        /\ call' = [call EXCEPT ![c].at = "read"] /\ UNCHANGED <<rows, cookie, lost>>
    BY <1>2 DEF LogoutReads, At, StageInv
  <2>2. /\ call' \in [Callers -> AuthCall]
        /\ \A d \in Callers \ {c} : call'[d] = call[d]
        /\ call'[c].at = "read" /\ call'[c].op = "logout" /\ call'[c].reply = "none"
        /\ call'[c].row = call[c].row /\ call'[c].secret = call[c].secret
    BY <2>1 DEF AuthTypeOK, AuthCall
  <2>3. AuthTypeOK'
    BY <2>1, <2>2 DEF AuthTypeOK
  <2>4. IssuedInv'
    BY <2>1, <2>2 DEF IssuedInv, Issued
  <2>5. StageInv'
    BY <2>1, <2>2 DEF StageInv, Granted, Accepted
  <2>6. OneLocker'
    BY <2>2 DEF OneLocker
  <2>7. SecretInv'
    BY <2>1, <2>2 DEF SecretInv, Granted
  <2>8. CookieInv'
    BY <2>1, <2>2 DEF CookieInv, Granted
  <2> QED
    BY <2>3, <2>4, <2>5, <2>6, <2>7, <2>8
<1> QED
  BY <1>1, <1>2

LEMMA LogoutRevokesKeeps ==
  ASSUME AuthInv, NEW c \in Callers, LogoutRevokes(c)
  PROVE  AuthInv'
<1>1. /\ call[c].at = "read" /\ call[c].row # 0
      /\ \A d \in Callers \ {c} : ~ (call[d].at = "locked" /\ call[d].row = call[c].row)
  BY DEF LogoutRevokes, At, AuthInv, StageInv, RowLocked
<1>2. QED
  BY <1>1, RevocationKeeps DEF LogoutRevokes

LEMMA RowExpiresKeeps ==
  ASSUME AuthInv, NEW r \in Rows, RowExpires(r)
  PROVE  AuthInv'
<1> USE DEF AuthInv
<1>1. call' = call /\ cookie' = cookie /\ lost' = lost /\ \A c \in Callers : call[c].row # r
  BY DEF RowExpires
<1>2. /\ rows' \in [Rows -> AuthRow]
      /\ \A q \in Rows : /\ rows'[q].secret = rows[q].secret
                         /\ q # r => rows'[q] = rows[q]
  BY DEF RowExpires, AuthTypeOK, AuthRow
<1>3. /\ cookie.row \in Rows \cup {0}
      /\ \A d \in Callers : call[d].row \in Rows \cup {0}
  BY DEF AuthTypeOK, Cookie, AuthCall
<1>4. AuthTypeOK'
  BY <1>1, <1>2 DEF AuthTypeOK
<1>5. IssuedInv'
  BY <1>1, <1>2, <1>3 DEF IssuedInv, Issued
<1>6. StageInv'
  BY <1>1, <1>2, <1>3 DEF StageInv, Granted, Accepted
<1>7. OneLocker'
  BY <1>1 DEF OneLocker
<1>8. SecretInv'
  BY <1>1 DEF SecretInv, Granted
<1>9. CookieInv'
  <2>1. cookie # NoCookie => cookie.row \in Rows
    BY <1>3 DEF IssuedInv
  <2>2. QED
    BY <1>1, <1>2, <2>1 DEF CookieInv, Granted
<1> QED
  BY <1>4, <1>5, <1>6, <1>7, <1>8, <1>9

----------------------------------------------------------------------------
(***************************************************************************)
(* The end of a request                                                    *)
(***************************************************************************)
LEMMA EndKeeps ==
  ASSUME AuthInv, 0 \in Secrets, NEW c \in Callers, call' = [call EXCEPT ![c] = NoCall], rows' = rows,
         cookie' \in Cookie, Issued(cookie'.row, cookie'.secret),
         cookie'.row = 0 => cookie' = NoCookie,
         CookieInv',
         \A d \in Callers \ {c} : Granted(d) => cookie' # [row |-> call[d].row, secret |-> call[d].secret],
         lost' \in BOOLEAN
  PROVE  AuthInv'
<1> USE DEF AuthInv
<1>1. /\ NoCall \in AuthCall /\ NoCall.at = "idle" /\ NoCall.row = 0 /\ NoCall.reply = "none"
  BY DEF NoCall, AuthCall
<1>2. /\ call' \in [Callers -> AuthCall]
      /\ \A d \in Callers \ {c} : call'[d] = call[d]
      /\ call'[c].at = "idle" /\ call'[c].row = 0 /\ call'[c].reply = "none"
  BY <1>1 DEF AuthTypeOK
<1>3. AuthTypeOK'
  BY <1>2 DEF AuthTypeOK
<1>4. IssuedInv'
  BY <1>2 DEF IssuedInv, Issued
<1>5. StageInv'
  BY <1>2 DEF StageInv, Granted, Accepted
<1>6. OneLocker'
  BY <1>2 DEF OneLocker
<1>7. SecretInv'
  BY <1>2 DEF SecretInv, StageInv, Granted
<1> QED
  BY <1>3, <1>4, <1>5, <1>6, <1>7

LEMMA ReceivesKeeps ==
  ASSUME MaxSecret \in Nat \ {0}, AuthInv, NEW c \in Callers, Receives(c)
  PROVE  AuthInv'
<1> USE DEF AuthInv
<1> DEFINE got == SetCookie(c)
<1>1. /\ 0 \in Secrets /\ call[c].at = "answered" /\ call' = [call EXCEPT ![c] = NoCall]
      /\ rows' = rows /\ cookie' = got /\ lost' = lost /\ lost \in BOOLEAN
      /\ \A d \in Callers \ {c} : call'[d] = call[d]
  BY DEF Receives, Secrets, AuthTypeOK
<1>2. /\ call[c].row \in Rows \cup {0} /\ call[c].secret \in Secrets
      /\ cookie \in Cookie
  BY DEF AuthTypeOK, AuthCall
<1>3. /\ got \in Cookie /\ Issued(got.row, got.secret) /\ (got.row = 0 => got = NoCookie)
      /\ \A d \in Callers \ {c} :
            Granted(d) => got # [row |-> call[d].row, secret |-> call[d].secret]
      /\ ~ lost /\ got # NoCookie =>
           \/ got.secret = rows[got.row].secret
           \/ \E d \in Callers \ {c} : Granted(d) /\ call[d].row = got.row
  <2>1. CASE call[c].reply = "ok"
    <3>1. got = [row |-> call[c].row, secret |-> call[c].secret] /\ Granted(c)
      BY <1>1, <2>1 DEF SetCookie, Granted
    <3> HIDE DEF got
    <3>2. got \in Cookie /\ got.row = call[c].row /\ got.secret = call[c].secret
      BY <1>2, <3>1 DEF Cookie
    <3>3. /\ Issued(got.row, got.secret) /\ got.row # 0 /\ got.secret = rows[got.row].secret
      BY <3>1, <3>2 DEF StageInv, IssuedInv
    <3>4. ASSUME NEW d \in Callers \ {c}, Granted(d)
          PROVE  got # [row |-> call[d].row, secret |-> call[d].secret]
      <4>1. ~ (call[c].row = call[d].row /\ call[c].secret = call[d].secret)
        BY <3>4 DEF SecretInv
      <4>2. QED
        BY <3>2, <4>1
    <3> QED
      BY <3>2, <3>3, <3>4
  <2>2. CASE call[c].reply = "204"
    <3>1. got = NoCookie
      BY <2>2 DEF SetCookie
    <3> HIDE DEF got
    <3>2. got \in Cookie /\ got.row = 0
      BY <1>1, <3>1 DEF NoCookie, Cookie
    <3>3. ASSUME NEW d \in Callers \ {c}, Granted(d)
          PROVE  got # [row |-> call[d].row, secret |-> call[d].secret]
      BY <3>2, <3>3 DEF StageInv
    <3> QED
      BY <3>1, <3>2, <3>3 DEF Issued
  <2>3. CASE call[c].reply \notin {"ok", "204"}
    <3>1. got = cookie
      BY <2>3 DEF SetCookie
    <3> HIDE DEF got
    <3> QED
      BY <1>2, <2>3, <3>1 DEF IssuedInv, SecretInv, CookieInv, Granted
  <2> QED
    BY <2>1, <2>2, <2>3
<1> HIDE DEF got
<1>4. CookieInv'
  BY <1>1, <1>3 DEF CookieInv, Granted
<1> QED
  BY <1>1, <1>3, <1>4, EndKeeps

LEMMA LosesKeeps ==
  ASSUME MaxSecret \in Nat \ {0}, AuthInv, NEW c \in Callers, Loses(c)
  PROVE  AuthInv'
<1> USE DEF AuthInv
<1>1. /\ 0 \in Secrets /\ call' = [call EXCEPT ![c] = NoCall] /\ rows' = rows /\ cookie' = cookie
      /\ lost' = (lost \/ call[c].reply \in {"ok", "204"})
      /\ cookie \in Cookie /\ lost \in BOOLEAN
      /\ \A d \in Callers \ {c} : call'[d] = call[d]
  BY DEF Loses, Secrets, AuthTypeOK
<1>2. CookieInv'
  BY <1>1 DEF CookieInv, Granted
<1>3. \A d \in Callers \ {c} :
        Granted(d) => cookie' # [row |-> call[d].row, secret |-> call[d].secret]
  BY <1>1 DEF SecretInv
<1> QED
  BY <1>1, <1>2, <1>3, EndKeeps DEF IssuedInv

LEMMA StepKeeps ==
  ASSUME MaxRows \in Nat, MaxSecret \in Nat \ {0}, AuthInv, [AuthNext]_auth
  PROVE  AuthInv'
<1>1. ASSUME NEW c \in Callers, NEW op \in {"login", "refresh", "logout"}, Sends(c, op)
      PROVE  AuthInv'
  BY <1>1, SendsKeeps
<1>2. ASSUME NEW c \in Callers, Handles(c)
      PROVE  AuthInv'
  BY <1>2, LoginIssuesKeeps, LoginRefusedKeeps, RefreshReadsKeeps, RefreshRotatesKeeps,
     RefreshUserGoneKeeps, RefreshUnavailableKeeps, LogoutReadsKeeps, LogoutRevokesKeeps
     DEF Handles
<1>3. ASSUME NEW c \in Callers, Receives(c) \/ Loses(c)
      PROVE  AuthInv'
  BY <1>3, ReceivesKeeps, LosesKeeps
<1>4. ASSUME NEW r \in Rows, RowExpires(r)
      PROVE  AuthInv'
  BY <1>4, RowExpiresKeeps
<1>5. CASE UNCHANGED auth
  BY <1>5 DEF auth, AuthInv, AuthTypeOK, IssuedInv, Issued, StageInv, Accepted, OneLocker,
              SecretInv, CookieInv, Granted
<1> QED
  BY <1>1, <1>2, <1>3, <1>4, <1>5 DEF AuthNext

\* A refresh that is granted holds the row's lock, under which its secret was found
\* current and its login open.
LEMMA GrantIsCurrent ==
  ASSUME AuthInv, NEW c \in Callers, At(c, "locked", "refresh")
  PROVE  call[c].secret = rows[call[c].row].secret /\ ~ rows[call[c].row].over
BY DEF AuthInv, StageInv, At, Accepted

LEMMA RestIsCurrent ==
  ASSUME AuthInv
  PROVE  CookieCurrent
BY DEF AuthInv, CookieInv, CookieCurrent, Granted

----------------------------------------------------------------------------
(***************************************************************************)
(* The theorems                                                            *)
(***************************************************************************)

\* The state the proofs below, and those of the API's clients, rest on.
THEOREM AuthInvariant ==
  ASSUME MaxRows \in Nat, MaxSecret \in Nat \ {0}
  PROVE  AuthSpec => []AuthInv
<1>1. AuthInit => AuthInv
  BY InitHolds
<1>2. AuthInv /\ [AuthNext]_auth => AuthInv'
  BY StepKeeps
<1> QED
  BY <1>1, <1>2, PTL DEF AuthSpec

\* auth.py's refresh exchanges a secret that is current, of a login that is not over,
\* whoever else sends that cookie at the same time.
THEOREM SecretsExchangedOnce ==
  ASSUME MaxRows \in Nat, MaxSecret \in Nat \ {0}
  PROVE  AuthSpec => GrantsCurrent
<1>1. AuthInv /\ [AuthNext]_auth =>
        [\A c \in Callers :
           At(c, "locked", "refresh") /\ Granted(c)' =>
               /\ call[c].secret = rows[call[c].row].secret
               /\ ~rows[call[c].row].over]_auth
  BY GrantIsCurrent
<1>2. AuthSpec => []AuthInv
  BY AuthInvariant
<1> QED
  BY <1>1, <1>2, PTL DEF AuthSpec, GrantsCurrent

\* A jar that lost no answer holds the current secret of its login, for any number of
\* callers.
THEOREM JarCurrent ==
  ASSUME MaxRows \in Nat, MaxSecret \in Nat \ {0}
  PROVE  AuthSpec => []CookieCurrent
<1>1. AuthInv => CookieCurrent
  BY RestIsCurrent
<1>2. AuthSpec => []AuthInv
  BY AuthInvariant
<1> QED
  BY <1>1, <1>2, PTL

=============================================================================
