---------------------------- MODULE AccountTokens ----------------------------
(***************************************************************************)
(* One email address: the account it names, the links that verify the      *)
(* address or reset the password, and the sessions that sign-ins open      *)
(* (auth.service.ts).  A request is a process; its steps are its reads and *)
(* its statements under READ COMMITTED.  A reset is a long transaction:    *)
(* it holds the row of its link, then the row of the user, then those of   *)
(* the links it deletes, and what it writes is seen when it commits.       *)
(* A refresh is its commit here and has its handler in SessionRotation;    *)
(* the second factor of a sign-in is in SecondFactor, the delivery of the  *)
(* links in EmailDelivery.                                                 *)
(***************************************************************************)
EXTENDS Naturals

CONSTANTS Token,      \* links that are ever sent
          Session,    \* sessions that are ever opened
          Request,    \* requests handled at a time
          None

ASSUME NoneAssumption == None \notin Token

VARIABLES account,  \* the users row: which password it has had (0 for null)
          token,    \* both token tables
          session,  \* sessions: the password of the account when it was opened (made),
                    \* the one its sign-in proved (proof, 0 for a provider's), and history:
                    \* the passwords whose resets a rotation of it ran beside (beside)
          req,      \* what each request has read and does next
          overtaken \* history: a reset ended between the two steps of a login

vars == <<account, token, session, req, overtaken>>

Kind == {"verify", "reset"}

NoToken == [state |-> "absent", kind |-> "none", seen |-> {}]
NoSession == [state |-> "absent", made |-> 0, proof |-> 0, beside |-> {}]
Opened(made, proof) == [state |-> "live", made |-> made, proof |-> proof, beside |-> {}]
NoAccount == [exists |-> FALSE, password |-> 0, verified |-> FALSE]

\* A request at pc, with the link it uses or the kind it issues, the links its
\* DELETE scanned and the sessions its UPDATE scanned; proof is of a sign-in.
At(pc, kind, tok, cand, sess) ==
    [pc |-> pc, kind |-> kind, tok |-> tok, cand |-> cand, sess |-> sess, proof |-> 0]
IdleRequest == At("idle", "none", None, {}, {})
SignIn(r, proof) ==
    req' = [req EXCEPT ![r] = [At("signin", "none", None, {}, {}) EXCEPT !.proof = proof]]
Goto(r, pc, kind, tok, cand, sess) ==
    req' = [req EXCEPT ![r] = At(pc, kind, tok, cand, sess)]
Finish(r) == req' = [req EXCEPT ![r] = IdleRequest]

Init ==
    /\ account = NoAccount
    /\ token = [t \in Token |-> NoToken]
    /\ session = [s \in Session |-> NoSession]
    /\ req = [r \in Request |-> IdleRequest]
    /\ overtaken = FALSE

\* A new id: they are interchangeable, so the first that is unused is taken.
NewToken(t) == token[t] = NoToken /\ t = CHOOSE u \in Token : token[u] = NoToken
NewSession(s) == session[s] = NoSession /\ s = CHOOSE v \in Session : session[v] = NoSession

\* consumedAt is null; a link keeps that when it expires.
Unconsumed(t) == token[t].state \in {"open", "expired"}
UnconsumedOf(kind) == {t \in Token : Unconsumed(t) /\ token[t].kind = kind}
Rows(kind) == UnconsumedOf(kind) \cup {t \in Token : token[t].state = "consumed" /\ token[t].kind = kind}
Live(s) == session[s].state = "live"

\* The rows the transaction of r has written and not committed.
LockedBy(r) ==
    CASE req[r].pc \in {"consumed", "delete"} -> {req[r].tok}
      [] req[r].pc = "revoke"                 -> {req[r].tok} \cup req[r].cand
      [] OTHER                                -> {}

\* Another transaction has to end before r gets the rows of links, of the user.
Waits(r, links) == \E q \in Request \ {r} : LockedBy(q) \cap links # {}
UserLocked == \E q \in Request : req[q].pc \in {"delete", "revoke"}

-----------------------------------------------------------------------------
(* Sign-up and sign-in                                                     *)

\* register: user, verification link and session in one transaction.  (An
\* address that is taken is refused.)
Register(t, s) ==
    /\ ~account.exists
    /\ NewToken(t)
    /\ NewSession(s)
    /\ account' = [exists |-> TRUE, password |-> 1, verified |-> FALSE]
    /\ token' = [token EXCEPT ![t] = [state |-> "open", kind |-> "verify", seen |-> {}]]
    /\ session' = [session EXCEPT ![s] = Opened(1, 1)]
    /\ UNCHANGED <<req, overtaken>>

\* Bug: the hash comes from a cache that a reset does not refresh.
LoginCached(r) ==
    /\ req[r].pc = "idle"
    /\ account.password # 0
    /\ SignIn(r, 1)
    /\ UNCHANGED <<account, token, session, overtaken>>

\* login reads the hash and finds that the password matches it.
LoginRead(r) ==
    /\ req[r].pc = "idle"
    /\ account.password # 0
    /\ SignIn(r, account.password)
    /\ UNCHANGED <<account, token, session, overtaken>>

\* authenticateOAuth: the account of the address is found or created, and its
\* address is verified.
AuthenticateOAuth(r) ==
    /\ req[r].pc = "idle"
    /\ ~UserLocked
    /\ account' = [exists |-> TRUE, password |-> account.password, verified |-> TRUE]
    /\ SignIn(r, 0)
    /\ UNCHANGED <<token, session, overtaken>>

\* Bug: the session is created without updating the row of the user.
CompleteUnlocked(r, s) ==
    /\ req[r].pc = "signin"
    /\ NewSession(s)
    /\ session' = [session EXCEPT ![s] = Opened(account.password, req[r].proof)]
    /\ Finish(r)
    /\ UNCHANGED <<account, token, overtaken>>

\* completeFirstFactor: lastLoginAt is set, which waits for the row of the
\* user, and the session is created.
CompleteFirstFactor(r, s) ==
    /\ req[r].pc = "signin"
    /\ ~UserLocked
    /\ NewSession(s)
    /\ session' = [session EXCEPT ![s] = Opened(account.password, req[r].proof)]
    /\ Finish(r)
    /\ UNCHANGED <<account, token, overtaken>>

\* Bug: the update of the rotated session does not ask for revokedAt = null.
RotateRevoked(s, n) ==
    /\ session[s] # NoSession
    /\ NewSession(n)
    /\ session' = [session EXCEPT ![s].state = "revoked",
                                  ![n] = [session[s] EXCEPT !.state = "live"]]
    /\ UNCHANGED <<account, token, req, overtaken>>

\* refresh commits: a usable session is replaced.  It locks no row of the user,
\* so that it may do so while a reset that has scanned the sessions is open.
Rotate(s, n) ==
    /\ Live(s)
    /\ NewSession(n)
    /\ session' = [session EXCEPT
          ![s].state = "revoked",
          ![n] = [session[s] EXCEPT !.beside = @ \cup
                    {p \in {account.password} : \E r \in Request : req[r].pc = "revoke"}]]
    /\ UNCHANGED <<account, token, req, overtaken>>

-----------------------------------------------------------------------------
(* forgotPassword and requestEmailVerification                             *)

\* The account is read: it has a password to reset, or an address to verify.
IssueRead(r, kind) ==
    /\ req[r].pc = "idle"
    /\ account.exists
    /\ IF kind = "reset" THEN account.password # 0 ELSE ~account.verified
    /\ Goto(r, "issue", kind, None, {}, {})
    /\ UNCHANGED <<account, token, session, overtaken>>

\* The DELETE starts: the links of this kind that are not consumed.
IssueScan(r) ==
    /\ req[r].pc = "issue"
    /\ Goto(r, "create", req[r].kind, None, UnconsumedOf(req[r].kind), {})
    /\ UNCHANGED <<account, token, session, overtaken>>

\* Bug: the links that are out stay valid.
IssueBeside(r, t) ==
    /\ req[r].pc = "create"
    /\ NewToken(t)
    /\ token' = [token EXCEPT ![t] = [state |-> "open", kind |-> req[r].kind, seen |-> req[r].cand]]
    /\ Finish(r)
    /\ UNCHANGED <<account, session, overtaken>>

\* It rechecks consumedAt on each and the new link is created.
IssueCommit(r, t) ==
    /\ req[r].pc = "create"
    /\ ~Waits(r, req[r].cand)
    /\ NewToken(t)
    /\ token' = [u \in Token |->
          IF u = t THEN [state |-> "open", kind |-> req[r].kind, seen |-> req[r].cand]
          ELSE IF u \in req[r].cand /\ Unconsumed(u) THEN [token[u] EXCEPT !.state = "deleted"]
          ELSE token[u]]
    /\ Finish(r)
    /\ UNCHANGED <<account, session, overtaken>>

-----------------------------------------------------------------------------
(* confirmEmailVerification and resetPassword                              *)

\* The link is read and is good; what is done with it is still to come.
LinkRead(r, t) ==
    /\ req[r].pc = "idle"
    /\ token[t].state = "open"
    /\ Goto(r, IF token[t].kind = "verify" THEN "confirm" ELSE "hash", token[t].kind, t, {}, {})
    /\ UNCHANGED <<account, token, session, overtaken>>

\* Bug: a link that is gone is asked for again instead of refused.
LinkRetry(r) ==
    /\ req[r].pc \in {"confirm", "hash"}
    /\ ~Waits(r, {req[r].tok})
    /\ ~Unconsumed(req[r].tok)
    /\ UNCHANGED vars

\* The UPDATE that consumes it matches no row: 400, rolled back.
LinkLost(r) ==
    /\ req[r].pc \in {"confirm", "hash"}
    /\ ~Waits(r, {req[r].tok})
    /\ ~Unconsumed(req[r].tok)
    /\ Finish(r)
    /\ UNCHANGED <<account, token, session, overtaken>>

\* Bug: a link that was used is marked in a way the schema does not have.
ConfirmAsUsed(r) ==
    /\ req[r].pc = "confirm"
    /\ ~Waits(r, {req[r].tok}) /\ ~UserLocked
    /\ token' = [token EXCEPT ![req[r].tok].state = "used"]
    /\ account' = [account EXCEPT !.verified = TRUE]
    /\ Finish(r)
    /\ UNCHANGED <<session, overtaken>>

\* The link is consumed and the address verified.
ConfirmEmailVerification(r) ==
    /\ req[r].pc = "confirm"
    /\ ~Waits(r, {req[r].tok}) /\ ~UserLocked
    /\ Unconsumed(req[r].tok)
    /\ token' = [token EXCEPT ![req[r].tok].state = "consumed"]
    /\ account' = [account EXCEPT !.verified = TRUE]
    /\ Finish(r)
    /\ UNCHANGED <<session, overtaken>>

\* Bug: the link is consumed without asking for consumedAt = null.
ResetConsumeAgain(r) ==
    /\ req[r].pc = "hash"
    /\ ~Waits(r, {req[r].tok})
    /\ Goto(r, "consumed", "reset", req[r].tok, {}, {})
    /\ UNCHANGED <<account, token, session, overtaken>>

\* The password is hashed, the transaction of resetPassword starts: the link
\* is consumed if it still is not,
ResetConsume(r) ==
    /\ req[r].pc = "hash"
    /\ ~Waits(r, {req[r].tok})
    /\ Unconsumed(req[r].tok)
    /\ Goto(r, "consumed", "reset", req[r].tok, {}, {})
    /\ UNCHANGED <<account, token, session, overtaken>>

\* the password is written, and the DELETE of the other links starts,
ResetUpdateUser(r) ==
    /\ req[r].pc = "consumed"
    /\ ~UserLocked
    /\ Goto(r, "delete", "reset", req[r].tok, Rows("reset") \ {req[r].tok}, {})
    /\ UNCHANGED <<account, token, session, overtaken>>

\* it gets them, and the UPDATE of the sessions starts,
ResetDeleteLinks(r) ==
    /\ req[r].pc = "delete"
    /\ ~Waits(r, req[r].cand)
    /\ Goto(r, "revoke", "reset", req[r].tok, req[r].cand, {s \in Session : Live(s)})
    /\ UNCHANGED <<account, token, session, overtaken>>

\* and the transaction commits.
ResetCommit(r) ==
    /\ req[r].pc = "revoke"
    /\ account' = [account EXCEPT !.password = @ + 1]
    /\ token' = [t \in Token |->
          IF t = req[r].tok THEN [token[t] EXCEPT !.state = "consumed"]
          ELSE IF t \in req[r].cand THEN [token[t] EXCEPT !.state = "deleted"]
          ELSE token[t]]
    /\ session' = [s \in Session |->
          IF s \in req[r].sess /\ Live(s) THEN [session[s] EXCEPT !.state = "revoked"] ELSE session[s]]
    /\ overtaken' = (overtaken \/ \E q \in Request : req[q].pc = "signin" /\ req[q].proof # 0)
    /\ Finish(r)

-----------------------------------------------------------------------------
(* Environment                                                             *)

\* Two resets of two good links: one waits for the row of the user, the other
\* for the link the first has consumed.
Deadlocked(r) ==
    \E q \in Request \ {r} : \E a \in {q, r} : \E b \in {q, r} \ {a} :
        req[a].pc = "consumed" /\ req[b].pc = "delete" /\ req[a].tok \in req[b].cand

\* After deadlock_timeout PostgreSQL rolls one of them back.
BreakDeadlock(r) ==
    /\ Deadlocked(r)
    /\ Finish(r)
    /\ UNCHANGED <<account, token, session, overtaken>>

\* The process dies or the database fails: an open transaction rolls back.
Abort(r) ==
    /\ req[r].pc # "idle"
    /\ Finish(r)
    /\ UNCHANGED <<account, token, session, overtaken>>

\* The hours or minutes of a link pass.
Expire(t) ==
    /\ token[t].state = "open"
    /\ token' = [token EXCEPT ![t].state = "expired"]
    /\ UNCHANGED <<account, session, req, overtaken>>

-----------------------------------------------------------------------------
\* What the handler of r does once it has started.
Continue(r) ==
    \/ \E s \in Session : CompleteFirstFactor(r, s)
    \/ IssueScan(r)
    \/ \E t \in Token : IssueCommit(r, t)
    \/ LinkLost(r) \/ ConfirmEmailVerification(r)
    \/ ResetConsume(r) \/ ResetUpdateUser(r) \/ ResetDeleteLinks(r) \/ ResetCommit(r)

Next ==
    \/ \E t \in Token : Expire(t) \/ \E s \in Session : Register(t, s)
    \/ \E s, n \in Session : Rotate(s, n)
    \/ \E r \in Request :
          \/ LoginRead(r) \/ AuthenticateOAuth(r)
          \/ \E kind \in Kind : IssueRead(r, kind)
          \/ \E t \in Token : LinkRead(r, t)
          \/ Continue(r) \/ BreakDeadlock(r) \/ Abort(r)

Spec == Init /\ [][Next]_vars

\* The event loop runs every started handler on; the database queues whoever
\* waits for a row, so that none waits for ever, and breaks a deadlock.
FairSpec == Spec /\ \A r \in Request : SF_vars(Continue(r) \/ BreakDeadlock(r))

-----------------------------------------------------------------------------
(* Properties                                                              *)

\* Rows and requests hold values the code can write.
TypeOK ==
    /\ account \in [exists : BOOLEAN, password : Nat, verified : BOOLEAN]
    /\ token \in [Token -> [state : {"absent", "open", "expired", "consumed", "deleted"},
                            kind : Kind \cup {"none"}, seen : SUBSET Token]]
    /\ session \in [Session -> [state : {"absent", "live", "revoked"}, made : Nat, proof : Nat,
                                beside : SUBSET Nat]]
    /\ req \in [Request -> [pc : {"idle", "signin", "issue", "create", "confirm", "hash",
                                  "consumed", "delete", "revoke"},
                            kind : Kind \cup {"none"}, tok : Token \cup {None},
                            cand : SUBSET Token, sess : SUBSET Session, proof : Nat]]
    /\ overtaken \in BOOLEAN

\* A link that was used, or that a later request or a reset retired, never
\* works again, whatever was read of it before: each password after the first
\* comes from a link that was still good when its transaction ended.
PasswordNeedsLiveLink ==
    [][account.password # 0 /\ account'.password # account.password =>
          \E t \in Token : Unconsumed(t) /\ token'[t].state = "consumed"]_vars

\* A request for a link retires the ones it can see: two good links of one
\* kind come from requests that ran side by side.
GoodLinksAreConcurrent ==
    \A t, u \in Token : Unconsumed(t) /\ Unconsumed(u) => u \notin token[t].seen

\* A reset ends every session opened before it, and no sign-in opens one beside
\* it.  What outlives a reset is the replacement of a session that a refresh
\* rotated between the scan of the reset and its commit: a usable session is
\* younger than the password, or was rotated beside every reset since.
ResetEndsSessions ==
    \A s \in Session : Live(s) =>
        \A p \in 0..account.password :
            session[s].made <= p /\ p < account.password => p \in session[s].beside

\* Two links work at once only if they were issued concurrently, and no usable session is older
\* than the password, but for a rotation beside the reset.
AccountConsistent == TypeOK /\ GoodLinksAreConcurrent /\ ResetEndsSessions

\* An old password opens nothing after a reset, except for a login that had
\* verified it when the reset ended and goes on after it: another session that
\* was opened with it is older than the reset.
OnlyOvertakenLoginOutlives ==
    \A s \in Session : Live(s) /\ session[s].proof \notin {0, account.password} =>
        overtaken \/ session[s].made < account.password

\* What the user who resets a password expects, and the message of resetPassword
\* says ("all existing sessions were signed out"): the old password is of no use.
OldPasswordIsUseless ==
    \A s \in Session : Live(s) => session[s].proof \in {0, account.password}

\* A reset or a confirmation that has read its link ends, by commit, refusal or
\* rollback, even when two resets hold what the other one needs.
LinkUseEnds == \A r \in Request : (req[r].pc \in {"confirm", "hash"}) ~> (req[r].pc = "idle")
=============================================================================
