--------------------------- MODULE SessionRotation ---------------------------
(***************************************************************************)
(* The sessions table of one account and every handler that writes it:     *)
(* sign-in, refresh with rotation and reuse detection, logout, and the     *)
(* handlers that sign the account out everywhere (auth.service.ts and      *)
(* two-factor/two-factor.service.ts).                                      *)
(*                                                                         *)
(* A request is a process.  Its steps are its reads and its commits, under *)
(* PostgreSQL's READ COMMITTED, the isolation Prisma's transactions use:   *)
(*  - a transaction whose only contended statement is a conditional UPDATE *)
(*    of one row is one step, at its commit: whoever meets the row lock    *)
(*    waits for the commit and rechecks its WHERE clause on the new row;   *)
(*  - an UPDATE of many rows takes its candidates from a snapshot when it  *)
(*    starts (the scan) and rechecks each of them when it gets the row; a  *)
(*    row that was not committed at the scan is never a candidate.  So it  *)
(*    is two steps, the scan and the revocation that commits.              *)
(***************************************************************************)
EXTENDS FiniteSets, Naturals

CONSTANTS Session,   \* ids (and refresh tokens) of session rows
          Request,   \* concurrent requests the server is handling
          None       \* SQL NULL

ASSUME NoneAssumption == None \notin Session

VARIABLES status,      \* of each row: absent; not revoked, before or after its
                       \* expiresAt; or its revocationReason
          family,      \* tokenFamilyId
          replacedBy,  \* replacedById
          req          \* what each request has read and does next

vars == <<status, family, replacedBy, req>>

Reason == {"ROTATED", "LOGOUT", "LOGOUT_ALL", "REUSE_DETECTED", "ADMINISTRATIVE"}

\* The handlers that revoke every session of the account.  Disabling two-factor
\* authentication runs the UPDATE of logoutAll, with its reason.
SignOutJob == {"logoutAll", "resetPassword", "confirmTwoFactor"}

Job == SignOutJob \cup {"none", "refresh"}

\* Bug: a reason the enum of the schema does not have.
ReasonOfHandler(job) == IF job = "refresh" THEN "REUSE_DETECTED" ELSE job

\* The revocationReason each bulk revocation writes.
ReasonOf(job) ==
    CASE job = "refresh"          -> "REUSE_DETECTED"
      [] job = "confirmTwoFactor" -> "ADMINISTRATIVE"
      [] OTHER                    -> "LOGOUT_ALL"

Unrevoked(s) == status[s] \in {"valid", "expired"}
Exists(s) == status[s] # "absent"
UnrevokedIn(f) == {s \in Session : Unrevoked(s) /\ family[s] = f}

RequestState == [pc : {"idle", "rotate", "detected", "revoke"}, job : Job,
                 tok : Session \cup {None}, cand : SUBSET Session, known : SUBSET Session,
                 died : BOOLEAN]

\* A request at pc on behalf of job, that read the row tok or scanned cand when
\* the rows known were there (which no code reads: it is a history).
Scanned(pc, job, tok, cand, known) ==
    [pc |-> pc, job |-> job, tok |-> tok, cand |-> cand, known |-> known, died |-> FALSE]
At(pc, job, tok, cand) == Scanned(pc, job, tok, cand, {})

IdleRequest == At("idle", "none", None, {})
DeadRequest ==
    [pc |-> "idle", job |-> "none", tok |-> None, cand |-> {}, known |-> {}, died |-> TRUE]

\* The handler of r has answered; the slot is free for another request.
Finish(r) == req' = [req EXCEPT ![r] = IdleRequest]

Init ==
    /\ status = [s \in Session |-> "absent"]
    /\ family = [s \in Session |-> None]
    /\ replacedBy = [s \in Session |-> None]
    /\ req = [r \in Request |-> IdleRequest]

-----------------------------------------------------------------------------
(* Sign-in                                                                 *)

\* users.passwordHash is updated by resetPassword before it revokes, so its
\* transaction holds the row of the user until it commits.
UserRowLocked == \E r \in Request : req[r].pc = "revoke" /\ req[r].job = "resetPassword"

\* Bug: the sign-in creates the session without updating the row of the user.
SignInBesideReset(s) ==
    /\ ~Exists(s)
    /\ status' = [status EXCEPT ![s] = "valid"]
    /\ family' = [family EXCEPT ![s] = s]
    /\ UNCHANGED <<replacedBy, req>>

\* A session is created with a tokenFamilyId of its own.  register, the
\* password and OAuth sign-in and the second-factor sign-in all do this in a
\* transaction that also updates (or creates) the row of the user.
SignIn(s) ==
    /\ ~Exists(s)
    /\ ~UserRowLocked
    /\ status' = [status EXCEPT ![s] = "valid"]
    /\ family' = [family EXCEPT ![s] = s]
    /\ UNCHANGED <<replacedBy, req>>

-----------------------------------------------------------------------------
(* refresh                                                                 *)

\* The row is revoked because it was rotated: the token is being reused.
RefreshReplay(r, s) ==
    /\ req[r].pc = "idle"
    /\ status[s] = "ROTATED"
    /\ req' = [req EXCEPT ![r] = At("detected", "refresh", s, {})]
    /\ UNCHANGED <<status, family, replacedBy>>

\* Unknown to the table, revoked for another reason, or expired: 401 and
\* nothing changes.  (So is a user who is not active; no code makes one.)
RefreshReject(r, s) ==
    /\ req[r].pc = "idle"
    /\ status[s] \notin {"valid", "ROTATED"}
    /\ Finish(r)
    /\ UNCHANGED <<status, family, replacedBy>>

\* The row passes every check; the rotation is still to come.
RefreshRead(r, s) ==
    /\ req[r].pc = "idle"
    /\ status[s] = "valid"
    /\ req' = [req EXCEPT ![r] = At("rotate", "refresh", s, {})]
    /\ UNCHANGED <<status, family, replacedBy>>

\* Bug: the rotation updates the row without asking for revokedAt = null.
RotateUnconditionally(r, n) ==
    /\ req[r].pc = "rotate"
    /\ ~Exists(n)
    /\ status' = [status EXCEPT ![n] = "valid", ![req[r].tok] = "ROTATED"]
    /\ family' = [family EXCEPT ![n] = family[req[r].tok]]
    /\ replacedBy' = [replacedBy EXCEPT ![req[r].tok] = n]
    /\ Finish(r)

\* Bug: the replacement session gets the default tokenFamilyId.
RotateIntoNewFamily(r, n) ==
    /\ req[r].pc = "rotate"
    /\ Unrevoked(req[r].tok)
    /\ ~Exists(n)
    /\ status' = [status EXCEPT ![n] = "valid", ![req[r].tok] = "ROTATED"]
    /\ family' = [family EXCEPT ![n] = n]
    /\ replacedBy' = [replacedBy EXCEPT ![req[r].tok] = n]
    /\ Finish(r)

\* The rotation transaction commits: the replacement is inserted and the old
\* row, still unrevoked, is marked ROTATED.
Rotate(r, n) ==
    /\ req[r].pc = "rotate"
    /\ Unrevoked(req[r].tok)
    /\ ~Exists(n)
    /\ status' = [status EXCEPT ![n] = "valid", ![req[r].tok] = "ROTATED"]
    /\ family' = [family EXCEPT ![n] = family[req[r].tok]]
    /\ replacedBy' = [replacedBy EXCEPT ![req[r].tok] = n]
    /\ Finish(r)

\* The conditional update matched no row: the transaction rolls back, the
\* replacement with it, and the family is to be revoked.
RotateLost(r) ==
    /\ req[r].pc = "rotate"
    /\ ~Unrevoked(req[r].tok)
    /\ req' = [req EXCEPT ![r] = At("detected", "refresh", req[r].tok, {})]
    /\ UNCHANGED <<status, family, replacedBy>>

-----------------------------------------------------------------------------
(* Bulk revocation: the scan of the UPDATE, then its commit                *)

\* Bug: only the row of the presented token is looked at.
FamilyScanOfToken(r) ==
    /\ req[r].pc = "detected"
    /\ req' = [req EXCEPT ![r] = At("revoke", "refresh", req[r].tok,
                                         {req[r].tok} \cap {s \in Session : Unrevoked(s)})]
    /\ UNCHANGED <<status, family, replacedBy>>

\* revokeTokenFamily starts: the unrevoked rows of the family.
FamilyScan(r) ==
    /\ req[r].pc = "detected"
    /\ req' = [req EXCEPT ![r] = At("revoke", "refresh", req[r].tok,
                                         UnrevokedIn(family[req[r].tok]))]
    /\ UNCHANGED <<status, family, replacedBy>>

\* A handler that signs the account out starts its UPDATE: the unrevoked rows.
SignOutScan(r, job) ==
    /\ req[r].pc = "idle"
    /\ job = "resetPassword" => ~UserRowLocked
    /\ req' = [req EXCEPT ![r] = Scanned("revoke", job, None, {s \in Session : Unrevoked(s)},
                                         {s \in Session : Exists(s)})]
    /\ UNCHANGED <<status, family, replacedBy>>

\* The UPDATE rechecks revokedAt = null on each candidate and commits.
Revoke(r) ==
    /\ req[r].pc = "revoke"
    /\ status' = [s \in Session |-> IF s \in req[r].cand /\ Unrevoked(s)
                                    THEN ReasonOf(req[r].job) ELSE status[s]]
    /\ Finish(r)
    /\ UNCHANGED <<family, replacedBy>>

\* Bug: logout does not ask for revokedAt = null, and gives a row revoked for
\* another reason a new one.
LogoutRevoked(s) ==
    /\ status[s] \notin {"absent", "ROTATED"}
    /\ status' = [status EXCEPT ![s] = "LOGOUT"]
    /\ UNCHANGED <<family, replacedBy, req>>

\* logout: one conditional UPDATE by token hash.
Logout(s) ==
    /\ Unrevoked(s)
    /\ status' = [status EXCEPT ![s] = "LOGOUT"]
    /\ UNCHANGED <<family, replacedBy, req>>

-----------------------------------------------------------------------------
(* Environment                                                             *)

\* The process dies or the database fails: an open transaction rolls back and
\* the rest of the handler never runs.
Abort(r) ==
    /\ req[r].pc # "idle"
    /\ req' = [req EXCEPT ![r] = DeadRequest]
    /\ UNCHANGED <<status, family, replacedBy>>

\* REFRESH_TOKEN_TTL_DAYS pass.
Expire(s) ==
    /\ status[s] = "valid"
    /\ status' = [status EXCEPT ![s] = "expired"]
    /\ UNCHANGED <<family, replacedBy, req>>

-----------------------------------------------------------------------------
\* What the handler of r does once it has started.
Continue(r) ==
    \/ \E n \in Session : Rotate(r, n)
    \/ RotateLost(r)
    \/ FamilyScan(r)
    \/ Revoke(r)

Next ==
    \/ \E s \in Session : SignIn(s) \/ Logout(s) \/ Expire(s)
    \/ \E r \in Request, s \in Session :
          RefreshReplay(r, s) \/ RefreshReject(r, s) \/ RefreshRead(r, s)
    \/ \E r \in Request, job \in SignOutJob : SignOutScan(r, job)
    \/ \E r \in Request : Continue(r) \/ Abort(r)

Spec == Init /\ [][Next]_vars

\* The event loop runs every started handler on.
FairSpec == Spec /\ \A r \in Request : WF_vars(Continue(r))

-----------------------------------------------------------------------------
(* Properties                                                              *)

\* Every column and every request holds a value the code can write.
TypeOK ==
    /\ status \in [Session -> {"absent", "valid", "expired"} \cup Reason]
    /\ family \in [Session -> Session \cup {None}]
    /\ replacedBy \in [Session -> Session \cup {None}]
    /\ req \in [Request -> RequestState]

\* A family is one chain of rotations: it opened with the session that names
\* it, every other session replaced exactly one session of the same family,
\* and only the last one is not ROTATED.  So two refreshes of one token, in
\* any interleaving with revocations, never leave two usable sessions.
LinearFamily ==
    /\ \A s, t \in Session : Exists(s) /\ Exists(t) /\ family[s] = family[t]
                             /\ status[s] # "ROTATED" /\ status[t] # "ROTATED" => s = t
    /\ \A s \in Session : Exists(s) /\ family[s] # s => \E p \in Session : replacedBy[p] = s
    /\ \A p, q \in Session : replacedBy[p] # None /\ replacedBy[p] = replacedBy[q] => p = q
    /\ \A p \in Session : replacedBy[p] # None =>
          /\ status[p] = "ROTATED"
          /\ Exists(replacedBy[p])
          /\ family[replacedBy[p]] = family[p]
          /\ replacedBy[p] # family[p]

\* A revocation is final: no handler un-revokes a row, rewrites why it was
\* revoked (reuse detection reads ROTATED from it) or what replaced it.
RevocationIsFinal ==
    [][\A s \in Session : status[s] \in Reason =>
          status'[s] = status[s] /\ replacedBy'[s] = replacedBy[s]]_vars

\* A session that was scanned was rotated into the family of s since.
RotatedSince(r, s) == \E c \in req[r].cand : status[c] = "ROTATED" /\ family[c] = family[s]

\* revokeTokenFamily leaves a usable session in the family only when a session
\* it had scanned was rotated before the UPDATE reached it.
SurvivorWasRotated ==
    \A r \in Request : req[r].pc = "revoke" /\ req[r].job = "refresh" =>
        \A s \in UnrevokedIn(family[req[r].tok]) : s \in req[r].cand \/ RotatedSince(r, s)

\* A password reset leaves a usable session only when one it had scanned was
\* rotated before its UPDATE reached it: no sign-in slips in beside it, because
\* the reset holds the row of the user.
ResetSurvivorWasRotated ==
    \A r \in Request : req[r].pc = "revoke" /\ req[r].job = "resetPassword" =>
        \A s \in Session : Unrevoked(s) => s \in req[r].cand \/ RotatedSince(r, s)

\* logoutAll and confirmSetup lock no user: what they leave usable was rotated
\* like that, or is of a family that a sign-in opened after the scan.
SignOutSurvivorIsNew ==
    \A r \in Request : req[r].pc = "revoke" /\ req[r].job \in {"logoutAll", "confirmTwoFactor"} =>
        \A s \in Session : Unrevoked(s) =>
            s \in req[r].cand \/ RotatedSince(r, s) \/ family[s] \notin req[r].known

\* A bulk revocation misses nothing but what came after its scan: the row that a rotation
\* put in the place of one it had scanned, and, for logout everywhere and the confirmation
\* of a second factor but not for a reset, the session of a new sign-in.
OnlyNewcomersEscape == SurvivorWasRotated /\ ResetSurvivorWasRotated /\ SignOutSurvivorIsNew

\* Once reuse is detected, each session that was usable in the family then
\* stops being usable, unless the request dies before it revokes.
ReuseEndsSessions ==
    \A r \in Request, s \in Session :
        (req[r].pc = "detected" /\ Unrevoked(s) /\ family[s] = family[req[r].tok])
            ~> (~Unrevoked(s) \/ req[r].died)

\* auth.service.ts:279-281 and ADR 0004: use of a rotated token revokes every
\* active session in its family.
ReuseRevokesFamily ==
    [][\A r \in Request : req[r].pc = "revoke" /\ req[r].job = "refresh" /\ Revoke(r)
          => \A s \in Session : family'[s] = family[req[r].tok] => status'[s] # "valid"]_vars

\* auth.service.ts:495: after a password reset "all existing sessions were
\* signed out": the reset leaves no usable session.
ResetSignsOutEverywhere ==
    [][\A r \in Request : req[r].pc = "revoke" /\ req[r].job = "resetPassword" /\ Revoke(r)
          => \A s \in Session : status'[s] # "valid"]_vars

\* Rotation as a baton that is passed on and dropped.
Family == INSTANCE TokenFamily WITH
    baton <- [f \in Session |-> UnrevokedIn(f)],
    issued <- {s \in Session : Exists(s)}

\* The rows of the table, grouped by family, behave like the batons of
\* TokenFamily: refresh hands a family on, everything else opens or drops one.
RotationIsABaton == Family!Spec
=============================================================================
