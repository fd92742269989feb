---------------------------- MODULE SecondFactor ----------------------------
(***************************************************************************)
(* Two-factor authentication of one account: the setup of a TOTP           *)
(* credential, login challenges, recovery codes, step-up operations        *)
(* (two-factor/two-factor.service.ts) and the point in auth.service.ts     *)
(* where a first factor becomes a session or a challenge.                  *)
(*                                                                         *)
(* A request is a process: its reads and its commit are separate steps, so *)
(* what it read may be stale when it commits.  Every commit here is a      *)
(* transaction whose conditional updates are rechecked on the latest rows. *)
(* A bulk revocation scans the rows and then commits: those created in     *)
(* between are missed.  For confirmSetup these are two steps, with the     *)
(* credential locked between them; for disable and the sign-outs it makes  *)
(* no difference here when a row was created, and they may miss any.       *)
(*                                                                         *)
(* Secrets, time steps and recovery codes are numbers.  One code stands    *)
(* for the ten of a batch, which are made and deleted together.            *)
(***************************************************************************)
EXTENDS Naturals, FiniteSets

CONSTANTS Request,    \* concurrent requests
          Challenge,  \* ids of login challenges
          MaxSecret,  \* bound on the secrets ever generated
          MaxCode,    \* bound on the recovery-code batches ever generated
          MaxStep     \* bound on the TOTP time step (30 s each)

ASSUME BoundsAssumption ==
    MaxSecret \in Nat /\ MaxCode \in Nat /\ MaxStep \in Nat \ {0}

VARIABLES cred,       \* the row of two_factor_credentials, if any
          codes,      \* the recovery codes: which batch, and whether consumed
          secrets,    \* how many secrets were generated
          challenge,  \* each row of two_factor_challenges, once it exists
          live,       \* {"firstFactor"} while a session lives that needed no second factor
          missed,     \* {"firstFactor"} if one was created since confirmSetup scanned
          clock,      \* the current TOTP time step
          req,        \* what each request has read and does next
          used,       \* history: how often each proof was accepted
          exchanged,  \* history: sessions given for each challenge
          proven,     \* history: secrets a code was verified against in setup
          raced       \* history: the steps that were overtaken, and what that led to

account == <<cred, codes, secrets, challenge, live, missed>>
history == <<used, exchanged, proven, raced>>
vars == <<account, clock, req, history>>

Secret == 1..MaxSecret
Code == 1..MaxCode
Step == 1..MaxStep

\* A TOTP of a secret at a time step, or a recovery code.
Proof == [kind : {"totp"}, of : Secret, n : Step] \cup [kind : {"code"}, of : {0}, n : Code]
NoProof == [kind |-> "none", of |-> 0, n |-> 0]
Totp(secret, k) == [kind |-> "totp", of |-> secret, n |-> k]
RecoveryCode(c) == [kind |-> "code", of |-> 0, n |-> c]

\* step = 0: lastUsedTimeStep is null.  id: the secret the row was created with.
NoCredential == [state |-> "none", id |-> 0, secret |-> 0, step |-> 0]
Enabled == cred.state = "enabled"

\* batch b is the latest one made; state: none (left), fresh or used.
NoCodes(b) == [batch |-> b, state |-> "none"]
FreshCodes(b) == [batch |-> b, state |-> "fresh"]

NoChallenge == "none"
IdleRequest == [pc |-> "idle", ch |-> NoChallenge, id |-> 0, proof |-> NoProof]
Finish(r) == req' = [req EXCEPT ![r] = IdleRequest]
Goto(r, pc, ch, id, proof) ==
    req' = [req EXCEPT ![r] = [pc |-> pc, ch |-> ch, id |-> id, proof |-> proof]]

Init ==
    /\ cred = NoCredential
    /\ codes = NoCodes(0)
    /\ secrets = 0
    /\ challenge = [c \in Challenge |-> "unborn"]
    /\ live = {"firstFactor"}
    /\ missed = {}
    /\ clock = 1
    /\ req = [r \in Request |-> IdleRequest]
    /\ used = [p \in Proof |-> 0]
    /\ exchanged = [c \in Challenge |-> 0]
    /\ proven = {}
    /\ raced = {}

-----------------------------------------------------------------------------
(* Locks and bulk revocations                                              *)

\* Another request is in the transaction that enables the credential, and
\* holds its row.
Locked(r) == \E q \in Request \ {r} : req[q].pc = "enabling"

\* The rows a bulk revocation is there to take, any of which may be newer than
\* its scan.
Usable == live \cup {c \in Challenge : challenge[c] = "open"}

\* A row of sessions is created that needed no second factor.
CreateSession ==
    /\ live' = {"firstFactor"}
    /\ missed' = IF \E q \in Request : req[q].pc = "enabling" THEN {"firstFactor"} ELSE {}

\* Bug: the rows stay, with a status of their own.
RevokedChallenges(spared) ==
    [c \in Challenge |-> IF challenge[c] = "unborn" \/ c \in spared THEN challenge[c] ELSE "revoked"]

\* Every challenge of the account is deleted, but for those the scan misses.
DeletedChallenges(spared) ==
    [c \in Challenge |-> IF challenge[c] = "unborn" \/ c \in spared THEN challenge[c] ELSE "deleted"]

-----------------------------------------------------------------------------
(* First factor: login and authenticateOAuth end in completeFirstFactor    *)

\* The password or the OAuth profile is accepted and isEnabled is read.
FirstFactor(r) ==
    /\ req[r].pc = "idle"
    /\ Goto(r, IF Enabled THEN "challenge" ELSE "session", NoChallenge, 0, NoProof)
    /\ UNCHANGED <<account, clock, history>>

\* Not enabled when it was read: the session is created.
IssueSession(r) ==
    /\ req[r].pc = "session"
    /\ CreateSession
    /\ Finish(r)
    /\ UNCHANGED <<cred, codes, challenge, secrets, clock, history>>

\* createLoginChallenge also deletes challenges that expired or were consumed.
IssueChallenge(r, c) ==
    /\ req[r].pc = "challenge"
    /\ challenge[c] = "unborn"
    /\ challenge' = [x \in Challenge |->
                        IF x = c THEN "open"
                        ELSE IF challenge[x] \in {"expired", "consumed"} THEN "deleted"
                        ELSE challenge[x]]
    /\ Finish(r)
    /\ UNCHANGED <<cred, codes, live, missed, secrets, clock, history>>

-----------------------------------------------------------------------------
(* Second factor                                                           *)

\* resolveSecondFactor: a code of the current or the previous time step, after
\* the step used last, or a recovery code that is not consumed.
Resolvable(p) ==
    \/ p.kind = "totp" /\ p.of = cred.secret /\ p.n \in {clock - 1, clock} /\ p.n > cred.step
    \/ p.kind = "code" /\ codes = FreshCodes(p.n)

\* Bug: claimSecondFactor trusts the check made when the code was resolved.
ClaimableOnTrust(r) ==
    LET p == req[r].proof IN
    \/ p.kind = "totp" /\ Enabled /\ cred.id = req[r].id
    \/ p.kind = "code" /\ cred.id = req[r].id /\ codes.batch = p.n /\ codes.state # "none"

\* claimSecondFactor: its conditional update matches a row.
Claimable(r) ==
    LET p == req[r].proof IN
    \/ p.kind = "totp" /\ Enabled /\ cred.id = req[r].id /\ cred.step < p.n
    \/ p.kind = "code" /\ cred.id = req[r].id /\ codes = FreshCodes(p.n)

\* The credential after a claim.
ClaimedStep(r) ==
    IF req[r].proof.kind = "totp" THEN [cred EXCEPT !.step = req[r].proof.n] ELSE cred

\* The recovery codes after a claim.
ClaimedCodes(r) ==
    IF req[r].proof.kind = "code" THEN [codes EXCEPT !.state = "used"] ELSE codes

\* Every code is deleted and a new batch made.
NewBatch ==
    /\ codes.batch < MaxCode
    /\ codes' = FreshCodes(codes.batch + 1)

CountUse(p) == used' = [used EXCEPT ![p] = @ + 1]

\* verifyLoginChallenge reads an open challenge.
ReadChallenge(r, c) ==
    /\ req[r].pc = "idle"
    /\ challenge[c] = "open"
    /\ Goto(r, "resolve", c, 0, NoProof)
    /\ UNCHANGED <<account, clock, history>>

\* Then the credential, and the code is resolved against it.
ResolveChallenge(r, p) ==
    /\ req[r].pc = "resolve"
    /\ Enabled
    /\ Resolvable(p)
    /\ Goto(r, "verify", req[r].ch, cred.id, p)
    /\ UNCHANGED <<account, clock, history>>

\* Bug: the challenge is consumed without asking for consumedAt = null.
VerifyConsumedChallenge(r) ==
    /\ req[r].pc = "verify"
    /\ challenge[req[r].ch] \in {"open", "expired", "consumed"}
    /\ ~Locked(r)
    /\ Claimable(r)
    /\ challenge' = [challenge EXCEPT ![req[r].ch] = "consumed"]
    /\ cred' = ClaimedStep(r)
    /\ codes' = ClaimedCodes(r)
    /\ CountUse(req[r].proof)
    /\ exchanged' = [exchanged EXCEPT ![req[r].ch] = @ + 1]
    /\ Finish(r)
    /\ UNCHANGED <<live, missed, secrets, clock, proven, raced>>

\* Challenge, proof and session in one transaction.  Its "now" is from before
\* the challenge was read, so an expiry since then goes unnoticed.
VerifyLoginChallenge(r) ==
    /\ req[r].pc = "verify"
    /\ challenge[req[r].ch] \in {"open", "expired"}
    /\ ~Locked(r)
    /\ Claimable(r)
    /\ challenge' = [challenge EXCEPT ![req[r].ch] = "consumed"]
    /\ cred' = ClaimedStep(r)
    /\ codes' = ClaimedCodes(r)
    /\ CountUse(req[r].proof)
    /\ exchanged' = [exchanged EXCEPT ![req[r].ch] = @ + 1]
    /\ Finish(r)
    /\ UNCHANGED <<live, missed, secrets, clock, proven, raced>>

-----------------------------------------------------------------------------
(* Step-up operations                                                      *)

\* verifyStepUp: the password and the code are accepted.
VerifyStepUp(r, op, p) ==
    /\ req[r].pc = "idle"
    /\ Enabled
    /\ Resolvable(p)
    /\ Goto(r, op, NoChallenge, cred.id, p)
    /\ UNCHANGED <<account, clock, history>>

\* regenerateBackupCodes: the proof is claimed and a new batch replaces all codes.
RegenerateBackupCodes(r) ==
    /\ req[r].pc = "regenerate"
    /\ ~Locked(r)
    /\ Claimable(r)
    /\ cred' = ClaimedStep(r)
    /\ NewBatch
    /\ CountUse(req[r].proof)
    /\ Finish(r)
    /\ UNCHANGED <<challenge, live, missed, secrets, clock, exchanged, proven, raced>>

\* disable: the proof is claimed; challenges, credential (with its codes) and
\* sessions go.
Disable(r, spared) ==
    /\ req[r].pc = "disable"
    /\ ~Locked(r)
    /\ Claimable(r)
    /\ cred' = NoCredential
    /\ codes' = NoCodes(codes.batch)
    /\ challenge' = DeletedChallenges(spared)
    /\ live' = live \cap spared
    /\ CountUse(req[r].proof)
    /\ Finish(r)
    /\ UNCHANGED <<missed, secrets, clock, exchanged, proven, raced>>

-----------------------------------------------------------------------------
(* Setup                                                                   *)

\* Bug: beginSetup does not look at what is there.
BeginSetupAnyway(r) ==
    /\ req[r].pc = "idle"
    /\ Goto(r, "setup", NoChallenge, 0, NoProof)
    /\ UNCHANGED <<account, clock, history>>

\* beginSetup reads the credential and sees none, or an unfinished setup.
BeginSetup(r) ==
    /\ req[r].pc = "idle"
    /\ ~Enabled
    /\ Goto(r, "setup", NoChallenge, 0, NoProof)
    /\ UNCHANGED <<account, clock, history>>

\* Another request is about to do pc with a credential it read before.
Overtaken(r, pc) == IF \E q \in Request \ {r} : req[q].pc = pc THEN {pc} ELSE {}

\* The credential that is about to be replaced was enabled.
Overwritten == IF Enabled THEN {"overwritten"} ELSE {}

\* The upsert replaces whatever credential is there by then.
UpsertCredential(r) ==
    /\ req[r].pc = "setup"
    /\ ~Locked(r)
    /\ secrets < MaxSecret
    /\ secrets' = secrets + 1
    /\ cred' = [state |-> "pending", secret |-> secrets', step |-> 0,
                id |-> IF cred.state = "none" THEN secrets' ELSE cred.id]
    /\ codes' = NoCodes(codes.batch)
    /\ raced' = raced \cup Overtaken(r, "confirm") \cup Overwritten
    /\ Finish(r)
    /\ UNCHANGED <<challenge, live, missed, clock, used, exchanged, proven>>

\* Bug: the code is not verified before the credential is enabled.
ReadPendingOnly(r, k) ==
    /\ req[r].pc = "idle"
    /\ cred.state = "pending"
    /\ k \in {clock - 1, clock}
    /\ Goto(r, "confirm", NoChallenge, cred.id, Totp(cred.secret, k))
    /\ UNCHANGED <<account, clock, history>>

\* confirmSetup reads the pending credential and verifies a code against it.
ReadPending(r, k) ==
    /\ req[r].pc = "idle"
    /\ cred.state = "pending"
    /\ k \in {clock - 1, clock}
    /\ Goto(r, "confirm", NoChallenge, cred.id, Totp(cred.secret, k))
    /\ proven' = proven \cup {cred.secret}
    /\ UNCHANGED <<account, clock, used, exchanged, raced>>

\* The credential is enabled if it is still pending and its row is locked; the
\* codes are made and the sessions scanned.
EnableCredential(r) ==
    /\ req[r].pc = "confirm"
    /\ ~Locked(r)
    /\ cred.state = "pending" /\ cred.id = req[r].id
    /\ req' = [req EXCEPT ![r].pc = "enabling"]
    /\ missed' = {}
    /\ UNCHANGED <<cred, codes, secrets, challenge, live, clock, history>>

\* A session that needed no second factor was created since the scan and lives.
MissedSession == IF live \cap missed # {} THEN {"session"} ELSE {}

\* Bug: the sessions that signed in without a second factor go on.
ConfirmSetupOnly(r) ==
    /\ req[r].pc = "enabling"
    /\ cred' = [cred EXCEPT !.state = "enabled", !.step = req[r].proof.n]
    /\ NewBatch
    /\ missed' = {}
    /\ CountUse(req[r].proof)
    /\ raced' = raced \cup Overtaken(r, "session") \cup Overtaken(r, "setup") \cup MissedSession
    /\ Finish(r)
    /\ UNCHANGED <<challenge, live, secrets, clock, exchanged, proven>>

\* The transaction commits: the credential is enabled, the codes are there and
\* every session that was scanned is revoked.
ConfirmSetup(r) ==
    /\ req[r].pc = "enabling"
    /\ cred' = [cred EXCEPT !.state = "enabled", !.step = req[r].proof.n]
    /\ NewBatch
    /\ live' = live \cap missed
    /\ missed' = {}
    /\ CountUse(req[r].proof)
    /\ raced' = raced \cup Overtaken(r, "session") \cup Overtaken(r, "setup") \cup MissedSession
    /\ Finish(r)
    /\ UNCHANGED <<challenge, secrets, clock, exchanged, proven>>

-----------------------------------------------------------------------------
(* Rollbacks, other handlers, time                                         *)

\* A check or a conditional update fails, the transaction rolls back, or the
\* process dies: the request ends and leaves nothing behind.
GiveUp(r) ==
    /\ req[r].pc # "idle"
    /\ missed' = IF req[r].pc = "enabling" THEN {} ELSE missed
    /\ Finish(r)
    /\ UNCHANGED <<cred, codes, secrets, challenge, live, clock, history>>

\* logoutAll and resetPassword revoke every session and delete every challenge,
\* but for those their scans miss.
SignOutEverywhere(spared) ==
    /\ live' = live \cap spared
    /\ challenge' = DeletedChallenges(spared)
    /\ UNCHANGED <<cred, codes, missed, secrets, clock, req, history>>

\* refresh replaces a session that needed no second factor by a new row.
Refresh ==
    /\ live # {}
    /\ CreateSession
    /\ UNCHANGED <<cred, codes, challenge, secrets, clock, req, history>>

\* The last such session is logged out or expires.
SessionEnds ==
    /\ live # {}
    /\ live' = {}
    /\ UNCHANGED <<cred, codes, challenge, missed, secrets, clock, req, history>>

\* Thirty seconds pass.
Tick ==
    /\ clock < MaxStep
    /\ clock' = clock + 1
    /\ UNCHANGED <<account, req, history>>

\* LOGIN_CHALLENGE_TTL_SECONDS pass.
ExpireChallenge(c) ==
    /\ challenge[c] = "open"
    /\ challenge' = [challenge EXCEPT ![c] = "expired"]
    /\ UNCHANGED <<cred, codes, live, missed, secrets, clock, req, history>>

-----------------------------------------------------------------------------
Next ==
    \/ \E r \in Request :
          \/ FirstFactor(r) \/ IssueSession(r) \/ VerifyLoginChallenge(r)
          \/ RegenerateBackupCodes(r) \/ BeginSetup(r) \/ UpsertCredential(r)
          \/ EnableCredential(r) \/ ConfirmSetup(r) \/ GiveUp(r)
          \/ \E spared \in SUBSET Usable : Disable(r, spared)
          \/ \E c \in Challenge : IssueChallenge(r, c) \/ ReadChallenge(r, c)
          \/ \E p \in Proof : ResolveChallenge(r, p)
          \/ \E p \in Proof, op \in {"regenerate", "disable"} : VerifyStepUp(r, op, p)
          \/ \E k \in Step : ReadPending(r, k)
    \/ \E spared \in SUBSET Usable : SignOutEverywhere(spared)
    \/ Refresh \/ SessionEnds \/ Tick
    \/ \E c \in Challenge : ExpireChallenge(c)

Spec == Init /\ [][Next]_vars

-----------------------------------------------------------------------------
(* Properties                                                              *)

\* Rows, requests and histories hold values the code can write.
TypeOK ==
    /\ cred \in [state : {"none", "pending", "enabled"}, id : 0..MaxSecret,
                 secret : 0..MaxSecret, step : 0..MaxStep]
    /\ codes \in [batch : 0..MaxCode, state : {"none", "fresh", "used"}]
    /\ secrets \in 0..MaxSecret
    /\ challenge \in [Challenge -> {"unborn", "open", "expired", "consumed", "deleted"}]
    /\ live \subseteq {"firstFactor"}
    /\ missed \subseteq {"firstFactor"}
    /\ clock \in Step
    /\ req \in [Request -> [pc : {"idle", "challenge", "session", "resolve", "verify",
                                  "regenerate", "disable", "setup", "confirm",
                                  "enabling"},
                            ch : Challenge \cup {NoChallenge}, id : 0..MaxSecret,
                            proof : Proof \cup {NoProof}]]
    /\ used \in [Proof -> Nat]
    /\ exchanged \in [Challenge -> Nat]
    /\ proven \subseteq Secret
    /\ raced \subseteq {"session", "setup", "confirm", "overwritten"}

\* ADR 0013, "replaying a consumed challenge fails": however verifications,
\* resets and new sign-ins interleave, a challenge becomes at most one session.
OneSessionPerChallenge == \A c \in Challenge : exchanged[c] <= 1

\* ADR 0013, "Permit the current TOTP time step only once" and "concurrent
\* requests cannot reuse" a recovery code: over sign-ins, step-ups, setups and
\* credentials deleted and made again, a recovery code is accepted at most once,
\* and a TOTP too unless a setup has overwritten an enabled credential: that keeps
\* the id and forgets the time step, which is all a claim asks for.
OnlyOverwritingReuses ==
    \A p \in Proof : used[p] > 1 => p.kind = "totp" /\ "overwritten" \in raced

\* The tables stay well formed, a challenge yields one session and a proof counts once.
ProofsCountOnce == TypeOK /\ OneSessionPerChallenge /\ OnlyOverwritingReuses

\* A session that needed no second factor is usable beside an enabled one only
\* after confirmSetup crossed its creation: a sign-in had read that none was
\* enabled and created its session after the commit, or a sign-in or a refresh
\* created one between the scan of the sessions to revoke and the commit.
OnlyRacingSignInBypasses == Enabled /\ "firstFactor" \in live => "session" \in raced

\* An enabled secret no code was verified against was put there by a setup that
\* began while the one before it was being confirmed.
OnlyRacingSetupIsUnproven == Enabled /\ cred.secret \notin proven => "confirm" \in raced

\* An enabled credential is bypassed, or has a secret nobody proved to hold, only after a
\* request acted on rows it had read before another one committed.
OnlyRacesWeaken == OnlyRacingSignInBypasses /\ OnlyRacingSetupIsUnproven

\* Setup turns an enabled credential back into a pending one only when the
\* confirmation came between its read and its write.
OnlyRacingSetupOverwrites ==
    [][Enabled /\ cred'.state = "pending" => "setup" \in raced]_vars

\* ADR 0013: "Permit the current TOTP time step only once".
SecondFactorIsSingleUse == \A p \in Proof : used[p] <= 1

\* ADR 0013: "Revoke every pre-2FA refresh session so none can continue
\* bypassing the newly enabled second factor".
NoSessionBypassesSecondFactor == Enabled => "firstFactor" \notin live

\* ADR 0013: "an enabled credential cannot be overwritten by the setup endpoint".
SetupSparesEnabledCredential ==
    [][Enabled => cred'.state # "pending"]_vars

\* ADR 0013: "Require a valid TOTP before enabling the credential", that is of
\* the secret that is enabled.
EnabledSecretWasProven == Enabled => cred.secret \in proven
=============================================================================
