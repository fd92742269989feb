------------------------- MODULE SecondFactorProofs -------------------------
(***************************************************************************)
(* Theorems about SecondFactor, for any requests, challenges and bounds.   *)
(*                                                                         *)
(* That a TOTP counts once rests on which secret a claim can be of.  A row *)
(* keeps its id while a setup replaces its secret, and a claim names the   *)
(* id and not the secret: what saves it is that no claim of the row's id   *)
(* is under way while the row is pending and no TOTP of a secret made      *)
(* since the row's first was accepted (PendingIsUntouched), so that the    *)
(* claims of an enabled row are all of its present secret (ClaimsFit) and  *)
(* the TOTPs of that secret accepted so far are no later than the step the *)
(* row remembers (StepIsLatest).  All three hold until a setup overwrites  *)
(* an enabled row.                                                         *)
(***************************************************************************)
EXTENDS SecondFactor, TLAPS

Claims == {"verify", "regenerate", "disable"}
Confirming == {"confirm", "enabling"}
Carrying == Claims \cup Confirming
PC == {"idle", "challenge", "session", "resolve", "verify", "regenerate", "disable", "setup",
       "confirm", "enabling"}
RequestState == [pc : PC, ch : Challenge \cup {NoChallenge}, id : 0..MaxSecret,
                 proof : Proof \cup {NoProof}]

\* A request has what its next step needs: the challenge, the id of a row that
\* was there and a proof, which in a setup is a TOTP of a secret of that row.
Carries(q, made) ==
    /\ q.pc \in {"resolve", "verify"} => q.ch \in Challenge
    /\ q.pc \in Carrying => q.proof \in Proof /\ 1 <= q.id /\ q.id <= made
    /\ q.pc \in Confirming => /\ q.proof.kind = "totp"
                              /\ q.id <= q.proof.of /\ q.proof.of <= made
    /\ q.pc \in Claims /\ q.proof.kind = "totp" => q.proof.of <= made
RequestsCarry == \A r \in Request : Carries(req[r], secrets)

\* A row holds a secret that was made, no older than the one it was created with.
RowIsSound ==
    IF cred.state = "none" THEN cred.id = 0
    ELSE 1 <= cred.id /\ cred.id <= cred.secret /\ cred.secret <= secrets

\* The row a confirmation has locked is the pending one it read, and no other
\* confirmation has it.
LockFits ==
    \A r \in Request : req[r].pc = "enabling" =>
        /\ cred.state = "pending" /\ cred.id = req[r].id
        /\ \A q \in Request \ {r} : req[q].pc # "enabling"

Base == TypeOK /\ RequestsCarry /\ RowIsSound

\* A challenge that became a session is consumed or deleted.
ExchangedIsSpent ==
    \A c \in Challenge : exchanged[c] > 0 => exchanged[c] = 1 /\ challenge[c] \in {"consumed", "deleted"}

\* An accepted recovery code was accepted once and is no longer there.
CodesCountOnce ==
    \A p \in Proof : p.kind = "code" /\ used[p] > 0 =>
        used[p] = 1 /\ p.n <= codes.batch /\ (p.n = codes.batch => codes.state # "fresh")

\* An accepted TOTP is of a secret that was made.
AcceptedIsMade == \A p \in Proof : p.kind = "totp" /\ used[p] > 0 => p.of <= secrets

NoSetupBesideEnabled == Enabled => \A r \in Request : req[r].pc # "setup"

\* A request holds a proof to claim with the row's id.
ClaimsRow(q) == q.pc \in Claims /\ q.id = cred.id

ClaimsFit ==
    Enabled => \A r \in Request :
        ClaimsRow(req[r]) /\ req[r].proof.kind = "totp" => req[r].proof.of = cred.secret

PendingIsUntouched ==
    cred.state = "pending" =>
        /\ \A r \in Request : ~ClaimsRow(req[r])
        /\ \A p \in Proof : p.kind = "totp" /\ used[p] > 0 => p.of < cred.id

StepIsLatest ==
    Enabled => \A p \in Proof :
        p.kind = "totp" /\ p.of = cred.secret /\ used[p] > 0 => p.n <= cred.step

TotpsCountOnce == \A p \in Proof : p.kind = "totp" => used[p] <= 1

WhileNoSetupRaced == "setup" \notin raced => NoSetupBesideEnabled

WhileNoneOverwritten ==
    "overwritten" \notin raced => ClaimsFit /\ PendingIsUntouched /\ StepIsLatest /\ TotpsCountOnce

Uses == CodesCountOnce /\ AcceptedIsMade /\ WhileNoSetupRaced /\ WhileNoneOverwritten

\* Beside an enabled credential nobody is signed in, or about to be, without it.
EnabledIsAsked ==
    Enabled /\ "session" \notin raced =>
        "firstFactor" \notin live /\ \A r \in Request : req[r].pc # "session"

\* The secret that is enabled, or that a confirmation would enable, was proven.
ConfirmedIsProven ==
    "confirm" \notin raced =>
        /\ Enabled => cred.secret \in proven
        /\ \A r \in Request :
               req[r].pc \in Confirming /\ cred.state = "pending" /\ req[r].id = cred.id
               => cred.secret \in proven

Inv == Base /\ LockFits /\ ExchangedIsSpent /\ Uses /\ EnabledIsAsked /\ ConfirmedIsProven

-----------------------------------------------------------------------------
(* Proofs and requests                                                     *)

\* The numbers of a TOTP and of a recovery code.
LEMMA ProofShape ==
    ASSUME NEW p \in Proof
    PROVE  /\ p.kind \in {"totp", "code"} /\ p.of \in Nat /\ p.n \in Nat
           /\ p.kind = "totp" => p.of \in Secret /\ p.n \in Step
           /\ p.kind = "code" => p.n \in Code
BY BoundsAssumption DEF Proof, Secret, Step, Code

\* A request is given a new state, beside a step that at most makes a secret.
LEMMA RequestStep ==
    ASSUME Base, NEW r \in Request, NEW q \in RequestState, req' = [req EXCEPT ![r] = q],
           secrets' \in Nat, secrets <= secrets', Carries(q, secrets')
    PROVE  /\ req' \in [Request -> RequestState] /\ RequestsCarry'
           /\ \A s \in Request : req'[s] = IF s = r THEN q ELSE req[s]
<1>1. req \in [Request -> RequestState] /\ secrets \in Nat
  BY BoundsAssumption DEF Base, TypeOK, RequestState, PC
<1>2. /\ req' \in [Request -> RequestState]
      /\ \A s \in Request : req'[s] = IF s = r THEN q ELSE req[s]
  BY <1>1
<1>3. ASSUME NEW s \in Request PROVE Carries(req'[s], secrets')
  <2>1. CASE s = r
    BY <1>2, <2>1
  <2>2. CASE s # r
    <3>1. Carries(req[s], secrets) /\ req'[s] = req[s] /\ req[s] \in RequestState
      BY <1>1, <1>2, <2>2 DEF Base, RequestsCarry
    <3>2. req[s].proof \in Proof => req[s].proof.of \in Nat
      BY ProofShape
    <3> QED
      BY <1>1, <3>1, <3>2, BoundsAssumption DEF Carries, RequestState, Claims, Confirming, Carrying
  <2> QED
    BY <2>1, <2>2
<1> QED
  BY <1>2, <1>3 DEF RequestsCarry

\* No request moves.
LEMMA RequestsKept ==
    ASSUME Base, UNCHANGED <<req, secrets>>
    PROVE  req' \in [Request -> RequestState] /\ RequestsCarry'
BY DEF Base, TypeOK, RequestState, PC, RequestsCarry

\* A request ends.
LEMMA FinishStep ==
    ASSUME Base, NEW r \in Request, Finish(r), secrets' \in Nat, secrets <= secrets'
    PROVE  /\ req' \in [Request -> RequestState] /\ RequestsCarry'
           /\ req'[r].pc = "idle" /\ \A s \in Request : s # r => req'[s] = req[s]
<1>1. IdleRequest \in RequestState /\ IdleRequest.pc = "idle"
  BY BoundsAssumption DEF IdleRequest, RequestState, PC
<1>2. Carries(IdleRequest, secrets')
  BY <1>1 DEF Carries, Confirming, Carrying, Confirming, Claims
<1> QED
  BY <1>1, <1>2, RequestStep DEF Finish

\* A request goes on, and no secret is made.
LEMMA GotoStep ==
    ASSUME Base, NEW r \in Request, UNCHANGED secrets,
           NEW pc \in PC, NEW ch \in Challenge \cup {NoChallenge}, NEW id \in 0..MaxSecret,
           NEW proof \in Proof \cup {NoProof}, Goto(r, pc, ch, id, proof),
           pc \in {"resolve", "verify"} => ch \in Challenge,
           pc \in Carrying => proof \in Proof /\ 1 <= id /\ id <= secrets,
           pc \in Confirming => proof.kind = "totp" /\ id <= proof.of /\ proof.of <= secrets,
           pc \in Claims /\ proof.kind = "totp" => proof.of <= secrets
    PROVE  /\ req' \in [Request -> RequestState] /\ RequestsCarry'
           /\ req'[r].pc = pc /\ req'[r].ch = ch /\ req'[r].id = id /\ req'[r].proof = proof
           /\ \A s \in Request : s # r => req'[s] = req[s]
<1> DEFINE q == [pc |-> pc, ch |-> ch, id |-> id, proof |-> proof]
<1>1. q \in RequestState /\ q.pc = pc /\ q.ch = ch /\ q.id = id /\ q.proof = proof
  BY DEF RequestState
<1>2. req' = [req EXCEPT ![r] = q]
  BY DEF Goto
<1> HIDE DEF q
<1>3. Carries(q, secrets')
  BY <1>1 DEF Carries
<1>4. secrets' \in Nat /\ secrets <= secrets'
  BY BoundsAssumption DEF Base, TypeOK
<1> QED
  BY <1>1, <1>2, <1>3, <1>4, RequestStep

-----------------------------------------------------------------------------
(* Steps that leave the credential, its codes and what was accepted alone  *)

ChallengeState == {"unborn", "open", "expired", "consumed", "deleted"}

\* What a request may come to hold beside the credential that is there.
Fits(q, isProven) ==
    /\ Enabled => q.pc \notin {"setup", "session"}
    /\ ClaimsRow(q) => Enabled /\ (q.proof.kind = "totp" => q.proof.of = cred.secret)
    /\ "confirm" \notin raced /\ q.pc \in Confirming /\ cred.state = "pending" /\ q.id = cred.id
           => cred.secret \in isProven

\* A request that moves on and locks nothing leaves the lock where it is.
LEMMA LockKept ==
    ASSUME Inv, NEW r \in Request, UNCHANGED cred, req'[r].pc # "enabling",
           \A s \in Request : s # r => req'[s] = req[s]
    PROVE  LockFits'
BY DEF Inv, LockFits

\* A step that moves requests, challenges, sessions or time keeps the invariant.
LEMMA QuietStep ==
    ASSUME Inv, LockFits', missed' \subseteq {"firstFactor"}, UNCHANGED <<cred, codes, secrets, used, exchanged, raced>>, clock' \in Step,
           challenge' \in [Challenge -> ChallengeState],
           \A c \in Challenge : challenge[c] \in {"consumed", "deleted"} =>
               challenge'[c] \in {"consumed", "deleted"},
           live' \subseteq {"firstFactor"},
           "firstFactor" \in live' => "firstFactor" \in live \/ \E r \in Request : req[r].pc = "session",
           proven \subseteq proven', proven' \subseteq Secret,
           req' \in [Request -> RequestState], RequestsCarry',
           \A r \in Request : req'[r] = req[r] \/ Fits(req'[r], proven')
    PROVE  Inv'
<1>1. Base'
  BY DEF Inv, Base, TypeOK, RowIsSound, RequestState, PC, ChallengeState
<1>2. ExchangedIsSpent'
  BY DEF Inv, ExchangedIsSpent
<1>3. (CodesCountOnce /\ AcceptedIsMade)'
  BY DEF Inv, Uses, CodesCountOnce, AcceptedIsMade
<1>4. WhileNoSetupRaced'
  BY DEF Inv, Uses, WhileNoSetupRaced, NoSetupBesideEnabled, Fits, Enabled
<1>7. WhileNoneOverwritten'
  <2> SUFFICES ASSUME "overwritten" \notin raced
               PROVE  (ClaimsFit /\ PendingIsUntouched /\ StepIsLatest /\ TotpsCountOnce)'
    BY DEF WhileNoneOverwritten
  <2>1. ClaimsFit /\ PendingIsUntouched /\ StepIsLatest /\ TotpsCountOnce
    BY DEF Inv, Uses, WhileNoneOverwritten
  <2>2. ClaimsFit'
    BY <2>1 DEF ClaimsFit, Fits, Enabled, ClaimsRow
  <2>3. PendingIsUntouched'
    BY <2>1 DEF PendingIsUntouched, Fits, Enabled, ClaimsRow
  <2>4. (StepIsLatest /\ TotpsCountOnce)'
    BY <2>1 DEF StepIsLatest, TotpsCountOnce, Enabled
  <2> QED
    BY <2>2, <2>3, <2>4
<1>5. EnabledIsAsked'
  BY DEF Inv, EnabledIsAsked, Fits, Enabled
<1>6. ConfirmedIsProven'
  BY DEF Inv, ConfirmedIsProven, Fits, Enabled
<1> QED
  BY <1>1, <1>2, <1>3, <1>4, <1>5, <1>6, <1>7 DEF Inv, Uses

\* A request with no claim goes where only it moves.
LEMMA QuietGoto ==
    ASSUME Inv, NEW r \in Request, UNCHANGED <<account, clock, used, exchanged, raced>>,
           proven \subseteq proven', proven' \subseteq Secret,
           NEW pc \in PC, NEW ch \in Challenge \cup {NoChallenge}, NEW id \in 0..MaxSecret,
           NEW proof \in Proof \cup {NoProof}, Goto(r, pc, ch, id, proof),
           pc # "enabling", pc \in {"resolve", "verify"} => ch \in Challenge,
           pc \in Carrying => proof \in Proof /\ 1 <= id /\ id <= secrets,
           pc \in Confirming => proof.kind = "totp" /\ id <= proof.of /\ proof.of <= secrets,
           pc \in Claims /\ proof.kind = "totp" => proof.of <= secrets,
           Enabled => pc \notin {"setup", "session"},
           pc \in Claims => Enabled /\ (proof.kind = "totp" => proof.of = cred.secret),
           pc \in Confirming => cred.secret \in proven'
    PROVE  Inv'
<1>0. Base /\ UNCHANGED <<cred, codes, secrets, challenge, live, missed, clock, used, exchanged, raced>>
  BY DEF Inv, account
<1>1. /\ req' \in [Request -> RequestState] /\ RequestsCarry'
      /\ req'[r].pc = pc /\ req'[r].id = id /\ req'[r].proof = proof
      /\ \A s \in Request : s # r => req'[s] = req[s]
  BY <1>0, GotoStep
<1>2. \A s \in Request : req'[s] = req[s] \/ Fits(req'[s], proven')
  BY <1>1 DEF Fits, ClaimsRow, Enabled
<1>3. /\ clock' \in Step /\ challenge' \in [Challenge -> ChallengeState]
      /\ live' \subseteq {"firstFactor"} /\ missed' \subseteq {"firstFactor"}
  BY <1>0 DEF Base, TypeOK, ChallengeState
<1>4. LockFits'
  BY <1>0, <1>1, LockKept
<1> QED
  BY <1>0, <1>1, <1>2, <1>3, <1>4, QuietStep

\* A request ends and changes no more than challenges and sessions.
LEMMA QuietFinish ==
    ASSUME Inv, NEW r \in Request, Finish(r),
           UNCHANGED <<cred, codes, secrets, clock, used, exchanged, proven, raced>>,
           challenge' \in [Challenge -> ChallengeState],
           \A c \in Challenge : challenge[c] \in {"consumed", "deleted"} =>
               challenge'[c] \in {"consumed", "deleted"},
           live' \subseteq {"firstFactor"}, missed' \subseteq {"firstFactor"},
           "firstFactor" \in live' => "firstFactor" \in live \/ req[r].pc = "session"
    PROVE  Inv'
<1>0. Base /\ clock' \in Step /\ proven' \subseteq Secret /\ secrets' \in Nat /\ secrets <= secrets'
  BY BoundsAssumption DEF Inv, Base, TypeOK
<1>1. /\ req' \in [Request -> RequestState] /\ RequestsCarry' /\ req'[r].pc = "idle"
      /\ \A s \in Request : s # r => req'[s] = req[s]
  BY <1>0, FinishStep
<1>2. \A s \in Request : req'[s] = req[s] \/ Fits(req'[s], proven')
  BY <1>1 DEF Fits, ClaimsRow, Claims, Confirming
<1>3. LockFits'
  BY <1>1, LockKept
<1> QED
  BY <1>0, <1>1, <1>2, <1>3, QuietStep

\* What a code resolved against the enabled credential is.
LEMMA ResolvedFits ==
    ASSUME Inv, Enabled, NEW p \in Proof, Resolvable(p)
    PROVE  /\ cred.id \in 0..MaxSecret /\ 1 <= cred.id /\ cred.id <= secrets
           /\ p.kind = "totp" => p.of = cred.secret /\ p.of <= secrets
<1>1. /\ cred.id \in 0..MaxSecret /\ cred.secret \in 0..MaxSecret /\ secrets \in 0..MaxSecret
      /\ 1 <= cred.id /\ cred.id <= cred.secret /\ cred.secret <= secrets
  BY DEF Inv, Base, TypeOK, RowIsSound, Enabled
<1> QED
  BY <1>1, BoundsAssumption DEF Resolvable

\* What the handlers read first fits the credential that is there.
LEMMA ReadsKeepInv ==
    ASSUME Inv, NEW r \in Request,
           \/ FirstFactor(r) \/ BeginSetup(r)
           \/ \E c \in Challenge : ReadChallenge(r, c)
           \/ \E p \in Proof : ResolveChallenge(r, p)
           \/ \E p \in Proof, op \in {"regenerate", "disable"} : VerifyStepUp(r, op, p)
           \/ \E k \in Step : ReadPending(r, k)
    PROVE  Inv'
<1>0. /\ 0 \in 0..MaxSecret /\ NoProof \in Proof \cup {NoProof} /\ proven \subseteq Secret
      /\ NoChallenge \in Challenge \cup {NoChallenge}
  BY BoundsAssumption DEF Inv, Base, TypeOK
<1>1. CASE FirstFactor(r)
  <2>1. PICK pc \in {"challenge", "session"} :
            (Enabled => pc = "challenge") /\ Goto(r, pc, NoChallenge, 0, NoProof)
    BY <1>1 DEF FirstFactor
  <2>2. pc \in PC /\ pc \notin Claims /\ pc \notin Carrying /\ pc \notin Confirming /\ pc # "enabling"
    BY DEF PC, Claims, Confirming, Carrying
  <2> QED
    BY <1>0, <1>1, <2>1, <2>2, QuietGoto DEF FirstFactor, history
<1>2. CASE BeginSetup(r)
  <2>1. "setup" \in PC /\ "setup" \notin Claims /\ "setup" \notin Carrying /\ "setup" \notin Confirming
    BY DEF PC, Claims, Confirming, Carrying
  <2> QED
    BY <1>0, <1>2, <2>1, QuietGoto DEF BeginSetup, history
<1>3. ASSUME NEW c \in Challenge, ReadChallenge(r, c) PROVE Inv'
  <2>1. "resolve" \in PC /\ "resolve" \notin Claims /\ "resolve" \notin Carrying /\ "resolve" \notin Confirming
    BY DEF PC, Claims, Confirming, Carrying
  <2> QED
    BY <1>0, <1>3, <2>1, QuietGoto DEF ReadChallenge, history
<1>4. ASSUME NEW p \in Proof, ResolveChallenge(r, p) PROVE Inv'
  <2>1. "verify" \in PC /\ "verify" \in Claims /\ "verify" \notin Confirming
    BY DEF PC, Claims, Confirming
  <2>2. req[r].ch \in Challenge
    BY <1>4 DEF ResolveChallenge, Inv, Base, RequestsCarry, Carries
  <2>3. PICK ch \in Challenge : ch = req[r].ch
    BY <2>2
  <2>4. PICK id \in 0..MaxSecret : id = cred.id
    BY <1>4, ResolvedFits DEF ResolveChallenge
  <2>5. /\ Goto(r, "verify", ch, id, p) /\ Enabled
        /\ UNCHANGED <<account, clock, used, exchanged, raced>> /\ UNCHANGED proven
    BY <1>4, <2>3, <2>4 DEF ResolveChallenge, history
  <2>6. /\ 1 <= id /\ id <= secrets
        /\ p.kind = "totp" => p.of = cred.secret /\ p.of <= secrets
    BY <1>4, <2>4, ResolvedFits DEF ResolveChallenge
  <2> QED
    BY <1>0, <2>1, <2>5, <2>6, QuietGoto
<1>5. ASSUME NEW p \in Proof, NEW op \in {"regenerate", "disable"}, VerifyStepUp(r, op, p)
      PROVE  Inv'
  <2>1. /\ op \in PC /\ op \in Claims /\ op \notin {"resolve", "verify", "setup", "session"}
        /\ op \notin Confirming /\ op # "enabling"
    BY DEF PC, Claims, Confirming
  <2>2. PICK id \in 0..MaxSecret : id = cred.id
    BY <1>5, ResolvedFits DEF VerifyStepUp
  <2>3. /\ Goto(r, op, NoChallenge, id, p) /\ Enabled
        /\ UNCHANGED <<account, clock, used, exchanged, raced>> /\ UNCHANGED proven
    BY <1>5, <2>2 DEF VerifyStepUp, history
  <2>4. /\ 1 <= id /\ id <= secrets
        /\ p.kind = "totp" => p.of = cred.secret /\ p.of <= secrets
    BY <1>5, <2>2, ResolvedFits DEF VerifyStepUp
  <2> QED
    BY <1>0, <2>1, <2>3, <2>4, QuietGoto
<1>6. ASSUME NEW k \in Step, ReadPending(r, k) PROVE Inv'
  <2>1. "confirm" \in PC /\ "confirm" \in Carrying /\ "confirm" \notin Claims
    BY DEF PC, Claims, Confirming, Carrying
  <2>2. /\ cred.id \in 0..MaxSecret /\ cred.secret \in 0..MaxSecret /\ secrets \in 0..MaxSecret
        /\ 1 <= cred.id /\ cred.id <= cred.secret /\ cred.secret <= secrets
    BY <1>6 DEF ReadPending, Inv, Base, TypeOK, RowIsSound
  <2>3. PICK id \in 0..MaxSecret : id = cred.id
    BY <2>2
  <2>4. cred.secret \in Secret
    BY <2>2, BoundsAssumption DEF Secret
  <2>5. PICK p \in Proof : /\ p = Totp(cred.secret, k)
                           /\ p.kind = "totp" /\ p.of = cred.secret
    <3>1. ASSUME NEW s \in Secret
          PROVE  Totp(s, k) \in Proof /\ Totp(s, k).kind = "totp" /\ Totp(s, k).of = s
      BY DEF Proof, Totp
    <3> QED
      BY <2>4, <3>1
  <2>6. /\ Goto(r, "confirm", NoChallenge, id, p) /\ ~Enabled
        /\ UNCHANGED <<account, clock, used, exchanged, raced>>
        /\ proven' = proven \cup {cred.secret}
    BY <1>6, <2>3, <2>5 DEF ReadPending, Enabled
  <2>7. proven \subseteq proven' /\ proven' \subseteq Secret /\ cred.secret \in proven'
    BY <1>0, <2>4, <2>6
  <2>8. 1 <= id /\ id <= secrets /\ id <= p.of /\ p.of <= secrets
    BY <2>2, <2>3, <2>5, BoundsAssumption
  <2> QED
    BY <1>0, <2>1, <2>5, <2>6, <2>7, <2>8, QuietGoto
<1> QED
  BY <1>1, <1>2, <1>3, <1>4, <1>5, <1>6

\* The end of a first factor, and a request that gives up.
LEMMA SessionsAndChallengesKeepInv ==
    ASSUME Inv, NEW r \in Request,
           IssueSession(r) \/ GiveUp(r) \/ \E c \in Challenge : IssueChallenge(r, c)
    PROVE  Inv'
<1>0. /\ challenge \in [Challenge -> ChallengeState]
      /\ live \subseteq {"firstFactor"} /\ missed \subseteq {"firstFactor"}
  BY DEF Inv, Base, TypeOK, ChallengeState
<1>1. CASE IssueSession(r)
  BY <1>0, <1>1, QuietFinish DEF IssueSession, CreateSession, history
<1>2. CASE GiveUp(r)
  BY <1>0, <1>2, QuietFinish DEF GiveUp, history
<1>3. ASSUME NEW c \in Challenge, IssueChallenge(r, c) PROVE Inv'
  <2>1. /\ challenge' \in [Challenge -> ChallengeState]
        /\ \A x \in Challenge : challenge[x] \in {"consumed", "deleted"} =>
               challenge'[x] \in {"consumed", "deleted"}
    BY <1>0, <1>3 DEF IssueChallenge, ChallengeState
  <2> QED
    BY <1>0, <1>3, <2>1, QuietFinish DEF IssueChallenge, history
<1> QED
  BY <1>1, <1>2, <1>3

\* Deleted challenges can no longer become sessions.
LEMMA DeletingIsSafe ==
    ASSUME TypeOK, NEW spared, challenge' = DeletedChallenges(spared)
    PROVE  /\ challenge' \in [Challenge -> ChallengeState]
           /\ \A x \in Challenge : challenge[x] \in {"consumed", "deleted"} =>
                  challenge'[x] \in {"consumed", "deleted"}
BY DEF TypeOK, DeletedChallenges, ChallengeState

\* Sign-outs, refreshed and ended sessions, and time.
LEMMA TimeAndSignOutKeepInv ==
    ASSUME Inv, \/ \E spared \in SUBSET Usable : SignOutEverywhere(spared)
                \/ Refresh \/ SessionEnds \/ Tick
                \/ \E c \in Challenge : ExpireChallenge(c)
    PROVE  Inv'
<1>0. /\ challenge \in [Challenge -> ChallengeState] /\ proven \subseteq Secret /\ clock \in Step
      /\ live \subseteq {"firstFactor"} /\ missed \subseteq {"firstFactor"} /\ Base /\ TypeOK
  BY DEF Inv, Base, TypeOK, ChallengeState
<1>1. UNCHANGED <<cred, codes, secrets, used, exchanged, raced, proven, req>>
  BY DEF SignOutEverywhere, Refresh, Tick, SessionEnds, ExpireChallenge, account, history
<1>2. req' \in [Request -> RequestState] /\ RequestsCarry'
  BY <1>0, <1>1, RequestsKept
<1>3. clock' \in Step
  BY <1>0, BoundsAssumption
     DEF SignOutEverywhere, Refresh, Tick, SessionEnds, ExpireChallenge, Step
<1>4. live' \subseteq live
  BY <1>0 DEF SignOutEverywhere, Refresh, CreateSession, Tick, SessionEnds, ExpireChallenge, account
<1>5. missed' \subseteq {"firstFactor"}
  BY <1>0 DEF SignOutEverywhere, Refresh, CreateSession, Tick, SessionEnds, ExpireChallenge, account
<1>6. /\ challenge' \in [Challenge -> ChallengeState]
      /\ \A x \in Challenge : challenge[x] \in {"consumed", "deleted"} =>
             challenge'[x] \in {"consumed", "deleted"}
  <2>1. ASSUME NEW spared, SignOutEverywhere(spared)
        PROVE  /\ challenge' \in [Challenge -> ChallengeState]
               /\ \A x \in Challenge : challenge[x] \in {"consumed", "deleted"} =>
                      challenge'[x] \in {"consumed", "deleted"}
    BY <1>0, <2>1, DeletingIsSafe DEF SignOutEverywhere
  <2>2. CASE UNCHANGED challenge
    BY <1>0, <2>2
  <2>3. CASE \E c \in Challenge : ExpireChallenge(c)
    <3>1. PICK c \in Challenge :
              challenge[c] = "open" /\ challenge' = [challenge EXCEPT ![c] = "expired"]
      BY <2>3 DEF ExpireChallenge
    <3> QED
      BY <1>0, <3>1 DEF ChallengeState
  <2> QED
    BY <2>1, <2>2, <2>3 DEF Tick, Refresh, SessionEnds, account
<1>7. LockFits'
  BY <1>1 DEF Inv, LockFits
<1> QED
  BY <1>0, <1>1, <1>2, <1>3, <1>4, <1>5, <1>6, <1>7, QuietStep

-----------------------------------------------------------------------------
(* Claims of a proof                                                       *)

CredState == [state : {"none", "pending", "enabled"}, id : 0..MaxSecret,
              secret : 0..MaxSecret, step : 0..MaxStep]
CodesState == [batch : 0..MaxCode, state : {"none", "fresh", "used"}]

\* One proof is counted, the others stay as they were.
LEMMA UseIsCounted ==
    ASSUME TypeOK, NEW p \in Proof, CountUse(p)
    PROVE  /\ used' \in [Proof -> Nat] /\ used'[p] = used[p] + 1
           /\ \A x \in Proof : x # p => used'[x] = used[x]
BY DEF TypeOK, CountUse

\* A claim that succeeds is of a row that is there and of a proof that was not
\* accepted before; only an overwritten row leaves room for a TOTP that was.
LEMMA ClaimIsFirst ==
    ASSUME Inv, NEW r \in Request, req[r].pc \in Claims, Claimable(r)
    PROVE  /\ req[r].proof \in Proof /\ cred.state # "none"
           /\ req[r].proof.kind = "code" =>
                  used[req[r].proof] = 0 /\ codes.batch = req[r].proof.n /\ codes.state = "fresh"
           /\ req[r].proof.kind = "totp" => Enabled /\ req[r].proof.of <= secrets
           /\ "overwritten" \notin raced =>
                  /\ Enabled
                  /\ req[r].proof.kind = "totp" => /\ used[req[r].proof] = 0
                                                   /\ req[r].proof.of = cred.secret
                                                   /\ cred.step < req[r].proof.n
<1>1. PICK p \in Proof : p = req[r].proof
  BY DEF Inv, Base, RequestsCarry, Carries, Confirming, Carrying
<1>2. 1 <= req[r].id /\ (p.kind = "totp" => p.of <= secrets)
  BY <1>1 DEF Inv, Base, RequestsCarry, Carries, Confirming, Carrying
<1>3. used[p] \in Nat /\ p.n \in Nat /\ cred \in CredState
  BY <1>1, ProofShape DEF Inv, Base, TypeOK, CredState
<1>4. cred.id = req[r].id
  BY DEF Claimable
<1>5. cred.state # "none"
  BY <1>2, <1>4 DEF Inv, Base, RowIsSound
<1>6. p.kind = "code" => used[p] = 0 /\ codes.batch = p.n /\ codes.state = "fresh"
  BY <1>1, <1>3 DEF Claimable, FreshCodes, Inv, Uses, CodesCountOnce
<1>7. p.kind = "totp" => Enabled /\ cred.step < p.n
  BY <1>1 DEF Claimable
<1>8. ASSUME "overwritten" \notin raced
      PROVE  Enabled /\ (p.kind = "totp" => used[p] = 0 /\ p.of = cred.secret)
  <2>1. ClaimsRow(req[r])
    BY <1>4 DEF ClaimsRow
  <2>2. ClaimsFit /\ PendingIsUntouched /\ StepIsLatest
    BY <1>8 DEF Inv, Uses, WhileNoneOverwritten
  <2>3. Enabled
    BY <1>3, <1>5, <2>1, <2>2 DEF PendingIsUntouched, CredState, Enabled
  <2>4. p.kind = "totp" => p.of = cred.secret
    BY <1>1, <2>1, <2>2, <2>3 DEF ClaimsFit
  <2>5. p.kind = "totp" => used[p] = 0
    BY <1>3, <1>7, <2>2, <2>3, <2>4, BoundsAssumption DEF StepIsLatest, CredState
  <2> QED
    BY <2>3, <2>4, <2>5
<1> QED
  BY <1>1, <1>2, <1>5, <1>6, <1>7, <1>8

\* What sign-in, new recovery codes and disabling have in common.  The row
\* remembers the time step or goes, and a code that counted is not fresh.
LEMMA ClaimKeepsInv ==
    ASSUME Inv, NEW r \in Request, req[r].pc \in Claims, ~Locked(r), Claimable(r),
           CountUse(req[r].proof), Finish(r), missed' \subseteq {"firstFactor"}, UNCHANGED <<secrets, clock, proven, raced>>,
           cred' \in CredState, codes' \in CodesState,
           \/ cred'.state = "none" /\ cred'.id = 0
           \/ /\ cred'.state = cred.state /\ cred'.id = cred.id /\ cred'.secret = cred.secret
              /\ req[r].proof.kind = "totp" => cred'.step = req[r].proof.n
              /\ req[r].proof.kind = "code" => cred'.step = cred.step,
           codes.batch <= codes'.batch,
           codes'.batch = codes.batch /\ codes'.state = "fresh" =>
               codes.state = "fresh" /\ req[r].proof.kind = "totp",
           challenge' \in [Challenge -> ChallengeState], exchanged' \in [Challenge -> Nat],
           ExchangedIsSpent',
           live' \subseteq {"firstFactor"},
           "firstFactor" \in live' => "firstFactor" \in live
    PROVE  Inv'
<1>0. /\ secrets \in Nat /\ cred \in CredState /\ codes \in CodesState
      /\ secrets' \in Nat /\ secrets <= secrets' /\ Base
  BY BoundsAssumption DEF Inv, Base, TypeOK, CredState, CodesState
<1>1. /\ req' \in [Request -> RequestState] /\ RequestsCarry' /\ req'[r].pc = "idle"
      /\ \A s \in Request : s # r => req'[s] = req[s]
  BY <1>0, FinishStep
<1>2. PICK p \in Proof : p = req[r].proof
  BY ClaimIsFirst
<1>3. /\ used' \in [Proof -> Nat] /\ used'[p] = used[p] + 1
      /\ \A x \in Proof : x # p => used'[x] = used[x]
  BY <1>0, <1>2, UseIsCounted DEF Base
<1>4. /\ p.kind = "code" => used[p] = 0 /\ codes.batch = p.n
      /\ p.kind = "totp" => p.of <= secrets
      /\ "overwritten" \notin raced => /\ Enabled
                                       /\ p.kind = "totp" => /\ used[p] = 0 /\ p.of = cred.secret
                                                             /\ cred.step < p.n
  BY <1>2, ClaimIsFirst
<1>5. TypeOK'
  BY <1>0, <1>1, <1>3 DEF Base, TypeOK, CredState, CodesState, RequestState, PC, ChallengeState
<1>6. RowIsSound'
  BY <1>0 DEF Base, RowIsSound
<1>7. CodesCountOnce'
  <2> SUFFICES ASSUME NEW x \in Proof, x.kind = "code", used'[x] > 0
               PROVE  /\ used'[x] = 1 /\ x.n <= codes'.batch
                      /\ x.n = codes'.batch => codes'.state # "fresh"
    BY DEF CodesCountOnce
  <2>0. x.n \in Nat
    BY ProofShape
  <2>1. CASE x = p
    BY <1>0, <1>2, <1>3, <1>4, <2>0, <2>1, BoundsAssumption DEF CodesState
  <2>2. CASE x # p
    <3>1. used[x] = 1 /\ x.n <= codes.batch /\ (x.n = codes.batch => codes.state # "fresh")
      BY <1>3, <2>2 DEF Inv, Uses, CodesCountOnce
    <3> QED
      BY <1>0, <1>3, <2>0, <2>2, <3>1, BoundsAssumption DEF CodesState
  <2> QED
    BY <2>1, <2>2
<1>8. AcceptedIsMade'
  BY <1>3, <1>4 DEF Inv, Uses, AcceptedIsMade
<1>9. WhileNoneOverwritten'
  <2> SUFFICES ASSUME "overwritten" \notin raced
               PROVE  (ClaimsFit /\ PendingIsUntouched /\ StepIsLatest /\ TotpsCountOnce)'
    BY DEF WhileNoneOverwritten
  <2>1. ClaimsFit /\ StepIsLatest /\ TotpsCountOnce
    BY DEF Inv, Uses, WhileNoneOverwritten
  <2>2. cred.state = "enabled" /\ cred'.state # "pending"
    BY <1>4 DEF Enabled
  <2>4. ClaimsFit'
    BY <1>1, <2>1, <2>2 DEF ClaimsFit, ClaimsRow, Enabled, Claims
  <2>5. PendingIsUntouched'
    BY <2>2 DEF PendingIsUntouched
  <2>6. StepIsLatest'
    <3> SUFFICES ASSUME Enabled', NEW x \in Proof, x.kind = "totp", x.of = cred'.secret,
                        used'[x] > 0
                 PROVE  x.n <= cred'.step
      BY DEF StepIsLatest
    <3>0. x.n \in Nat /\ p.n \in Nat /\ p.kind \in {"totp", "code"}
      BY ProofShape
    <3>1. /\ cred'.secret = cred.secret
          /\ p.kind = "totp" => cred'.step = p.n
          /\ p.kind = "code" => cred'.step = cred.step
      BY <1>2 DEF Enabled
    <3>2. CASE x = p
      BY <3>0, <3>1, <3>2
    <3>3. CASE x # p
      <4>1. x.n <= cred.step
        BY <1>3, <2>1, <2>2, <3>1, <3>3 DEF StepIsLatest, Enabled
      <4> QED
        BY <1>0, <1>4, <3>0, <3>1, <4>1, BoundsAssumption DEF CredState
    <3> QED
      BY <3>2, <3>3
  <2>7. TotpsCountOnce'
    BY <1>3, <1>4, <2>1 DEF TotpsCountOnce
  <2> QED
    BY <2>4, <2>5, <2>6, <2>7
<1>12. WhileNoSetupRaced'
  BY <1>1 DEF Inv, Uses, WhileNoSetupRaced, NoSetupBesideEnabled, Enabled
<1>13. LockFits'
  BY <1>1 DEF Inv, LockFits, Locked
<1>10. EnabledIsAsked'
  BY <1>1 DEF Inv, EnabledIsAsked, Enabled
<1>11. ConfirmedIsProven'
  BY <1>1 DEF Inv, ConfirmedIsProven, Enabled, Confirming
<1> QED
  BY <1>1, <1>5, <1>6, <1>7, <1>8, <1>9, <1>10, <1>11, <1>12, <1>13 DEF Inv, Base, Uses

\* The row and the codes a claim leaves.
LEMMA ClaimedValues ==
    ASSUME Inv, NEW r \in Request, req[r].pc \in Claims, Claimable(r)
    PROVE  /\ ClaimedStep(r) \in CredState
           /\ ClaimedStep(r).state = cred.state /\ ClaimedStep(r).id = cred.id
           /\ ClaimedStep(r).secret = cred.secret
           /\ req[r].proof.kind = "totp" => ClaimedStep(r).step = req[r].proof.n
           /\ req[r].proof.kind = "code" => ClaimedStep(r).step = cred.step
           /\ ClaimedCodes(r) \in CodesState /\ ClaimedCodes(r).batch = codes.batch
           /\ ClaimedCodes(r).state = "fresh" =>
                  codes.state = "fresh" /\ req[r].proof.kind = "totp"
<1>1. PICK p \in Proof : p = req[r].proof
  BY ClaimIsFirst
<1>2. p.kind \in {"totp", "code"} /\ (p.kind = "totp" => p.n \in 0..MaxStep)
  BY ProofShape, BoundsAssumption DEF Step
<1>3. cred \in CredState /\ codes \in CodesState
  BY DEF Inv, Base, TypeOK, CredState, CodesState
<1>4. CASE p.kind = "totp"
  BY <1>1, <1>2, <1>3, <1>4 DEF ClaimedStep, ClaimedCodes, CredState, CodesState
<1>5. CASE p.kind = "code"
  BY <1>1, <1>2, <1>3, <1>5 DEF ClaimedStep, ClaimedCodes, CredState, CodesState
<1> QED
  BY <1>2, <1>4, <1>5

\* The batch that is made has a new number.
LEMMA FreshBatch ==
    ASSUME TypeOK, NewBatch
    PROVE  codes' \in CodesState /\ codes'.batch = codes.batch + 1 /\ codes'.state = "fresh"
BY BoundsAssumption DEF TypeOK, NewBatch, FreshCodes, CodesState

\* A challenge becomes a session: it was open, and is consumed.
LEMMA VerifyLoginChallengeKeepsInv ==
    ASSUME Inv, NEW r \in Request, VerifyLoginChallenge(r) PROVE Inv'
<1>1. req[r].pc \in Claims /\ ~Locked(r) /\ Claimable(r) /\ CountUse(req[r].proof) /\ Finish(r)
  BY DEF VerifyLoginChallenge, Claims
<1>2. PICK c \in Challenge : c = req[r].ch
  BY DEF VerifyLoginChallenge, Inv, Base, RequestsCarry, Carries
<1>3. /\ challenge \in [Challenge -> ChallengeState] /\ exchanged \in [Challenge -> Nat]
      /\ codes.batch \in Nat /\ live \subseteq {"firstFactor"}
  BY BoundsAssumption DEF Inv, Base, TypeOK, ChallengeState
<1>4. /\ challenge' = [challenge EXCEPT ![c] = "consumed"]
      /\ exchanged' = [exchanged EXCEPT ![c] = @ + 1]
      /\ challenge[c] \in {"open", "expired"}
  BY <1>2 DEF VerifyLoginChallenge
<1>5. challenge' \in [Challenge -> ChallengeState] /\ exchanged' \in [Challenge -> Nat]
  BY <1>3, <1>4 DEF ChallengeState
<1>6. ExchangedIsSpent'
  BY <1>3, <1>4 DEF Inv, ExchangedIsSpent
<1>7. cred' = ClaimedStep(r) /\ codes' = ClaimedCodes(r) /\ UNCHANGED <<secrets, clock, proven, raced>>
  BY DEF VerifyLoginChallenge
<1>8. UNCHANGED <<live, missed>> /\ missed \subseteq {"firstFactor"}
  BY DEF VerifyLoginChallenge, Inv, Base, TypeOK
<1> QED
  BY <1>1, <1>3, <1>5, <1>6, <1>7, <1>8, ClaimedValues, ClaimKeepsInv

\* The codes of the batch before are gone, and the new ones were never accepted.
LEMMA RegenerateKeepsInv ==
    ASSUME Inv, NEW r \in Request, RegenerateBackupCodes(r) PROVE Inv'
<1>1. req[r].pc \in Claims /\ ~Locked(r) /\ Claimable(r) /\ CountUse(req[r].proof) /\ Finish(r)
  BY DEF RegenerateBackupCodes, Claims
<1>2. /\ challenge \in [Challenge -> ChallengeState] /\ exchanged \in [Challenge -> Nat]
      /\ codes.batch \in Nat /\ live \subseteq {"firstFactor"} /\ missed \subseteq {"firstFactor"}
      /\ TypeOK
  BY BoundsAssumption DEF Inv, Base, TypeOK, ChallengeState
<1>3. /\ cred' = ClaimedStep(r) /\ NewBatch
      /\ UNCHANGED <<secrets, clock, proven, raced>> /\ UNCHANGED <<challenge, exchanged, live, missed>>
  BY DEF RegenerateBackupCodes
<1>4. codes' \in CodesState /\ codes'.batch = codes.batch + 1
  BY <1>2, <1>3, FreshBatch
<1>5. codes.batch <= codes'.batch /\ codes'.batch # codes.batch
  BY <1>2, <1>4
<1>6. ExchangedIsSpent'
  BY <1>3 DEF Inv, ExchangedIsSpent
<1> QED
  BY <1>1, <1>2, <1>3, <1>4, <1>5, <1>6, ClaimedValues, ClaimKeepsInv

\* With the row go its codes, and the challenges.
LEMMA DisableKeepsInv ==
    ASSUME Inv, NEW r \in Request, NEW spared, Disable(r, spared) PROVE Inv'
<1>1. req[r].pc \in Claims /\ ~Locked(r) /\ Claimable(r) /\ CountUse(req[r].proof) /\ Finish(r)
  BY DEF Disable, Claims
<1>2. /\ exchanged \in [Challenge -> Nat] /\ codes \in CodesState /\ TypeOK
      /\ live \subseteq {"firstFactor"} /\ missed \subseteq {"firstFactor"}
  BY DEF Inv, Base, TypeOK, CodesState
<1>3. /\ challenge' = DeletedChallenges(spared) /\ live' \subseteq live /\ UNCHANGED <<exchanged, missed>>
      /\ UNCHANGED <<secrets, clock, proven, raced>>
  BY DEF Disable
<1>4. /\ challenge' \in [Challenge -> ChallengeState]
      /\ \A x \in Challenge : challenge[x] \in {"consumed", "deleted"} =>
             challenge'[x] \in {"consumed", "deleted"}
  BY <1>2, <1>3, DeletingIsSafe
<1>5. ExchangedIsSpent'
  BY <1>3, <1>4 DEF Inv, ExchangedIsSpent
<1>6. cred' \in CredState /\ cred'.state = "none" /\ cred'.id = 0
  BY BoundsAssumption DEF Disable, NoCredential, CredState
<1>7. codes' \in CodesState /\ codes'.batch = codes.batch /\ codes'.state = "none"
  BY <1>2 DEF Disable, NoCodes, CodesState
<1>8. codes.batch <= codes'.batch
  BY <1>2, <1>7, BoundsAssumption DEF CodesState
<1> QED
  BY <1>1, <1>2, <1>3, <1>4, <1>5, <1>6, <1>7, <1>8, ClaimKeepsInv

-----------------------------------------------------------------------------
(* Setup                                                                   *)

\* A setup that overwrites a row does so while nobody claims it and nobody is
\* about to confirm it, or the race is on record.
LEMMA UpsertKeepsInv ==
    ASSUME Inv, NEW r \in Request, UpsertCredential(r) PROVE Inv'
<1>0. /\ secrets \in Nat /\ secrets' = secrets + 1 /\ secrets' \in 0..MaxSecret
      /\ cred \in CredState /\ codes \in CodesState /\ Base /\ TypeOK
  BY BoundsAssumption DEF Inv, Base, TypeOK, CredState, CodesState, UpsertCredential
<1>1. /\ req' \in [Request -> RequestState] /\ RequestsCarry' /\ req'[r].pc = "idle"
      /\ \A s \in Request : s # r => req'[s] = req[s]
  BY <1>0, FinishStep DEF UpsertCredential
<1>2. PICK new \in 0..MaxSecret : new = IF cred.state = "none" THEN secrets' ELSE cred.id
  BY <1>0 DEF CredState
<1>3. cred' = [state |-> "pending", secret |-> secrets', step |-> 0, id |-> new]
  BY <1>2 DEF UpsertCredential
<1>4. /\ cred' \in CredState /\ cred'.state = "pending" /\ cred'.secret = secrets'
      /\ cred'.id = new
  BY <1>0, <1>3, BoundsAssumption DEF CredState
<1>5. codes' \in CodesState /\ codes'.batch = codes.batch /\ codes'.state = "none"
  BY <1>0 DEF UpsertCredential, NoCodes, CodesState
<1>6. /\ UNCHANGED <<challenge, live, missed, clock, used, exchanged, proven>>
      /\ raced' = raced \cup Overtaken(r, "confirm") \cup Overwritten
      /\ \A s \in Request : s # r => req[s].pc # "enabling"
  BY DEF UpsertCredential, Locked
<1>7. Overtaken(r, "confirm") \subseteq {"confirm"} /\ Overwritten \subseteq {"overwritten"}
  BY DEF Overtaken, Overwritten
<1>8. TypeOK'
  BY <1>0, <1>1, <1>4, <1>5, <1>6, <1>7 DEF TypeOK, CredState, CodesState, RequestState, PC
<1>9. RowIsSound'
  BY <1>0, <1>2, <1>4, BoundsAssumption DEF Base, RowIsSound, CredState
<1>10. ExchangedIsSpent'
  BY <1>6 DEF Inv, ExchangedIsSpent
<1>11. CodesCountOnce'
  BY <1>5, <1>6 DEF Inv, Uses, CodesCountOnce
<1>12. AcceptedIsMade'
  <2>1. ASSUME NEW p \in Proof, p.kind = "totp", used[p] > 0 PROVE p.of <= secrets + 1
    BY <1>0, <2>1, ProofShape DEF Inv, Uses, AcceptedIsMade
  <2> QED
    BY <1>0, <1>6, <2>1 DEF AcceptedIsMade
<1>13. WhileNoneOverwritten'
  <2> SUFFICES ASSUME "overwritten" \notin raced'
               PROVE  (ClaimsFit /\ PendingIsUntouched /\ StepIsLatest /\ TotpsCountOnce)'
    BY DEF WhileNoneOverwritten
  <2>1. PendingIsUntouched /\ TotpsCountOnce
    BY <1>6 DEF Inv, Uses, WhileNoneOverwritten
  <2>2. cred.state \in {"none", "pending"}
    BY <1>0, <1>6 DEF Overwritten, Enabled, CredState
  <2>3. ASSUME NEW s \in Request PROVE ~ClaimsRow(req[s])'
    <3>1. CASE s = r
      BY <1>1, <3>1 DEF ClaimsRow, Claims
    <3>2. CASE s # r
      <4>1. req[s].pc \in Claims => req[s].id <= secrets /\ req[s].id \in 0..MaxSecret
        BY <1>0 DEF Base, RequestsCarry, Carries, Confirming, Carrying, TypeOK
      <4>2. CASE cred.state = "none"
        BY <1>0, <1>1, <1>2, <1>4, <3>2, <4>1, <4>2, BoundsAssumption DEF ClaimsRow
      <4>3. CASE cred.state = "pending"
        BY <1>1, <1>2, <1>4, <2>1, <3>2, <4>3 DEF ClaimsRow, PendingIsUntouched
      <4> QED
        BY <2>2, <4>2, <4>3
    <3> QED
      BY <3>1, <3>2
  <2>4. ASSUME NEW p \in Proof, p.kind = "totp", used[p] > 0 PROVE p.of < new
    <3>1. CASE cred.state = "none"
      <4>1. p.of <= secrets /\ p.of \in Nat
        BY <2>4, ProofShape DEF Inv, Uses, AcceptedIsMade
      <4> QED
        BY <1>0, <1>2, <3>1, <4>1
    <3>2. CASE cred.state = "pending"
      BY <1>2, <2>1, <2>4, <3>2 DEF PendingIsUntouched
    <3> QED
      BY <2>2, <3>1, <3>2
  <2>5. PendingIsUntouched'
    BY <1>4, <1>6, <2>3, <2>4 DEF PendingIsUntouched
  <2>6. (ClaimsFit /\ StepIsLatest)'
    BY <1>4 DEF ClaimsFit, StepIsLatest, Enabled
  <2>7. TotpsCountOnce'
    BY <1>6, <2>1 DEF TotpsCountOnce
  <2> QED
    BY <2>5, <2>6, <2>7
<1>16. WhileNoSetupRaced'
  BY <1>4 DEF WhileNoSetupRaced, NoSetupBesideEnabled, Enabled
<1>17. LockFits'
  BY <1>1, <1>6 DEF LockFits
<1>14. EnabledIsAsked'
  BY <1>4 DEF EnabledIsAsked, Enabled
<1>15. ConfirmedIsProven'
  <2>1. "confirm" \notin raced' => \A s \in Request : s # r => req[s].pc \notin Confirming
    BY <1>6 DEF Overtaken, Confirming
  <2> QED
    BY <1>1, <1>4, <2>1 DEF ConfirmedIsProven, Enabled, Confirming
<1> QED
  BY <1>1, <1>8, <1>9, <1>10, <1>11, <1>12, <1>13, <1>14, <1>15, <1>16, <1>17 DEF Inv, Base, Uses

\* The conditional update of a confirmation locks the row it read.
LEMMA EnableKeepsInv ==
    ASSUME Inv, NEW r \in Request, EnableCredential(r) PROVE Inv'
<1> DEFINE q == [req[r] EXCEPT !.pc = "enabling"]
<1>0. /\ Base /\ TypeOK /\ req \in [Request -> RequestState] /\ RequestsCarry
      /\ req[r].pc = "confirm" /\ cred.state = "pending" /\ cred.id = req[r].id
      /\ \A s \in Request : s # r => req[s].pc # "enabling"
      /\ req' = [req EXCEPT ![r] = q]
  BY DEF Inv, Base, TypeOK, RequestState, PC, EnableCredential, Locked
<1>1. /\ q \in RequestState /\ q.pc = "enabling"
      /\ q.ch = req[r].ch /\ q.id = req[r].id /\ q.proof = req[r].proof
  BY <1>0 DEF RequestState, PC
<1> HIDE DEF q
<1>2. Carries(req[r], secrets) /\ UNCHANGED secrets
  BY <1>0 DEF RequestsCarry, EnableCredential
<1>3. Carries(q, secrets)
  BY <1>0, <1>1, <1>2 DEF Carries, Claims, Confirming, Carrying
<1>4. secrets' \in Nat /\ secrets <= secrets' /\ Carries(q, secrets')
  BY <1>0, <1>2, <1>3, BoundsAssumption DEF TypeOK
<1>5. /\ req' \in [Request -> RequestState] /\ RequestsCarry'
      /\ \A s \in Request : req'[s] = IF s = r THEN q ELSE req[s]
  BY <1>0, <1>1, <1>4, RequestStep
<1>6. LockFits'
  BY <1>0, <1>1, <1>5 DEF LockFits, EnableCredential
<1>7. Fits(q, proven)
  <2>1. "confirm" \notin raced => cred.secret \in proven
    BY <1>0 DEF Inv, ConfirmedIsProven, Confirming
  <2> QED
    BY <1>0, <1>1, <2>1 DEF Fits, ClaimsRow, Claims, Enabled
<1> QED
  BY <1>0, <1>5, <1>6, <1>7, QuietStep DEF EnableCredential, history, TypeOK, ChallengeState

\* A confirmation finds the row pending: no claim of it is under way, and the
\* TOTP it counts is of a secret made since the row was.
LEMMA ConfirmKeepsInv ==
    ASSUME Inv, NEW r \in Request, ConfirmSetup(r) PROVE Inv'
<1>0. /\ secrets \in Nat /\ secrets' = secrets /\ cred \in CredState /\ codes \in CodesState
      /\ Base /\ TypeOK /\ cred.state = "pending" /\ cred.id = req[r].id
      /\ \A s \in Request : s # r => req[s].pc # "enabling"
  BY BoundsAssumption DEF Inv, LockFits, Base, TypeOK, CredState, CodesState, ConfirmSetup
<1>1. /\ req' \in [Request -> RequestState] /\ RequestsCarry' /\ req'[r].pc = "idle"
      /\ \A s \in Request : s # r => req'[s] = req[s]
  BY <1>0, FinishStep DEF ConfirmSetup
<1>2. PICK p \in Proof : p = req[r].proof
  BY <1>0 DEF ConfirmSetup, Base, RequestsCarry, Carries, Confirming, Carrying
<1>3. p.kind = "totp" /\ cred.id <= p.of /\ p.of <= secrets
  BY <1>0, <1>2 DEF ConfirmSetup, Base, RequestsCarry, Carries, Confirming
<1>4. p.n \in 0..MaxStep /\ p.of \in Nat
  BY <1>3, ProofShape, BoundsAssumption DEF Step
<1>5. cred' = [cred EXCEPT !.state = "enabled", !.step = p.n]
  BY <1>2 DEF ConfirmSetup
<1>6. /\ cred' \in CredState /\ cred'.state = "enabled" /\ cred'.id = cred.id
      /\ cred'.secret = cred.secret /\ cred'.step = p.n
  BY <1>0, <1>4, <1>5 DEF CredState
<1>7. codes' \in CodesState /\ codes'.batch = codes.batch + 1 /\ codes'.state = "fresh"
  BY <1>0, FreshBatch DEF ConfirmSetup
<1>8. /\ used' \in [Proof -> Nat] /\ used'[p] = used[p] + 1
      /\ \A x \in Proof : x # p => used'[x] = used[x]
  BY <1>0, <1>2, UseIsCounted DEF ConfirmSetup
<1>9. /\ UNCHANGED <<challenge, clock, exchanged, proven>>
      /\ live' = live \cap missed /\ missed' = {}
      /\ raced' = raced \cup Overtaken(r, "session") \cup Overtaken(r, "setup") \cup MissedSession
  BY DEF ConfirmSetup
<1>10. /\ Overtaken(r, "session") \subseteq {"session"} /\ Overtaken(r, "setup") \subseteq {"setup"}
       /\ MissedSession \subseteq {"session"}
  BY DEF Overtaken, MissedSession
<1>11. TypeOK'
  BY <1>0, <1>1, <1>6, <1>7, <1>8, <1>9, <1>10
     DEF TypeOK, CredState, CodesState, RequestState, PC
<1>12. RowIsSound'
  BY <1>0, <1>6 DEF Base, RowIsSound
<1>13. ExchangedIsSpent'
  BY <1>9 DEF Inv, ExchangedIsSpent
<1>14. CodesCountOnce'
  <2> SUFFICES ASSUME NEW x \in Proof, x.kind = "code", used'[x] > 0
               PROVE  /\ used'[x] = 1 /\ x.n <= codes'.batch
                      /\ x.n = codes'.batch => codes'.state # "fresh"
    BY DEF CodesCountOnce
  <2>1. used'[x] = used[x] /\ x.n \in Nat
    BY <1>3, <1>8, ProofShape
  <2>2. used[x] = 1 /\ x.n <= codes.batch
    BY <2>1 DEF Inv, Uses, CodesCountOnce
  <2> QED
    BY <1>0, <1>7, <2>1, <2>2, BoundsAssumption DEF CodesState
<1>15. AcceptedIsMade'
  BY <1>0, <1>3, <1>8 DEF Inv, Uses, AcceptedIsMade
<1>16. WhileNoneOverwritten'
  <2> SUFFICES ASSUME "overwritten" \notin raced'
               PROVE  (ClaimsFit /\ PendingIsUntouched /\ StepIsLatest /\ TotpsCountOnce)'
    BY DEF WhileNoneOverwritten
  <2>2. PendingIsUntouched /\ TotpsCountOnce
    BY <1>9 DEF Inv, Uses, WhileNoneOverwritten
  <2>4. ClaimsFit'
    BY <1>0, <1>1, <1>6, <2>2 DEF ClaimsFit, ClaimsRow, PendingIsUntouched, Claims
  <2>5. PendingIsUntouched'
    BY <1>6 DEF PendingIsUntouched
  <2>6. used[p] = 0
    <3>1. used[p] \in Nat
      BY <1>0 DEF TypeOK
    <3> QED
      BY <1>0, <1>3, <1>4, <2>2, <3>1, BoundsAssumption DEF PendingIsUntouched, CredState
  <2>7. StepIsLatest'
    <3> SUFFICES ASSUME NEW x \in Proof, x.kind = "totp", x.of = cred.secret, used'[x] > 0
                 PROVE  x.n <= p.n
      BY <1>6 DEF StepIsLatest
    <3>1. x = p
      <4>1. ASSUME x # p PROVE FALSE
        <5>1. x.of < cred.id /\ x.of \in Nat
          BY <1>0, <1>8, <2>2, <4>1, ProofShape DEF PendingIsUntouched
        <5>2. cred.id <= cred.secret
          BY <1>0 DEF Base, RowIsSound
        <5> QED
          BY <1>0, <5>1, <5>2, BoundsAssumption DEF CredState
      <4> QED
        BY <4>1
    <3> QED
      BY <1>4, <3>1, BoundsAssumption
  <2>8. TotpsCountOnce'
    BY <1>8, <2>2, <2>6 DEF TotpsCountOnce
  <2> QED
    BY <2>4, <2>5, <2>7, <2>8
<1>19. WhileNoSetupRaced'
  <2>1. "setup" \notin raced' => \A s \in Request : s # r => req[s].pc # "setup"
    BY <1>9 DEF Overtaken
  <2> QED
    BY <1>1, <2>1 DEF WhileNoSetupRaced, NoSetupBesideEnabled
<1>20. LockFits'
  BY <1>0, <1>1 DEF LockFits
<1>17. EnabledIsAsked'
  <2>1. "session" \notin raced' => \A s \in Request : s # r => req[s].pc # "session"
    BY <1>9 DEF Overtaken
  <2>2. "session" \notin raced' => "firstFactor" \notin live'
    BY <1>9 DEF MissedSession
  <2> QED
    BY <1>1, <2>1, <2>2 DEF EnabledIsAsked
<1>18. ConfirmedIsProven'
  <2>1. "confirm" \notin raced' => cred.secret \in proven
    BY <1>0, <1>9 DEF Inv, ConfirmedIsProven, ConfirmSetup, Confirming
  <2> QED
    BY <1>6, <1>9, <2>1 DEF ConfirmedIsProven, Confirming
<1> QED
  BY <1>1, <1>11, <1>12, <1>13, <1>14, <1>15, <1>16, <1>17, <1>18, <1>19, <1>20
     DEF Inv, Base, Uses

-----------------------------------------------------------------------------
(* Theorems                                                                *)

\* An account that never set up a second factor.
LEMMA InitHolds == Init => Inv
<1> SUFFICES ASSUME Init PROVE Inv
  OBVIOUS
<1>1. /\ cred \in CredState /\ cred.state = "none" /\ cred.id = 0
      /\ codes \in CodesState
  BY BoundsAssumption DEF Init, NoCredential, NoCodes, CredState, CodesState
<1>2. IdleRequest \in RequestState /\ IdleRequest.pc = "idle"
  BY BoundsAssumption DEF IdleRequest, RequestState, PC
<1>3. /\ req \in [Request -> RequestState] /\ \A r \in Request : req[r].pc = "idle"
      /\ \A r \in Request : Carries(req[r], secrets)
  BY <1>2 DEF Init, Carries, Confirming, Carrying, Confirming, Claims
<1>4. used \in [Proof -> Nat] /\ \A p \in Proof : used[p] = 0
  BY DEF Init
<1>5. /\ challenge \in [Challenge -> ChallengeState] /\ exchanged \in [Challenge -> Nat]
      /\ \A c \in Challenge : exchanged[c] = 0
  BY DEF Init, ChallengeState
<1>6. clock \in Step
  BY BoundsAssumption DEF Init, Step
<1>7. TypeOK
  BY <1>1, <1>3, <1>4, <1>5, <1>6, BoundsAssumption
     DEF Init, TypeOK, CredState, CodesState, RequestState, PC, ChallengeState
<1>8. Base
  BY <1>1, <1>3, <1>7 DEF Base, RequestsCarry, RowIsSound
<1>9. ExchangedIsSpent /\ CodesCountOnce /\ AcceptedIsMade
  BY <1>4, <1>5 DEF ExchangedIsSpent, CodesCountOnce, AcceptedIsMade
<1>10. WhileNoSetupRaced /\ WhileNoneOverwritten
  BY <1>1, <1>4 DEF WhileNoSetupRaced, WhileNoneOverwritten, NoSetupBesideEnabled, ClaimsFit,
                    PendingIsUntouched, StepIsLatest, TotpsCountOnce, Enabled
<1>11. EnabledIsAsked /\ ConfirmedIsProven /\ LockFits
  BY <1>1, <1>3 DEF EnabledIsAsked, ConfirmedIsProven, LockFits, Confirming, Enabled
<1> QED
  BY <1>8, <1>9, <1>10, <1>11 DEF Inv, Uses

\* Every step keeps the invariant, one lemma for each kind.
LEMMA StepKeepsInv == Inv /\ [Next]_vars => Inv'
<1> SUFFICES ASSUME Inv, [Next]_vars PROVE Inv'
  OBVIOUS
<1>1. CASE UNCHANGED vars
  <2>1. /\ UNCHANGED <<cred, codes, secrets, challenge, live, missed, clock, req>>
        /\ UNCHANGED <<used, exchanged, proven, raced>> /\ Base
    BY <1>1 DEF vars, account, history, Inv
  <2>2. req' \in [Request -> RequestState] /\ RequestsCarry'
    BY <2>1, RequestsKept
  <2>3. /\ clock' \in Step /\ challenge' \in [Challenge -> ChallengeState]
        /\ live' \subseteq {"firstFactor"} /\ missed' \subseteq {"firstFactor"}
        /\ proven' \subseteq Secret
    BY <2>1 DEF Base, TypeOK, ChallengeState
  <2>4. LockFits'
    BY <2>1 DEF Inv, LockFits
  <2> QED
    BY <2>1, <2>2, <2>3, <2>4, QuietStep
<1>2. ASSUME NEW r \in Request, VerifyLoginChallenge(r) PROVE Inv'
  BY <1>2, VerifyLoginChallengeKeepsInv
<1>3. ASSUME NEW r \in Request, RegenerateBackupCodes(r) PROVE Inv'
  BY <1>3, RegenerateKeepsInv
<1>4. ASSUME NEW r \in Request, NEW spared, Disable(r, spared) PROVE Inv'
  BY <1>4, DisableKeepsInv
<1>5. ASSUME NEW r \in Request, UpsertCredential(r) PROVE Inv'
  BY <1>5, UpsertKeepsInv
<1>6. ASSUME NEW r \in Request, ConfirmSetup(r) PROVE Inv'
  BY <1>6, ConfirmKeepsInv
<1>7. ASSUME NEW r \in Request, EnableCredential(r) PROVE Inv'
  BY <1>7, EnableKeepsInv
<1> QED
  BY <1>1, <1>2, <1>3, <1>4, <1>5, <1>6, <1>7, ReadsKeepInv, SessionsAndChallengesKeepInv,
     TimeAndSignOutKeepInv DEF Next

\* The invariant holds throughout.
LEMMA InvAlways == Spec => []Inv
BY InitHolds, StepKeepsInv, PTL DEF Spec

\* verifyLoginChallenge, regenerateBackupCodes, disable and confirmSetup accept
\* each proof once and turn each challenge into one session at most, for any
\* number of requests; a TOTP can count again only after a setup overwrote an
\* enabled credential.
THEOREM ProofsAlwaysCountOnce == Spec => []ProofsCountOnce
<1>1. Inv => ProofsCountOnce
  <2> SUFFICES ASSUME Inv PROVE ProofsCountOnce
    OBVIOUS
  <2>1. TypeOK
    BY DEF Inv, Base
  <2>2. OneSessionPerChallenge
    BY <2>1 DEF Inv, ExchangedIsSpent, OneSessionPerChallenge, TypeOK
  <2>3. ASSUME NEW p \in Proof, used[p] > 1 PROVE p.kind = "totp" /\ "overwritten" \in raced
    <3>1. p.kind \in {"totp", "code"} /\ used[p] \in Nat
      BY <2>1, ProofShape DEF TypeOK
    <3>2. p.kind # "code"
      BY <2>3, <3>1 DEF Inv, Uses, CodesCountOnce
    <3>3. "overwritten" \notin raced => ~(p.kind = "totp")
      BY <2>3, <3>1 DEF Inv, Uses, WhileNoneOverwritten, TotpsCountOnce
    <3> QED
      BY <3>1, <3>2, <3>3
  <2> QED
    BY <2>1, <2>2, <2>3 DEF ProofsCountOnce, OnlyOverwritingReuses
<1> QED
  BY <1>1, InvAlways, PTL

\* Beside an enabled credential completeFirstFactor leaves no session of one
\* factor, and confirmSetup enables no secret that nobody proved, unless a
\* sign-in or a setup acted on a credential it had read before it changed.
THEOREM OnlyRacesEverWeaken == Spec => []OnlyRacesWeaken
<1>1. Inv => OnlyRacesWeaken
  <2> SUFFICES ASSUME Inv PROVE OnlyRacesWeaken
    OBVIOUS
  <2>1. OnlyRacingSignInBypasses
    BY DEF Inv, EnabledIsAsked, OnlyRacingSignInBypasses
  <2>2. OnlyRacingSetupIsUnproven
    BY DEF Inv, ConfirmedIsProven, OnlyRacingSetupIsUnproven
  <2> QED
    BY <2>1, <2>2 DEF OnlyRacesWeaken
<1> QED
  BY <1>1, InvAlways, PTL

\* The upsert of beginSetup finds an enabled credential only when confirmSetup
\* came between its read and its write, and no other step disables one so that
\* it is pending again.
THEOREM OnlyRacingSetupEverOverwrites == Spec => OnlyRacingSetupOverwrites
<1>1. Inv /\ [Next]_vars => [Enabled /\ cred'.state = "pending" => "setup" \in raced]_vars
  <2> SUFFICES ASSUME Inv, Next, Enabled, cred'.state = "pending" PROVE "setup" \in raced
    OBVIOUS
  <2>1. ASSUME NEW r \in Request, UpsertCredential(r) PROVE "setup" \in raced
    BY <2>1 DEF UpsertCredential, Inv, Uses, WhileNoSetupRaced, NoSetupBesideEnabled
  <2>2. ASSUME NEW r \in Request, \/ VerifyLoginChallenge(r) \/ RegenerateBackupCodes(r)
        PROVE  FALSE
    <3>1. req[r].pc \in Claims /\ Claimable(r) /\ cred' = ClaimedStep(r)
      BY <2>2 DEF VerifyLoginChallenge, RegenerateBackupCodes, Claims
    <3> QED
      BY <3>1, ClaimedValues DEF Enabled
  <2>3. ASSUME NEW r \in Request, ConfirmSetup(r) \/ \E spared \in SUBSET Usable : Disable(r, spared)
        PROVE  FALSE
    BY <2>3 DEF Disable, ConfirmSetup, NoCredential, Enabled, Inv, LockFits
  <2>4. CASE UNCHANGED cred
    BY <2>4 DEF Enabled
  <2> QED
    BY <2>1, <2>2, <2>3, <2>4
       DEF Next, FirstFactor, IssueSession, BeginSetup, GiveUp, IssueChallenge, ReadChallenge,
           ResolveChallenge, VerifyStepUp, ReadPending, EnableCredential, SignOutEverywhere, Refresh,
           SessionEnds, Tick, ExpireChallenge, account
<1> QED
  BY <1>1, InvAlways, PTL DEF Spec, OnlyRacingSetupOverwrites
=============================================================================
