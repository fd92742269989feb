------------------------ MODULE AccountTokensProofs -------------------------
(***************************************************************************)
(* Theorems about AccountTokens, for any links, sessions and requests, and *)
(* about EmailDelivery, by which the links leave, for any number of        *)
(* attempts and events.                                                    *)
(*                                                                         *)
(* Everything rests on what the open transaction of a reset holds.  Its    *)
(* link is not consumed until it commits, since the rows that transactions *)
(* have written are disjoint (Apart) and every other writer waits for      *)
(* them.  One transaction at a time holds the row of the user, and while   *)
(* one does no session is opened, so that what is live beside the sessions *)
(* it scanned was put there by a rotation since (Sound, at "revoke").      *)
(* That no link and no request comes before the account (AccountIsFirst)   *)
(* keeps register out of all this.                                         *)
(*                                                                         *)
(* Of the emails, NewestEventShown is about the end of deliver only.  What *)
(* carries it there: no event finds the row before the message id is       *)
(* saved, and that is the last thing deliver does unless the answer to it  *)
(* is lost (MessageComesLast).  That the provider is asked MaxAttempts     *)
(* times at most needs the count in the row to follow the loop (Counted).  *)
(***************************************************************************)
EXTENDS AccountTokens, Sequences, SequenceTheorems, TLAPS

AccountState == [exists : BOOLEAN, password : Nat, verified : BOOLEAN]
TokenState == [state : {"absent", "open", "expired", "consumed", "deleted"},
               kind : Kind \cup {"none"}, seen : SUBSET Token]
SessionState == [state : {"absent", "live", "revoked"}, made : Nat, proof : Nat,
                 beside : SUBSET Nat]
PC == {"idle", "signin", "issue", "create", "confirm", "hash", "consumed", "delete", "revoke"}
RequestState == [pc : PC, kind : Kind \cup {"none"}, tok : Token \cup {None},
                 cand : SUBSET Token, sess : SUBSET Session, proof : Nat]

\* A reset whose transaction is open; one that holds the row of the user.
Holding == {"consumed", "delete", "revoke"}
HoldsUser(q) == q.pc \in {"delete", "revoke"}
Locks(q) == (IF q.pc \in Holding THEN {q.tok} ELSE {}) \cup (IF q.pc = "revoke" THEN q.cand ELSE {})

Made(links) == {t \in Token : links[t].state # "absent"}
Good(link) == link.state \in {"open", "expired"}

\* What a request relies on in the rows: its link, which is good from the time
\* it consumed it, links that were made, every live session when it revokes
\* them but what was rotated beside it, and the password it proved unless a
\* reset overtook it.
Sound(q, acct, links, sessions, race) ==
    /\ q.pc # "idle" => acct.exists
    /\ q.pc \in Holding \cup {"confirm", "hash"} => q.tok \in Token
    /\ q.pc \in Holding => Good(links[q.tok])
    /\ q.cand \subseteq Made(links)
    /\ q.pc = "revoke" => \A s \in Session : sessions[s].state = "live" =>
                             s \in q.sess \/ acct.password \in sessions[s].beside
    /\ q.pc = "signin" => race \/ q.proof \in {0, acct.password}
RequestsSound == \A r \in Request : Sound(req[r], account, token, session, overtaken)

\* No row is written by two open transactions.
Apart ==
    \A r, q \in Request : r # q =>
        /\ Locks(req[r]) \cap Locks(req[q]) = {}
        /\ ~(HoldsUser(req[r]) /\ HoldsUser(req[q]))

\* Without an account there is no password, no link and no session.
AccountIsFirst ==
    ~account.exists => /\ account.password = 0
                       /\ Made(token) = {} /\ \A s \in Session : ~Live(s)

\* A link knows only links made before it.
SeenIsMade == \A t \in Token : token[t].seen \subseteq Made(token)

\* No live session is of a password to come.
MadeBefore == \A s \in Session : Live(s) => session[s].made <= account.password

Inv == /\ TypeOK /\ RequestsSound /\ Apart /\ AccountIsFirst /\ SeenIsMade /\ MadeBefore
       /\ GoodLinksAreConcurrent /\ ResetEndsSessions /\ OnlyOvertakenLoginOutlives

-----------------------------------------------------------------------------
(* Locks and requests                                                      *)

\* The rows a request has written, said of the request.
LEMMA LocksAreLockedBy ==
    ASSUME NEW r \in Request PROVE LockedBy(r) = Locks(req[r])
<1>1. CASE req[r].pc \in {"consumed", "delete"}
  BY <1>1 DEF LockedBy, Locks, Holding
<1>2. CASE req[r].pc = "revoke"
  BY <1>2 DEF LockedBy, Locks, Holding
<1>3. CASE req[r].pc \notin {"consumed", "delete", "revoke"}
  BY <1>3 DEF LockedBy, Locks, Holding
<1> QED
  BY <1>1, <1>2, <1>3

\* Who need not wait for links finds them in nobody's transaction.
LEMMA FreeLinks ==
    ASSUME NEW r \in Request, NEW links, ~Waits(r, links), NEW q \in Request, q # r
    PROVE  Locks(req[q]) \cap links = {}
BY LocksAreLockedBy DEF Waits

\* A request comes to a sound state that holds nothing another one holds.
LEMMA RequestStep ==
    ASSUME Inv, NEW r \in Request, NEW q \in RequestState, req' = [req EXCEPT ![r] = q],
           Sound(q, account', token', session', overtaken'),
           \A s \in Request : s # r => Sound(req[s], account', token', session', overtaken'),
           \A s \in Request : s # r => /\ Locks(q) \cap Locks(req[s]) = {}
                                       /\ ~(HoldsUser(q) /\ HoldsUser(req[s]))
    PROVE  req' \in [Request -> RequestState] /\ RequestsSound' /\ Apart'
<1>1. req \in [Request -> RequestState]
  BY DEF Inv, TypeOK, RequestState, PC
<1>2. /\ req' \in [Request -> RequestState]
      /\ \A s \in Request : req'[s] = IF s = r THEN q ELSE req[s]
  BY <1>1
<1>3. RequestsSound'
  BY <1>2 DEF RequestsSound
<1>4. Apart'
  <2> SUFFICES ASSUME NEW a \in Request, NEW b \in Request, a # b
               PROVE  /\ Locks(req'[a]) \cap Locks(req'[b]) = {}
                      /\ ~(HoldsUser(req'[a]) /\ HoldsUser(req'[b]))
    BY DEF Apart
  <2>1. CASE a # r /\ b # r
    BY <1>2, <2>1 DEF Inv, Apart
  <2>2. CASE a = r
    BY <1>2, <2>2
  <2>3. CASE b = r
    BY <1>2, <2>3
  <2> QED
    BY <2>1, <2>2, <2>3
<1> QED
  BY <1>2, <1>3, <1>4

\* An idle request relies on nothing and holds nothing.
LEMMA IdleFacts ==
    /\ IdleRequest \in RequestState /\ Locks(IdleRequest) = {} /\ ~HoldsUser(IdleRequest)
    /\ \A acct, links, sessions, race : Sound(IdleRequest, acct, links, sessions, race)
<1>1. /\ IdleRequest \in RequestState /\ IdleRequest.pc = "idle" /\ IdleRequest.cand = {}
  BY DEF IdleRequest, At, RequestState, PC
<1> QED
  BY <1>1 DEF Locks, HoldsUser, Sound, Holding

\* A request ends.
LEMMA FinishStep ==
    ASSUME Inv, NEW r \in Request, Finish(r),
           \A s \in Request : s # r => Sound(req[s], account', token', session', overtaken')
    PROVE  req' \in [Request -> RequestState] /\ RequestsSound' /\ Apart'
<1>1. PICK q \in RequestState : q = IdleRequest
  BY IdleFacts
<1> QED
  BY <1>1, IdleFacts, RequestStep DEF Finish

\* A request moves on and no row changes.
LEMMA MoveKeepsInv ==
    ASSUME Inv, NEW r \in Request, NEW q \in RequestState, req' = [req EXCEPT ![r] = q],
           UNCHANGED <<account, token, session, overtaken>>,
           Sound(q, account, token, session, overtaken),
           \A s \in Request : s # r => /\ Locks(q) \cap Locks(req[s]) = {}
                                       /\ ~(HoldsUser(q) /\ HoldsUser(req[s]))
    PROVE  Inv'
<1>1. \A s \in Request : Sound(req[s], account', token', session', overtaken')
  BY DEF Inv, RequestsSound
<1>2. req' \in [Request -> RequestState] /\ RequestsSound' /\ Apart'
  BY <1>1, RequestStep
<1>3. TypeOK'
  BY <1>2 DEF Inv, TypeOK, RequestState, PC
<1>4. (AccountIsFirst /\ SeenIsMade)'
  BY DEF Inv, AccountIsFirst, SeenIsMade, Live
<1>5. (GoodLinksAreConcurrent /\ ResetEndsSessions /\ OnlyOvertakenLoginOutlives
       /\ MadeBefore)'
  BY DEF Inv, GoodLinksAreConcurrent, ResetEndsSessions, OnlyOvertakenLoginOutlives, MadeBefore, Live, Unconsumed
<1> QED
  BY <1>2, <1>3, <1>4, <1>5 DEF Inv

\* A request ends and no row changes.
LEMMA EndKeepsInv ==
    ASSUME Inv, NEW r \in Request, Finish(r), UNCHANGED <<account, token, session, overtaken>>
    PROVE  Inv'
<1>1. PICK q \in RequestState : q = IdleRequest
  BY IdleFacts
<1> QED
  BY <1>1, IdleFacts, MoveKeepsInv DEF Finish

\* A request without locks moves on.
LEMMA UnlockedMoveKeepsInv ==
    ASSUME Inv, NEW r \in Request, NEW q \in RequestState, req' = [req EXCEPT ![r] = q],
           UNCHANGED <<account, token, session, overtaken>>,
           q.pc \in {"signin", "issue", "create", "confirm", "hash"}, account.exists,
           q.cand \subseteq Made(token),
           q.pc \in {"confirm", "hash"} => q.tok \in Token,
           q.pc = "signin" => q.proof \in {0, account.password}
    PROVE  Inv'
<1>1. Locks(q) = {} /\ ~HoldsUser(q) /\ Sound(q, account, token, session, overtaken)
  BY DEF Locks, HoldsUser, Sound, Holding
<1> QED
  BY <1>1, MoveKeepsInv

\* What At makes.
LEMMA AtType ==
    ASSUME NEW pc \in PC, NEW kind \in Kind \cup {"none"}, NEW tok \in Token \cup {None},
           NEW cand \in SUBSET Token, NEW sess \in SUBSET Session
    PROVE  /\ At(pc, kind, tok, cand, sess) \in RequestState
           /\ At(pc, kind, tok, cand, sess).pc = pc /\ At(pc, kind, tok, cand, sess).tok = tok
           /\ At(pc, kind, tok, cand, sess).cand = cand /\ At(pc, kind, tok, cand, sess).sess = sess
BY DEF At, RequestState

\* What a request that scanned links carries.
LEMMA ScanType ==
    ASSUME NEW kind \in Kind \cup {"none"}, NEW cand \in SUBSET Token
    PROVE  \E q \in RequestState : /\ q = At("create", kind, None, cand, {})
                                   /\ q.pc = "create" /\ q.cand = cand
<1>1. "create" \in PC /\ None \in Token \cup {None} /\ {} \in SUBSET Session
  BY DEF PC
<1> DEFINE q == At("create", kind, None, cand, {})
<1>2. q.pc = "create" /\ q.cand = cand
  BY DEF At
<1>3. q \in RequestState
  BY <1>1 DEF At, RequestState
<1> QED
  BY <1>2, <1>3

\* What a sign-in that proved a password, or none, carries.
LEMMA SignInType ==
    ASSUME NEW n \in Nat
    PROVE  /\ [At("signin", "none", None, {}, {}) EXCEPT !.proof = n] \in RequestState
           /\ [At("signin", "none", None, {}, {}) EXCEPT !.proof = n].pc = "signin"
           /\ [At("signin", "none", None, {}, {}) EXCEPT !.proof = n].proof = n
           /\ [At("signin", "none", None, {}, {}) EXCEPT !.proof = n].cand = {}
BY DEF At, RequestState, PC

-----------------------------------------------------------------------------
(* Steps that change no row                                                *)

\* What a request read, it relies on as it found it.
LEMMA ReadsKeepInv ==
    ASSUME Inv, NEW r \in Request,
           \/ LoginRead(r) \/ IssueScan(r)
           \/ \E kind \in Kind : IssueRead(r, kind)
           \/ \E t \in Token : LinkRead(r, t)
    PROVE  Inv'
<1>0. {} \in SUBSET Token /\ {} \in SUBSET Session /\ None \in Token \cup {None}
  OBVIOUS
<1>1. CASE LoginRead(r)
  <2>1. PICK n \in Nat : n = account.password
    BY DEF Inv, TypeOK
  <2>2. PICK q \in RequestState :
            /\ q = [At("signin", "none", None, {}, {}) EXCEPT !.proof = n]
            /\ q.pc = "signin" /\ q.proof = n /\ q.cand = {}
    BY SignInType
  <2>3. account.exists
    BY <1>1 DEF LoginRead, Inv, AccountIsFirst
  <2>4. req' = [req EXCEPT ![r] = q] /\ UNCHANGED <<account, token, session, overtaken>>
    BY <1>1, <2>1, <2>2 DEF LoginRead, SignIn
  <2> QED
    BY <2>1, <2>2, <2>3, <2>4, UnlockedMoveKeepsInv
<1>2. CASE IssueScan(r)
  <2>1. PICK kind \in Kind \cup {"none"} : kind = req[r].kind
    BY DEF Inv, TypeOK
  <2>2. PICK cand \in SUBSET Token : cand = UnconsumedOf(kind)
    BY DEF UnconsumedOf
  <2>3. cand \subseteq Made(token)
    BY <2>2 DEF UnconsumedOf, Unconsumed, Made
  <2>4. "create" \in PC
    BY DEF PC
  <2>5. PICK q \in RequestState : /\ q = At("create", kind, None, cand, {})
                                  /\ q.pc = "create" /\ q.cand = cand
    BY ScanType
  <2>6. account.exists
    BY <1>2 DEF IssueScan, Inv, RequestsSound, Sound
  <2>7. req' = [req EXCEPT ![r] = q] /\ UNCHANGED <<account, token, session, overtaken>>
    BY <1>2, <2>1, <2>2, <2>5 DEF IssueScan, Goto
  <2> QED
    BY <2>3, <2>5, <2>6, <2>7, UnlockedMoveKeepsInv
<1>3. ASSUME NEW kind \in Kind, IssueRead(r, kind) PROVE Inv'
  <2>1. "issue" \in PC /\ kind \in Kind \cup {"none"}
    BY DEF PC
  <2>2. PICK q \in RequestState : /\ q = At("issue", kind, None, {}, {})
                                  /\ q.pc = "issue" /\ q.cand = {}
    BY <1>0, <2>1, AtType
  <2>3. req' = [req EXCEPT ![r] = q] /\ UNCHANGED <<account, token, session, overtaken>>
    BY <1>3, <2>2 DEF IssueRead, Goto
  <2>4. account.exists
    BY <1>3 DEF IssueRead
  <2> QED
    BY <2>2, <2>3, <2>4, UnlockedMoveKeepsInv
<1>4. ASSUME NEW t \in Token, LinkRead(r, t) PROVE Inv'
  <2>1. PICK pc \in {"confirm", "hash"} : pc = IF token[t].kind = "verify" THEN "confirm" ELSE "hash"
    OBVIOUS
  <2>2. PICK kind \in Kind \cup {"none"} : kind = token[t].kind
    BY DEF Inv, TypeOK
  <2>3. pc \in PC /\ t \in Token \cup {None}
    BY DEF PC
  <2>4. PICK q \in RequestState : /\ q = At(pc, kind, t, {}, {})
                                  /\ q.pc = pc /\ q.tok = t /\ q.cand = {}
    BY <1>0, <2>3, AtType
  <2>5. account.exists
    BY <1>4 DEF LinkRead, Inv, AccountIsFirst, Made
  <2>6. req' = [req EXCEPT ![r] = q] /\ UNCHANGED <<account, token, session, overtaken>>
    BY <1>4, <2>1, <2>2, <2>4 DEF LinkRead, Goto
  <2> QED
    BY <2>4, <2>5, <2>6, UnlockedMoveKeepsInv
<1> QED
  BY <1>1, <1>2, <1>3, <1>4

\* The three statements of a reset before its commit, each of which takes the
\* rows it found free.
LEMMA ResetStepsKeepInv ==
    ASSUME Inv, NEW r \in Request, ResetConsume(r) \/ ResetUpdateUser(r) \/ ResetDeleteLinks(r)
    PROVE  Inv'
<1>0. /\ {} \in SUBSET Token /\ {} \in SUBSET Session /\ "reset" \in Kind \cup {"none"}
      /\ "consumed" \in PC /\ "delete" \in PC /\ "revoke" \in PC
  BY DEF Kind, PC
<1>1. Sound(req[r], account, token, session, overtaken) /\ req[r] \in RequestState
  BY DEF Inv, RequestsSound, TypeOK, RequestState, PC
<1>2. PICK t \in Token : t = req[r].tok
  BY <1>1 DEF Sound, ResetConsume, ResetUpdateUser, ResetDeleteLinks, Holding
<1>3. account.exists
  BY <1>1 DEF Sound, ResetConsume, ResetUpdateUser, ResetDeleteLinks
<1>4. CASE ResetConsume(r)
  <2>1. PICK q \in RequestState : /\ q = At("consumed", "reset", t, {}, {})
                                  /\ q.pc = "consumed" /\ q.tok = t /\ q.cand = {}
    BY <1>0, AtType
  <2>2. Locks(q) = {t} /\ ~HoldsUser(q)
    BY <2>1 DEF Locks, Holding, HoldsUser
  <2>3. ASSUME NEW s \in Request, s # r PROVE Locks(q) \cap Locks(req[s]) = {}
    BY <1>2, <1>4, <2>2, <2>3, FreeLinks DEF ResetConsume
  <2>4. Sound(q, account, token, session, overtaken)
    BY <1>2, <1>3, <1>4, <2>1 DEF Sound, ResetConsume, Unconsumed, Good
  <2>5. req' = [req EXCEPT ![r] = q] /\ UNCHANGED <<account, token, session, overtaken>>
    BY <1>2, <1>4, <2>1 DEF ResetConsume, Goto
  <2> QED
    BY <2>2, <2>3, <2>4, <2>5, MoveKeepsInv
<1>5. CASE ResetUpdateUser(r)
  <2>1. PICK cand \in SUBSET Token : cand = Rows("reset") \ {t}
    BY DEF Rows, UnconsumedOf
  <2>2. PICK q \in RequestState : /\ q = At("delete", "reset", t, cand, {})
                                  /\ q.pc = "delete" /\ q.tok = t /\ q.cand = cand
    BY <1>0, AtType
  <2>3. Locks(q) = {t} /\ Locks(req[r]) = {t}
    BY <1>2, <1>5, <2>2 DEF Locks, Holding, ResetUpdateUser
  <2>4. \A s \in Request : s # r => Locks(q) \cap Locks(req[s]) = {} /\ ~HoldsUser(req[s])
    BY <1>5, <2>3 DEF Inv, Apart, ResetUpdateUser, UserLocked, HoldsUser
  <2>5. cand \subseteq Made(token)
    BY <2>1 DEF Rows, UnconsumedOf, Unconsumed, Made
  <2>6. Sound(q, account, token, session, overtaken)
    BY <1>1, <1>2, <1>3, <1>5, <2>2, <2>5 DEF Sound, ResetUpdateUser, Holding
  <2>7. req' = [req EXCEPT ![r] = q] /\ UNCHANGED <<account, token, session, overtaken>>
    BY <1>2, <1>5, <2>1, <2>2 DEF ResetUpdateUser, Goto
  <2> QED
    BY <2>4, <2>6, <2>7, MoveKeepsInv
<1>6. CASE ResetDeleteLinks(r)
  <2>1. PICK cand \in SUBSET Token : cand = req[r].cand /\ cand \subseteq Made(token)
    BY <1>1 DEF RequestState, Sound
  <2>2. PICK sess \in SUBSET Session : sess = {s \in Session : Live(s)}
    OBVIOUS
  <2>3. PICK q \in RequestState :
            /\ q = At("revoke", "reset", t, cand, sess)
            /\ q.pc = "revoke" /\ q.tok = t /\ q.cand = cand /\ q.sess = sess
    BY <1>0, AtType
  <2>4. Locks(q) = {t} \cup cand /\ Locks(req[r]) = {t} /\ HoldsUser(req[r])
    BY <1>2, <1>6, <2>3 DEF Locks, Holding, HoldsUser, ResetDeleteLinks
  <2>5. ASSUME NEW s \in Request, s # r
        PROVE  Locks(q) \cap Locks(req[s]) = {} /\ ~HoldsUser(req[s])
    <3>1. Locks(req[s]) \cap cand = {}
      BY <1>6, <2>1, <2>5, FreeLinks DEF ResetDeleteLinks
    <3>2. {t} \cap Locks(req[s]) = {} /\ ~HoldsUser(req[s])
      BY <2>4, <2>5 DEF Inv, Apart
    <3> QED
      BY <2>4, <3>1, <3>2
  <2>6. Sound(q, account, token, session, overtaken)
    BY <1>1, <1>2, <1>3, <1>6, <2>1, <2>2, <2>3 DEF Sound, ResetDeleteLinks, Holding, Live
  <2>7. req' = [req EXCEPT ![r] = q] /\ UNCHANGED <<account, token, session, overtaken>>
    BY <1>2, <1>6, <2>1, <2>2, <2>3 DEF ResetDeleteLinks, Goto
  <2> QED
    BY <2>5, <2>6, <2>7, MoveKeepsInv
<1> QED
  BY <1>4, <1>5, <1>6

-----------------------------------------------------------------------------
(* Steps that change rows                                                  *)

\* What a request relies on survives a step that leaves its link good.
LEMMA SoundKept ==
    ASSUME Inv, NEW s \in Request, account.exists => account'.exists,
           Made(token) \subseteq Made(token'),
           req[s].pc \in Holding => Good(token'[req[s].tok]),
           req[s].pc = "revoke" => account'.password = account.password /\
               \A x \in Session : session'[x].state = "live" => session'[x] = session[x],
           overtaken => overtaken',
           req[s].pc = "signin" =>
               account'.password = account.password \/ overtaken' \/ req[s].proof = 0
    PROVE  Sound(req[s], account', token', session', overtaken')
<1>1. Sound(req[s], account, token, session, overtaken)
  BY DEF Inv, RequestsSound
<1> QED
  BY <1>1 DEF Sound

\* No request moves.
LEMMA RequestsKept ==
    ASSUME Inv, UNCHANGED req,
           \A s \in Request : Sound(req[s], account', token', session', overtaken')
    PROVE  req' \in [Request -> RequestState] /\ RequestsSound' /\ Apart'
<1>1. req \in [Request -> RequestState]
  BY DEF Inv, TypeOK, RequestState, PC
<1> QED
  BY <1>1 DEF Inv, RequestsSound, Apart

\* Links are consumed, deleted or expire, and none is made.
Retires(links) ==
    /\ links \in [Token -> TokenState]
    /\ \A t \in Token : /\ links[t].seen = token[t].seen
                        /\ Good(links[t]) => Good(token[t])
                        /\ links[t].state = "absent" <=> token[t].state = "absent"

\* A link that only gets worse does not come to know another good one.
LEMMA RetiringIsSafe ==
    ASSUME Inv, Retires(token')
    PROVE  Made(token') = Made(token) /\ SeenIsMade' /\ GoodLinksAreConcurrent'
<1>1. Made(token') = Made(token)
  BY DEF Retires, Made
<1>2. SeenIsMade'
  BY <1>1 DEF Inv, SeenIsMade, Retires
<1>3. GoodLinksAreConcurrent'
  BY DEF Inv, GoodLinksAreConcurrent, Retires, Good, Unconsumed
<1> QED
  BY <1>1, <1>2, <1>3

\* A link gets a new state.
LEMMA RetireOne ==
    ASSUME TypeOK, NEW t \in Token, NEW st \in {"expired", "consumed", "deleted"},
           Good(token[t]), token' = [token EXCEPT ![t].state = st]
    PROVE  /\ Retires(token') /\ token'[t].state = st
           /\ \A u \in Token : u # t => token'[u] = token[u]
<1>1. token \in [Token -> TokenState]
  BY DEF TypeOK, TokenState
<1> QED
  BY <1>1 DEF Retires, TokenState, Good

\* A refusal, a rollback or a crash gives up what the request held.
LEMMA EndingsKeepInv ==
    ASSUME Inv, NEW r \in Request, LinkLost(r) \/ BreakDeadlock(r) \/ Abort(r) PROVE Inv'
BY EndKeepsInv DEF LinkLost, BreakDeadlock, Abort

\* Time takes no link out of the hands of a reset, since it asks for consumedAt alone.
LEMMA ExpireKeepsInv ==
    ASSUME Inv, NEW t \in Token, Expire(t) PROVE Inv'
<1>1. token' = [token EXCEPT ![t].state = "expired"] /\ UNCHANGED <<account, session, req, overtaken>>
  BY DEF Expire
<1>2. Good(token[t]) /\ TypeOK
  BY DEF Expire, Good, Inv
<1>3. /\ Retires(token') /\ token'[t].state = "expired"
      /\ \A u \in Token : u # t => token'[u] = token[u]
  BY <1>1, <1>2, RetireOne
<1>4. Made(token') = Made(token) /\ SeenIsMade' /\ GoodLinksAreConcurrent'
  BY <1>3, RetiringIsSafe
<1>5. ASSUME NEW s \in Request PROVE Sound(req[s], account', token', session', overtaken')
  <2>1. req[s].pc \in Holding => Good(token'[req[s].tok])
    BY <1>3 DEF Inv, RequestsSound, Sound, Good
  <2> QED
    BY <1>1, <1>4, <2>1, SoundKept
<1>6. req' \in [Request -> RequestState] /\ RequestsSound' /\ Apart'
  BY <1>1, <1>5, RequestsKept
<1>7. TypeOK'
  BY <1>1, <1>3, <1>6 DEF Inv, TypeOK, Retires, TokenState, RequestState, PC
<1>8. AccountIsFirst'
  BY <1>1, <1>4 DEF Inv, AccountIsFirst, Live
<1>9. (ResetEndsSessions /\ OnlyOvertakenLoginOutlives /\ MadeBefore)'
  BY <1>1 DEF Inv, ResetEndsSessions, OnlyOvertakenLoginOutlives, MadeBefore, Live
<1> QED
  BY <1>4, <1>6, <1>7, <1>8, <1>9 DEF Inv

\* A confirmation consumes a link that no reset holds.
LEMMA ConfirmKeepsInv ==
    ASSUME Inv, NEW r \in Request, ConfirmEmailVerification(r) PROVE Inv'
<1>0. Sound(req[r], account, token, session, overtaken) /\ req[r].pc = "confirm"
  BY DEF Inv, RequestsSound, ConfirmEmailVerification
<1>1. PICK t \in Token : t = req[r].tok
  BY <1>0 DEF Sound
<1>2. token' = [token EXCEPT ![t].state = "consumed"] /\ UNCHANGED <<session, overtaken>> /\ Finish(r)
  BY <1>1 DEF ConfirmEmailVerification
<1>3. Good(token[t]) /\ TypeOK /\ account \in AccountState /\ account.exists
  BY <1>0, <1>1 DEF ConfirmEmailVerification, Unconsumed, Good, Inv, TypeOK, Sound, AccountState
<1>4. /\ Retires(token') /\ token'[t].state = "consumed"
      /\ \A u \in Token : u # t => token'[u] = token[u]
  BY <1>2, <1>3, RetireOne
<1>5. Made(token') = Made(token) /\ SeenIsMade' /\ GoodLinksAreConcurrent'
  BY <1>4, RetiringIsSafe
<1>6. account' = [account EXCEPT !.verified = TRUE]
  BY DEF ConfirmEmailVerification
<1>7. account' \in AccountState /\ account'.exists /\ account'.password = account.password
  BY <1>3, <1>6 DEF AccountState
<1>8. ASSUME NEW s \in Request, s # r PROVE Sound(req[s], account', token', session', overtaken')
  <2>1. Locks(req[s]) \cap {t} = {}
    BY <1>1, <1>8, FreeLinks DEF ConfirmEmailVerification
  <2>2. req[s].pc \in Holding => req[s].tok \in Token /\ req[s].tok # t /\ Good(token[req[s].tok])
    BY <2>1 DEF Locks, Inv, RequestsSound, Sound
  <2> QED
    BY <1>2, <1>4, <1>5, <1>7, <2>2, SoundKept
<1>9. req' \in [Request -> RequestState] /\ RequestsSound' /\ Apart'
  BY <1>2, <1>8, FinishStep
<1>10. TypeOK'
  BY <1>2, <1>4, <1>7, <1>9 DEF Inv, TypeOK, Retires, TokenState, RequestState, PC, AccountState
<1>11. AccountIsFirst'
  BY <1>7 DEF AccountIsFirst
<1>12. (ResetEndsSessions /\ OnlyOvertakenLoginOutlives /\ MadeBefore)'
  BY <1>2, <1>7 DEF Inv, ResetEndsSessions, OnlyOvertakenLoginOutlives, MadeBefore, Live
<1> QED
  BY <1>5, <1>9, <1>10, <1>11, <1>12 DEF Inv

\* A new session is the only one that changes.
LEMMA SessionOpened ==
    ASSUME TypeOK, NEW s \in Session, NEW m \in Nat, NEW n \in Nat,
           session' = [session EXCEPT ![s] = Opened(m, n)]
    PROVE  /\ session' \in [Session -> SessionState]
           /\ session'[s].made = m /\ session'[s].proof = n
           /\ \A x \in Session : x # s => session'[x] = session[x]
<1>1. Opened(m, n) \in SessionState /\ Opened(m, n).made = m /\ Opened(m, n).proof = n
  BY DEF SessionState, Opened
<1>2. session \in [Session -> SessionState]
  BY DEF TypeOK, SessionState
<1> QED
  BY <1>1, <1>2

\* The rows of an address without an account are empty, and no request is
\* under way for it.
LEMMA RegisterKeepsInv ==
    ASSUME Inv, NEW t \in Token, NEW s \in Session, Register(t, s) PROVE Inv'
<1>0. ~account.exists /\ Made(token) = {} /\ \A x \in Session : session[x].state # "live"
  BY DEF Register, Inv, AccountIsFirst, Live
<1>1. /\ account' = [exists |-> TRUE, password |-> 1, verified |-> FALSE]
      /\ token' = [token EXCEPT ![t] = [state |-> "open", kind |-> "verify", seen |-> {}]]
      /\ session' = [session EXCEPT ![s] = Opened(1, 1)]
      /\ UNCHANGED <<req, overtaken>>
  BY DEF Register
<1>2. account' \in AccountState /\ account'.exists /\ account'.password = 1
  BY <1>1 DEF AccountState
<1>3. /\ session' \in [Session -> SessionState] /\ session'[s].made = 1 /\ session'[s].proof = 1
      /\ \A x \in Session : x # s => session'[x] = session[x]
  <2>1. PICK m \in Nat : m = 1
    OBVIOUS
  <2>2. session' = [session EXCEPT ![s] = Opened(m, m)] /\ TypeOK
    BY <1>1, <2>1 DEF Inv
  <2>3. /\ session' \in [Session -> SessionState] /\ session'[s].made = m /\ session'[s].proof = m
        /\ \A x \in Session : x # s => session'[x] = session[x]
    BY <2>2, SessionOpened
  <2> QED
    BY <2>1, <2>3
<1>4. /\ token' \in [Token -> TokenState] /\ token'[t].seen = {} /\ Good(token'[t])
      /\ \A u \in Token : u # t => token'[u] = token[u]
  <2>1. token \in [Token -> TokenState]
    BY DEF Inv, TypeOK, TokenState
  <2> DEFINE link == [state |-> "open", kind |-> "verify", seen |-> {}]
  <2>2. link \in TokenState /\ link.seen = {} /\ Good(link)
    BY DEF TokenState, Kind, Good
  <2>3. token' = [token EXCEPT ![t] = link]
    BY <1>1
  <2> HIDE DEF link
  <2> QED
    BY <2>1, <2>2, <2>3
<1>5. \A u \in Token : u # t => ~Good(token'[u])
  BY <1>0, <1>4 DEF Made, Good
<1>6. Made(token) \subseteq Made(token')
  BY <1>0
<1>7. ASSUME NEW q \in Request PROVE Sound(req[q], account', token', session', overtaken')
  <2>1. req[q].pc = "idle"
    BY <1>0 DEF Inv, RequestsSound, Sound
  <2> QED
    BY <1>0, <1>1, <1>6, <2>1, SoundKept DEF Holding
<1>8. req' \in [Request -> RequestState] /\ RequestsSound' /\ Apart'
  BY <1>1, <1>7, RequestsKept
<1>9. TypeOK'
  BY <1>1, <1>2, <1>3, <1>4, <1>8
     DEF Inv, TypeOK, AccountState, TokenState, SessionState, RequestState, PC
<1>10. AccountIsFirst'
  BY <1>2 DEF AccountIsFirst
<1>11. SeenIsMade'
  <2>1. ASSUME NEW u \in Token PROVE token'[u].seen \subseteq Made(token')
    <3>1. CASE u = t
      BY <1>4, <3>1
    <3>2. CASE u # t
      BY <1>4, <1>6, <3>2 DEF Inv, SeenIsMade
    <3> QED
      BY <3>1, <3>2
  <2> QED
    BY <2>1 DEF SeenIsMade
<1>12. GoodLinksAreConcurrent'
  BY <1>4, <1>5 DEF GoodLinksAreConcurrent, Unconsumed, Good
<1>13. (ResetEndsSessions /\ OnlyOvertakenLoginOutlives /\ MadeBefore)'
  BY <1>0, <1>2, <1>3 DEF ResetEndsSessions, OnlyOvertakenLoginOutlives, MadeBefore, Live
<1> QED
  BY <1>8, <1>9, <1>10, <1>11, <1>12, <1>13 DEF Inv

\* A sign-in through a provider proves no password.
LEMMA OAuthKeepsInv ==
    ASSUME Inv, NEW r \in Request, AuthenticateOAuth(r) PROVE Inv'
<1>1. /\ account' = [exists |-> TRUE, password |-> account.password, verified |-> TRUE]
      /\ UNCHANGED <<token, session, overtaken>> /\ SignIn(r, 0)
  BY DEF AuthenticateOAuth
<1>2. account' \in AccountState /\ account'.exists /\ account'.password = account.password
  BY <1>1 DEF AccountState, Inv, TypeOK
<1>3. PICK q \in RequestState :
          /\ q = [At("signin", "none", None, {}, {}) EXCEPT !.proof = 0]
          /\ q.pc = "signin" /\ q.proof = 0 /\ q.cand = {}
  BY SignInType
<1>4. Locks(q) = {} /\ ~HoldsUser(q) /\ Sound(q, account', token', session', overtaken')
  BY <1>2, <1>3 DEF Locks, HoldsUser, Holding, Sound
<1>5. ASSUME NEW s \in Request PROVE Sound(req[s], account', token', session', overtaken')
  <2>1. req[s].pc \in Holding => Good(token[req[s].tok])
    BY DEF Inv, RequestsSound, Sound
  <2> QED
    BY <1>1, <1>2, <2>1, SoundKept
<1>6. req' \in [Request -> RequestState] /\ RequestsSound' /\ Apart'
  BY <1>1, <1>3, <1>4, <1>5, RequestStep DEF SignIn
<1>7. TypeOK'
  BY <1>1, <1>2, <1>6 DEF Inv, TypeOK, AccountState, RequestState, PC
<1>8. AccountIsFirst'
  BY <1>2 DEF AccountIsFirst
<1>9. (SeenIsMade /\ GoodLinksAreConcurrent)'
  BY <1>1 DEF Inv, SeenIsMade, GoodLinksAreConcurrent, Unconsumed
<1>10. (ResetEndsSessions /\ OnlyOvertakenLoginOutlives /\ MadeBefore)'
  BY <1>1, <1>2 DEF Inv, ResetEndsSessions, OnlyOvertakenLoginOutlives, MadeBefore, Live
<1> QED
  BY <1>6, <1>7, <1>8, <1>9, <1>10 DEF Inv

\* No reset has scanned the sessions yet when one is opened.
LEMMA CompleteKeepsInv ==
    ASSUME Inv, NEW r \in Request, NEW s \in Session, CompleteFirstFactor(r, s) PROVE Inv'
<1>0. Sound(req[r], account, token, session, overtaken) /\ req[r].pc = "signin" /\ ~UserLocked
  BY DEF Inv, RequestsSound, CompleteFirstFactor
<1>1. PICK m \in Nat : m = account.password
  BY DEF Inv, TypeOK
<1>2. PICK n \in Nat : n = req[r].proof
  BY DEF Inv, TypeOK
<1>3. /\ session' = [session EXCEPT ![s] = Opened(m, n)]
      /\ UNCHANGED <<account, token, overtaken>> /\ Finish(r)
  BY <1>1, <1>2 DEF CompleteFirstFactor
<1>4. /\ session' \in [Session -> SessionState] /\ session'[s].made = m /\ session'[s].proof = n
      /\ \A x \in Session : x # s => session'[x] = session[x]
  BY <1>3, SessionOpened DEF Inv
<1>5. ASSUME NEW q \in Request PROVE Sound(req[q], account', token', session', overtaken')
  <2>1. req[q].pc \in Holding => Good(token[req[q].tok])
    BY DEF Inv, RequestsSound, Sound
  <2>2. req[q].pc # "revoke"
    BY <1>0 DEF UserLocked
  <2> QED
    BY <1>3, <2>1, <2>2, SoundKept
<1>6. req' \in [Request -> RequestState] /\ RequestsSound' /\ Apart'
  BY <1>3, <1>5, FinishStep
<1>7. TypeOK'
  BY <1>3, <1>4, <1>6 DEF Inv, TypeOK, SessionState, RequestState, PC
<1>8. AccountIsFirst'
  BY <1>0, <1>3 DEF AccountIsFirst, Sound
<1>9. (SeenIsMade /\ GoodLinksAreConcurrent)'
  BY <1>3 DEF Inv, SeenIsMade, GoodLinksAreConcurrent, Unconsumed
<1>10. (ResetEndsSessions /\ MadeBefore)'
  BY <1>1, <1>3, <1>4 DEF Inv, ResetEndsSessions, MadeBefore, Live
<1>11. overtaken \/ n \in {0, account.password}
  BY <1>0, <1>2 DEF Sound
<1>12. OnlyOvertakenLoginOutlives'
  BY <1>3, <1>4, <1>11 DEF Inv, OnlyOvertakenLoginOutlives, MadeBefore, Live
<1> QED
  BY <1>6, <1>7, <1>8, <1>9, <1>10, <1>12 DEF Inv

\* A rotation hands on what its session was opened with; beside a reset that has
\* scanned the sessions, it says so.
LEMMA RotateKeepsInv ==
    ASSUME Inv, NEW s \in Session, NEW n \in Session, Rotate(s, n) PROVE Inv'
<1> DEFINE more == {p \in {account.password} : \E r \in Request : req[r].pc = "revoke"}
           new == [session[s] EXCEPT !.beside = @ \cup more]
<1>1. /\ session[s].state = "live" /\ s # n
      /\ session' = [session EXCEPT ![s].state = "revoked", ![n] = new]
      /\ UNCHANGED <<account, token, req, overtaken>>
  BY DEF Rotate, Live, NewSession, NoSession
<1>2. session \in [Session -> SessionState] /\ account.password \in Nat
  BY DEF Inv, TypeOK, SessionState
<1>3. /\ new \in SessionState /\ new.made = session[s].made /\ new.proof = session[s].proof
      /\ new.beside = session[s].beside \cup more
  BY <1>2 DEF SessionState
<1>4. \A r \in Request : req[r].pc = "revoke" => account.password \in new.beside
  BY <1>3
<1>5. session[s].beside \subseteq new.beside
  BY <1>3
<1> HIDE DEF new
<1>6. /\ session' \in [Session -> SessionState] /\ session'[n] = new /\ session'[s].state = "revoked"
      /\ \A x \in Session : x # s /\ x # n => session'[x] = session[x]
  BY <1>1, <1>2, <1>3 DEF SessionState
<1>7. ASSUME NEW q \in Request PROVE Sound(req[q], account', token', session', overtaken')
  <2>1. Sound(req[q], account, token, session, overtaken)
    BY DEF Inv, RequestsSound
  <2>2. ASSUME req[q].pc = "revoke", NEW x \in Session, session'[x].state = "live"
        PROVE  x \in req[q].sess \/ account.password \in session'[x].beside
    <3>1. CASE x = n
      BY <1>4, <1>6, <2>2, <3>1
    <3>2. CASE x # n
      BY <1>6, <2>1, <2>2, <3>2 DEF Sound
    <3> QED
      BY <3>1, <3>2
  <2> QED
    BY <1>1, <2>1, <2>2 DEF Sound
<1>8. req' \in [Request -> RequestState] /\ RequestsSound' /\ Apart'
  BY <1>1, <1>7, RequestsKept
<1>9. TypeOK'
  BY <1>1, <1>6, <1>8 DEF Inv, TypeOK, SessionState, RequestState, PC
<1>10. account.exists
  BY <1>1 DEF Inv, AccountIsFirst, Live
<1>11. (AccountIsFirst /\ SeenIsMade /\ GoodLinksAreConcurrent)'
  BY <1>1, <1>10 DEF Inv, AccountIsFirst, SeenIsMade, GoodLinksAreConcurrent, Unconsumed
<1>12. (ResetEndsSessions /\ OnlyOvertakenLoginOutlives /\ MadeBefore)'
  <2>1. \A x \in Session : session'[x].state = "live" =>
            \E y \in Session : /\ session[y].state = "live" /\ session'[x].made = session[y].made
                               /\ session'[x].proof = session[y].proof
                               /\ session[y].beside \subseteq session'[x].beside
    BY <1>1, <1>3, <1>5, <1>6
  <2> QED
    BY <1>1, <2>1 DEF Inv, ResetEndsSessions, OnlyOvertakenLoginOutlives, MadeBefore, Live
<1> QED
  BY <1>8, <1>9, <1>11, <1>12 DEF Inv

\* The links a request deletes are in no other transaction, and the one it
\* makes knows them all.
LEMMA IssueKeepsInv ==
    ASSUME Inv, NEW r \in Request, NEW t \in Token, IssueCommit(r, t) PROVE Inv'
<1>0. /\ Sound(req[r], account, token, session, overtaken) /\ req[r].pc = "create"
      /\ token[t].state = "absent" /\ token \in [Token -> TokenState]
  BY DEF Inv, RequestsSound, IssueCommit, NewToken, NoToken, TypeOK, TokenState
<1>1. PICK cand \in SUBSET Token : cand = req[r].cand /\ cand \subseteq Made(token)
  BY <1>0 DEF Inv, TypeOK, Sound
<1>2. PICK kind \in Kind \cup {"none"} : kind = req[r].kind
  BY DEF Inv, TypeOK
<1> DEFINE link == [state |-> "open", kind |-> kind, seen |-> cand]
<1>3. link \in TokenState /\ link.state = "open" /\ link.seen = cand
  BY DEF TokenState
<1>4. /\ token' = [u \in Token |->
            IF u = t THEN link
            ELSE IF u \in cand /\ Unconsumed(u) THEN [token[u] EXCEPT !.state = "deleted"]
            ELSE token[u]]
      /\ UNCHANGED <<account, session, overtaken>> /\ Finish(r)
  BY <1>1, <1>2 DEF IssueCommit
<1> HIDE DEF link
<1>5. ASSUME NEW u \in Token, u # t
      PROVE  /\ token'[u] \in TokenState /\ token'[u].seen = token[u].seen
             /\ Good(token'[u]) => Good(token[u]) /\ u \notin cand
             /\ token'[u].state = "absent" <=> token[u].state = "absent"
             /\ u \notin cand => token'[u] = token[u]
  <2>1. CASE u \in cand /\ Unconsumed(u)
    <3>1. token'[u] = [token[u] EXCEPT !.state = "deleted"]
      BY <1>4, <1>5, <2>1
    <3> QED
      BY <1>0, <2>1, <3>1 DEF TokenState, Good, Unconsumed
  <2>2. CASE ~(u \in cand /\ Unconsumed(u))
    <3>1. token'[u] = token[u]
      BY <1>4, <1>5, <2>2
    <3> QED
      BY <1>0, <2>2, <3>1 DEF Good, Unconsumed
  <2> QED
    BY <2>1, <2>2
<1>6. token'[t] = link
  BY <1>4
<1>7. token' \in [Token -> TokenState]
  <2>1. \A u \in Token : token'[u] \in TokenState
    BY <1>3, <1>5, <1>6
  <2> QED
    BY <1>4, <2>1
<1>8. Made(token) \subseteq Made(token') /\ t \notin Made(token)
  BY <1>0, <1>5 DEF Made
<1>9. ASSUME NEW s \in Request, s # r PROVE Sound(req[s], account', token', session', overtaken')
  <2>1. Locks(req[s]) \cap cand = {}
    BY <1>1, <1>9, FreeLinks DEF IssueCommit
  <2>2. req[s].pc \in Holding =>
            req[s].tok \in Token /\ req[s].tok \notin cand /\ Good(token[req[s].tok])
    BY <2>1 DEF Locks, Inv, RequestsSound, Sound
  <2>3. req[s].pc \in Holding => Good(token'[req[s].tok])
    BY <1>0, <1>5, <2>2 DEF Good
  <2> QED
    BY <1>4, <1>8, <2>3, SoundKept
<1>10. req' \in [Request -> RequestState] /\ RequestsSound' /\ Apart'
  BY <1>4, <1>9, FinishStep
<1>11. TypeOK'
  BY <1>4, <1>7, <1>10 DEF Inv, TypeOK, TokenState, RequestState, PC
<1>12. AccountIsFirst'
  BY <1>0, <1>4 DEF AccountIsFirst, Sound
<1>13. SeenIsMade'
  <2>1. ASSUME NEW u \in Token PROVE token'[u].seen \subseteq Made(token')
    <3>1. CASE u = t
      BY <1>1, <1>3, <1>6, <1>8, <3>1
    <3>2. CASE u # t
      BY <1>5, <1>8, <3>2 DEF Inv, SeenIsMade
    <3> QED
      BY <3>1, <3>2
  <2> QED
    BY <2>1 DEF SeenIsMade
<1>14. GoodLinksAreConcurrent'
  <2> SUFFICES ASSUME NEW a \in Token, NEW b \in Token, Good(token'[a]), Good(token'[b])
               PROVE  b \notin token'[a].seen
    BY DEF GoodLinksAreConcurrent, Unconsumed, Good
  <2>1. CASE a = t
    <3>1. b # t => b \notin cand
      BY <1>5
    <3> QED
      BY <1>1, <1>3, <1>6, <1>8, <2>1, <3>1
  <2>2. CASE a # t /\ b = t
    BY <1>5, <1>8, <2>2 DEF Inv, SeenIsMade
  <2>3. CASE a # t /\ b # t
    BY <1>5, <2>3 DEF Inv, GoodLinksAreConcurrent, Unconsumed, Good
  <2> QED
    BY <2>1, <2>2, <2>3
<1>15. (ResetEndsSessions /\ OnlyOvertakenLoginOutlives /\ MadeBefore)'
  BY <1>4 DEF Inv, ResetEndsSessions, OnlyOvertakenLoginOutlives, MadeBefore, Live
<1> QED
  BY <1>10, <1>11, <1>12, <1>13, <1>14, <1>15 DEF Inv

\* A reset commits: its link was good, the links it deletes are in no other
\* transaction and the sessions it scanned are all there are.
LEMMA ResetCommitKeepsInv ==
    ASSUME Inv, NEW r \in Request, ResetCommit(r)
    PROVE  /\ Inv'
           /\ req[r].tok \in Token /\ Good(token[req[r].tok])
           /\ token'[req[r].tok].state = "consumed"
<1>0. /\ Sound(req[r], account, token, session, overtaken) /\ req[r].pc = "revoke"
      /\ token \in [Token -> TokenState] /\ session \in [Session -> SessionState]
      /\ account \in AccountState
  BY DEF Inv, RequestsSound, ResetCommit, TypeOK, TokenState, SessionState, AccountState
<1>1. PICK t \in Token : t = req[r].tok /\ Good(token[t])
  BY <1>0 DEF Sound, Holding
<1>2. PICK cand \in SUBSET Token : cand = req[r].cand /\ cand \subseteq Made(token)
  BY <1>0 DEF Inv, TypeOK, Sound
<1>3. /\ token' = [u \in Token |->
            IF u = t THEN [token[u] EXCEPT !.state = "consumed"]
            ELSE IF u \in cand THEN [token[u] EXCEPT !.state = "deleted"]
            ELSE token[u]]
      /\ Finish(r)
  BY <1>1, <1>2 DEF ResetCommit
<1>4. token'[t].state = "consumed"
  BY <1>0, <1>3 DEF TokenState
<1>5. ASSUME NEW u \in Token
      PROVE  /\ token'[u] \in TokenState /\ token'[u].seen = token[u].seen
             /\ Good(token'[u]) => Good(token[u])
             /\ token'[u].state = "absent" <=> token[u].state = "absent"
             /\ u \notin cand \cup {t} => token'[u] = token[u]
  <2>1. CASE u = t
    <3>1. token'[u] = [token[u] EXCEPT !.state = "consumed"]
      BY <1>3, <2>1
    <3> QED
      BY <1>0, <1>1, <2>1, <3>1 DEF TokenState, Good
  <2>2. CASE u # t /\ u \in cand
    <3>1. token'[u] = [token[u] EXCEPT !.state = "deleted"] /\ token[u].state # "absent"
      BY <1>2, <1>3, <2>2 DEF Made
    <3> QED
      BY <1>0, <2>2, <3>1 DEF TokenState, Good
  <2>3. CASE u # t /\ u \notin cand
    BY <1>0, <1>3, <2>3
  <2> QED
    BY <2>1, <2>2, <2>3
<1>6. Retires(token')
  BY <1>3, <1>5 DEF Retires
<1>7. Made(token') = Made(token) /\ SeenIsMade' /\ GoodLinksAreConcurrent'
  BY <1>6, RetiringIsSafe
<1>8. /\ session' \in [Session -> SessionState]
      /\ \A s \in Session : session'[s].state = "live" =>
            /\ session'[s] = session[s] /\ account.password \in session[s].beside
  <2>1. session' = [s \in Session |-> IF s \in req[r].sess /\ session[s].state = "live"
                                      THEN [session[s] EXCEPT !.state = "revoked"] ELSE session[s]]
    BY DEF ResetCommit, Live
  <2>2. ASSUME NEW s \in Session
        PROVE  /\ session'[s] \in SessionState
               /\ session'[s].state = "live" =>
                     session'[s] = session[s] /\ account.password \in session[s].beside
    <3>1. CASE s \in req[r].sess /\ session[s].state = "live"
      <4>1. session'[s] = [session[s] EXCEPT !.state = "revoked"]
        BY <2>1, <3>1
      <4> QED
        BY <1>0, <4>1 DEF SessionState
    <3>2. CASE ~(s \in req[r].sess /\ session[s].state = "live")
      <4>1. session'[s] = session[s]
        BY <2>1, <3>2
      <4> QED
        BY <1>0, <3>2, <4>1 DEF Sound
    <3> QED
      BY <3>1, <3>2
  <2> QED
    BY <2>1, <2>2
<1>9. account' \in AccountState /\ account'.exists /\ account'.password = account.password + 1
  <2>1. account' = [account EXCEPT !.password = @ + 1]
    BY DEF ResetCommit
  <2> QED
    BY <1>0, <2>1 DEF AccountState, Sound
<1>10. /\ overtaken => overtaken'
       /\ \A q \in Request : req[q].pc = "signin" /\ req[q].proof # 0 => overtaken'
  BY DEF ResetCommit
<1>11. ASSUME NEW s \in Request, s # r PROVE Sound(req[s], account', token', session', overtaken')
  <2>1. Locks(req[s]) \cap Locks(req[r]) = {} /\ Locks(req[r]) = {t} \cup cand
    BY <1>0, <1>1, <1>2, <1>11 DEF Inv, Apart, Locks, Holding
  <2>2. req[s].pc \in Holding =>
            req[s].tok \in Token /\ req[s].tok \notin cand \cup {t} /\ Good(token[req[s].tok])
    BY <2>1 DEF Locks, Inv, RequestsSound, Sound
  <2>3. req[s].pc \in Holding => Good(token'[req[s].tok])
    BY <1>5, <2>2
  <2>4. req[s].pc = "signin" =>
            account'.password = account.password \/ overtaken' \/ req[s].proof = 0
    BY <1>10
  <2>5. req[s].pc # "revoke"
    BY <1>0, <1>11 DEF Inv, Apart, HoldsUser
  <2>6. (account.exists => account'.exists) /\ Made(token) \subseteq Made(token')
    BY <1>7, <1>9
  <2> QED
    BY <1>10, <2>3, <2>4, <2>5, <2>6, SoundKept
<1>12. req' \in [Request -> RequestState] /\ RequestsSound' /\ Apart'
  BY <1>3, <1>11, FinishStep
<1>13. TypeOK'
  <2>1. overtaken' \in BOOLEAN
    BY DEF ResetCommit
  <2>2. /\ account' \in [exists : BOOLEAN, password : Nat, verified : BOOLEAN]
        /\ token' \in [Token -> TokenState] /\ session' \in [Session -> SessionState]
    BY <1>6, <1>8, <1>9 DEF AccountState, Retires
  <2> QED
    BY <1>12, <2>1, <2>2 DEF TypeOK, TokenState, SessionState, RequestState, PC
<1>14. AccountIsFirst'
  BY <1>9 DEF AccountIsFirst
<1>15. (ResetEndsSessions /\ OnlyOvertakenLoginOutlives /\ MadeBefore)'
  <2> SUFFICES ASSUME NEW s \in Session, session'[s].state = "live"
               PROVE  /\ session'[s].made < account'.password
                      /\ \A p \in 0..account'.password :
                            session'[s].made <= p /\ p < account'.password => p \in session'[s].beside
    BY <1>8, <1>9 DEF ResetEndsSessions, OnlyOvertakenLoginOutlives, MadeBefore, Live, AccountState,
       SessionState
  <2>1. /\ session'[s] = session[s] /\ account.password \in session[s].beside
        /\ session[s].state = "live" /\ session[s].made \in Nat /\ account.password \in Nat
    BY <1>0, <1>8 DEF SessionState, AccountState
  <2>2. session[s].made <= account.password
    BY <2>1 DEF Inv, MadeBefore, Live
  <2>3. \A p \in 0..account.password :
           session[s].made <= p /\ p < account.password => p \in session[s].beside
    BY <2>1 DEF Inv, ResetEndsSessions, Live
  <2> QED
    BY <1>9, <2>1, <2>2, <2>3
<1> QED
  BY <1>1, <1>4, <1>7, <1>12, <1>13, <1>14, <1>15 DEF Inv

-----------------------------------------------------------------------------
(* Theorems                                                                *)

\* An address nobody has used.
LEMMA InitHolds == Init => Inv
<1> SUFFICES ASSUME Init PROVE Inv
  OBVIOUS
<1>1. account \in AccountState /\ ~account.exists /\ account.password = 0
  BY DEF Init, NoAccount, AccountState
<1>2. /\ token \in [Token -> TokenState]
      /\ \A t \in Token : token[t].state = "absent" /\ token[t].seen = {}
  <2>1. NoToken \in TokenState /\ NoToken.state = "absent" /\ NoToken.seen = {}
    BY DEF NoToken, TokenState
  <2> QED
    BY <2>1 DEF Init
<1>3. /\ session \in [Session -> SessionState]
      /\ \A s \in Session : session[s].state = "absent"
  BY DEF Init, NoSession, SessionState
<1>4. PICK q \in RequestState : q = IdleRequest
  BY IdleFacts
<1>5. /\ req \in [Request -> RequestState] /\ \A r \in Request : req[r] = q
  BY <1>4 DEF Init
<1>6. RequestsSound /\ Apart
  BY <1>4, <1>5, IdleFacts DEF RequestsSound, Apart
<1>7. TypeOK
  BY <1>1, <1>2, <1>3, <1>5
     DEF Init, TypeOK, AccountState, TokenState, SessionState, RequestState, PC
<1>8. AccountIsFirst /\ SeenIsMade
  BY <1>1, <1>2, <1>3 DEF AccountIsFirst, SeenIsMade, Made, Live
<1>9. GoodLinksAreConcurrent /\ ResetEndsSessions /\ OnlyOvertakenLoginOutlives /\ MadeBefore
  BY <1>2, <1>3 DEF GoodLinksAreConcurrent, ResetEndsSessions, OnlyOvertakenLoginOutlives, MadeBefore, Live
<1> QED
  BY <1>6, <1>7, <1>8, <1>9 DEF Inv

\* Every step keeps the invariant, one lemma for each kind.
LEMMA StepKeepsInv == Inv /\ [Next]_vars => Inv'
<1> SUFFICES ASSUME Inv, [Next]_vars PROVE Inv'
  OBVIOUS
<1>1. CASE UNCHANGED vars
  <2>1. UNCHANGED <<account, token, session, req, overtaken>>
    BY <1>1 DEF vars
  <2>2. req' \in [Request -> RequestState] /\ RequestsSound' /\ Apart'
    BY <2>1, RequestsKept DEF Inv, RequestsSound
  <2>3. TypeOK'
    BY <2>1, <2>2 DEF Inv, TypeOK
  <2>4. (AccountIsFirst /\ SeenIsMade)'
    BY <2>1 DEF Inv, AccountIsFirst, SeenIsMade, Live
  <2>5. (GoodLinksAreConcurrent /\ ResetEndsSessions /\ OnlyOvertakenLoginOutlives
       /\ MadeBefore)'
    BY <2>1 DEF Inv, GoodLinksAreConcurrent, ResetEndsSessions, OnlyOvertakenLoginOutlives,
                MadeBefore, Live, Unconsumed
  <2> QED
    BY <2>2, <2>3, <2>4, <2>5 DEF Inv
<1>2. ASSUME NEW r \in Request, NEW s \in Session, CompleteFirstFactor(r, s) PROVE Inv'
  BY <1>2, CompleteKeepsInv
<1>3. ASSUME NEW r \in Request, NEW t \in Token, IssueCommit(r, t) PROVE Inv'
  BY <1>3, IssueKeepsInv
<1>4. ASSUME NEW r \in Request, ConfirmEmailVerification(r) PROVE Inv'
  BY <1>4, ConfirmKeepsInv
<1>5. ASSUME NEW r \in Request, ResetCommit(r) PROVE Inv'
  BY <1>5, ResetCommitKeepsInv
<1>6. ASSUME NEW r \in Request, AuthenticateOAuth(r) PROVE Inv'
  BY <1>6, OAuthKeepsInv
<1>7. ASSUME NEW t \in Token, Expire(t) \/ \E s \in Session : Register(t, s) PROVE Inv'
  BY <1>7, ExpireKeepsInv, RegisterKeepsInv
<1>8. ASSUME NEW s \in Session, NEW n \in Session, Rotate(s, n) PROVE Inv'
  BY <1>8, RotateKeepsInv
<1> QED
  BY <1>1, <1>2, <1>3, <1>4, <1>5, <1>6, <1>7, <1>8, ReadsKeepInv, ResetStepsKeepInv, EndingsKeepInv
     DEF Next, Continue

\* The invariant holds throughout.
LEMMA InvAlways == Spec => []Inv
BY InitHolds, StepKeepsInv, PTL DEF Spec

\* forgotPassword, requestEmailVerification and resetPassword, however many run
\* side by side: two links of a kind are good at once only if their requests
\* did not see each other's, and no live session is older than the password
\* unless a refresh rotated it beside every reset since it was opened.
THEOREM AccountStaysConsistent == Spec => []AccountConsistent
<1>1. Inv => AccountConsistent
  BY DEF Inv, AccountConsistent
<1> QED
  BY <1>1, InvAlways, PTL

\* A password that a reset replaced opens a session after it only for a login
\* that had verified it when the reset committed.
THEOREM OnlyOvertakenLoginEverOutlives == Spec => []OnlyOvertakenLoginOutlives
<1>1. Inv => OnlyOvertakenLoginOutlives
  BY DEF Inv
<1> QED
  BY <1>1, InvAlways, PTL

\* resetPassword changes a password with a link that was good until it
\* committed, whatever it and others had read of the link before.
THEOREM PasswordAlwaysNeedsLink == Spec => PasswordNeedsLiveLink
<1>1. Inv /\ [Next]_vars =>
          [account.password # 0 /\ account'.password # account.password =>
              \E t \in Token : Unconsumed(t) /\ token'[t].state = "consumed"]_vars
  <2> SUFFICES ASSUME Inv, Next, account.password # 0, account'.password # account.password
               PROVE  \E t \in Token : Unconsumed(t) /\ token'[t].state = "consumed"
    OBVIOUS
  <2>1. ASSUME NEW r \in Request, ResetCommit(r)
        PROVE  \E t \in Token : Unconsumed(t) /\ token'[t].state = "consumed"
    BY <2>1, ResetCommitKeepsInv DEF Good, Unconsumed
  <2>2. ASSUME NEW t \in Token, NEW s \in Session, Register(t, s) PROVE FALSE
    BY <2>2 DEF Register, Inv, AccountIsFirst
  <2>3. ASSUME NEW r \in Request, AuthenticateOAuth(r) PROVE FALSE
    BY <2>3 DEF AuthenticateOAuth
  <2>4. ASSUME NEW r \in Request, ConfirmEmailVerification(r) PROVE FALSE
    <3>1. account' = [account EXCEPT !.verified = TRUE] /\ account \in AccountState
      BY <2>4 DEF ConfirmEmailVerification, Inv, TypeOK, AccountState
    <3> QED
      BY <3>1 DEF AccountState
  <2>5. CASE UNCHANGED account
    BY <2>5
  <2> QED
    BY <2>1, <2>2, <2>3, <2>4, <2>5
       DEF Next, Continue, Expire, Rotate, LoginRead, IssueRead, LinkRead, CompleteFirstFactor, IssueScan,
           IssueCommit, LinkLost, ResetConsume, ResetUpdateUser, ResetDeleteLinks, BreakDeadlock,
           Abort
<1> QED
  BY <1>1, InvAlways, PTL DEF Spec, PasswordNeedsLiveLink

-----------------------------------------------------------------------------
(* The emails that carry the links: EmailDelivery                          *)

CONSTANTS MaxAttempts, MaxEvents
VARIABLES row, call, answer, accepted, events, recorded, applied, lost

Email == INSTANCE EmailDelivery

\* attempts of the row, as the loop of deliver counts them.
Counted ==
    /\ call.pc \in {"start", "attempt"} => row.attempts < call.attempt
    /\ row.attempts <= call.attempt

\* An event that was written to the row found its message id, and the row shows
\* the newest of them.
ShowsNewest ==
    IF applied = {} THEN row.last = 0
    ELSE /\ row.message
         /\ row.last \in applied /\ (row.status = events[row.last] \/ lost)
         /\ \A e \in applied : e <= row.last

MessageComesLast ==
    /\ row.message => call.pc = "done" \/ lost
    /\ call.pc = "start" => ~row.message /\ applied = {}

EmailTypes == Email!TypeOK /\ events \in Seq(Email!Outcome) /\ Counted
EmailInv == EmailTypes /\ ShowsNewest /\ MessageComesLast

-----------------------------------------------------------------------------
(* Email: types                                                            *)

\* The types of the row and of the call.
DeliveryStatuses == Email!EmailDeliveryStatus \cup {"none"}
DeliveryRow == [status : DeliveryStatuses, attempts : 0..MaxAttempts, message : BOOLEAN,
                last : 0..MaxEvents]
DeliveryCall == [pc : {"start", "attempt", "send", "save", "retryable", "permanent", "fail",
                       "done"},
                 attempt : 1..MaxAttempts]

\* No email was ever sent.
LEMMA InitEmailTypes == ASSUME Email!AttemptsAssumption PROVE Email!Init => EmailTypes
<1> SUFFICES ASSUME Email!Init PROVE EmailTypes
  OBVIOUS
<1> USE DEF Email!AttemptsAssumption, Email!Init, Email!NoRow
<1>1. events \in Seq(Email!Outcome) /\ Len(events) = 0
  OBVIOUS
<1>2. Email!EventId = {}
  BY <1>1 DEF Email!EventId
<1>3. row \in DeliveryRow /\ call \in DeliveryCall
  BY DEF DeliveryRow, DeliveryCall, DeliveryStatuses
<1>4. Counted
  BY DEF Counted
<1>5. recorded \subseteq Email!EventId /\ applied \subseteq recorded
  BY <1>2
<1>6. answer \in {"none", "sent", "failed"} /\ accepted \in BOOLEAN /\ lost \in BOOLEAN
  OBVIOUS
<1>7. Len(events) <= MaxEvents /\ \A e \in Email!EventId : events[e] \in Email!Outcome
  BY <1>1, <1>2
<1> QED
  BY <1>1, <1>3, <1>4, <1>5, <1>6, <1>7 DEF EmailTypes, Email!TypeOK, DeliveryRow, DeliveryCall,
     DeliveryStatuses

\* A step of deliver, or the end of the process.
LEMMA DeliverKeepsTypes ==
    ASSUME Email!AttemptsAssumption
    PROVE  EmailTypes /\ (Email!Deliver \/ Email!Crash) => EmailTypes'
<1> SUFFICES ASSUME EmailTypes, Email!Deliver \/ Email!Crash PROVE EmailTypes'
  OBVIOUS
<1> USE DEF Email!AttemptsAssumption, EmailTypes
<1>1. UNCHANGED <<events, recorded, applied>>
  BY DEF Email!Deliver, Email!Crash, Email!CreateDelivery, Email!Attempt, Email!Send,
     Email!SendFails, Email!SaveSent, Email!SaveFails,
         Email!RecordError, Email!RecordUnexpectedFailure, Email!DatabaseFails
<1>2. /\ events' \in Seq(Email!Outcome) /\ Len(events)' <= MaxEvents
      /\ \A e \in Email!EventId' : events'[e] \in Email!Outcome
      /\ recorded' \subseteq Email!EventId' /\ applied' \subseteq recorded'
  BY <1>1 DEF Email!TypeOK, Email!EventId
<1>3. call' \in DeliveryCall
  <2>1. call \in DeliveryCall
    BY DEF Email!TypeOK, DeliveryCall
  <2>2. CASE Email!RecordError
    BY <2>1, <2>2 DEF Email!RecordError, Email!IsFinalAttempt, DeliveryCall, Email!Goto
  <2>3. CASE ~Email!RecordError
    <3>1. \E pc \in {"attempt", "send", "save", "retryable", "permanent", "fail", "done"},
             n \in {1, call.attempt} : call' = [pc |-> pc, attempt |-> n]
      BY <2>3 DEF Email!Deliver, Email!Crash, Email!CreateDelivery, Email!Attempt, Email!Send,
         Email!SendFails, Email!SaveSent, Email!SaveFails,
                  Email!RecordUnexpectedFailure, Email!DatabaseFails, Email!Goto, Email!Answer
    <3> QED
      BY <2>1, <3>1 DEF DeliveryCall
  <2> QED
    BY <2>2, <2>3
<1>4. answer' \in {"none", "sent", "failed"} /\ accepted' \in BOOLEAN /\ lost' \in BOOLEAN
  <2>1. answer' \in {answer, "sent", "failed"}
    BY DEF Email!Deliver, Email!Crash, Email!CreateDelivery, Email!Attempt, Email!Send,
       Email!SendFails, Email!SaveSent, Email!SaveFails,
           Email!RecordError, Email!RecordUnexpectedFailure, Email!DatabaseFails, Email!Answer
  <2>2. (accepted' = accepted \/ accepted' = TRUE) /\ (lost' = lost \/ lost' = TRUE)
    BY DEF Email!Deliver, Email!Crash, Email!CreateDelivery, Email!Attempt, Email!Send,
       Email!SendFails, Email!SaveSent, Email!SaveFails,
           Email!RecordError, Email!RecordUnexpectedFailure, Email!DatabaseFails
  <2>3. answer \in {"none", "sent", "failed"} /\ accepted \in BOOLEAN /\ lost \in BOOLEAN
    BY DEF Email!TypeOK
  <2> QED
    BY <2>1, <2>2, <2>3
<1>5. row' \in DeliveryRow /\ Counted'
  <2>1. row \in DeliveryRow /\ call \in DeliveryCall
    BY DEF Email!TypeOK, DeliveryCall, DeliveryRow, DeliveryStatuses
  <2>a. Email!CreatedRow \in DeliveryRow /\ Email!CreatedRow.attempts = 0
    BY DEF Email!CreatedRow, DeliveryRow, DeliveryStatuses, Email!EmailDeliveryStatus
  <2>b. ASSUME call.pc = "attempt"
        PROVE  /\ Email!AttemptedRow \in DeliveryRow
               /\ Email!AttemptedRow.attempts = row.attempts + 1 /\ row.attempts < call.attempt
    <3>1. row.attempts + 1 \in 0..MaxAttempts /\ row.attempts < call.attempt
      BY <2>1, <2>b DEF Counted, DeliveryRow, DeliveryCall
    <3> QED
      BY <2>1, <3>1 DEF Email!AttemptedRow, DeliveryRow, DeliveryStatuses,
         Email!EmailDeliveryStatus
  <2>c. /\ Email!ErrorRow \in DeliveryRow /\ Email!ErrorRow.attempts = row.attempts
        /\ Email!FailedRow \in DeliveryRow /\ Email!FailedRow.attempts = row.attempts
        /\ Email!SentRow \in DeliveryRow /\ Email!SentRow.attempts = row.attempts
    BY <2>1 DEF Email!ErrorRow, Email!FailedRow, Email!SentRow, DeliveryRow, DeliveryStatuses,
       Email!EmailDeliveryStatus, Email!Outcome
  <2>2. CASE Email!CreateDelivery
    <3>1. row' = Email!CreatedRow /\ call'.attempt = 1
      BY <2>2 DEF Email!CreateDelivery, Email!Goto
    <3> QED
      BY <2>a, <3>1 DEF Counted
  <2>3. CASE Email!Attempt
    <3>1. row' = Email!AttemptedRow /\ call.pc = "attempt"
          /\ call'.pc = "send" /\ call'.attempt = call.attempt
      BY <2>3 DEF Email!Attempt, Email!Goto
    <3> QED
      BY <2>1, <2>b, <3>1 DEF Counted, DeliveryRow, DeliveryCall
  <2>4. ASSUME row' \in DeliveryRow, row'.attempts = row.attempts,
               call'.attempt >= call.attempt, call'.pc # "start",
               call'.pc = "attempt" => call'.attempt > call.attempt
        PROVE  row' \in DeliveryRow /\ Counted'
    BY <2>1, <2>4, <1>3 DEF Counted, DeliveryRow, DeliveryCall
  <2>5. CASE Email!Send \/ Email!SendFails \/ Email!Crash
    BY <2>1, <2>4, <2>5 DEF Email!Send, Email!SendFails, Email!Crash, Email!Goto, DeliveryCall
  <2>6. CASE Email!SaveSent \/ Email!SaveFails \/ Email!RecordError \/ Email!RecordUnexpectedFailure
    <3>1. row' \in {row, Email!SentRow, Email!ErrorRow, Email!FailedRow}
      BY <2>6 DEF Email!SaveSent, Email!SaveFails, Email!RecordError, Email!RecordUnexpectedFailure
    <3>2. row' \in DeliveryRow /\ row'.attempts = row.attempts
      BY <2>1, <2>c, <3>1
    <3> QED
      BY <2>1, <2>4, <2>6, <3>2
      DEF Email!SaveSent, Email!SaveFails, Email!RecordError, Email!RecordUnexpectedFailure,
          Email!Goto, Email!Answer, DeliveryCall
  <2>7. CASE Email!DatabaseFails
    <3>1. call'.pc \in {"fail", "done"} /\ call'.attempt = call.attempt
      BY <2>7 DEF Email!DatabaseFails, Email!Goto, Email!Answer
    <3>2. \/ row' \in {row, Email!CreatedRow, Email!ErrorRow, Email!FailedRow}
          \/ row' = Email!AttemptedRow /\ call.pc = "attempt"
      BY <2>7 DEF Email!DatabaseFails
    <3>3. row' \in DeliveryRow
          /\ (row'.attempts \in {0, row.attempts} \/ (row'.attempts = row.attempts + 1
                                                      /\ row.attempts < call.attempt))
      BY <2>1, <2>a, <2>b, <2>c, <3>2
    <3> QED
      BY <2>1, <3>1, <3>3 DEF Counted, DeliveryRow, DeliveryCall
  <2> QED
    BY <2>2, <2>3, <2>5, <2>6, <2>7 DEF Email!Deliver
<1> QED
  BY <1>2, <1>3, <1>4, <1>5 DEF Email!TypeOK, DeliveryCall, DeliveryRow, DeliveryStatuses

\* Resend sends an event.
LEMMA ProviderKeepsTypes ==
    ASSUME Email!AttemptsAssumption, EmailTypes, NEW outcome \in Email!Outcome,
           Email!ProviderEvent(outcome)
    PROVE  /\ EmailTypes' /\ Email!EventId \subseteq Email!EventId'
           /\ \A e \in Email!EventId : events'[e] = events[e]
<1> USE DEF Email!AttemptsAssumption, EmailTypes, Email!ProviderEvent
<1>1. /\ events' \in Seq(Email!Outcome) /\ Len(events') = Len(events) + 1 /\ Len(events) \in Nat
      /\ \A e \in 1..Len(events) : events'[e] = events[e]
      /\ events'[Len(events) + 1] = outcome
  BY AppendProperties, LenProperties
<1>2. Email!EventId' = 1..(Len(events) + 1) /\ Email!EventId = 1..Len(events)
  BY <1>1 DEF Email!EventId
<1>3. \A e \in Email!EventId' : e \in Email!EventId \/ e = Len(events) + 1
  BY <1>1, <1>2
<1>4. Len(events') <= MaxEvents
  BY <1>1
<1>5. \A e \in Email!EventId' : events'[e] \in Email!Outcome
  BY <1>1, <1>2, <1>3 DEF Email!TypeOK
<1>6. Email!EventId \subseteq Email!EventId'
  BY <1>1, <1>2
<1>7. Counted'
  BY DEF Counted
<1> QED
  BY <1>1, <1>2, <1>4, <1>5, <1>6, <1>7 DEF Email!TypeOK

\* The webhook records an event.
LEMMA RecordKeepsTypes ==
    ASSUME Email!AttemptsAssumption, EmailTypes, NEW e \in Email!EventId, Email!RecordEvent(e)
    PROVE  EmailTypes'
<1> USE DEF Email!AttemptsAssumption, EmailTypes, Email!RecordEvent
<1>1. e \in 1..MaxEvents /\ events[e] \in Email!Outcome
  BY LenProperties DEF Email!TypeOK, Email!EventId
<1>2. Email!EventId' = Email!EventId
  BY DEF Email!EventId
<1>3. row' \in DeliveryRow /\ row'.attempts = row.attempts
  <2>1. row \in DeliveryRow /\ events[e] \in DeliveryStatuses /\ e \in 0..MaxEvents
    BY <1>1 DEF Email!TypeOK, DeliveryRow, DeliveryStatuses, Email!EmailDeliveryStatus
  <2> QED
    BY <2>1 DEF DeliveryRow
<1>4. Counted'
  BY <1>3 DEF Counted
<1> QED
  BY <1>2, <1>3, <1>4 DEF Email!TypeOK, DeliveryRow, DeliveryStatuses

\* Every step keeps the types.
LEMMA NextEmailTypes ==
    ASSUME Email!AttemptsAssumption
    PROVE  EmailTypes /\ [Email!Next]_Email!vars => EmailTypes'
<1> SUFFICES ASSUME EmailTypes, [Email!Next]_Email!vars PROVE EmailTypes'
  OBVIOUS
<1>1. CASE UNCHANGED Email!vars
  BY <1>1 DEF Email!vars, EmailTypes, Email!TypeOK, Counted, Email!EventId
<1> QED
  BY <1>1, DeliverKeepsTypes, ProviderKeepsTypes, RecordKeepsTypes DEF Email!Next

\* The row, the call and what Resend has sent stay well formed; the provider is
\* asked MaxAttempts times at most, whatever fails.
THEOREM DeliveryTypeCorrect ==
    ASSUME Email!AttemptsAssumption
    PROVE  Email!Spec => []Email!TypeOK
<1>1. EmailTypes => Email!TypeOK
  BY DEF EmailTypes
<1>2. Email!Init => EmailTypes
  BY InitEmailTypes
<1>3. EmailTypes /\ [Email!Next]_Email!vars => EmailTypes'
  BY NextEmailTypes
<1> QED
  BY <1>1, <1>2, <1>3, PTL DEF Email!Spec

-----------------------------------------------------------------------------
(* Email: events                                                           *)

\* Before the first email nothing was attempted.
LEMMA InitEmailInv == ASSUME Email!AttemptsAssumption PROVE Email!Init => EmailInv
<1>1. Email!Init => EmailTypes
  BY InitEmailTypes
<1> QED  BY <1>1 DEF EmailInv, Email!Init, Email!NoRow, ShowsNewest, MessageComesLast

\* deliver, which has not saved the message id before or does not know that it
\* has, writes a status over no event but after a lost answer.
LEMMA DeliverKeepsEmail ==
    ASSUME EmailInv, Email!Deliver \/ Email!Crash
    PROVE  ShowsNewest' /\ MessageComesLast'
<1> USE DEF EmailInv, EmailTypes, Email!TypeOK, ShowsNewest, MessageComesLast
<1>1. call.pc # "done" /\ applied' = applied /\ events' = events /\ (lost => lost')
  BY DEF Email!Deliver, Email!Crash, Email!CreateDelivery, Email!Attempt, Email!Send,
     Email!SendFails, Email!SaveSent, Email!SaveFails,
         Email!RecordError, Email!RecordUnexpectedFailure, Email!DatabaseFails
<1>2. \/ row' \in {row, Email!AttemptedRow, Email!SentRow, Email!ErrorRow, Email!FailedRow}
      \/ row' = Email!CreatedRow /\ call.pc = "start"
  BY DEF Email!Deliver, Email!Crash, Email!CreateDelivery, Email!Attempt, Email!Send,
     Email!SendFails, Email!SaveSent, Email!SaveFails,
         Email!RecordError, Email!RecordUnexpectedFailure, Email!DatabaseFails
<1>7. row \in DeliveryRow
  BY DEF DeliveryRow, DeliveryStatuses
<1>8. \A x \in {row, Email!AttemptedRow, Email!ErrorRow, Email!FailedRow} :
         x.last = row.last /\ x.message = row.message
  BY <1>7 DEF DeliveryRow, Email!AttemptedRow, Email!ErrorRow, Email!FailedRow
<1>9. Email!SentRow.last = row.last /\ Email!SentRow.message = TRUE
  BY <1>7 DEF DeliveryRow, Email!SentRow
<1>3. \/ row'.last = row.last /\ (row.message => row'.message)
      \/ row' = Email!CreatedRow /\ call.pc = "start"
  BY <1>2, <1>8, <1>9
<1>6. call'.pc # "start"
  BY DEF Email!Deliver, Email!Crash, Email!CreateDelivery, Email!Attempt, Email!Send,
     Email!SendFails, Email!SaveSent, Email!SaveFails, Email!RecordError,
     Email!RecordUnexpectedFailure, Email!DatabaseFails, Email!Answer, Email!Goto
<1>4. CASE call.pc = "start"
  <2>1. row'.message = FALSE /\ row'.last = 0
    BY <1>4 DEF Email!Deliver, Email!Crash, Email!CreateDelivery, Email!Attempt, Email!Send,
       Email!SendFails, Email!SaveSent, Email!SaveFails, Email!RecordError,
       Email!RecordUnexpectedFailure, Email!DatabaseFails, Email!CreatedRow, Email!NoRow
  <2> QED
    BY <1>1, <1>4, <2>1, <1>6
<1>5. CASE call.pc # "start"
  <2>1. row'.message => row.message \/ call'.pc = "done" \/ lost'
    <3>1. \/ row' \in {row, Email!AttemptedRow, Email!ErrorRow, Email!FailedRow}
          \/ call'.pc = "done" \/ lost'
      BY <1>5 DEF Email!Deliver, Email!Crash, Email!CreateDelivery, Email!Attempt, Email!Send,
         Email!SendFails, Email!SaveSent, Email!SaveFails, Email!RecordError,
         Email!RecordUnexpectedFailure, Email!DatabaseFails, Email!Answer, Email!Goto
    <3> QED
      BY <1>8, <3>1
  <2>2. row.message => lost
    BY <1>1
  <2> QED
    BY <1>1, <1>3, <1>5, <1>6, <2>1, <2>2
<1> QED
  BY <1>4, <1>5

\* The webhook writes an event to the row if it is newer than what the row shows.
LEMMA RecordKeepsEmail ==
    ASSUME Email!AttemptsAssumption, EmailInv, NEW e \in Email!EventId, Email!RecordEvent(e)
    PROVE  ShowsNewest' /\ MessageComesLast'
<1> USE DEF EmailInv, EmailTypes, Email!RecordEvent
<1>1. e \in Nat \ {0} /\ applied \subseteq Email!EventId /\ Email!EventId \subseteq Nat
  BY LenProperties DEF Email!TypeOK, Email!EventId
<1>2. row \in [status : Email!EmailDeliveryStatus \cup {"none"}, attempts : 0..MaxAttempts,
               message : BOOLEAN, last : 0..MaxEvents] /\ row.last \in Nat
  BY DEF Email!AttemptsAssumption, Email!TypeOK
<1>3. CASE ~row.message
  BY <1>3 DEF Email!Matches, ShowsNewest, MessageComesLast
<1>4. CASE row.message /\ Email!Matches(e)
  <2>1. row'.message /\ row'.last = e /\ row'.status = events[e] /\ applied' = applied \cup {e}
    BY <1>2, <1>4
  <2>2. \A f \in applied : f <= e
    BY <1>1, <1>2, <1>4 DEF Email!Matches, ShowsNewest
  <2> QED
    BY <1>1, <1>4, <2>1, <2>2 DEF ShowsNewest, MessageComesLast
<1>5. CASE row.message /\ ~Email!Matches(e)
  <2>1. row' = row /\ applied' = applied \cup {e} /\ row.last # 0 /\ e <= row.last
    BY <1>1, <1>2, <1>5 DEF Email!Matches
  <2> QED
    BY <1>1, <2>1, <1>5 DEF ShowsNewest, MessageComesLast
<1> QED
  BY <1>3, <1>4, <1>5

\* Every step keeps the invariant.
LEMMA NextEmailInv ==
    ASSUME Email!AttemptsAssumption
    PROVE  EmailInv /\ [Email!Next]_Email!vars => EmailInv'
<1> SUFFICES ASSUME EmailInv, [Email!Next]_Email!vars PROVE EmailInv'
  OBVIOUS
<1>1. EmailTypes'
  BY NextEmailTypes DEF EmailInv
<1>2. CASE UNCHANGED Email!vars
  BY <1>1, <1>2 DEF Email!vars, EmailInv, ShowsNewest, MessageComesLast
<1>3. ASSUME NEW outcome \in Email!Outcome, Email!ProviderEvent(outcome) PROVE EmailInv'
  <2>1. \A e \in applied : events'[e] = events[e]
    BY <1>3, ProviderKeepsTypes DEF EmailInv, EmailTypes, Email!TypeOK
  <2> QED
    BY <1>1, <1>3, <2>1 DEF Email!ProviderEvent, EmailInv, ShowsNewest, MessageComesLast
<1> QED
  BY <1>1, <1>2, <1>3, DeliverKeepsEmail, RecordKeepsEmail DEF Email!Next, EmailInv

\* Of the events that found their delivery, in whatever order and however often
\* they came, it is at the newest once deliver has returned, and shows another
\* status only after the answer to the update that saves the message id was lost
\* (recordEvent, attemptDelivery).
THEOREM DeliveryStaysConsistent ==
    ASSUME Email!AttemptsAssumption
    PROVE  Email!Spec => []Email!DeliveryConsistent
<1>1. EmailInv => Email!DeliveryConsistent
  <2> SUFFICES ASSUME EmailInv, applied # {}
               PROVE  LET newest == CHOOSE e \in applied : \A f \in applied : f <= e
                      IN  row.last = newest /\ (row.status = events[newest] \/ lost)
    BY DEF Email!DeliveryConsistent, Email!NewestEventShown, Email!Newest, EmailInv, EmailTypes
  <2>1. /\ row.last \in applied /\ (row.status = events[row.last] \/ lost)
        /\ \A e \in applied : e <= row.last
    BY DEF EmailInv, ShowsNewest
  <2>2. applied \subseteq Nat
    BY LenProperties DEF EmailInv, EmailTypes, Email!TypeOK, Email!EventId
  <2>3. ASSUME NEW e \in applied, \A f \in applied : f <= e PROVE e = row.last
    <3>1. row.last <= e /\ e <= row.last /\ e \in Nat /\ row.last \in Nat
      BY <2>1, <2>2, <2>3
    <3> QED
      BY <3>1
  <2> QED
    BY <2>1, <2>3
<1>2. Email!Init => EmailInv
  BY InitEmailInv
<1>3. EmailInv /\ [Email!Next]_Email!vars => EmailInv'
  BY NextEmailInv
<1> QED
  BY <1>1, <1>2, <1>3, PTL DEF Email!Spec
=============================================================================
