------------------------ MODULE SessionRotationProofs ------------------------
(***************************************************************************)
(* Proofs about SessionRotation for every set of sessions and of requests, *)
(* and about BrowserSession, which makes its requests, for every set of    *)
(* pages as well.                                                          *)
(*                                                                         *)
(* The invariant of the browser follows a refresh token: from the cookie   *)
(* into a call, through the handler that rotates it and back with the      *)
(* answer.  While no call failed or met the work of another page, one      *)
(* holder at a time has the newest token (TokenUsedOnce), since no two     *)
(* calls refresh with one token (OnePageCalls); a family is then never     *)
(* found reused, by the invariant of the server (ReuseFindsNothing).  What *)
(* a handler does for a call is a step of SessionRotation, so that IInv is *)
(* kept without being proved again (RotationInvariant).                    *)
(***************************************************************************)
EXTENDS SessionRotation, TLAPS

(***************************************************************************)
(* What LinearFamily needs in order to be inductive: a row is named by its *)
(* family only if the row that opened the family exists, an absent row has *)
(* no columns, and a request only remembers rows that exist.               *)
(***************************************************************************)
RowsWellFormed ==
    \A s \in Session :
        /\ ~Exists(s) => family[s] = None /\ replacedBy[s] = None
        /\ Exists(s) => family[s] \in Session /\ Exists(family[s])

RequestsWellFormed ==
    \A r \in Request :
        /\ req[r].pc \in {"rotate", "detected"} => req[r].job = "refresh"
        /\ req[r].pc # "idle" /\ req[r].job = "refresh"
              => req[r].tok \in Session /\ Exists(req[r].tok)
        /\ \A k \in req[r].known : Exists(k)

IInv ==
    /\ TypeOK /\ RowsWellFormed /\ RequestsWellFormed
    /\ LinearFamily /\ SurvivorWasRotated /\ ResetSurvivorWasRotated /\ SignOutSurvivorIsNew

-----------------------------------------------------------------------------
(* Types                                                                   *)

\* The record a request is given is a request state.
LEMMA AtType ==
    ASSUME NEW pc \in {"idle", "rotate", "detected", "revoke"}, NEW job \in Job,
           NEW tok \in Session \cup {None}, NEW cand \in SUBSET Session
    PROVE  At(pc, job, tok, cand) \in RequestState
BY DEF At, Scanned, RequestState

\* So is the record of an UPDATE that has scanned the table.
LEMMA ScannedType ==
    ASSUME NEW job \in Job, NEW cand \in SUBSET Session, NEW known \in SUBSET Session
    PROVE  Scanned("revoke", job, None, cand, known) \in RequestState
BY DEF Scanned, RequestState

\* A free slot is a request state, after an answer and after a crash.
LEMMA FreeSlotType == IdleRequest \in RequestState /\ DeadRequest \in RequestState
BY DEF IdleRequest, DeadRequest, At, Scanned, RequestState, Job

\* The initial rows and requests are well typed.
LEMMA InitTypeOK == Init => TypeOK
BY FreeSlotType DEF Init, TypeOK

\* Every handler keeps rows and requests well typed.
LEMMA NextTypeOK == TypeOK /\ RequestsWellFormed /\ [Next]_vars => TypeOK'
<1> SUFFICES ASSUME TypeOK, RequestsWellFormed, [Next]_vars PROVE TypeOK'
  OBVIOUS
<1> USE FreeSlotType DEF TypeOK, Finish
<1>1. ASSUME NEW s \in Session, SignIn(s) \/ Logout(s) \/ Expire(s) PROVE TypeOK'
  BY <1>1 DEF SignIn, Logout, Expire, Reason
<1>2. ASSUME NEW r \in Request, NEW s \in Session,
             RefreshReplay(r, s) \/ RefreshReject(r, s) \/ RefreshRead(r, s)
      PROVE  TypeOK'
  <2>1. /\ At("detected", "refresh", s, {}) \in RequestState
        /\ At("rotate", "refresh", s, {}) \in RequestState
    BY AtType DEF Job
  <2> QED
    BY <1>2, <2>1 DEF RefreshReplay, RefreshReject, RefreshRead
<1>3. ASSUME NEW r \in Request, NEW job \in SignOutJob, SignOutScan(r, job) PROVE TypeOK'
  <2>1. Scanned("revoke", job, None, {s \in Session : Unrevoked(s)}, {s \in Session : Exists(s)})
           \in RequestState
    BY ScannedType DEF Job
  <2> QED
    BY <1>3, <2>1 DEF SignOutScan
<1>4. ASSUME NEW r \in Request, NEW n \in Session, Rotate(r, n) PROVE TypeOK'
  <2>1. req[r].tok \in Session
    BY <1>4 DEF Rotate, RequestsWellFormed
  <2> QED
    BY <1>4, <2>1 DEF Rotate, Reason
<1>5. ASSUME NEW r \in Request, RotateLost(r) \/ FamilyScan(r) PROVE TypeOK'
  <2>1. req[r].tok \in Session
    BY <1>5 DEF RotateLost, FamilyScan, RequestsWellFormed
  <2>2. /\ At("detected", "refresh", req[r].tok, {}) \in RequestState
        /\ At("revoke", "refresh", req[r].tok, UnrevokedIn(family[req[r].tok])) \in RequestState
    BY <2>1, AtType DEF Job, UnrevokedIn
  <2> QED
    BY <1>5, <2>2 DEF RotateLost, FamilyScan
<1>6. ASSUME NEW r \in Request, Revoke(r) PROVE TypeOK'
  <2>1. ReasonOf(req[r].job) \in Reason
    BY DEF ReasonOf, Reason
  <2> QED
    BY <1>6, <2>1 DEF Revoke
<1>7. ASSUME NEW r \in Request, Abort(r) PROVE TypeOK'
  BY <1>7 DEF Abort
<1>8. CASE UNCHANGED vars
  BY <1>8 DEF vars
<1> QED
  BY <1>1, <1>2, <1>3, <1>4, <1>5, <1>6, <1>7, <1>8 DEF Next, Continue

-----------------------------------------------------------------------------
(* Steps that leave the lineage of every row alone                         *)

\* The steps of requests that write no row.
RequestStep ==
    /\ UNCHANGED <<status, family, replacedBy>>
    /\ \E r \in Request : \E q \in RequestState :
          /\ req' = [req EXCEPT ![r] = q]
          /\ \/ q.pc = "idle" /\ q.known = {}
             \/ /\ q.pc = "revoke" /\ q.job \in SignOutJob
                /\ q.cand = {s \in Session : Unrevoked(s)}
                /\ q.known = {s \in Session : Exists(s)}
             \/ /\ q.job = "refresh" /\ q.known = {}
                /\ q.tok \in Session /\ Exists(q.tok)
                /\ q.pc = "revoke" => q.cand = UnrevokedIn(family[q.tok])

\* An UPDATE that only revokes unrevoked rows or lets them expire.
Retire ==
    /\ UNCHANGED <<family, replacedBy>>
    /\ status' \in [Session -> {"absent", "valid", "expired"} \cup Reason]
    /\ \A s \in Session :
          \/ status'[s] = status[s]
          \/ Unrevoked(s) /\ status'[s] \notin {"absent", "ROTATED"}
    /\ \/ UNCHANGED req
       \/ \E r \in Request : req' = [req EXCEPT ![r] = IdleRequest]

\* Every step signs in, rotates, retires rows, or only moves a request.
LEMMA StepKinds ==
    ASSUME TypeOK, RequestsWellFormed, [Next]_vars
    PROVE  \/ \E s \in Session : SignIn(s)
           \/ \E r \in Request, n \in Session : Rotate(r, n)
           \/ Retire
           \/ RequestStep
           \/ UNCHANGED vars
<1> USE FreeSlotType DEF TypeOK
<1>1. ASSUME NEW s \in Session, Logout(s) \/ Expire(s) PROVE Retire
  BY <1>1 DEF Logout, Expire, Retire, Unrevoked, Reason
<1>2. ASSUME NEW r \in Request, NEW s \in Session,
             RefreshReplay(r, s) \/ RefreshRead(r, s)
      PROVE  RequestStep
  <2>1. /\ At("detected", "refresh", s, {}) \in RequestState
        /\ At("rotate", "refresh", s, {}) \in RequestState
    BY AtType DEF Job
  <2>2. PICK q \in RequestState :
           /\ req' = [req EXCEPT ![r] = q]
           /\ q.pc # "revoke" /\ q.job = "refresh" /\ q.tok = s /\ q.known = {}
    BY <1>2, <2>1 DEF RefreshReplay, RefreshRead, At, Scanned
  <2> QED
    BY <1>2, <2>2 DEF RefreshReplay, RefreshRead, RequestStep, Exists
<1>3. ASSUME NEW r \in Request, NEW s \in Session, RefreshReject(r, s) PROVE RequestStep
  <2>1. IdleRequest.pc = "idle" /\ IdleRequest.known = {}
    BY DEF IdleRequest, At, Scanned
  <2> QED
    BY <1>3, <2>1 DEF RefreshReject, Finish, RequestStep
<1>4. ASSUME NEW r \in Request, NEW job \in SignOutJob, SignOutScan(r, job) PROVE RequestStep
  <2>1. Scanned("revoke", job, None, {s \in Session : Unrevoked(s)}, {s \in Session : Exists(s)})
           \in RequestState
    BY ScannedType DEF Job
  <2>2. PICK q \in RequestState :
           /\ req' = [req EXCEPT ![r] = q] /\ q.pc = "revoke" /\ q.job = job
           /\ q.cand = {s \in Session : Unrevoked(s)} /\ q.known = {s \in Session : Exists(s)}
    BY <1>4, <2>1 DEF SignOutScan, Scanned
  <2> QED
    BY <1>4, <2>2 DEF SignOutScan, RequestStep
<1>5. ASSUME NEW r \in Request, RotateLost(r) \/ FamilyScan(r) PROVE RequestStep
  <2>1. req[r].tok \in Session /\ Exists(req[r].tok)
    BY <1>5 DEF RotateLost, FamilyScan, RequestsWellFormed
  <2>2. /\ At("detected", "refresh", req[r].tok, {}) \in RequestState
        /\ At("revoke", "refresh", req[r].tok, UnrevokedIn(family[req[r].tok])) \in RequestState
    BY <2>1, AtType DEF Job, UnrevokedIn
  <2>3. PICK q \in RequestState :
           /\ req' = [req EXCEPT ![r] = q]
           /\ q.job = "refresh" /\ q.tok = req[r].tok /\ q.known = {}
           /\ q.pc = "revoke" => q.cand = UnrevokedIn(family[req[r].tok])
    BY <1>5, <2>2 DEF RotateLost, FamilyScan, At, Scanned
  <2> QED
    BY <1>5, <2>1, <2>3 DEF RotateLost, FamilyScan, RequestStep
<1>6. ASSUME NEW r \in Request, Revoke(r) PROVE Retire
  <2>1. ReasonOf(req[r].job) \in Reason \ {"ROTATED"}
    BY DEF ReasonOf, Reason
  <2> QED
    BY <1>6, <2>1 DEF Revoke, Finish, Retire, Reason
<1>7. ASSUME NEW r \in Request, Abort(r) PROVE RequestStep
  <2>1. DeadRequest.pc = "idle" /\ DeadRequest.known = {}
    BY DEF DeadRequest
  <2> QED
    BY <1>7, <2>1 DEF Abort, RequestStep
<1> QED
  BY <1>1, <1>2, <1>3, <1>4, <1>5, <1>6, <1>7 DEF Next, Continue

-----------------------------------------------------------------------------
(* The inductive invariant                                                 *)

\* Nothing exists initially.
LEMMA InitIInv == Init => IInv
BY InitTypeOK, NoneAssumption DEF Init, IInv, RowsWellFormed, RequestsWellFormed,
   LinearFamily, SurvivorWasRotated, ResetSurvivorWasRotated, SignOutSurvivorIsNew, Exists,
   IdleRequest, At, Scanned

\* A sign-in adds a row that is alone in a family of its own.
LEMMA SignInKeepsIInv ==
    ASSUME IInv, NEW s \in Session, SignIn(s)
    PROVE  (RowsWellFormed /\ RequestsWellFormed /\ LinearFamily /\ SurvivorWasRotated
            /\ ResetSurvivorWasRotated /\ SignOutSurvivorIsNew)'
<1> USE NoneAssumption DEF IInv, TypeOK, Exists
<1>1. RowsWellFormed'
  BY DEF SignIn, RowsWellFormed
<1>2. RequestsWellFormed'
  BY DEF SignIn, RequestsWellFormed
<1>3. LinearFamily'
  BY DEF SignIn, RowsWellFormed, LinearFamily
<1>4. SurvivorWasRotated'
  BY DEF SignIn, RowsWellFormed, RequestsWellFormed, SurvivorWasRotated, RotatedSince, UnrevokedIn,
     Unrevoked, RequestState
<1>5. ResetSurvivorWasRotated'
  BY DEF SignIn, UserRowLocked, ResetSurvivorWasRotated, RotatedSince, Unrevoked, RequestState
<1>6. SignOutSurvivorIsNew'
  BY DEF SignIn, SignOutSurvivorIsNew, RequestsWellFormed, RotatedSince, Unrevoked, RequestState
<1> QED
  BY <1>1, <1>2, <1>3, <1>4, <1>5, <1>6

\* A rotation moves the end of the chain of one family on to a fresh row.
LEMMA RotateKeepsIInv ==
    ASSUME IInv, NEW r \in Request, NEW n \in Session, Rotate(r, n)
    PROVE  (RowsWellFormed /\ RequestsWellFormed /\ LinearFamily /\ SurvivorWasRotated
            /\ ResetSurvivorWasRotated /\ SignOutSurvivorIsNew)'
<1> USE NoneAssumption DEF IInv, TypeOK, Exists
<1> DEFINE t == req[r].tok
<1>1. /\ t \in Session /\ Unrevoked(t) /\ ~Exists(n) /\ t # n
      /\ family[t] \in Session /\ Exists(family[t]) /\ family[t] # n
      /\ replacedBy[t] = None
      /\ status' = [status EXCEPT ![n] = "valid", ![t] = "ROTATED"]
      /\ family' = [family EXCEPT ![n] = family[t]]
      /\ replacedBy' = [replacedBy EXCEPT ![t] = n]
      /\ req' = [req EXCEPT ![r] = IdleRequest]
  BY DEF Rotate, Finish, RequestsWellFormed, RowsWellFormed, LinearFamily, Unrevoked
<1>2. RowsWellFormed'
  BY <1>1 DEF RowsWellFormed, Unrevoked
<1>3. RequestsWellFormed'
  BY <1>1 DEF RequestsWellFormed, IdleRequest, At, Scanned, Unrevoked, RequestState
<1>4. LinearFamily'
  <2>1. \A a, b \in Session : (Exists(a) /\ Exists(b) /\ family[a] = family[b]
                               /\ status[a] # "ROTATED" /\ status[b] # "ROTATED" => a = b)'
    BY <1>1 DEF LinearFamily, Unrevoked
  <2>2. \A a \in Session : (Exists(a) /\ family[a] # a => \E p \in Session : replacedBy[p] = a)'
    BY <1>1 DEF LinearFamily, Unrevoked
  <2>3. \A p, q \in Session : (replacedBy[p] # None /\ replacedBy[p] = replacedBy[q] => p = q)'
    BY <1>1 DEF LinearFamily
  <2>4. \A p \in Session : (replacedBy[p] # None =>
            /\ status[p] = "ROTATED"
            /\ Exists(replacedBy[p])
            /\ family[replacedBy[p]] = family[p]
            /\ replacedBy[p] # family[p])'
    BY <1>1 DEF LinearFamily, Unrevoked
  <2> QED
    BY <2>1, <2>2, <2>3, <2>4 DEF LinearFamily
<1>5. SurvivorWasRotated'
  <2> SUFFICES ASSUME NEW q \in Request, req'[q].pc = "revoke", req'[q].job = "refresh",
                      NEW s \in Session, Unrevoked(s)', family'[s] = family'[req'[q].tok]
               PROVE  s \in req'[q].cand
                      \/ \E c \in req'[q].cand : status'[c] = "ROTATED" /\ family'[c] = family'[s]
    BY DEF SurvivorWasRotated, RotatedSince, UnrevokedIn
  <2>1. /\ q # r /\ req'[q] = req[q] /\ req[q].tok \in Session /\ Exists(req[q].tok)
        /\ req[q].tok # n /\ req[q].cand \in SUBSET Session
    BY <1>1 DEF IdleRequest, At, Scanned, RequestsWellFormed, RequestState
  <2>2. CASE s = n
    <3>1. t \in req[q].cand \/ \E c \in req[q].cand : status[c] = "ROTATED" /\ family[c] = family[t]
      BY <1>1, <2>1, <2>2 DEF SurvivorWasRotated, RotatedSince, UnrevokedIn
    <3> QED
      BY <1>1, <2>1, <2>2, <3>1
  <2>3. CASE s # n
    <3>1. Unrevoked(s) /\ family[s] = family[req[q].tok]
      BY <1>1, <2>1, <2>3 DEF Unrevoked
    <3>2. s \in req[q].cand \/ \E c \in req[q].cand : status[c] = "ROTATED" /\ family[c] = family[s]
      BY <2>1, <3>1 DEF SurvivorWasRotated, RotatedSince, UnrevokedIn
    <3> QED
      BY <1>1, <2>1, <2>3, <3>2
  <2> QED
    BY <2>2, <2>3
<1>6. ResetSurvivorWasRotated'
  <2> SUFFICES ASSUME NEW q \in Request, req'[q].pc = "revoke", req'[q].job = "resetPassword",
                      NEW s \in Session, Unrevoked(s)'
               PROVE  s \in req'[q].cand
                      \/ \E c \in req'[q].cand : status'[c] = "ROTATED" /\ family'[c] = family'[s]
    BY DEF ResetSurvivorWasRotated, RotatedSince
  <2>1. q # r /\ req'[q] = req[q] /\ req[q].cand \in SUBSET Session
    BY <1>1 DEF IdleRequest, At, Scanned, RequestState
  <2>2. CASE s = n
    <3>1. t \in req[q].cand \/ \E c \in req[q].cand : status[c] = "ROTATED" /\ family[c] = family[t]
      BY <1>1, <2>1 DEF ResetSurvivorWasRotated, RotatedSince
    <3> QED
      BY <1>1, <2>1, <2>2, <3>1
  <2>3. CASE s # n
    <3>1. s \in req[q].cand \/ \E c \in req[q].cand : status[c] = "ROTATED" /\ family[c] = family[s]
      BY <1>1, <2>1, <2>3 DEF ResetSurvivorWasRotated, RotatedSince, Unrevoked
    <3> QED
      BY <1>1, <2>1, <2>3, <3>1
  <2> QED
    BY <2>2, <2>3
<1>7. SignOutSurvivorIsNew'
  <2> SUFFICES ASSUME NEW q \in Request, req'[q].pc = "revoke",
                      req'[q].job \in {"logoutAll", "confirmTwoFactor"},
                      NEW s \in Session, Unrevoked(s)'
               PROVE  \/ s \in req'[q].cand
                      \/ \E c \in req'[q].cand : status'[c] = "ROTATED" /\ family'[c] = family'[s]
                      \/ family'[s] \notin req'[q].known
    BY DEF SignOutSurvivorIsNew, RotatedSince
  <2>1. q # r /\ req'[q] = req[q] /\ req[q].cand \in SUBSET Session
    BY <1>1 DEF IdleRequest, At, Scanned, RequestState
  <2> DEFINE Old(x) == \/ x \in req[q].cand
                       \/ \E c \in req[q].cand : status[c] = "ROTATED" /\ family[c] = family[x]
                       \/ family[x] \notin req[q].known
  <2>2. \A x \in Session : Unrevoked(x) => Old(x)
    BY <2>1 DEF SignOutSurvivorIsNew, RotatedSince
  <2>3. CASE s = n
    <3>1. Old(t)
      BY <1>1, <2>2
    <3> QED
      BY <1>1, <2>1, <2>3, <3>1
  <2>4. CASE s # n
    <3>1. Old(s)
      BY <1>1, <2>1, <2>2, <2>4 DEF Unrevoked
    <3> QED
      BY <1>1, <2>1, <2>4, <3>1
  <2> QED
    BY <2>3, <2>4
<1> QED
  BY <1>2, <1>3, <1>4, <1>5, <1>6, <1>7

\* Retiring rows shortens no chain and frees no row.
LEMMA RetireKeepsIInv ==
    ASSUME IInv, Retire
    PROVE  (RowsWellFormed /\ RequestsWellFormed /\ LinearFamily /\ SurvivorWasRotated
            /\ ResetSurvivorWasRotated /\ SignOutSurvivorIsNew)'
<1> USE DEF IInv, TypeOK, Exists, Unrevoked
<1>1. \A r \in Request : req'[r] = req[r] \/ (req'[r].pc = "idle" /\ req'[r].known = {})
  BY DEF Retire, IdleRequest, At, Scanned
<1>2. RowsWellFormed'
  BY DEF Retire, RowsWellFormed
<1>3. RequestsWellFormed'
  <2>1. \A s \in Session : Exists(s) => Exists(s)'
    BY DEF Retire
  <2> QED
    BY <1>1, <2>1 DEF Retire, RequestsWellFormed, RequestState
<1>4. LinearFamily'
  BY NoneAssumption DEF Retire, LinearFamily
<1>5. SurvivorWasRotated'
  <2>1. \A s \in Session : Unrevoked(s)' => Unrevoked(s)
    BY DEF Retire
  <2>2. \A s \in Session : status[s] = "ROTATED" => status'[s] = "ROTATED"
    BY DEF Retire
  <2> QED
    BY <1>1, <2>1, <2>2 DEF Retire, SurvivorWasRotated, RotatedSince, UnrevokedIn, RequestState
<1>6. ResetSurvivorWasRotated'
  <2>1. \A s \in Session : Unrevoked(s)' => Unrevoked(s)
    BY DEF Retire
  <2>2. \A s \in Session : status[s] = "ROTATED" => status'[s] = "ROTATED"
    BY DEF Retire
  <2> QED
    BY <1>1, <2>1, <2>2 DEF Retire, ResetSurvivorWasRotated, RotatedSince, RequestState
<1>7. SignOutSurvivorIsNew'
  <2>1. \A s \in Session : Unrevoked(s)' => Unrevoked(s)
    BY DEF Retire
  <2>2. \A s \in Session : status[s] = "ROTATED" => status'[s] = "ROTATED"
    BY DEF Retire
  <2> QED
    BY <1>1, <2>1, <2>2 DEF Retire, SignOutSurvivorIsNew, RotatedSince, RequestState
<1> QED
  BY <1>2, <1>3, <1>4, <1>5, <1>6, <1>7

\* A request that writes no row only remembers rows that exist.
LEMMA RequestStepKeepsIInv ==
    ASSUME IInv, RequestStep
    PROVE  (RowsWellFormed /\ RequestsWellFormed /\ LinearFamily /\ SurvivorWasRotated
            /\ ResetSurvivorWasRotated /\ SignOutSurvivorIsNew)'
<1> USE DEF IInv, TypeOK, Exists
<1>1. PICK r \in Request, q \in RequestState :
         /\ req' = [req EXCEPT ![r] = q]
         /\ \/ q.pc = "idle" /\ q.known = {}
            \/ /\ q.pc = "revoke" /\ q.job \in SignOutJob
               /\ q.cand = {s \in Session : Unrevoked(s)}
               /\ q.known = {s \in Session : Exists(s)}
            \/ /\ q.job = "refresh" /\ q.known = {}
               /\ q.tok \in Session /\ Exists(q.tok)
               /\ q.pc = "revoke" => q.cand = UnrevokedIn(family[q.tok])
  BY DEF RequestStep
<1>2. RowsWellFormed' /\ LinearFamily'
  BY DEF RequestStep, RowsWellFormed, LinearFamily
<1>3. RequestsWellFormed'
  BY <1>1 DEF RequestStep, RequestsWellFormed, SignOutJob
<1>4. SurvivorWasRotated'
  BY <1>1 DEF RequestStep, SurvivorWasRotated, RotatedSince, UnrevokedIn, Unrevoked, SignOutJob
<1>5. ResetSurvivorWasRotated'
  BY <1>1 DEF RequestStep, ResetSurvivorWasRotated, RotatedSince, Unrevoked, SignOutJob
<1>6. SignOutSurvivorIsNew'
  BY <1>1 DEF RequestStep, SignOutSurvivorIsNew, RotatedSince, Unrevoked, SignOutJob
<1> QED
  BY <1>2, <1>3, <1>4, <1>5, <1>6

\* IInv is inductive.
LEMMA NextIInv == IInv /\ [Next]_vars => IInv'
<1> SUFFICES ASSUME IInv, [Next]_vars PROVE IInv'
  OBVIOUS
<1>1. TypeOK'
  BY NextTypeOK DEF IInv
<1>2. (RowsWellFormed /\ RequestsWellFormed /\ LinearFamily /\ SurvivorWasRotated
            /\ ResetSurvivorWasRotated /\ SignOutSurvivorIsNew)'
  <2>1. CASE UNCHANGED vars
    BY <2>1 DEF vars, IInv, RowsWellFormed, RequestsWellFormed, LinearFamily,
       SurvivorWasRotated, ResetSurvivorWasRotated, SignOutSurvivorIsNew, RotatedSince,
       UnrevokedIn, Unrevoked, Exists
  <2> QED
    BY <2>1, StepKinds, SignInKeepsIInv, RotateKeepsIInv, RetireKeepsIInv,
       RequestStepKeepsIInv DEF IInv
<1> QED
  BY <1>1, <1>2 DEF IInv

-----------------------------------------------------------------------------
(* Theorems                                                                *)

\* The inductive invariant holds in every reachable state.
LEMMA IInvHolds == Spec => []IInv
BY InitIInv, NextIInv, PTL DEF Spec

\* Rows and requests always hold values the code can write.
THEOREM TypeCorrect == Spec => []TypeOK
<1>1. IInv => TypeOK
  BY DEF IInv
<1> QED
  BY <1>1, IInvHolds, PTL

\* However refreshes, replays and revocations interleave, a token family is
\* one chain with one end: refresh never leaves two usable sessions in it.
THEOREM FamilyStaysLinear == Spec => []LinearFamily
<1>1. IInv => LinearFamily
  BY DEF IInv
<1> QED
  BY <1>1, IInvHolds, PTL

\* revokeTokenFamily and a password reset miss only a session that a rotation put in the place
\* of one they had scanned; logout everywhere and the confirmation of a second factor, which do
\* not lock the user, also miss the sign-ins that came after their scan.
THEOREM NewcomersAloneEscape == Spec => []OnlyNewcomersEscape
<1>1. IInv => OnlyNewcomersEscape
  BY DEF IInv, OnlyNewcomersEscape
<1> QED
  BY <1>1, IInvHolds, PTL

\* No step un-revokes a row or rewrites its reason or its replacement.
THEOREM RevocationStaysFinal == Spec => RevocationIsFinal
<1>1. IInv /\ [Next]_vars =>
         [\A s \in Session : status[s] \in Reason =>
             status'[s] = status[s] /\ replacedBy'[s] = replacedBy[s]]_vars
  <2> SUFFICES ASSUME IInv, [Next]_vars, NEW s \in Session, status[s] \in Reason
               PROVE  status'[s] = status[s] /\ replacedBy'[s] = replacedBy[s]
    OBVIOUS
  <2> USE DEF IInv, TypeOK, Exists, Unrevoked, Reason
  <2>1. ASSUME NEW t \in Session, SignIn(t)
        PROVE  status'[s] = status[s] /\ replacedBy'[s] = replacedBy[s]
    BY <2>1 DEF SignIn
  <2>2. ASSUME NEW r \in Request, NEW n \in Session, Rotate(r, n)
        PROVE  status'[s] = status[s] /\ replacedBy'[s] = replacedBy[s]
    BY <2>2 DEF Rotate, RequestsWellFormed
  <2>3. CASE Retire
    BY <2>3 DEF Retire
  <2>4. CASE RequestStep \/ UNCHANGED vars
    BY <2>4 DEF RequestStep, vars
  <2> QED
    BY <2>1, <2>2, <2>3, <2>4, StepKinds
<1> QED
  BY <1>1, IInvHolds, PTL DEF Spec, RevocationIsFinal

\* The sessions table implements the baton specification: a family is opened
\* by a sign-in, handed on by one rotation at a time, and dropped for good.
THEOREM RotationImplementsBaton == Spec => RotationIsABaton
<1>1. Init => Family!Init
  BY DEF Init, Family!Init, UnrevokedIn, Unrevoked, Exists
<1>2. IInv /\ [Next]_vars => [Family!Next]_(Family!vars)
  <2> SUFFICES ASSUME IInv, [Next]_vars
               PROVE  Family!Next \/ UNCHANGED Family!vars
    OBVIOUS
  <2> USE DEF IInv, TypeOK, Exists, Unrevoked
  <2> DEFINE baton == [f \in Session |-> UnrevokedIn(f)]
             issued == {s \in Session : Exists(s)}
  <2>1. ASSUME NEW s \in Session, SignIn(s) PROVE Family!Next
    <3>1. s \notin issued /\ issued' = issued \cup {s}
      BY <2>1 DEF SignIn
    <3>2. \A f \in Session : UnrevokedIn(f)' = IF f = s THEN {s} ELSE UnrevokedIn(f)
      BY <2>1 DEF SignIn, UnrevokedIn, RowsWellFormed
    <3>3. baton' = [baton EXCEPT ![s] = {s}]
      BY <3>2
    <3> QED
      BY <3>1, <3>3 DEF Family!Next, Family!Open
  <2>2. ASSUME NEW r \in Request, NEW n \in Session, Rotate(r, n) PROVE Family!Next
    <3> DEFINE t == req[r].tok
               g == family[t]
    <3>1. t \in Session /\ g \in Session /\ t # n /\ ~Exists(n) /\ Unrevoked(t)
      BY <2>2 DEF Rotate, RequestsWellFormed, RowsWellFormed
    <3>2. n \notin issued /\ issued' = issued \cup {n}
      BY <2>2, <3>1 DEF Rotate
    <3>3. UnrevokedIn(g) = {t}
      BY <3>1 DEF UnrevokedIn, LinearFamily
    <3>4. \A f \in Session : UnrevokedIn(f)' = IF f = g THEN {n} ELSE UnrevokedIn(f)
      <4> SUFFICES ASSUME NEW f \in Session, NEW x \in Session
                   PROVE  x \in UnrevokedIn(f)' <=> x \in (IF f = g THEN {n} ELSE UnrevokedIn(f))
        BY DEF UnrevokedIn
      <4>1. x \in UnrevokedIn(f)' <=> Unrevoked(x)' /\ family'[x] = f
        BY DEF UnrevokedIn
      <4>2. x \in UnrevokedIn(f) <=> Unrevoked(x) /\ family[x] = f
        BY DEF UnrevokedIn
      <4>3. CASE x = n
        BY <2>2, <3>1, <4>1, <4>2, <4>3, NoneAssumption DEF Rotate, RowsWellFormed
      <4>4. CASE x # n
        <5>1. family'[x] = family[x] /\ (Unrevoked(x)' <=> Unrevoked(x) /\ x # t)
          BY <2>2, <3>1, <4>4 DEF Rotate
        <5>2. x = t \/ ~(Unrevoked(x) /\ family[x] = g)
          BY <3>3 DEF UnrevokedIn
        <5> QED
          BY <3>1, <4>1, <4>2, <4>4, <5>1, <5>2
      <4> QED
        BY <4>3, <4>4
    <3>5. baton' = [baton EXCEPT ![g] = {n}] /\ baton[g] = {t}
      BY <3>1, <3>3, <3>4
    <3>6. Family!Pass(g, t, n)
      BY <3>2, <3>5 DEF Family!Pass
    <3> QED
      BY <3>1, <3>6 DEF Family!Next
  <2>3. CASE Retire
    <3> DEFINE F == {f \in Session : UnrevokedIn(f)' = {}}
    <3>1. issued' = issued
      BY <2>3 DEF Retire
    <3>2. \A f \in Session : UnrevokedIn(f)' = UnrevokedIn(f) \/ UnrevokedIn(f)' = {}
      <4>1. \A f \in Session : UnrevokedIn(f)' \subseteq UnrevokedIn(f)
        BY <2>3 DEF Retire, UnrevokedIn
      <4>2. \A f, x, y \in Session : x \in UnrevokedIn(f) /\ y \in UnrevokedIn(f) => x = y
        BY DEF UnrevokedIn, LinearFamily
      <4>3. \A f \in Session : UnrevokedIn(f) \subseteq Session
        BY DEF UnrevokedIn
      <4> SUFFICES ASSUME NEW f \in Session, UnrevokedIn(f)' # {}
                   PROVE  UnrevokedIn(f)' = UnrevokedIn(f)
        OBVIOUS
      <4>4. PICK x \in UnrevokedIn(f)' : TRUE
        OBVIOUS
      <4>5. \A y \in UnrevokedIn(f) : y = x
        BY <4>1, <4>2, <4>3, <4>4
      <4> QED
        BY <4>1, <4>4, <4>5
    <3>3. baton' = [f \in Session |-> IF f \in F THEN {} ELSE baton[f]]
      BY <3>2
    <3> QED
      BY <3>1, <3>3 DEF Family!Next, Family!Drop
  <2>4. CASE RequestStep \/ UNCHANGED vars
    <3>1. status' = status /\ family' = family
      BY <2>4 DEF RequestStep, vars
    <3> QED
      BY <3>1 DEF Family!vars, UnrevokedIn
  <2> QED
    BY <2>1, <2>2, <2>3, <2>4, StepKinds
<1> QED
  BY <1>1, <1>2, IInvHolds, PTL DEF Spec, RotationIsABaton, Family!Spec

-----------------------------------------------------------------------------
(* The pages of a browser: BrowserSession                                  *)

CONSTANT Page
VARIABLES cookie, page, busy, call, haze

Web == INSTANCE BrowserSession

\* No call failed, and none met the work of another page.
Clear == haze \cap {"others", "failure"} = {}
\* Nor did one meet the work of its own page.
Quiet == haze = {}

\* The page of the call of r waits for its answer; the call may bring a new token.
Live(r) == call[r].phase \in {"sent", "serving", "answered"}
Refreshing(r) == call[r].kind \in Web!RefreshKind /\ Live(r)
\* The answer of r brings the token that replaced the one in the cookie.
Renews(r) ==
    Refreshing(r) /\ call[r].phase = "answered" /\ call[r].answer = "ok" /\ call[r].tok = cookie
\* Session s has not ended.
Valid(s) == status[s] = "valid"

\* A handler runs for the call that it serves.
HandlerServes(r) ==
    /\ Web!UnderWay(r) <=> call[r].phase # "none"
    /\ Web!UnderWay(r) => call[r].page \in Page /\ call[r].kind # "none"
    /\ req[r].pc # "idle" => call[r].phase \in {"serving", "abandoned"}
    /\ call[r].phase = "serving" => req[r].pc # "idle"
    /\ req[r].pc # "idle" =>
          \/ /\ call[r].kind \in Web!RefreshKind /\ req[r].job = "refresh"
             /\ req[r].tok = call[r].tok /\ call[r].tok # None
          \/ call[r].kind = "logoutAll" /\ req[r].job = "logoutAll" /\ req[r].pc = "revoke"
    /\ call[r].phase # "answered" => call[r].got = None
    /\ call[r].got # None => call[r].answer = "ok"
    /\ call[r].phase = "answered" /\ call[r].kind \in Web!RefreshKind =>
          call[r].answer # "ok" \/ call[r].got # None

\* Every handler runs for a call.
HandlersServeCalls == \A r \in Request : HandlerServes(r)

\* The cookie and the tokens of calls are of sessions that exist.
TokensExist ==
    /\ cookie # None => Web!Server!Exists(cookie)
    /\ \A r \in Request : /\ call[r].tok # None => Web!Server!Exists(call[r].tok)
                          /\ call[r].got # None => Web!Server!Exists(call[r].got)

\* A closed page makes no calls and waits for none.
PagesAreSound ==
    \A p \in Page :
        /\ page[p] = "closed" => p \notin busy
        /\ page[p] = "closed" => \A r \in Request : call[r].page = p => call[r].phase = "abandoned"

\* refreshPromise and restorePromise: unless a call met the page's own work, a page has one call
\* under way, and none that refreshes once it is signed out.
OneCallOfPage ==
    "own" \notin haze =>
        /\ \A r, q \in Request : Web!UnderWay(r) /\ Web!UnderWay(q) /\ call[r].page = call[q].page =>
              r = q
        /\ \A r \in Request : Refreshing(r) => page[call[r].page] # "unauthenticated"

\* Unless something failed or pages met: one page has calls under way, and nobody has given up a
\* call.  A page that is restoring made no API calls yet; it may sign in meanwhile.  And no two
\* calls that refresh have the same token: a restoration that a sign-in left behind has not the
\* token of the cookie.
OnePageCalls ==
    Clear =>
        /\ \A r \in Request : call[r].phase # "abandoned" /\ call[r].answer # "error"
        /\ \A r, q \in Request : Web!UnderWay(r) /\ Web!UnderWay(q) => call[r].page = call[q].page
        /\ \A p \in Page : page[p] # "error"
        /\ \A p \in Page : page[p] = "restoring" => p \notin busy
        /\ \A p \in Page : page[p] = "authenticated" => p \in busy
        /\ \A r \in Request : Web!UnderWay(r) /\ call[r].kind \notin {"restore", "signin"} =>
              call[r].page \in busy
        /\ \A r \in Request : call[r].kind = "restore" /\ call[r].tok # None /\ call[r].tok = cookie =>
              page[call[r].page] = "restoring"
        /\ \A r, q \in Request : Refreshing(r) /\ Refreshing(q) /\ r # q =>
              call[r].kind # call[q].kind /\ (call[r].tok # call[q].tok \/ call[r].tok = None)

\* Then a rotated token is in the cookie only until the answer to its rotation arrives, nobody is
\* about to use one, and the token of an answer is known to that answer alone.
TokenUsedOnce ==
    Clear =>
        /\ cookie # None /\ status[cookie] = "ROTATED" =>
              \E r \in Request : Renews(r)
        /\ \A r \in Request : Refreshing(r) /\ call[r].tok # None /\ call[r].phase # "answered" =>
              status[call[r].tok] # "ROTATED"
        /\ \A r \in Request : call[r].got # None =>
              /\ status[call[r].got] # "ROTATED" /\ cookie # call[r].got
              /\ \A q \in Request : call[q].tok # call[r].got
                   /\ (call[q].got = call[r].got => q = r)

\* So no reuse is detected that would find a session to revoke.
ReuseFindsNothing ==
    Clear =>
        /\ \A r \in Request : req[r].job = "refresh" =>
              /\ req[r].pc = "detected" => ~Web!Server!Unrevoked(req[r].tok)
              /\ req[r].pc = "revoke" => req[r].cand = {}
        /\ \A s \in Session : status[s] # "REUSE_DETECTED"

\* And if no call met the page's own work either, the only valid session is the one in the
\* cookie, or in the answer that is on its way to it.
CookieIsSession ==
    Quiet =>
        /\ \A r, q \in Request : Web!UnderWay(r) /\ Web!UnderWay(q) => r = q
        /\ (\A r \in Request : call[r].phase # "answered" \/ call[r].answer # "ok") =>
              \A s \in Session : Valid(s) => s = cookie
        /\ \A r \in Request :
              /\ call[r].phase \in {"sent", "serving"} => cookie \in {call[r].tok, None}
              /\ call[r].kind = "signin" => call[r].tok = None
              /\ call[r].phase = "answered" /\ call[r].answer = "ok" =>
                    \A s \in Session : Valid(s) => s = call[r].got
              /\ req[r].pc # "idle" /\ req[r].job = "logoutAll" =>
                    \A s \in Session : Valid(s) => s \in req[r].cand

\* The inductive invariant, with that of the server.
BrowserInv ==
    /\ IInv /\ Web!TypeOK /\ HandlersServeCalls /\ TokensExist /\ PagesAreSound
    /\ OneCallOfPage /\ OnePageCalls /\ TokenUsedOnce /\ ReuseFindsNothing /\ CookieIsSession

-----------------------------------------------------------------------------
(* Browser: calls                                                          *)

\* What is known of a call.
CallType == [page : Page \cup {None}, kind : Web!CallKind \cup {"none"}, tok : Session \cup {None},
             phase : {"none", "sent", "serving", "answered", "abandoned"},
             answer : {"none", "ok", "401", "error"}, got : Session \cup {None}]

\* A call of a page is a call, and no call is none.
LEMMA CallIsTyped ==
    ASSUME NEW p \in Page \cup {None}, NEW kind \in Web!CallKind \cup {"none"},
           NEW tok \in Session \cup {None},
           NEW phase \in {"none", "sent", "serving", "answered", "abandoned"},
           NEW answer \in {"none", "ok", "401", "error"}, NEW got \in Session \cup {None}
    PROVE  LET c == Web!Call(p, kind, tok, phase, answer, got)
           IN  /\ c \in CallType
               /\ c.page = p /\ c.kind = kind /\ c.tok = tok /\ c.phase = phase /\ c.answer = answer
               /\ c.got = got
               /\ phase # "none" => c # Web!NoCall
BY DEF Web!Call, CallType, Web!NoCall

\* What there is where there is no call.
LEMMA NoCallIsTyped ==
    /\ Web!NoCall \in CallType
    /\ Web!NoCall.page = None /\ Web!NoCall.kind = "none" /\ Web!NoCall.tok = None
         /\ Web!NoCall.phase = "none"
    /\ Web!NoCall.answer = "none" /\ Web!NoCall.got = None
BY DEF Web!Call, CallType, Web!NoCall

\* The call of r becomes c, and the other calls are as they were.
CallBecomes(r, c) ==
    /\ call' \in [Request -> CallType] /\ call'[r] = c
    /\ \A q \in Request : q # r => call'[q] = call[q]

\* An answer is kept for the page that waits for it.
LEMMA AnswerIsKept ==
    ASSUME Web!TypeOK, NEW r \in Request, NEW answer \in {"ok", "401", "error"},
           NEW got \in Session \cup {None}, Web!Answer(r, answer, got)
    PROVE  \E c \in CallType :
              /\ CallBecomes(r, c)
              /\ call[r].phase = "abandoned" => c = Web!NoCall
              /\ call[r].phase # "abandoned" =>
                    /\ c.page = call[r].page /\ c.kind = call[r].kind /\ c.tok = call[r].tok
                    /\ c.phase = "answered" /\ c.answer = answer /\ c.got = got /\ c # Web!NoCall
<1>1. call \in [Request -> CallType]
  BY DEF Web!TypeOK, CallType
<1> DEFINE c == IF call[r].phase = "abandoned" THEN Web!NoCall
                ELSE Web!Call(call[r].page, call[r].kind, call[r].tok, "answered", answer, got)
<1>2. /\ c \in CallType
      /\ call[r].phase = "abandoned" => c = Web!NoCall
      /\ call[r].phase # "abandoned" =>
            /\ c.page = call[r].page /\ c.kind = call[r].kind /\ c.tok = call[r].tok
            /\ c.phase = "answered" /\ c.answer = answer /\ c.got = got /\ c # Web!NoCall
  <2>1. /\ call[r].page \in Page \cup {None} /\ call[r].kind \in Web!CallKind \cup {"none"}
        /\ call[r].tok \in Session \cup {None}
    BY <1>1 DEF CallType
  <2>2. CASE call[r].phase = "abandoned"
    BY <2>2, NoCallIsTyped
  <2>3. CASE call[r].phase # "abandoned"
    <3>1. c = Web!Call(call[r].page, call[r].kind, call[r].tok, "answered", answer, got)
      BY <2>3
    <3> QED  BY <2>1, <2>3, <3>1 DEF Web!Call, CallType, Web!NoCall
  <2> QED  BY <2>2, <2>3
<1>3. call' = [call EXCEPT ![r] = c]
  BY DEF Web!Answer
<1> HIDE DEF c
<1>4. CallBecomes(r, c)
  BY <1>1, <1>2, <1>3 DEF CallBecomes
<1> QED  BY <1>2, <1>4

\* A handler has started for the call of r.
LEMMA ServingIsKept ==
    ASSUME Web!TypeOK, NEW r \in Request, Web!Serving(r), call[r] # Web!NoCall
    PROVE  \E c \in CallType :
              /\ CallBecomes(r, c)
              /\ c.page = call[r].page /\ c.kind = call[r].kind /\ c.tok = call[r].tok
              /\ c.phase = "serving" /\ c.answer = call[r].answer /\ c.got = call[r].got
                   /\ c # Web!NoCall
<1>1. call \in [Request -> CallType]
  BY DEF Web!TypeOK, CallType
<1> DEFINE c == [call[r] EXCEPT !.phase = "serving"]
<1>2. /\ c \in CallType /\ c.page = call[r].page /\ c.kind = call[r].kind /\ c.tok = call[r].tok
      /\ c.phase = "serving" /\ c.answer = call[r].answer /\ c.got = call[r].got
  BY <1>1 DEF CallType
<1>3. c # Web!NoCall
  BY <1>2, NoCallIsTyped
<1>4. call' = [call EXCEPT ![r] = c]
  BY DEF Web!Serving
<1> HIDE DEF c
<1>5. CallBecomes(r, c)
  BY <1>1, <1>2, <1>4 DEF CallBecomes
<1> QED  BY <1>2, <1>3, <1>5

\* A call is sent: what is known if it did not blur the history.
LEMMA SendIsKept ==
    ASSUME Web!TypeOK, NEW p \in Page, NEW r \in Request, NEW kind \in Web!CallKind,
           Web!Send(p, r, kind)
    PROVE  /\ \E c \in CallType :
                 /\ CallBecomes(r, c) /\ c # Web!NoCall
                 /\ c.page = p /\ c.kind = kind /\ c.tok = cookie
                 /\ c.phase = "sent" /\ c.answer = "none" /\ c.got = None
           /\ call[r] = Web!NoCall
           /\ haze \subseteq haze' /\ haze' \subseteq Web!Haze
           /\ "others" \notin haze' => /\ \A q \in Request : Web!UnderWay(q) => call[q].page = p
                                       /\ kind = "signin" => cookie = None
           /\ "own" \notin haze' => /\ \A q \in Request : Web!UnderWay(q) => call[q].page # p
                                    /\ kind = "refresh" => page[p] = "authenticated"
<1>1. call \in [Request -> CallType] /\ cookie \in Session \cup {None} /\ haze \subseteq Web!Haze
  BY DEF Web!TypeOK, CallType
<1> DEFINE c == Web!Call(p, kind, cookie, "sent", "none", None)
<1>2. /\ c \in CallType /\ c # Web!NoCall /\ c.page = p /\ c.kind = kind /\ c.tok = cookie
      /\ c.phase = "sent" /\ c.answer = "none" /\ c.got = None
  BY <1>1, CallIsTyped
<1>3. call' = [call EXCEPT ![r] = c] /\ call[r] = Web!NoCall
        /\ haze' = haze \cup Web!HazeOf(p, kind)
  BY DEF Web!Send, Web!UnderWay
<1> HIDE DEF c
<1>4. CallBecomes(r, c)
  BY <1>1, <1>2, <1>3 DEF CallBecomes
<1>5. haze \subseteq haze' /\ haze' \subseteq Web!Haze
  BY <1>1, <1>3 DEF Web!HazeOf
<1>6. "others" \notin haze' => "others" \notin Web!HazeOf(p, kind)
  BY <1>3
<1>7. "own" \notin haze' => "own" \notin Web!HazeOf(p, kind)
  BY <1>3
<1> QED  BY <1>2, <1>3, <1>4, <1>5 DEF Web!HazeOf, Web!Haze

-----------------------------------------------------------------------------
(* Browser: the server                                                     *)

\* What a handler does for a call is a step of SessionRotation: to one session,
LEMMA SessionStepIsRotation ==
    ASSUME NEW s \in Session, Web!Server!SignIn(s) \/ Web!Server!Logout(s) \/ Web!Server!Expire(s)
    PROVE  Next
<1>1. SignIn(s) \/ Logout(s) \/ Expire(s)
  BY DEF Web!Server!SignIn, Web!Server!Logout, Web!Server!Expire, Web!Server!Exists,
     Web!Server!Unrevoked, Web!Server!UserRowLocked, SignIn, Logout, Expire, Exists, Unrevoked,
     UserRowLocked
<1> QED  BY <1>1 DEF Next

\* of a refresh that begins or rotates,
LEMMA RefreshStepIsRotation ==
    ASSUME NEW r \in Request, NEW s \in Session,
           \/ Web!Server!RefreshReplay(r, s) \/ Web!Server!RefreshReject(r, s)
                \/ Web!Server!RefreshRead(r, s)
           \/ Web!Server!Rotate(r, s)
    PROVE  Next
<1>1. CASE Web!Server!RefreshReplay(r, s) \/ Web!Server!RefreshReject(r, s)
             \/ Web!Server!RefreshRead(r, s)
  <2>1. RefreshReplay(r, s) \/ RefreshReject(r, s) \/ RefreshRead(r, s)
    BY <1>1 DEF Web!Server!RefreshReplay, Web!Server!RefreshReject, Web!Server!RefreshRead,
       Web!Server!Finish, Web!Server!At, Web!Server!Scanned, Web!Server!IdleRequest, RefreshReplay,
       RefreshReject,
       RefreshRead, Finish, At, Scanned, IdleRequest
  <2> QED  BY <2>1 DEF Next
<1>2. CASE Web!Server!Rotate(r, s)
  <2>1. Rotate(r, s)
    BY <1>2 DEF Web!Server!Rotate, Web!Server!Finish, Web!Server!At, Web!Server!Scanned,
       Web!Server!IdleRequest,
       Web!Server!Exists, Web!Server!Unrevoked, Rotate, Finish, At, Scanned, IdleRequest, Exists,
       Unrevoked
  <2> QED  BY <2>1 DEF Next, Continue
<1> QED  BY <1>1, <1>2

\* or of a handler that loses its rotation, scans or revokes.
LEMMA RequestStepIsRotation ==
    ASSUME NEW r \in Request,
           \/ Web!Server!SignOutScan(r, "logoutAll") \/ Web!Server!RotateLost(r)
                \/ Web!Server!FamilyScan(r)
           \/ Web!Server!Revoke(r)
    PROVE  Next
<1>1. CASE Web!Server!SignOutScan(r, "logoutAll")
  <2>1. SignOutScan(r, "logoutAll")
    BY <1>1 DEF Web!Server!SignOutScan, Web!Server!Scanned, Web!Server!Unrevoked, Web!Server!Exists,
       SignOutScan, Scanned, Unrevoked, Exists
  <2> QED  BY <2>1 DEF Next, SignOutJob
<1>2. CASE Web!Server!RotateLost(r) \/ Web!Server!FamilyScan(r)
  <2>1. RotateLost(r) \/ FamilyScan(r)
    BY <1>2 DEF Web!Server!RotateLost, Web!Server!FamilyScan, Web!Server!At, Web!Server!Scanned,
       Web!Server!Unrevoked,
       Web!Server!UnrevokedIn, RotateLost, FamilyScan, At, Scanned, Unrevoked, UnrevokedIn
  <2> QED  BY <2>1 DEF Next, Continue
<1>3. CASE Web!Server!Revoke(r)
  <2>1. Revoke(r)
    BY <1>3 DEF Web!Server!Revoke, Web!Server!Finish, Web!Server!At, Web!Server!Scanned,
       Web!Server!IdleRequest,
       Web!Server!Unrevoked, Web!Server!ReasonOf, Revoke, Finish, At, Scanned, IdleRequest,
       Unrevoked,
       ReasonOf
  <2> QED  BY <2>1 DEF Next, Continue
<1> QED  BY <1>1, <1>2, <1>3

\* So the invariant that is proved of SessionRotation is kept by it.
LEMMA RotationInvariant ==
    ASSUME IInv, Next \/ UNCHANGED Web!server
    PROVE  IInv'
<1>1. IInv /\ [Next]_vars => IInv'
  BY NextIInv
<1> QED  BY <1>1 DEF Web!server, vars

\* What that invariant says of the tables: their types, and that of a family one session at
\* most is not rotated.
LEMMA RotationFacts ==
    IInv =>
        /\ Web!Server!TypeOK
        /\ \A s, t \in Session :
              (status[s] \notin {"absent", "ROTATED"} /\ status[t] \notin {"absent", "ROTATED"}
                  /\ family[s] = family[t]) => s = t
<1>1. IInv => Web!Server!TypeOK
  BY DEF IInv, TypeOK, RequestState, Job, SignOutJob, Reason, Web!Server!TypeOK,
     Web!Server!RequestState, Web!Server!Job, Web!Server!SignOutJob, Web!Server!Reason
<1> QED  BY <1>1 DEF IInv, LinearFamily, Exists

\* The types, after a step.
LEMMA RotationTypes == IInv' => Web!Server!TypeOK'
BY DEF IInv, TypeOK, RequestState, Job, SignOutJob, Reason, Web!Server!TypeOK,
   Web!Server!RequestState, Web!Server!Job, Web!Server!SignOutJob, Web!Server!Reason

-----------------------------------------------------------------------------
(* Calls that are served                                                   *)

\* The call of r goes on, or is answered to nobody.  Its page learns nothing yet.
Served(r) ==
    /\ call' \in [Request -> CallType] /\ \A q \in Request : q # r => call'[q] = call[q]
    /\ \/ call[r].phase = "abandoned" /\ call'[r] \in {Web!NoCall, call[r]}
       \/ /\ call[r].phase \in {"sent", "serving"} /\ call'[r].phase \in {"serving", "answered"}
          /\ call'[r] # Web!NoCall /\ call'[r].page = call[r].page /\ call'[r].kind = call[r].kind
          /\ call'[r].tok = call[r].tok
          /\ call'[r].answer = "error" => call[r].answer = "error" \/ "failure" \in haze'
    /\ cookie' = cookie /\ page' = page /\ busy' = busy /\ haze \subseteq haze'

\* The pages and their calls are then in the order they were in.
LEMMA ServedKeepsPages ==
    ASSUME Web!NoneAssumption, BrowserInv, NEW r \in Request, Served(r)
    PROVE  PagesAreSound' /\ OneCallOfPage' /\ OnePageCalls'
<1>1. Web!UnderWay(r)
  BY NoCallIsTyped DEF Served, Web!UnderWay
<1>2. \A q \in Request : /\ Web!UnderWay(q)' => Web!UnderWay(q) /\ call'[q].page = call[q].page
                                           /\ call'[q].kind = call[q].kind
                         /\ call'[q].phase = "abandoned" => call[q].phase = "abandoned"
                         /\ call'[q].answer = "error" => call[q].answer = "error"
                              \/ "failure" \in haze'
                         /\ Refreshing(q)' => Refreshing(q)
  BY <1>1, NoCallIsTyped DEF Served, Web!UnderWay, Refreshing, Live, Web!RefreshKind
<1>3. \A q \in Request : call'[q].page \in Page => Web!UnderWay(q)'
  BY NoCallIsTyped DEF Web!UnderWay, Web!NoneAssumption
<1>4. PagesAreSound'
  BY <1>2, <1>3, NoCallIsTyped DEF Served, BrowserInv, PagesAreSound, HandlersServeCalls,
     HandlerServes
<1>5. OneCallOfPage'
  <2>1. "own" \notin haze' => "own" \notin haze
    BY DEF Served
  <2>2. \A q \in Request : Refreshing(q)' => call'[q].page = call[q].page
    BY <1>2, NoCallIsTyped DEF Refreshing, Live, Web!UnderWay
  <2> QED  BY <1>2, <2>1, <2>2 DEF Served, BrowserInv, OneCallOfPage
<1>6. OnePageCalls'
  <2> SUFFICES ASSUME Clear' PROVE OnePageCalls'
    BY DEF OnePageCalls
  <2>1. Clear /\ "failure" \notin haze'
    BY DEF Clear, Served
  <2>2. \A q \in Request : call'[q].kind = "restore" => Web!UnderWay(q)'
    BY NoCallIsTyped DEF Web!UnderWay
  <2> QED  BY <1>2, <2>1, <2>2 DEF Served, BrowserInv, OnePageCalls
<1> QED  BY <1>4, <1>5, <1>6

\* And if nothing was rotated, no token was used.
LEMMA ServedKeepsTokens ==
    ASSUME BrowserInv, NEW r \in Request, Served(r),
           call'[r].got \in {None, call[r].got},
           \A s \in Session : status'[s] = "ROTATED" => status[s] = "ROTATED"
    PROVE  TokenUsedOnce'
<1> SUFFICES ASSUME Clear' PROVE TokenUsedOnce'
  BY DEF TokenUsedOnce
<1>1. Clear /\ Web!TypeOK /\ call \in [Request -> CallType]
  BY DEF Clear, Served, BrowserInv, Web!TypeOK, CallType
<1>2. call[r].phase \in {"sent", "serving"} /\ call'[r].tok = call[r].tok
        /\ call'[r].kind = call[r].kind
      /\ call'[r].phase \in {"serving", "answered"}
  BY <1>1 DEF Served, BrowserInv, OnePageCalls
<1>3. \A q \in Request : /\ call'[q].tok = call[q].tok /\ call'[q].got \in {None, call[q].got}
                         /\ Refreshing(q)' => Refreshing(q)
                         /\ call'[q].phase # "answered" => call[q].phase # "answered"
                         /\ call[q].phase = "answered" => call'[q] = call[q]
  BY <1>2 DEF Served, Refreshing, Live
<1>4. \A q \in Request : call[q].tok \in Session \cup {None} /\ call[q].got \in Session \cup {None}
  BY <1>1 DEF CallType
<1>5. cookie' # None /\ status'[cookie'] = "ROTATED" =>
          \E q \in Request : Renews(q)'
  <2> SUFFICES ASSUME cookie # None, status'[cookie] = "ROTATED"
               PROVE  \E q \in Request : Renews(q)'
    BY DEF Served
  <2>1. PICK q \in Request : Renews(q)
    BY <1>1 DEF BrowserInv, TokenUsedOnce, Web!TypeOK
  <2>2. call'[q] = call[q] /\ cookie' = cookie
    BY <1>3, <2>1 DEF Renews, Served
  <2> QED  BY <2>1, <2>2 DEF Renews, Refreshing, Live
<1>6. \A q \in Request : Refreshing(q)' /\ call'[q].tok # None /\ call'[q].phase # "answered" =>
          status'[call'[q].tok] # "ROTATED"
  BY <1>1, <1>3, <1>4 DEF BrowserInv, TokenUsedOnce
<1>7. \A q \in Request : call'[q].got # None =>
          /\ status'[call'[q].got] # "ROTATED" /\ cookie' # call'[q].got
          /\ \A d \in Request : call'[d].tok # call'[q].got
               /\ (call'[d].got = call'[q].got => d = q)
  BY <1>1, <1>3, <1>4 DEF BrowserInv, TokenUsedOnce, Served
<1> QED  BY <1>5, <1>6, <1>7 DEF TokenUsedOnce

\* A refresh without a cookie is answered 401.
LEMMA NoCookieKeeps ==
    ASSUME Web!NoneAssumption, BrowserInv, NEW r \in Request, call[r].phase = "sent",
           call[r].kind \in Web!RefreshKind, call[r].tok = None,
           Web!Answer(r, "401", None), UNCHANGED Web!server, UNCHANGED <<cookie, page, busy, haze>>
    PROVE  BrowserInv'
<1>1. PICK c \in CallType :
          /\ CallBecomes(r, c)
          /\ call[r].phase = "abandoned" => c = Web!NoCall
          /\ call[r].phase # "abandoned" =>
                /\ c.page = call[r].page /\ c.kind = call[r].kind /\ c.tok = call[r].tok
                /\ c.phase = "answered" /\ c.answer = "401" /\ c.got = None /\ c # Web!NoCall
  BY AnswerIsKept DEF BrowserInv
<1>2. status' = status /\ req' = req
  BY DEF Web!server
<1>3. Served(r)
  BY <1>1 DEF Served, CallBecomes
<1>4. IInv'
  BY RotationInvariant DEF BrowserInv
<1>5. Web!TypeOK'
  BY <1>1, <1>4, RotationTypes DEF BrowserInv, Web!TypeOK, CallType, CallBecomes
<1>6. HandlersServeCalls'
  <2> SUFFICES ASSUME NEW q \in Request PROVE HandlerServes(q)'
    BY DEF HandlersServeCalls
  <2>1. CASE q # r
    BY <1>1, <1>2 DEF BrowserInv, HandlersServeCalls, HandlerServes, Web!UnderWay, CallBecomes
  <2>2. CASE q = r
    BY <1>1, <1>2 DEF BrowserInv, HandlersServeCalls, HandlerServes, Web!UnderWay, CallBecomes
  <2> QED  BY <2>1, <2>2
<1>7. TokensExist'
  BY <1>1, <1>2 DEF BrowserInv, TokensExist, Web!Server!Exists, CallBecomes
<1>8. PagesAreSound' /\ OneCallOfPage' /\ OnePageCalls'
  BY <1>3, ServedKeepsPages
<1>9. TokenUsedOnce'
  BY <1>1, <1>2, <1>3, ServedKeepsTokens DEF CallBecomes
<1>10. ReuseFindsNothing'
  BY <1>2 DEF BrowserInv, ReuseFindsNothing, Clear, Web!Server!Unrevoked
<1>11. CookieIsSession'
  BY <1>1, <1>2, NoCallIsTyped DEF BrowserInv, CookieIsSession, Quiet, Valid, Web!UnderWay,
     CallBecomes
<1> QED  BY <1>4, <1>5, <1>6, <1>7, <1>8, <1>9, <1>10, <1>11 DEF BrowserInv

\* So is one whose session has ended or does not exist.
LEMMA RejectKeeps ==
    ASSUME Web!NoneAssumption, BrowserInv, NEW r \in Request, call[r].phase = "sent",
           call[r].kind \in Web!RefreshKind, call[r].tok # None,
           Web!Server!RefreshReject(r, call[r].tok), Web!Answer(r, "401", None),
           UNCHANGED <<cookie, page, busy, haze>>
    PROVE  BrowserInv'
<1>1. PICK c \in CallType :
          /\ CallBecomes(r, c)
          /\ call[r].phase = "abandoned" => c = Web!NoCall
          /\ call[r].phase # "abandoned" =>
                /\ c.page = call[r].page /\ c.kind = call[r].kind /\ c.tok = call[r].tok
                /\ c.phase = "answered" /\ c.answer = "401" /\ c.got = None /\ c # Web!NoCall
  BY AnswerIsKept DEF BrowserInv
<1>2. /\ status' = status
      /\ req'[r].pc = "idle" /\ req'[r].job = "none"
      /\ \A q \in Request : q # r => req'[q] = req[q]
  BY DEF BrowserInv, Web!TypeOK, Web!Server!RefreshReject, Web!Server!Finish,
     Web!Server!IdleRequest, Web!Server!At, Web!Server!Scanned, Web!Server!TypeOK
<1>3. Served(r)
  BY <1>1 DEF Served, CallBecomes
<1>4. IInv'
  BY RefreshStepIsRotation, RotationInvariant DEF BrowserInv, Web!TypeOK, CallType
<1>5. Web!TypeOK'
  BY <1>1, <1>4, RotationTypes DEF BrowserInv, Web!TypeOK, CallType, CallBecomes
<1>6. HandlersServeCalls'
  <2> SUFFICES ASSUME NEW q \in Request PROVE HandlerServes(q)'
    BY DEF HandlersServeCalls
  <2>1. CASE q # r
    BY <1>1, <1>2 DEF BrowserInv, HandlersServeCalls, HandlerServes, Web!UnderWay, CallBecomes
  <2>2. CASE q = r
    BY <1>1, <1>2 DEF BrowserInv, HandlersServeCalls, HandlerServes, Web!UnderWay, CallBecomes
  <2> QED  BY <2>1, <2>2
<1>7. TokensExist'
  BY <1>1, <1>2 DEF BrowserInv, TokensExist, Web!Server!Exists, CallBecomes
<1>8. PagesAreSound' /\ OneCallOfPage' /\ OnePageCalls'
  BY <1>3, ServedKeepsPages
<1>9. TokenUsedOnce'
  BY <1>1, <1>2, <1>3, ServedKeepsTokens DEF CallBecomes
<1>10. ReuseFindsNothing'
  BY <1>2 DEF BrowserInv, ReuseFindsNothing, Clear, Web!Server!Unrevoked
<1>11. CookieIsSession'
  BY <1>1, <1>2, NoCallIsTyped DEF BrowserInv, CookieIsSession, Quiet, Valid, Web!UnderWay,
     CallBecomes
<1> QED  BY <1>4, <1>5, <1>6, <1>7, <1>8, <1>9, <1>10, <1>11 DEF BrowserInv

\* A refresh has read a session that is valid.
LEMMA ReadKeeps ==
    ASSUME Web!NoneAssumption, BrowserInv, NEW r \in Request, call[r].phase = "sent",
           call[r].kind \in Web!RefreshKind, call[r].tok # None,
           Web!Server!RefreshRead(r, call[r].tok), Web!Serving(r),
           UNCHANGED <<cookie, page, busy, haze>>
    PROVE  BrowserInv'
<1>1. PICK c \in CallType :
          /\ CallBecomes(r, c)
          /\ c.page = call[r].page /\ c.kind = call[r].kind /\ c.tok = call[r].tok
          /\ c.phase = "serving" /\ c.answer = call[r].answer /\ c.got = call[r].got
               /\ c # Web!NoCall
  BY ServingIsKept, NoCallIsTyped DEF BrowserInv
<1>2. /\ status' = status /\ status[call[r].tok] = "valid"
      /\ req'[r].pc = "rotate" /\ req'[r].job = "refresh" /\ req'[r].tok = call[r].tok
      /\ req'[r].cand = {} /\ \A q \in Request : q # r => req'[q] = req[q]
  BY DEF BrowserInv, Web!TypeOK, Web!Server!RefreshRead, Web!Server!At, Web!Server!Scanned,
     Web!Server!TypeOK,
     Web!Server!RequestState
<1>3. Served(r)
  BY <1>1 DEF Served, CallBecomes
<1>4. IInv'
  BY RefreshStepIsRotation, RotationInvariant DEF BrowserInv, Web!TypeOK, CallType
<1>5. Web!TypeOK'
  BY <1>1, <1>4, RotationTypes DEF BrowserInv, Web!TypeOK, CallType, CallBecomes
<1>6. HandlersServeCalls'
  <2> SUFFICES ASSUME NEW q \in Request PROVE HandlerServes(q)'
    BY DEF HandlersServeCalls
  <2>1. CASE q # r
    BY <1>1, <1>2 DEF BrowserInv, HandlersServeCalls, HandlerServes, Web!UnderWay, CallBecomes
  <2>2. CASE q = r
    BY <1>1, <1>2 DEF BrowserInv, HandlersServeCalls, HandlerServes, Web!UnderWay, CallBecomes
  <2> QED  BY <2>1, <2>2
<1>7. TokensExist'
  BY <1>1, <1>2 DEF BrowserInv, TokensExist, Web!Server!Exists, CallBecomes
<1>8. PagesAreSound' /\ OneCallOfPage' /\ OnePageCalls'
  BY <1>3, ServedKeepsPages
<1>9. TokenUsedOnce'
  BY <1>1, <1>2, <1>3, ServedKeepsTokens DEF CallBecomes
<1>10. ReuseFindsNothing'
  BY <1>2 DEF BrowserInv, ReuseFindsNothing, Clear, Web!Server!Unrevoked
<1>11. CookieIsSession'
  BY <1>1, <1>2, NoCallIsTyped DEF BrowserInv, CookieIsSession, Quiet, Valid, Web!UnderWay,
     CallBecomes
<1> QED  BY <1>4, <1>5, <1>6, <1>7, <1>8, <1>9, <1>10, <1>11 DEF BrowserInv

\* A refresh has read a session that was rotated: not while Clear.
LEMMA ReplayKeeps ==
    ASSUME Web!NoneAssumption, BrowserInv, NEW r \in Request, call[r].phase = "sent",
           call[r].kind \in Web!RefreshKind, call[r].tok # None,
           Web!Server!RefreshReplay(r, call[r].tok), Web!Serving(r),
           UNCHANGED <<cookie, page, busy, haze>>
    PROVE  BrowserInv'
<1>1. PICK c \in CallType :
          /\ CallBecomes(r, c)
          /\ c.page = call[r].page /\ c.kind = call[r].kind /\ c.tok = call[r].tok
          /\ c.phase = "serving" /\ c.answer = call[r].answer /\ c.got = call[r].got
               /\ c # Web!NoCall
  BY ServingIsKept, NoCallIsTyped DEF BrowserInv
<1>2. /\ status' = status /\ status[call[r].tok] = "ROTATED"
      /\ req'[r].pc = "detected" /\ req'[r].job = "refresh" /\ req'[r].tok = call[r].tok
      /\ req'[r].cand = {} /\ \A q \in Request : q # r => req'[q] = req[q]
  BY DEF BrowserInv, Web!TypeOK, Web!Server!RefreshReplay, Web!Server!At, Web!Server!Scanned,
     Web!Server!TypeOK,
     Web!Server!RequestState
<1>3. Served(r)
  BY <1>1 DEF Served, CallBecomes
<1>4. IInv'
  BY RefreshStepIsRotation, RotationInvariant DEF BrowserInv, Web!TypeOK, CallType
<1>5. Web!TypeOK'
  BY <1>1, <1>4, RotationTypes DEF BrowserInv, Web!TypeOK, CallType, CallBecomes
<1>6. HandlersServeCalls'
  <2> SUFFICES ASSUME NEW q \in Request PROVE HandlerServes(q)'
    BY DEF HandlersServeCalls
  <2>1. CASE q # r
    BY <1>1, <1>2 DEF BrowserInv, HandlersServeCalls, HandlerServes, Web!UnderWay, CallBecomes
  <2>2. CASE q = r
    BY <1>1, <1>2 DEF BrowserInv, HandlersServeCalls, HandlerServes, Web!UnderWay, CallBecomes
  <2> QED  BY <2>1, <2>2
<1>7. TokensExist'
  BY <1>1, <1>2 DEF BrowserInv, TokensExist, Web!Server!Exists, CallBecomes
<1>8. PagesAreSound' /\ OneCallOfPage' /\ OnePageCalls'
  BY <1>3, ServedKeepsPages
<1>9. TokenUsedOnce'
  BY <1>1, <1>2, <1>3, ServedKeepsTokens DEF CallBecomes
<1>10. ReuseFindsNothing'
  BY <1>2 DEF BrowserInv, ReuseFindsNothing, Clear, Web!Server!Unrevoked
<1>11. CookieIsSession'
  BY <1>1, <1>2, NoCallIsTyped DEF BrowserInv, CookieIsSession, Quiet, Valid, Web!UnderWay,
     CallBecomes
<1> QED  BY <1>4, <1>5, <1>6, <1>7, <1>8, <1>9, <1>10, <1>11 DEF BrowserInv

\* A session is rotated: the new token goes to the page that asked, and nobody else has the old
\* one.
LEMMA RotateKeeps ==
    ASSUME Web!NoneAssumption, BrowserInv, NEW r \in Request, NEW n \in Session,
           Web!Server!Rotate(r, n), Web!Answer(r, "ok", n), UNCHANGED <<cookie, page, busy, haze>>
    PROVE  BrowserInv'
<1>1. PICK c \in CallType :
          /\ CallBecomes(r, c)
          /\ call[r].phase = "abandoned" => c = Web!NoCall
          /\ call[r].phase # "abandoned" =>
                /\ c.page = call[r].page /\ c.kind = call[r].kind /\ c.tok = call[r].tok
                /\ c.phase = "answered" /\ c.answer = "ok" /\ c.got = n /\ c # Web!NoCall
  BY AnswerIsKept DEF BrowserInv
<1>2. req[r].pc = "rotate" /\ req[r].tok = call[r].tok /\ call[r].tok \in Session
      /\ call[r].kind \in Web!RefreshKind /\ call[r].phase \in {"serving", "abandoned"}
      /\ status[n] = "absent" /\ n # call[r].tok
  BY DEF BrowserInv, HandlersServeCalls, HandlerServes, TokensExist, Web!TypeOK, Web!Server!Rotate,
     Web!Server!Exists
<1>3. status'[n] = "valid" /\ status'[call[r].tok] = "ROTATED"
      /\ (\A s \in Session : s \notin {n, call[r].tok} => status'[s] = status[s])
      /\ req'[r].pc = "idle" /\ req'[r].job = "none"
      /\ \A q \in Request : q # r => req'[q] = req[q]
  BY <1>2 DEF BrowserInv, Web!TypeOK, Web!Server!Rotate, Web!Server!Finish, Web!Server!IdleRequest,
     Web!Server!At, Web!Server!Scanned, Web!Server!TypeOK
<1>4. Served(r)
  BY <1>1, <1>2 DEF Served, CallBecomes
<1>5. IInv'
  BY RefreshStepIsRotation, RotationInvariant DEF BrowserInv
<1>6. Web!TypeOK'
  BY <1>1, <1>5, RotationTypes DEF BrowserInv, Web!TypeOK, CallType, CallBecomes
<1>7. HandlersServeCalls'
  <2> SUFFICES ASSUME NEW q \in Request PROVE HandlerServes(q)'
    BY DEF HandlersServeCalls
  <2>1. CASE q # r
    BY <2>1, <1>1, <1>3 DEF BrowserInv, HandlersServeCalls, HandlerServes, Web!UnderWay, CallBecomes
  <2>2. CASE q = r
    BY <1>1, <1>2, <1>3, NoCallIsTyped DEF BrowserInv, HandlersServeCalls, HandlerServes,
       Web!UnderWay, CallBecomes, Web!NoneAssumption
  <2> QED  BY <2>1, <2>2
<1>8. TokensExist'
  BY <1>1, <1>2, <1>3, NoCallIsTyped DEF BrowserInv, Web!TypeOK, TokensExist, Web!Server!Exists,
     CallBecomes, Web!NoneAssumption
<1>9. PagesAreSound' /\ OneCallOfPage' /\ OnePageCalls'
  BY <1>4, ServedKeepsPages
<1>10. TokenUsedOnce'
  <2> SUFFICES ASSUME Clear' PROVE TokenUsedOnce'
    BY DEF TokenUsedOnce
  <2>1. Clear /\ call[r].phase = "serving" /\ Refreshing(r)
    BY <1>2 DEF Clear, BrowserInv, OnePageCalls, Refreshing, Live
  <2>2. /\ call'[r].kind = call[r].kind /\ call'[r].tok = call[r].tok /\ call'[r].phase = "answered"
        /\ call'[r].answer = "ok" /\ call'[r].got = n
        /\ \A q \in Request : q # r => call'[q] = call[q]
    BY <1>1, <2>1 DEF CallBecomes
  <2>3. Refreshing(r)' /\ \A q \in Request : q # r /\ Refreshing(q)' => Refreshing(q)
    BY <1>2, <2>2 DEF Refreshing, Live
  <2>4. \A q \in Request : q # r /\ Refreshing(q)' => call[q].tok # call[r].tok
    BY <1>2, <2>1, <2>3 DEF BrowserInv, OnePageCalls, HandlersServeCalls, HandlerServes
  <2>5. n # None /\ n # cookie /\ \A q \in Request : call[q].tok # n /\ call[q].got # n
    BY <1>2 DEF BrowserInv, TokensExist, Web!Server!Exists, Web!NoneAssumption
  <2>6. \A q \in Request : call[q].got \in Session \cup {None}
    BY DEF BrowserInv, Web!TypeOK
  <2>7. \A q \in Request : q # r /\ call[q].got # None =>
            status'[call[q].got] # "ROTATED" /\ cookie # call[q].got
    BY <1>2, <1>3, <2>1, <2>5, <2>6 DEF BrowserInv, TokenUsedOnce
  <2>8. \A q \in Request : call'[q].got # None =>
            \A d \in Request : call'[d].tok # call'[q].got /\ (call'[d].got = call'[q].got => d = q)
    BY <2>1, <2>2, <2>5 DEF BrowserInv, TokenUsedOnce
  <2>9. cookie' # None /\ status'[cookie'] = "ROTATED" => \E q \in Request : Renews(q)'
    <3> SUFFICES ASSUME cookie # None, status'[cookie] = "ROTATED"
                 PROVE  \E q \in Request : Renews(q)'
      OBVIOUS
    <3>1. CASE cookie = call[r].tok
      BY <2>2, <2>3, <3>1 DEF Renews
    <3>2. CASE cookie # call[r].tok
      <4>1. status[cookie] = "ROTATED"
        BY <1>2, <1>3, <2>5, <3>2 DEF BrowserInv, Web!TypeOK, HandlersServeCalls, HandlerServes
      <4>2. PICK q \in Request : Renews(q)
        BY <2>1, <4>1 DEF BrowserInv, TokenUsedOnce
      <4>3. q # r
        BY <2>1, <4>2 DEF Renews
      <4> QED  BY <2>2, <4>2, <4>3 DEF Renews, Refreshing, Live
    <3> QED  BY <3>1, <3>2
  <2>10. \A q \in Request : Refreshing(q)' /\ call'[q].tok # None /\ call'[q].phase # "answered" =>
             status'[call'[q].tok] # "ROTATED"
    <3> SUFFICES ASSUME NEW q \in Request, Refreshing(q)', call'[q].tok # None,
                        call'[q].phase # "answered"
                 PROVE  status'[call'[q].tok] # "ROTATED"
      OBVIOUS
    <3>1. q # r /\ call'[q] = call[q] /\ Refreshing(q) /\ call[q].tok # call[r].tok
      BY <2>2, <2>3, <2>4
    <3>2. status[call[q].tok] # "ROTATED" /\ call[q].tok \in Session
      BY <2>1, <3>1 DEF BrowserInv, TokenUsedOnce, Web!TypeOK
    <3> QED  BY <1>2, <1>3, <2>5, <3>1, <3>2 DEF BrowserInv, HandlersServeCalls, HandlerServes
  <2> QED  BY <1>3, <2>2, <2>5, <2>7, <2>8, <2>9, <2>10 DEF TokenUsedOnce
<1>11. ReuseFindsNothing'
  <2>1. \A q \in Request : req[q].pc # "idle" /\ req[q].job = "refresh" => req[q].tok # n
    BY <1>2 DEF BrowserInv, HandlersServeCalls, HandlerServes, TokensExist, Web!Server!Exists,
       Web!NoneAssumption
  <2>2. \A s \in Session : s # n /\ Web!Server!Unrevoked(s)' => Web!Server!Unrevoked(s)
    BY <1>2, <1>3 DEF Web!Server!Unrevoked
  <2>3. \A q \in Request : req[q].tok \in Session \cup {None}
    BY DEF BrowserInv, Web!TypeOK, Web!Server!TypeOK, Web!Server!RequestState
  <2>4. \A q \in Request : req[q].pc # "idle" /\ req[q].job = "refresh" => req[q].tok # None
    BY DEF BrowserInv, HandlersServeCalls, HandlerServes
  <2>5. \A q \in Request : req'[q].pc = "detected" /\ req'[q].job = "refresh" => q # r
    BY <1>3
  <2>6. \A q \in Request : req'[q].pc = "revoke" /\ req'[q].job = "refresh" => q # r
    BY <1>3
  <2> QED  BY <1>3, <2>1, <2>2, <2>3, <2>4 DEF BrowserInv, ReuseFindsNothing, Clear
<1>12. CookieIsSession'
  BY <1>1, <1>2, <1>3 DEF BrowserInv, CookieIsSession, OnePageCalls, HandlersServeCalls,
     HandlerServes, Quiet, Clear, Valid, Web!UnderWay, CallBecomes, Web!NoneAssumption
<1> QED  BY <1>5, <1>6, <1>7, <1>8, <1>9, <1>10, <1>11, <1>12 DEF BrowserInv

\* The session that a refresh has read was rotated or revoked in the meantime.
LEMMA RotateLostKeeps ==
    ASSUME Web!NoneAssumption, BrowserInv, NEW r \in Request, Web!Server!RotateLost(r),
           UNCHANGED call, UNCHANGED <<cookie, page, busy, haze>>
    PROVE  BrowserInv'
<1>1. call' = call
  OBVIOUS
<1>2. req[r].pc = "rotate" /\ status' = status /\ req[r].job = "refresh"
        /\ ~Web!Server!Unrevoked(req[r].tok)
  BY DEF BrowserInv, HandlersServeCalls, HandlerServes, Web!Server!RotateLost
<1>3. /\ req'[r].pc = "detected" /\ req'[r].job = "refresh" /\ req'[r].tok = req[r].tok
      /\ req'[r].cand = {} /\ \A q \in Request : q # r => req'[q] = req[q]
  BY DEF BrowserInv, Web!TypeOK, Web!Server!RotateLost, Web!Server!At, Web!Server!Scanned,
     Web!Server!TypeOK,
     Web!Server!RequestState
<1>4. Served(r)
  BY <1>2, NoCallIsTyped DEF BrowserInv, Web!TypeOK, CallType, HandlersServeCalls, HandlerServes,
     Served
<1>5. IInv'
  BY RequestStepIsRotation, RotationInvariant DEF BrowserInv
<1>6. Web!TypeOK'
  BY <1>5, RotationTypes DEF BrowserInv, Web!TypeOK
<1>7. HandlersServeCalls'
  <2> SUFFICES ASSUME NEW q \in Request PROVE HandlerServes(q)'
    BY DEF HandlersServeCalls
  <2>1. CASE q # r
    BY <1>2, <1>3 DEF BrowserInv, HandlersServeCalls, HandlerServes, Web!UnderWay
  <2>2. CASE q = r
    BY <1>2, <1>3 DEF BrowserInv, HandlersServeCalls, HandlerServes, Web!UnderWay
  <2> QED  BY <2>1, <2>2
<1>8. TokensExist'
  BY <1>2 DEF BrowserInv, TokensExist, Web!Server!Exists
<1>9. PagesAreSound' /\ OneCallOfPage' /\ OnePageCalls'
  BY <1>4, ServedKeepsPages
<1>10. TokenUsedOnce'
  BY <1>2, <1>4, ServedKeepsTokens
<1>11. ReuseFindsNothing'
  BY <1>2, <1>3 DEF BrowserInv, ReuseFindsNothing, Clear, Web!Server!Unrevoked
<1>12. CookieIsSession'
  BY <1>2 DEF BrowserInv, CookieIsSession, OnePageCalls, HandlersServeCalls, HandlerServes, Quiet,
     Clear, Valid, Web!UnderWay, Web!Server!Unrevoked, Web!NoneAssumption
<1> QED  BY <1>5, <1>6, <1>7, <1>8, <1>9, <1>10, <1>11, <1>12 DEF BrowserInv

\* The family of a token that was reused is scanned.  While Clear the token is revoked, not
\* rotated, and was the last of its family: nothing is found.
LEMMA FamilyScanKeeps ==
    ASSUME Web!NoneAssumption, BrowserInv, NEW r \in Request, Web!Server!FamilyScan(r),
           UNCHANGED call, UNCHANGED <<cookie, page, busy, haze>>
    PROVE  BrowserInv'
<1>1. call' = call
  OBVIOUS
<1>2. req[r].pc = "detected" /\ status' = status /\ req[r].job = "refresh"
        /\ req[r].tok = call[r].tok
      /\ call[r].phase \in {"serving", "abandoned"} /\ call[r].kind \in Web!RefreshKind
           /\ call[r].tok \in Session
  BY DEF BrowserInv, HandlersServeCalls, HandlerServes, Web!TypeOK, Web!Server!FamilyScan
<1>3. /\ req'[r].pc = "revoke" /\ req'[r].job = "refresh" /\ req'[r].tok = req[r].tok
      /\ req'[r].cand = Web!Server!UnrevokedIn(family[req[r].tok])
      /\ \A q \in Request : q # r => req'[q] = req[q]
  BY DEF BrowserInv, Web!TypeOK, Web!Server!FamilyScan, Web!Server!At, Web!Server!Scanned,
     Web!Server!TypeOK,
     Web!Server!RequestState
<1>4. Clear => Web!Server!UnrevokedIn(family[req[r].tok]) = {}
  <2> SUFFICES ASSUME Clear, NEW s \in Session, Web!Server!Unrevoked(s),
                      family[s] = family[req[r].tok]
               PROVE  FALSE
    BY DEF Web!Server!UnrevokedIn
  <2>1. call[r].phase = "serving"
    BY <1>2 DEF BrowserInv, OnePageCalls
  <2>2. status[req[r].tok] \notin {"absent", "ROTATED"} /\ ~Web!Server!Unrevoked(req[r].tok)
    BY <1>2, <2>1 DEF BrowserInv, TokenUsedOnce, TokensExist, ReuseFindsNothing, Web!Server!Exists,
       Refreshing, Live, Web!NoneAssumption
  <2>3. s = req[r].tok
    BY <1>2, <2>2, RotationFacts DEF BrowserInv, Web!Server!Unrevoked
  <2> QED  BY <2>2, <2>3
<1>5. Served(r)
  BY <1>2, NoCallIsTyped DEF BrowserInv, Web!TypeOK, CallType, Served
<1>6. IInv'
  BY RequestStepIsRotation, RotationInvariant DEF BrowserInv
<1>7. Web!TypeOK'
  BY <1>6, RotationTypes DEF BrowserInv, Web!TypeOK
<1>8. HandlersServeCalls'
  <2> SUFFICES ASSUME NEW q \in Request PROVE HandlerServes(q)'
    BY DEF HandlersServeCalls
  <2>1. CASE q # r
    BY <1>2, <1>3 DEF BrowserInv, HandlersServeCalls, HandlerServes, Web!UnderWay
  <2>2. CASE q = r
    BY <1>2, <1>3 DEF BrowserInv, HandlersServeCalls, HandlerServes, Web!UnderWay
  <2> QED  BY <2>1, <2>2
<1>9. TokensExist'
  BY <1>2 DEF BrowserInv, TokensExist, Web!Server!Exists
<1>10. PagesAreSound' /\ OneCallOfPage' /\ OnePageCalls'
  BY <1>5, ServedKeepsPages
<1>11. TokenUsedOnce'
  BY <1>2, <1>5, ServedKeepsTokens
<1>12. ReuseFindsNothing'
  BY <1>2, <1>3, <1>4 DEF BrowserInv, ReuseFindsNothing, Clear, Web!Server!Unrevoked
<1>13. CookieIsSession'
  BY <1>2, <1>3 DEF BrowserInv, CookieIsSession, Quiet, Valid, Web!UnderWay
<1> QED  BY <1>6, <1>7, <1>8, <1>9, <1>10, <1>11, <1>12, <1>13 DEF BrowserInv

\* The sessions that were found are revoked; those of a sign-out everywhere include every valid one.
LEMMA RevokeKeeps ==
    ASSUME Web!NoneAssumption, BrowserInv, NEW r \in Request, NEW answer \in {"ok", "401"},
           Web!Server!Revoke(r), Web!Answer(r, answer, None),
           req[r].job = "refresh" => answer = "401", UNCHANGED <<cookie, page, busy, haze>>
    PROVE  BrowserInv'
<1>1. PICK c \in CallType :
          /\ CallBecomes(r, c)
          /\ call[r].phase = "abandoned" => c = Web!NoCall
          /\ call[r].phase # "abandoned" =>
                /\ c.page = call[r].page /\ c.kind = call[r].kind /\ c.tok = call[r].tok
                /\ c.phase = "answered" /\ c.answer = answer /\ c.got = None /\ c # Web!NoCall
  BY AnswerIsKept DEF BrowserInv
<1>2. req[r].pc = "revoke" /\ call[r].phase \in {"serving", "abandoned"}
      /\ \/ req[r].job = "refresh" /\ call[r].kind \in Web!RefreshKind
         \/ req[r].job = "logoutAll" /\ call[r].kind = "logoutAll"
  BY DEF BrowserInv, HandlersServeCalls, HandlerServes, Web!Server!Revoke
<1>3. /\ \A s \in Session : /\ status'[s] # status[s] =>
                                  /\ s \in req[r].cand /\ Web!Server!Unrevoked(s)
                                  /\ status'[s] \in {"REUSE_DETECTED", "LOGOUT_ALL"}
                                  /\ status'[s] = "REUSE_DETECTED" => req[r].job = "refresh"
                            /\ s \in req[r].cand => status'[s] # "valid"
      /\ req'[r].pc = "idle" /\ req'[r].job = "none"
      /\ \A q \in Request : q # r => req'[q] = req[q]
  BY <1>2 DEF BrowserInv, Web!TypeOK, Web!Server!Revoke, Web!Server!Finish, Web!Server!IdleRequest,
     Web!Server!At, Web!Server!Scanned, Web!Server!Unrevoked, Web!Server!ReasonOf, Web!Server!TypeOK
<1>4. Served(r)
  BY <1>1, <1>2 DEF Served, CallBecomes
<1>5. IInv'
  BY RequestStepIsRotation, RotationInvariant DEF BrowserInv
<1>6. Web!TypeOK'
  BY <1>1, <1>5, RotationTypes DEF BrowserInv, Web!TypeOK, CallType, CallBecomes
<1>7. HandlersServeCalls'
  <2> SUFFICES ASSUME NEW q \in Request PROVE HandlerServes(q)'
    BY DEF HandlersServeCalls
  <2>1. CASE q # r
    BY <2>1, <1>1, <1>3 DEF BrowserInv, HandlersServeCalls, HandlerServes, Web!UnderWay, CallBecomes
  <2>2. CASE q = r
    BY <1>1, <1>2, <1>3, NoCallIsTyped DEF BrowserInv, Web!RefreshKind, HandlersServeCalls,
       HandlerServes, Web!UnderWay, CallBecomes
  <2> QED  BY <2>1, <2>2
<1>8. TokensExist'
  BY <1>1, <1>2, <1>3, NoCallIsTyped DEF BrowserInv, Web!TypeOK, TokensExist, Web!Server!Exists,
     CallBecomes, Web!NoneAssumption
<1>9. PagesAreSound' /\ OneCallOfPage' /\ OnePageCalls'
  BY <1>4, ServedKeepsPages
<1>10. TokenUsedOnce'
  BY <1>1, <1>3, <1>4, ServedKeepsTokens, NoCallIsTyped DEF CallBecomes
<1>11. ReuseFindsNothing'
  BY <1>2, <1>3 DEF BrowserInv, Web!TypeOK, ReuseFindsNothing, HandlersServeCalls, HandlerServes,
     Clear, Web!Server!Unrevoked
<1>12. CookieIsSession'
  BY <1>1, <1>2, <1>3 DEF BrowserInv, CookieIsSession, OnePageCalls, HandlersServeCalls,
     HandlerServes, Quiet, Clear, Valid, Web!UnderWay, CallBecomes
<1> QED  BY <1>5, <1>6, <1>7, <1>8, <1>9, <1>10, <1>11, <1>12 DEF BrowserInv

\* A sign-in opens a session, and the answer brings its token.
LEMMA ServeSignInKeeps ==
    ASSUME Web!NoneAssumption, BrowserInv, NEW r \in Request, NEW s \in Session,
           call[r].phase = "sent", call[r].kind = "signin",
           Web!Server!SignIn(s), Web!Answer(r, "ok", s), UNCHANGED <<cookie, page, busy, haze>>
    PROVE  BrowserInv'
<1>1. PICK c \in CallType :
          /\ CallBecomes(r, c)
          /\ call[r].phase = "abandoned" => c = Web!NoCall
          /\ call[r].phase # "abandoned" =>
                /\ c.page = call[r].page /\ c.kind = call[r].kind /\ c.tok = call[r].tok
                /\ c.phase = "answered" /\ c.answer = "ok" /\ c.got = s /\ c # Web!NoCall
  BY AnswerIsKept DEF BrowserInv
<1>2. /\ req' = req /\ status[s] = "absent" /\ status'[s] = "valid"
      /\ \A t \in Session : t # s => status'[t] = status[t]
  BY DEF BrowserInv, Web!TypeOK, Web!Server!SignIn, Web!Server!Exists, Web!Server!TypeOK,
     Web!Server!RequestState
<1>3. Served(r)
  BY <1>1 DEF Served, CallBecomes
<1>4. IInv'
  BY SessionStepIsRotation, RotationInvariant DEF BrowserInv
<1>5. Web!TypeOK'
  BY <1>1, <1>4, RotationTypes DEF BrowserInv, Web!TypeOK, CallType, CallBecomes
<1>6. HandlersServeCalls'
  <2> SUFFICES ASSUME NEW q \in Request PROVE HandlerServes(q)'
    BY DEF HandlersServeCalls
  <2>1. CASE q # r
    BY <2>1, <1>1, <1>2 DEF BrowserInv, HandlersServeCalls, HandlerServes, Web!UnderWay, CallBecomes
  <2>2. CASE q = r
    BY <1>1, <1>2 DEF BrowserInv, HandlersServeCalls, HandlerServes, Web!UnderWay, CallBecomes,
       Web!NoneAssumption
  <2> QED  BY <2>1, <2>2
<1>7. TokensExist'
  BY <1>1, <1>2 DEF BrowserInv, Web!TypeOK, TokensExist, Web!Server!Exists, CallBecomes,
     Web!NoneAssumption
<1>8. PagesAreSound' /\ OneCallOfPage' /\ OnePageCalls'
  BY <1>3, ServedKeepsPages
<1>9. TokenUsedOnce'
  <2> SUFFICES ASSUME Clear' PROVE TokenUsedOnce'
    BY DEF TokenUsedOnce
  <2>1. Clear
    BY DEF Clear
  <2>2. /\ call'[r].kind = "signin" /\ call'[r].tok = call[r].tok /\ call'[r].got = s
        /\ \A q \in Request : q # r => call'[q] = call[q]
    BY <1>1 DEF CallBecomes
  <2>3. s # None /\ s # cookie /\ \A q \in Request : call[q].tok # s /\ call[q].got # s
    BY <1>2 DEF BrowserInv, TokensExist, Web!Server!Exists, Web!NoneAssumption
  <2>4. \A q \in Request : call[q].got \in Session \cup {None}
          /\ call[q].tok \in Session \cup {None}
    BY DEF BrowserInv, Web!TypeOK
  <2>5. \A q \in Request : Refreshing(q)' <=> Refreshing(q) /\ q # r
    BY <2>2 DEF Refreshing, Live, Web!RefreshKind
  <2>6. cookie' # None /\ status'[cookie'] = "ROTATED" =>
            \E q \in Request : Renews(q)'
    <3> SUFFICES ASSUME cookie # None, status[cookie] = "ROTATED"
                 PROVE  \E q \in Request : Renews(q)'
      BY <1>2, <2>3 DEF BrowserInv, Web!TypeOK
    <3>1. PICK q \in Request : Renews(q)
      BY <2>1 DEF BrowserInv, TokenUsedOnce
    <3> QED  BY <1>2, <2>2, <2>5, <3>1 DEF Renews
  <2>7. \A q \in Request : Refreshing(q)' /\ call'[q].tok # None /\ call'[q].phase # "answered" =>
            status'[call'[q].tok] # "ROTATED"
    BY <1>2, <2>1, <2>2, <2>4, <2>5 DEF BrowserInv, TokenUsedOnce
  <2>8. \A q \in Request : q # r /\ call[q].got # None =>
            status'[call[q].got] # "ROTATED" /\ cookie # call[q].got
    BY <1>2, <2>1, <2>3, <2>4 DEF BrowserInv, TokenUsedOnce
  <2>9. \A q \in Request : call'[q].got # None =>
            \A d \in Request : call'[d].tok # call'[q].got /\ (call'[d].got = call'[q].got => d = q)
    BY <2>1, <2>2, <2>3 DEF BrowserInv, TokenUsedOnce
  <2> QED  BY <1>2, <2>2, <2>3, <2>6, <2>7, <2>8, <2>9 DEF TokenUsedOnce
<1>10. ReuseFindsNothing'
  <2>1. \A q \in Request : req[q].pc # "idle" /\ req[q].job = "refresh" =>
            req[q].tok # s /\ req[q].tok \in Session
    BY <1>2 DEF BrowserInv, HandlersServeCalls, HandlerServes, TokensExist, Web!TypeOK,
       Web!Server!Exists
  <2>2. \A t \in Session : t # s /\ Web!Server!Unrevoked(t)' => Web!Server!Unrevoked(t)
    BY <1>2 DEF Web!Server!Unrevoked
  <2>3. \A t \in Session : status'[t] = "REUSE_DETECTED" => status[t] = "REUSE_DETECTED"
    BY <1>2
  <2> QED  BY <1>2, <2>1, <2>2, <2>3 DEF BrowserInv, ReuseFindsNothing, Clear
<1>11. CookieIsSession'
  BY <1>1, <1>2 DEF BrowserInv, CookieIsSession, HandlersServeCalls, HandlerServes, Quiet, Valid,
     Web!UnderWay, CallBecomes, Web!NoneAssumption
<1> QED  BY <1>4, <1>5, <1>6, <1>7, <1>8, <1>9, <1>10, <1>11 DEF BrowserInv

\* A logout revokes the session of its token.
LEMMA ServeLogoutKeeps ==
    ASSUME Web!NoneAssumption, BrowserInv, NEW r \in Request, call[r].phase = "sent",
           call[r].kind = "logout", Web!Answer(r, "ok", None),
           IF call[r].tok # None /\ Web!Server!Unrevoked(call[r].tok)
             THEN Web!Server!Logout(call[r].tok)
           ELSE UNCHANGED Web!server, UNCHANGED <<cookie, page, busy, haze>>
    PROVE  BrowserInv'
<1>1. PICK c \in CallType :
          /\ CallBecomes(r, c)
          /\ call[r].phase = "abandoned" => c = Web!NoCall
          /\ call[r].phase # "abandoned" =>
                /\ c.page = call[r].page /\ c.kind = call[r].kind /\ c.tok = call[r].tok
                /\ c.phase = "answered" /\ c.answer = "ok" /\ c.got = None /\ c # Web!NoCall
  BY AnswerIsKept DEF BrowserInv
<1>2. call[r].tok \in Session \cup {None} /\ req' = req
  BY DEF BrowserInv, Web!TypeOK, Web!Server!Logout, Web!server
<1>3. /\ call[r].tok # None => status'[call[r].tok] # "valid"
      /\ \A s \in Session : status'[s] # status[s] =>
            s = call[r].tok /\ Web!Server!Unrevoked(s) /\ status'[s] = "LOGOUT"
  BY DEF BrowserInv, Web!TypeOK, Web!Server!Logout, Web!Server!Unrevoked, Web!server,
     Web!Server!TypeOK
<1>4. Served(r)
  BY <1>1 DEF Served, CallBecomes
<1>5. IInv'
  BY SessionStepIsRotation, RotationInvariant DEF BrowserInv, Web!TypeOK, CallType
<1>6. Web!TypeOK'
  BY <1>1, <1>5, RotationTypes DEF BrowserInv, Web!TypeOK, CallType, CallBecomes
<1>7. HandlersServeCalls'
  <2> SUFFICES ASSUME NEW q \in Request PROVE HandlerServes(q)'
    BY DEF HandlersServeCalls
  <2>1. CASE q # r
    BY <2>1, <1>1, <1>2 DEF BrowserInv, HandlersServeCalls, HandlerServes, Web!UnderWay, CallBecomes
  <2>2. CASE q = r
    BY <1>1, <1>2 DEF BrowserInv, Web!RefreshKind, HandlersServeCalls, HandlerServes, Web!UnderWay,
       CallBecomes
  <2> QED  BY <2>1, <2>2
<1>8. TokensExist'
  BY <1>1, <1>3 DEF BrowserInv, Web!TypeOK, TokensExist, Web!Server!Exists, CallBecomes,
     Web!NoneAssumption
<1>9. PagesAreSound' /\ OneCallOfPage' /\ OnePageCalls'
  BY <1>4, ServedKeepsPages
<1>10. TokenUsedOnce'
  BY <1>1, <1>3, <1>4, ServedKeepsTokens DEF CallBecomes
<1>11. ReuseFindsNothing'
  BY <1>2, <1>3 DEF BrowserInv, Web!TypeOK, ReuseFindsNothing, HandlersServeCalls, HandlerServes,
     Clear, Web!Server!Unrevoked
<1>12. CookieIsSession'
  BY <1>1, <1>3 DEF BrowserInv, CookieIsSession, HandlersServeCalls, HandlerServes, Quiet, Valid,
     Web!UnderWay, CallBecomes, Web!NoneAssumption
<1> QED  BY <1>5, <1>6, <1>7, <1>8, <1>9, <1>10, <1>11, <1>12 DEF BrowserInv

\* A sign-out everywhere has found the sessions of the user.
LEMMA LogoutAllKeeps ==
    ASSUME Web!NoneAssumption, BrowserInv, NEW r \in Request, call[r].phase = "sent",
           call[r].kind = "logoutAll", Web!Server!SignOutScan(r, "logoutAll"), Web!Serving(r),
             UNCHANGED <<cookie, page, busy, haze>>
    PROVE  BrowserInv'
<1>1. PICK c \in CallType :
          /\ CallBecomes(r, c)
          /\ c.page = call[r].page /\ c.kind = call[r].kind /\ c.tok = call[r].tok
          /\ c.phase = "serving" /\ c.answer = call[r].answer /\ c.got = call[r].got
               /\ c # Web!NoCall
  BY ServingIsKept, NoCallIsTyped DEF BrowserInv
<1>2. /\ status' = status
      /\ req'[r].pc = "revoke" /\ req'[r].job = "logoutAll" /\ req'[r].tok = None
      /\ req'[r].cand = {s \in Session : Web!Server!Unrevoked(s)}
      /\ \A q \in Request : q # r => req'[q] = req[q]
  BY DEF BrowserInv, Web!TypeOK, Web!Server!SignOutScan, Web!Server!At, Web!Server!Scanned,
     Web!Server!TypeOK,
     Web!Server!RequestState
<1>3. Served(r)
  BY <1>1 DEF Served, CallBecomes
<1>4. IInv'
  BY RequestStepIsRotation, RotationInvariant DEF BrowserInv
<1>5. Web!TypeOK'
  BY <1>1, <1>4, RotationTypes DEF BrowserInv, Web!TypeOK, CallType, CallBecomes
<1>6. HandlersServeCalls'
  <2> SUFFICES ASSUME NEW q \in Request PROVE HandlerServes(q)'
    BY DEF HandlersServeCalls
  <2>1. CASE q # r
    BY <1>1, <1>2 DEF BrowserInv, HandlersServeCalls, HandlerServes, Web!UnderWay, CallBecomes
  <2>2. CASE q = r
    BY <1>1, <1>2 DEF BrowserInv, HandlersServeCalls, HandlerServes, Web!UnderWay, CallBecomes
  <2> QED  BY <2>1, <2>2
<1>7. TokensExist'
  BY <1>1, <1>2 DEF BrowserInv, TokensExist, Web!Server!Exists, CallBecomes
<1>8. PagesAreSound' /\ OneCallOfPage' /\ OnePageCalls'
  BY <1>3, ServedKeepsPages
<1>9. TokenUsedOnce'
  BY <1>1, <1>2, <1>3, ServedKeepsTokens DEF CallBecomes
<1>10. ReuseFindsNothing'
  BY <1>2 DEF BrowserInv, ReuseFindsNothing, Clear, Web!Server!Unrevoked
<1>11. CookieIsSession'
  BY <1>1, <1>2, NoCallIsTyped DEF BrowserInv, CookieIsSession, Quiet, Valid, Web!UnderWay,
     Web!Server!Unrevoked, CallBecomes
<1> QED  BY <1>4, <1>5, <1>6, <1>7, <1>8, <1>9, <1>10, <1>11 DEF BrowserInv

\* A handler fails, and the history says so.
LEMMA ServeFailureKeeps ==
    ASSUME Web!NoneAssumption, BrowserInv, NEW r \in Request, Web!ServeFailure(r)
    PROVE  BrowserInv'
<1>1. PICK c \in CallType :
          /\ CallBecomes(r, c)
          /\ call[r].phase = "abandoned" => c = Web!NoCall
          /\ call[r].phase # "abandoned" =>
                /\ c.page = call[r].page /\ c.kind = call[r].kind /\ c.tok = call[r].tok
                /\ c.phase = "answered" /\ c.answer = "error" /\ c.got = None /\ c # Web!NoCall
  BY AnswerIsKept DEF Web!ServeFailure, BrowserInv
<1>2. /\ status' = status /\ req' = req /\ cookie' = cookie /\ page' = page /\ busy' = busy
      /\ haze' = haze \cup {"failure"} /\ call[r].phase = "sent"
  BY DEF Web!ServeFailure, Web!server
<1>3. Served(r)
  BY <1>1 DEF Served, CallBecomes, Web!ServeFailure
<1>4. IInv'
  BY RotationInvariant DEF BrowserInv, Web!ServeFailure
<1>5. Web!TypeOK'
  BY <1>1, <1>2, <1>4, RotationTypes DEF BrowserInv, Web!TypeOK, CallType, CallBecomes, Web!Haze
<1>6. HandlersServeCalls'
  <2> SUFFICES ASSUME NEW q \in Request PROVE HandlerServes(q)'
    BY DEF HandlersServeCalls
  <2>1. CASE q # r
    BY <1>1, <1>2 DEF BrowserInv, HandlersServeCalls, HandlerServes, Web!UnderWay, CallBecomes
  <2>2. CASE q = r
    BY <1>1, <1>2 DEF BrowserInv, HandlersServeCalls, HandlerServes, Web!UnderWay, CallBecomes
  <2> QED  BY <2>1, <2>2
<1>7. TokensExist'
  BY <1>1, <1>2 DEF BrowserInv, TokensExist, Web!Server!Exists, CallBecomes
<1>8. PagesAreSound' /\ OneCallOfPage' /\ OnePageCalls'
  BY <1>3, ServedKeepsPages
<1>9. TokenUsedOnce'
  BY <1>1, <1>2, <1>3, ServedKeepsTokens DEF CallBecomes
<1>10. ReuseFindsNothing'
  BY <1>2 DEF ReuseFindsNothing, Clear
<1>11. CookieIsSession'
  BY <1>2 DEF CookieIsSession, Quiet
<1> QED  BY <1>4, <1>5, <1>6, <1>7, <1>8, <1>9, <1>10, <1>11 DEF BrowserInv

\* A session that expires was valid and is no more.
LEMMA ExpireKeeps ==
    ASSUME BrowserInv, NEW s \in Session, Web!Expire(s)
    PROVE  BrowserInv'
<1>1. /\ call' = call /\ req' = req /\ cookie = s /\ cookie' = None /\ page' = page /\ busy' = busy
      /\ haze' = haze
  BY DEF Web!Expire, Web!Server!Expire
<1>2. /\ status[s] = "valid" /\ status'[s] = "expired"
      /\ \A t \in Session : t # s => status'[t] = status[t]
  BY DEF Web!Expire, Web!Server!Expire, BrowserInv, Web!TypeOK, Web!Server!TypeOK,
     Web!Server!RequestState
<1>3. IInv'
  BY SessionStepIsRotation, RotationInvariant DEF BrowserInv, Web!Expire
<1>4. Web!TypeOK'
  BY <1>1, <1>2, <1>3, RotationTypes DEF BrowserInv, Web!TypeOK, CallType
<1>5. HandlersServeCalls'
  BY <1>1 DEF BrowserInv, HandlersServeCalls, HandlerServes, Web!UnderWay
<1>6. TokensExist'
  BY <1>1, <1>2 DEF BrowserInv, Web!TypeOK, TokensExist, Web!Server!Exists
<1>7. PagesAreSound' /\ OneCallOfPage' /\ OnePageCalls'
  BY <1>1 DEF BrowserInv, PagesAreSound, OneCallOfPage, OnePageCalls, Clear, Refreshing, Live,
     Web!UnderWay
<1>8. TokenUsedOnce'
  BY <1>1, <1>2 DEF BrowserInv, TokenUsedOnce, Web!TypeOK, Clear, Refreshing, Live
<1>9. ReuseFindsNothing'
  BY <1>1, <1>2 DEF BrowserInv, Web!TypeOK, ReuseFindsNothing, HandlersServeCalls, HandlerServes,
     Clear, Web!Server!Unrevoked
<1>10. CookieIsSession'
  BY <1>1, <1>2 DEF BrowserInv, CookieIsSession, Quiet, Valid, Web!UnderWay
<1> QED  BY <1>3, <1>4, <1>5, <1>6, <1>7, <1>8, <1>9, <1>10 DEF BrowserInv

-----------------------------------------------------------------------------
(* Calls that are sent                                                     *)

\* A page sends a call: to restore the session, to refresh, to sign in or to sign out.
SendsCall(p, r, kind) ==
    /\ Web!Send(p, r, kind)
    /\ kind = "restore" => /\ \/ page[p] \in {"closed", "error"}
                              \/ page[p] = "unauthenticated" /\ p \notin busy
                           /\ ~Web!Pending(p, {"restore"})
                           /\ page' = [page EXCEPT ![p] = "restoring"]
    /\ kind # "restore" => page' = page
    /\ kind = "refresh" => p \in busy /\ ~Web!Pending(p, {"refresh"})
    /\ kind = "signin" => page[p] # "closed"
    /\ kind \in Web!SignOutKind => page[p] = "authenticated"
    /\ UNCHANGED <<Web!server, cookie, busy>>

\* It does not meet a refresh of its own, nor of another page.
LEMMA SendKeeps ==
    ASSUME BrowserInv, NEW p \in Page, NEW r \in Request, NEW kind \in Web!CallKind,
           SendsCall(p, r, kind)
    PROVE  BrowserInv'
<1>1. PICK c \in CallType :
          /\ CallBecomes(r, c) /\ c # Web!NoCall
          /\ c.page = p /\ c.kind = kind /\ c.tok = cookie
          /\ c.phase = "sent" /\ c.answer = "none" /\ c.got = None
  BY SendIsKept DEF BrowserInv, SendsCall
<1>2. /\ call[r] = Web!NoCall /\ haze \subseteq haze' /\ haze' \subseteq Web!Haze
      /\ "others" \notin haze' => /\ \A q \in Request : Web!UnderWay(q) => call[q].page = p
                                  /\ kind = "signin" => cookie = None
      /\ "own" \notin haze' => /\ \A q \in Request : Web!UnderWay(q) => call[q].page # p
                               /\ kind = "refresh" => page[p] = "authenticated"
  BY SendIsKept DEF BrowserInv, SendsCall
<1>3. call'[r] = c /\ \A q \in Request : q # r => call'[q] = call[q]
  BY <1>1 DEF CallBecomes
<1>4. /\ status' = status /\ req' = req /\ cookie' = cookie /\ busy' = busy
      /\ \A x \in Page : x # p => page'[x] = page[x]
      /\ page'[p] = IF kind = "restore" THEN "restoring" ELSE page[p]
  BY DEF SendsCall, Web!server, BrowserInv, Web!TypeOK
<1>5. page[p] = "closed" => kind = "restore"
  BY DEF SendsCall, BrowserInv, PagesAreSound, Web!CallKind, Web!RefreshKind, Web!SignOutKind
<1>6. IInv'
  BY RotationInvariant DEF BrowserInv, SendsCall
<1>7. Web!TypeOK'
  <2>1. page' \in [Page -> Web!PageStatus]
    BY DEF SendsCall, BrowserInv, Web!TypeOK, Web!PageStatus
  <2> QED  BY <1>1, <1>2, <1>4, <1>6, <2>1, RotationTypes
              DEF BrowserInv, Web!TypeOK, CallType, CallBecomes
<1>8. HandlersServeCalls'
  <2> SUFFICES ASSUME NEW q \in Request PROVE HandlerServes(q)'
    BY DEF HandlersServeCalls
  <2>1. CASE q # r
    BY <2>1, <1>3, <1>4 DEF BrowserInv, HandlersServeCalls, HandlerServes, Web!UnderWay
  <2>2. CASE q = r
    <3>1. req[r].pc = "idle"
      BY <1>2, NoCallIsTyped DEF BrowserInv, HandlersServeCalls, HandlerServes
    <3> QED  BY <2>2, <1>1, <1>3, <1>4, <3>1 DEF HandlerServes, Web!UnderWay, Web!CallKind,
                Web!RefreshKind, Web!SignOutKind
  <2> QED  BY <2>1, <2>2
<1>9. TokensExist'
  BY <1>1, <1>3, <1>4 DEF BrowserInv, TokensExist, Web!Server!Exists
<1>10. PagesAreSound'
  <2>1. page'[p] # "closed"
    BY <1>4, <1>5
  <2> QED  BY <1>1, <1>3, <1>4, <2>1 DEF BrowserInv, PagesAreSound
<1>11. OneCallOfPage'
  <2> SUFFICES ASSUME "own" \notin haze' PROVE OneCallOfPage'
    BY DEF OneCallOfPage
  <2>1. \A q \in Request : Web!UnderWay(q)' /\ q # r => Web!UnderWay(q) /\ call'[q] = call[q]
          /\ call[q].page # p
    BY <1>2, <1>3 DEF Web!UnderWay
  <2>2. \A q \in Request : Refreshing(q)' /\ q # r => Web!UnderWay(q)' /\ Refreshing(q)
    BY <1>3, NoCallIsTyped DEF Web!UnderWay, Refreshing, Live
  <2>3. \A q \in Request : Web!UnderWay(q) => call[q].page \in Page
    BY DEF BrowserInv, HandlersServeCalls, HandlerServes
  <2>4. Refreshing(r)' => page'[p] # "unauthenticated"
    BY <1>1, <1>2, <1>3, <1>4 DEF Refreshing, Web!RefreshKind
  <2> QED  BY <1>1, <1>2, <1>3, <1>4, <2>1, <2>2, <2>3, <2>4 DEF BrowserInv, OneCallOfPage
<1>12. Clear' => /\ Clear /\ \A q \in Request : Web!UnderWay(q) => call[q].page = p
                 /\ kind = "restore" => p \notin busy /\ \A q \in Request : ~Refreshing(q)
                 /\ kind = "refresh" => \A q \in Request : Refreshing(q) =>
                       call[q].kind = "restore" /\ (call[q].tok # cookie \/ cookie = None)
  <2> SUFFICES ASSUME Clear'
               PROVE  /\ Clear /\ \A q \in Request : Web!UnderWay(q) => call[q].page = p
                      /\ kind = "restore" => p \notin busy /\ \A q \in Request : ~Refreshing(q)
                      /\ kind = "refresh" => \A q \in Request : Refreshing(q) =>
                            call[q].kind = "restore" /\ (call[q].tok # cookie \/ cookie = None)
    OBVIOUS
  <2>1. Clear /\ \A q \in Request : Web!UnderWay(q) => call[q].page = p
    BY <1>2 DEF Clear
  <2>2. \A q \in Request : Refreshing(q) => /\ Web!UnderWay(q) /\ call[q].page = p
                                            /\ call[q].phase # "abandoned"
                                            /\ call[q].kind \in {"restore", "refresh"}
    BY <2>1, NoCallIsTyped DEF Web!UnderWay, Refreshing, Live, Web!RefreshKind
  <2>3. ASSUME kind = "restore" PROVE p \notin busy /\ \A q \in Request : ~Refreshing(q)
    <3>1. p \notin busy
      BY <2>1, <2>3 DEF SendsCall, BrowserInv, OnePageCalls, PagesAreSound
    <3>2. ASSUME NEW q \in Request, Refreshing(q) PROVE FALSE
      <4>1. call[q].kind # "restore"
        BY <2>2, <2>3, <3>2 DEF SendsCall, Web!Pending
      <4> QED  BY <2>1, <2>2, <3>1, <3>2, <4>1 DEF BrowserInv, OnePageCalls
    <3> QED  BY <3>1, <3>2
  <2>4. ASSUME kind = "refresh", NEW q \in Request, Refreshing(q)
        PROVE  call[q].kind = "restore" /\ (call[q].tok # cookie \/ cookie = None)
    <3>1. call[q].kind = "restore" /\ p \in busy
      BY <2>2, <2>4 DEF SendsCall, Web!Pending
    <3>2. page[p] # "restoring"
      BY <2>1, <3>1 DEF BrowserInv, OnePageCalls
    <3> QED  BY <2>1, <2>2, <2>4, <3>1, <3>2 DEF BrowserInv, OnePageCalls
  <2> QED  BY <2>1, <2>3, <2>4
<1>13. \A q \in Request : Web!UnderWay(q)' /\ q # r => Web!UnderWay(q)
  BY <1>3 DEF Web!UnderWay
<1>14. \A q \in Request : Refreshing(q)' /\ q # r => Refreshing(q)
  BY <1>3 DEF Refreshing, Live
<1>15. OnePageCalls'
  <2> SUFFICES ASSUME Clear' PROVE OnePageCalls'
    BY DEF OnePageCalls
  <2>1. \A q \in Request : call'[q].phase # "abandoned" /\ call'[q].answer # "error"
    BY <1>1, <1>3, <1>12 DEF BrowserInv, OnePageCalls
  <2>2. \A q \in Request : Web!UnderWay(q)' => call'[q].page = p
    BY <1>1, <1>3, <1>12, <1>13
  <2>3. \A x \in Page : page'[x] # "error"
    BY <1>4, <1>12 DEF BrowserInv, OnePageCalls
  <2>4. \A x \in Page : page'[x] = "restoring" => x \notin busy'
    BY <1>4, <1>12 DEF BrowserInv, OnePageCalls, PagesAreSound
  <2>5. \A x \in Page : page'[x] = "authenticated" => x \in busy'
    BY <1>4, <1>12 DEF BrowserInv, OnePageCalls
  <2>6. \A q \in Request : Web!UnderWay(q)' /\ call'[q].kind \notin {"restore", "signin"} =>
            call'[q].page \in busy'
    <3>1. kind \notin {"restore", "signin"} => p \in busy
      <4>1. page[p] = "authenticated" => p \in busy
        BY <1>12 DEF BrowserInv, OnePageCalls
      <4> QED  BY <4>1 DEF SendsCall, Web!CallKind, Web!RefreshKind, Web!SignOutKind
    <3> QED  BY <1>1, <1>3, <1>4, <1>12, <1>13, <3>1 DEF BrowserInv, OnePageCalls
  <2>7. \A q \in Request : call'[q].kind = "restore" /\ call'[q].tok # None /\ call'[q].tok = cookie' =>
            page'[call'[q].page] = "restoring"
    <3> SUFFICES ASSUME NEW q \in Request, call'[q].kind = "restore", call'[q].tok # None,
                        call'[q].tok = cookie'
                 PROVE  page'[call'[q].page] = "restoring"
      OBVIOUS
    <3>1. CASE q = r
      BY <1>1, <1>3, <1>4, <3>1
    <3>2. CASE q # r
      <4>1. Web!UnderWay(q) /\ page[call[q].page] = "restoring" /\ call'[q] = call[q]
        BY <1>3, <1>4, <1>12, <3>2, NoCallIsTyped DEF BrowserInv, OnePageCalls, Web!UnderWay
      <4> QED  BY <1>4, <1>12, <4>1
    <3> QED  BY <3>1, <3>2
  <2>8. \A q, d \in Request : Refreshing(q)' /\ Refreshing(d)' /\ q # d =>
            call'[q].kind # call'[d].kind /\ (call'[q].tok # call'[d].tok \/ call'[q].tok = None)
    <3>1. Refreshing(r)' => kind \in {"restore", "refresh"}
      BY <1>1, <1>3 DEF Refreshing, Web!RefreshKind
    <3>2. \A q \in Request : Refreshing(r)' /\ Refreshing(q) =>
              call[q].kind # kind /\ (call[q].tok # cookie \/ cookie = None)
      BY <1>12, <3>1
    <3> QED  BY <1>1, <1>3, <1>12, <1>14, <3>2 DEF BrowserInv, OnePageCalls
  <2> QED  BY <1>1, <1>3, <2>1, <2>2, <2>3, <2>4, <2>5, <2>6, <2>7, <2>8 DEF OnePageCalls
<1>16. TokenUsedOnce'
  <2> SUFFICES ASSUME Clear' PROVE TokenUsedOnce'
    BY DEF TokenUsedOnce
  <2>1. Clear
    BY <1>12
  <2>2. \A q \in Request : Refreshing(q) => q # r /\ Refreshing(q)' /\ call'[q] = call[q]
    BY <1>2, <1>3, NoCallIsTyped DEF Refreshing, Live
  <2>3. cookie # None /\ status[cookie] = "ROTATED" => \E q \in Request : Renews(q)
    BY <2>1 DEF BrowserInv, TokenUsedOnce
  <2>4. Refreshing(r)' /\ cookie # None => status[cookie] # "ROTATED"
    <3>1. Refreshing(r)' => kind \in {"restore", "refresh"}
      BY <1>1, <1>3 DEF Refreshing, Web!RefreshKind
    <3> QED  BY <1>12, <2>3, <3>1 DEF Renews
  <2>5. \A q \in Request : Refreshing(q)' /\ call'[q].tok # None /\ call'[q].phase # "answered" =>
            status'[call'[q].tok] # "ROTATED"
    BY <1>1, <1>3, <1>4, <1>14, <2>1, <2>4 DEF BrowserInv, TokenUsedOnce
  <2>6. \A q \in Request : call'[q].got # None =>
            /\ status'[call'[q].got] # "ROTATED" /\ cookie' # call'[q].got
            /\ \A d \in Request : call'[d].tok # call'[q].got
                 /\ (call'[d].got = call'[q].got => d = q)
    BY <1>1, <1>3, <1>4, <2>1 DEF BrowserInv, TokenUsedOnce
  <2>7. cookie' # None /\ status'[cookie'] = "ROTATED" => \E q \in Request : Renews(q)'
    BY <1>4, <2>2, <2>3 DEF Renews
  <2> QED  BY <2>5, <2>6, <2>7 DEF TokenUsedOnce
<1>17. ReuseFindsNothing'
  BY <1>4, <1>12 DEF BrowserInv, ReuseFindsNothing, Web!Server!Unrevoked
<1>18. CookieIsSession'
  <2> SUFFICES ASSUME Quiet' PROVE CookieIsSession'
    BY DEF CookieIsSession
  <2>1. Quiet /\ \A q \in Request : ~Web!UnderWay(q)
    BY <1>2 DEF Quiet
  <2>2. \A s \in Session : Valid(s) => s = cookie
    BY <2>1, NoCallIsTyped DEF BrowserInv, CookieIsSession, Web!UnderWay
  <2>3. \A q \in Request : req[q].pc = "idle"
    BY <2>1, NoCallIsTyped DEF BrowserInv, HandlersServeCalls, HandlerServes, Web!UnderWay
  <2>4. kind = "signin" => cookie = None
    BY <1>2 DEF Quiet
  <2>5. \A q \in Request : q # r => call'[q] = Web!NoCall
    BY <1>3, <2>1 DEF Web!UnderWay
  <2> QED  BY <1>1, <1>3, <1>4, <2>2, <2>3, <2>4, <2>5, NoCallIsTyped
              DEF CookieIsSession, Web!UnderWay, Valid
<1> QED  BY <1>6, <1>7, <1>8, <1>9, <1>10, <1>11, <1>15, <1>16, <1>17, <1>18 DEF BrowserInv

-----------------------------------------------------------------------------
(* Answers                                                                 *)

\* What is left of a call that the browser gave up.
LEMMA GivenUpIsTyped ==
    ASSUME NEW c \in CallType
    PROVE  /\ Web!GivenUp(c) \in CallType
           /\ c.phase \in {"serving", "abandoned"} =>
                 /\ Web!GivenUp(c).page = c.page /\ Web!GivenUp(c).kind = c.kind
                      /\ Web!GivenUp(c).tok = c.tok
                 /\ Web!GivenUp(c).phase = "abandoned" /\ Web!GivenUp(c).answer = "none"
                 /\ Web!GivenUp(c).got = None /\ Web!GivenUp(c) # Web!NoCall
           /\ c.phase \notin {"serving", "abandoned"} => Web!GivenUp(c) = Web!NoCall
<1>1. /\ c.page \in Page \cup {None} /\ c.kind \in Web!CallKind \cup {"none"}
      /\ c.tok \in Session \cup {None}
  BY DEF CallType
<1>2. CASE c.phase \in {"serving", "abandoned"}
  <2>1. Web!GivenUp(c) = Web!Call(c.page, c.kind, c.tok, "abandoned", "none", None)
    BY <1>2 DEF Web!GivenUp
  <2> QED  BY <1>1, <1>2, <2>1 DEF Web!Call, CallType, Web!NoCall
<1>3. CASE c.phase \notin {"serving", "abandoned"}
  BY <1>3, NoCallIsTyped DEF Web!GivenUp
<1> QED  BY <1>2, <1>3

\* The page of the call that r serves learns what became of it; other pages do not.
LEMMA PageLearns ==
    ASSUME BrowserInv, NEW r \in Request, Live(r), NEW answer \in {"ok", "401", "error", "none"},
           page' = Web!PageAfter(r, answer)
    PROVE  /\ call[r].page \in Page /\ page[call[r].page] # "closed"
           /\ page' \in [Page -> Web!PageStatus]
           /\ \A x \in Page : x # call[r].page => page'[x] = page[x]
           /\ \/ call[r].kind = "signin" /\ answer # "ok" /\ page' = page
              \/ page'[call[r].page] = Web!StatusAfter(call[r].kind, answer)
           /\ page'[call[r].page] # "closed"
<1>1. call[r].page \in Page /\ page[call[r].page] # "closed"
  BY NoCallIsTyped DEF Live, BrowserInv, HandlersServeCalls, HandlerServes, PagesAreSound
<1>2. page \in [Page -> Web!PageStatus]
  BY DEF BrowserInv, Web!TypeOK
<1>3. Web!StatusAfter(call[r].kind, answer) \in {"authenticated", "unauthenticated", "error"}
  BY DEF Web!StatusAfter
<1>4. CASE call[r].kind = "signin" /\ answer # "ok"
  BY <1>1, <1>2, <1>4 DEF Web!PageAfter
<1>5. CASE ~(call[r].kind = "signin" /\ answer # "ok")
  <2>1. page' = [page EXCEPT ![call[r].page] = Web!StatusAfter(call[r].kind, answer)]
    BY <1>5 DEF Web!PageAfter
  <2> QED  BY <1>1, <1>2, <1>3, <2>1 DEF Web!PageStatus
<1> QED  BY <1>4, <1>5

\* An answer arrives: the token it brings is in no other place.
LEMMA DeliverKeeps ==
    ASSUME Web!NoneAssumption, BrowserInv, NEW r \in Request, Web!Deliver(r)
    PROVE  BrowserInv'
<1> DEFINE p == call[r].page
<1>1. /\ call \in [Request -> CallType] /\ call[r].phase = "answered" /\ Live(r) /\ Web!UnderWay(r)
      /\ call[r].answer \in {"ok", "401", "error", "none"} /\ req[r].pc = "idle"
  BY DEF Web!Deliver, Live, BrowserInv, Web!TypeOK, CallType, HandlersServeCalls, HandlerServes
<1>2. /\ call'[r] = Web!NoCall /\ call' \in [Request -> CallType]
      /\ \A q \in Request : q # r => call'[q] = call[q]
  BY <1>1, NoCallIsTyped DEF Web!Deliver
<1>3. status' = status /\ req' = req /\ haze' = haze
  BY DEF Web!Deliver, Web!server
<1>4. cookie' = IF call[r].answer = "ok" THEN call[r].got ELSE cookie
  BY DEF Web!Deliver, Web!CookieAfter
<1>5. /\ p \in Page /\ page[p] # "closed" /\ page'[p] # "closed"
           /\ page' \in [Page -> Web!PageStatus]
      /\ \A x \in Page : x # p => page'[x] = page[x]
      /\ \/ call[r].kind = "signin" /\ call[r].answer # "ok" /\ page' = page
         \/ page'[p] = Web!StatusAfter(call[r].kind, call[r].answer)
  BY <1>1, PageLearns DEF Web!Deliver
<1>6. \A x \in Page : x \in busy' <=> x \in busy \/ page'[x] = "authenticated"
  BY DEF Web!Deliver
<1>7. \A q \in Request : Web!UnderWay(q)' => q # r /\ Web!UnderWay(q) /\ call'[q] = call[q]
  BY <1>2 DEF Web!UnderWay
<1>8. \A q \in Request : Refreshing(q)' => q # r /\ Refreshing(q) /\ Web!UnderWay(q)'
  BY <1>2, NoCallIsTyped DEF Refreshing, Live, Web!UnderWay
<1> HIDE DEF p
<1>9. IInv'
  BY RotationInvariant DEF BrowserInv, Web!Deliver
<1>10. Web!TypeOK'
  <2>1. call[r].got \in Session \cup {None}
    BY <1>1 DEF CallType
  <2>2. busy' \subseteq Page
    BY DEF Web!Deliver, BrowserInv, Web!TypeOK
  <2> QED  BY <1>2, <1>3, <1>4, <1>5, <1>9, <2>2, RotationTypes DEF BrowserInv, Web!TypeOK, CallType
<1>11. HandlersServeCalls'
  <2> SUFFICES ASSUME NEW q \in Request PROVE HandlerServes(q)'
    BY DEF HandlersServeCalls
  <2>1. CASE q # r
    BY <2>1, <1>2, <1>3 DEF BrowserInv, HandlersServeCalls, HandlerServes, Web!UnderWay
  <2>2. CASE q = r
    BY <2>2, <1>1, <1>2, <1>3, NoCallIsTyped DEF HandlerServes, Web!UnderWay
  <2> QED  BY <2>1, <2>2
<1>12. TokensExist'
  BY <1>2, <1>3, <1>4, NoCallIsTyped DEF BrowserInv, TokensExist, Web!Server!Exists
<1>13. PagesAreSound'
  BY <1>2, <1>5, <1>6, NoCallIsTyped DEF BrowserInv, PagesAreSound, Web!NoneAssumption
<1>14. OneCallOfPage'
  <2> SUFFICES ASSUME "own" \notin haze' PROVE OneCallOfPage'
    BY DEF OneCallOfPage
  <2>1. \A q \in Request : Web!UnderWay(q)' => call[q].page # p /\ call[q].page \in Page
    BY <1>1, <1>3, <1>7 DEF BrowserInv, OneCallOfPage, HandlersServeCalls, HandlerServes, p
  <2> QED  BY <1>3, <1>5, <1>7, <1>8, <2>1 DEF BrowserInv, OneCallOfPage
<1>15. OnePageCalls'
  <2> SUFFICES ASSUME Clear' PROVE OnePageCalls'
    BY DEF OnePageCalls
  <2>1. Clear
    BY <1>3 DEF Clear
  <2>2. \A q \in Request : Web!UnderWay(q)' => call[q].page = p
    BY <1>1, <1>7, <2>1 DEF BrowserInv, OnePageCalls, p
  <2>3. /\ page'[p] # "error"
        /\ page'[p] = "restoring" => page' = page /\ call[r].kind = "signin" /\ call[r].answer # "ok"
    <3>1. CASE call[r].kind = "signin" /\ call[r].answer # "ok" /\ page' = page
      BY <1>1, <1>5, <2>1, <3>1 DEF BrowserInv, OnePageCalls, p
    <3>2. CASE page'[p] = Web!StatusAfter(call[r].kind, call[r].answer)
      BY <2>1, <3>2 DEF Web!StatusAfter, BrowserInv, OnePageCalls
    <3> QED  BY <1>5, <3>1, <3>2
  <2>4. \A q \in Request : call'[q].phase # "abandoned" /\ call'[q].answer # "error"
    BY <1>2, <2>1, NoCallIsTyped DEF BrowserInv, OnePageCalls
  <2>5. \A x \in Page : page'[x] # "error" /\ (page'[x] = "restoring" => x \notin busy')
    <3> SUFFICES ASSUME NEW x \in Page
                 PROVE  page'[x] # "error" /\ (page'[x] = "restoring" => x \notin busy')
      OBVIOUS
    <3>1. page'[x] = "restoring" => page[x] = "restoring"
      BY <1>5, <2>3
    <3> QED  BY <1>5, <1>6, <2>1, <2>3, <3>1 DEF BrowserInv, OnePageCalls
  <2>6. \A x \in Page : page'[x] = "authenticated" => x \in busy'
    BY <1>6
  <2>7. \A q \in Request : Web!UnderWay(q)' /\ call'[q].kind \notin {"restore", "signin"} =>
            call'[q].page \in busy'
    BY <1>5, <1>6, <1>7, <2>1, <2>2 DEF BrowserInv, OnePageCalls
  <2>8. \A q \in Request : call'[q].kind = "restore" /\ call'[q].tok # None /\ call'[q].tok = cookie' =>
            page'[call'[q].page] = "restoring"
    <3> SUFFICES ASSUME NEW q \in Request, call'[q].kind = "restore", call'[q].tok # None,
                        call'[q].tok = cookie'
                 PROVE  page'[call'[q].page] = "restoring"
      OBVIOUS
    <3>1. q # r /\ Web!UnderWay(q) /\ call'[q] = call[q] /\ call[q].page = p
      BY <1>2, <1>7, <2>2, NoCallIsTyped DEF Web!UnderWay
    <3>2. call[r].answer # "ok" \/ call[r].got = None
      <4>1. call[r].got # None => call[q].tok # call[r].got
        BY <2>1 DEF BrowserInv, TokenUsedOnce
      <4> QED  BY <1>4, <3>1, <4>1
    <3>3. call[r].answer # "ok" /\ cookie' = cookie
      BY <1>4, <3>1, <3>2
    <3>4. page[p] = "restoring"
      BY <2>1, <3>1, <3>3 DEF BrowserInv, OnePageCalls
    <3>5. call[r].kind \in {"restore", "signin"}
      BY <1>1, <1>5, <2>1, <3>4 DEF BrowserInv, OnePageCalls, p
    <3>6. CASE call[r].kind = "restore"
      <4>1. call[q].phase \in {"sent", "serving", "answered"}
        BY <1>1, <2>1, <3>1 DEF BrowserInv, OnePageCalls, HandlersServeCalls, HandlerServes,
           CallType
      <4>2. Refreshing(q) /\ Refreshing(r)
        BY <1>1, <3>1, <3>6, <4>1 DEF Refreshing, Live, Web!RefreshKind
      <4> QED  BY <2>1, <3>1, <3>6, <4>2 DEF BrowserInv, OnePageCalls
    <3>7. CASE call[r].kind = "signin"
      <4>1. page' = page
        BY <1>1, <1>5, <3>3, <3>7, PageLearns DEF Web!Deliver, Web!PageAfter
      <4> QED  BY <3>1, <3>4, <4>1
    <3> QED  BY <3>5, <3>6, <3>7
  <2>9. \A q, d \in Request : Refreshing(q)' /\ Refreshing(d)' /\ q # d =>
            call'[q].kind # call'[d].kind /\ (call'[q].tok # call'[d].tok \/ call'[q].tok = None)
    BY <1>7, <1>8, <2>1 DEF BrowserInv, OnePageCalls
  <2> QED  BY <1>7, <2>2, <2>4, <2>5, <2>6, <2>7, <2>8, <2>9 DEF OnePageCalls
<1>16. TokenUsedOnce'
  <2> SUFFICES ASSUME Clear' PROVE TokenUsedOnce'
    BY DEF TokenUsedOnce
  <2>1. Clear
    BY <1>3 DEF Clear
  <2>2. cookie' # None /\ status'[cookie'] = "ROTATED" =>
            \E q \in Request : Renews(q)'
    <3> SUFFICES ASSUME cookie' # None, status'[cookie'] = "ROTATED"
                 PROVE  \E q \in Request : Renews(q)'
      OBVIOUS
    <3>1. call[r].answer # "ok"
      BY <1>3, <1>4, <2>1 DEF BrowserInv, TokenUsedOnce
    <3>2. PICK q \in Request : Renews(q)
      BY <1>3, <1>4, <2>1, <3>1 DEF BrowserInv, TokenUsedOnce
    <3>3. q # r /\ call'[q] = call[q] /\ cookie' = cookie
      BY <1>2, <1>4, <3>1, <3>2 DEF Renews
    <3> QED  BY <3>2, <3>3 DEF Renews, Refreshing, Live
  <2>3. \A q \in Request : Refreshing(q)' /\ call'[q].tok # None /\ call'[q].phase # "answered" =>
            status'[call'[q].tok] # "ROTATED"
    BY <1>3, <1>7, <1>8, <2>1 DEF BrowserInv, TokenUsedOnce
  <2>4. \A q \in Request : call'[q].got # None =>
            /\ status'[call'[q].got] # "ROTATED" /\ cookie' # call'[q].got
            /\ \A d \in Request : call'[d].tok # call'[q].got
                 /\ (call'[d].got = call'[q].got => d = q)
    BY <1>2, <1>3, <1>4, <2>1, NoCallIsTyped DEF BrowserInv, TokenUsedOnce
  <2> QED  BY <2>2, <2>3, <2>4 DEF TokenUsedOnce
<1>17. ReuseFindsNothing'
  BY <1>3 DEF BrowserInv, ReuseFindsNothing, Web!Server!Unrevoked, Clear
<1>18. CookieIsSession'
  <2> SUFFICES ASSUME Quiet' PROVE CookieIsSession'
    BY DEF CookieIsSession
  <2>1. Quiet
    BY <1>3 DEF Quiet
  <2>2. \A q \in Request : call'[q] = Web!NoCall
    BY <1>1, <1>2, <2>1 DEF BrowserInv, CookieIsSession, Web!UnderWay
  <2>3. \A q \in Request : req[q].pc = "idle"
    <3>1. \A q \in Request : q # r => call[q] = Web!NoCall
      BY <1>2, <2>2
    <3> QED  BY <1>1, <3>1, NoCallIsTyped DEF BrowserInv, HandlersServeCalls, HandlerServes
  <2>4. \A s \in Session : Valid(s) => s = cookie'
    <3>1. CASE call[r].answer = "ok"
      BY <1>1, <1>4, <2>1, <3>1 DEF BrowserInv, CookieIsSession
    <3>2. CASE call[r].answer # "ok"
      <4>1. \A q \in Request : call[q].phase # "answered" \/ call[q].answer # "ok"
        BY <1>2, <2>2, <3>2, NoCallIsTyped
      <4> QED  BY <1>4, <2>1, <3>2, <4>1 DEF BrowserInv, CookieIsSession
    <3> QED  BY <3>1, <3>2
  <2> QED  BY <1>3, <2>2, <2>3, <2>4, NoCallIsTyped DEF CookieIsSession, Web!UnderWay, Valid
<1> QED  BY <1>9, <1>10, <1>11, <1>12, <1>13, <1>14, <1>15, <1>16, <1>17, <1>18 DEF BrowserInv

\* An answer is lost, or the browser gives up the call.
LEMMA LoseKeeps ==
    ASSUME Web!NoneAssumption, BrowserInv, NEW r \in Request, Web!Lose(r)
    PROVE  BrowserInv'
<1> DEFINE p == call[r].page
<1>1. call \in [Request -> CallType] /\ Live(r) /\ Web!UnderWay(r)
  BY NoCallIsTyped DEF Web!Lose, Live, Web!UnderWay, BrowserInv, Web!TypeOK, CallType
<1>2. /\ call' \in [Request -> CallType] /\ call'[r] = Web!GivenUp(call[r])
      /\ \A q \in Request : q # r => call'[q] = call[q]
  BY <1>1, GivenUpIsTyped DEF Web!Lose
<1>3. /\ status' = status /\ req' = req /\ cookie' = cookie /\ busy' = busy
      /\ haze' = haze \cup {"failure"}
  BY DEF Web!Lose, Web!server
<1>4. /\ p \in Page /\ page[p] # "closed" /\ page'[p] # "closed"
           /\ page' \in [Page -> Web!PageStatus]
      /\ \A x \in Page : x # p => page'[x] = page[x]
  BY <1>1, PageLearns DEF Web!Lose
<1>5. /\ call[r].phase = "serving" =>
            /\ call'[r].page = call[r].page /\ call'[r].kind = call[r].kind
                 /\ call'[r].tok = call[r].tok
            /\ call'[r].phase = "abandoned" /\ call'[r].answer = "none" /\ call'[r].got = None
            /\ call'[r] # Web!NoCall
      /\ call[r].phase # "serving" => call'[r] = Web!NoCall
  BY <1>1, <1>2, GivenUpIsTyped DEF Live
<1> HIDE DEF p
<1>6. ~Clear' /\ ~Quiet'
  BY <1>3 DEF Clear, Quiet
<1>7. IInv'
  BY RotationInvariant DEF BrowserInv, Web!Lose
<1>8. Web!TypeOK'
  BY <1>2, <1>3, <1>4, <1>7, RotationTypes DEF BrowserInv, Web!TypeOK, CallType, Web!Haze
<1>9. HandlersServeCalls'
  <2> SUFFICES ASSUME NEW q \in Request PROVE HandlerServes(q)'
    BY DEF HandlersServeCalls
  <2>1. CASE q # r
    BY <2>1, <1>2, <1>3 DEF BrowserInv, HandlersServeCalls, HandlerServes, Web!UnderWay
  <2>2. CASE q = r
    BY <2>2, <1>1, <1>3, <1>5, NoCallIsTyped DEF BrowserInv, HandlersServeCalls, HandlerServes,
       Web!UnderWay, Live
  <2> QED  BY <2>1, <2>2
<1>10. TokensExist'
  BY <1>2, <1>3, <1>5, NoCallIsTyped DEF BrowserInv, TokensExist, Web!Server!Exists
<1>11. PagesAreSound'
  BY <1>2, <1>3, <1>4, <1>5, NoCallIsTyped DEF BrowserInv, PagesAreSound, Web!NoneAssumption
<1>12. OneCallOfPage'
  <2> SUFFICES ASSUME "own" \notin haze' PROVE OneCallOfPage'
    BY DEF OneCallOfPage
  <2>1. "own" \notin haze
    BY <1>3
  <2>2. \A q \in Request : Web!UnderWay(q)' => Web!UnderWay(q) /\ call'[q].page = call[q].page
    BY <1>1, <1>2, <1>5 DEF Web!UnderWay
  <2>3. \A q \in Request : Refreshing(q)' => q # r /\ Refreshing(q) /\ Web!UnderWay(q)
          /\ call'[q] = call[q]
    BY <1>2, <1>5, NoCallIsTyped DEF Refreshing, Live, Web!UnderWay
  <2>4. \A q \in Request : Refreshing(q)' => call[q].page # p /\ call[q].page \in Page
    BY <1>1, <2>1, <2>3 DEF BrowserInv, OneCallOfPage, HandlersServeCalls, HandlerServes, p
  <2> QED  BY <1>4, <2>1, <2>2, <2>3, <2>4 DEF BrowserInv, OneCallOfPage
<1>13. OnePageCalls' /\ TokenUsedOnce' /\ ReuseFindsNothing' /\ CookieIsSession'
  BY <1>6 DEF OnePageCalls, TokenUsedOnce, ReuseFindsNothing, CookieIsSession
<1> QED  BY <1>7, <1>8, <1>9, <1>10, <1>11, <1>12, <1>13 DEF BrowserInv

\* A page is closed: its calls are given up, which the history keeps unless it had none.
LEMMA CloseKeeps ==
    ASSUME Web!NoneAssumption, BrowserInv, NEW p \in Page, Web!Close(p)
    PROVE  BrowserInv'
<1>1. call \in [Request -> CallType]
  BY DEF BrowserInv, Web!TypeOK, CallType
<1>2. /\ call' \in [Request -> CallType]
      /\ \A q \in Request : call'[q] = IF call[q].page = p THEN Web!GivenUp(call[q]) ELSE call[q]
  BY <1>1, GivenUpIsTyped DEF Web!Close
<1>3. \A q \in Request :
          /\ call[q].page # p => call'[q] = call[q]
          /\ call[q].page = p /\ call[q].phase \in {"serving", "abandoned"} =>
                /\ call'[q].page = p /\ call'[q].kind = call[q].kind /\ call'[q].tok = call[q].tok
                /\ call'[q].phase = "abandoned" /\ call'[q].answer = "none" /\ call'[q].got = None
                /\ call'[q] # Web!NoCall
          /\ call[q].page = p /\ call[q].phase \notin {"serving", "abandoned"}
               => call'[q] = Web!NoCall
  BY <1>1, <1>2, GivenUpIsTyped
<1>4. /\ status' = status /\ req' = req /\ cookie' = cookie /\ busy' = busy \ {p}
      /\ haze \subseteq haze' /\ haze' \subseteq Web!Haze
      /\ page' \in [Page -> Web!PageStatus]
      /\ page'[p] = "closed" /\ \A x \in Page : x # p => page'[x] = page[x]
  BY DEF Web!Close, Web!server, BrowserInv, Web!TypeOK, Web!PageStatus, Web!Haze
<1>5. Clear' => Clear /\ call' = call
  BY DEF Web!Close, Clear
<1>6. Quiet' => Quiet /\ call' = call
  BY DEF Web!Close, Quiet
<1>7. IInv'
  BY RotationInvariant DEF BrowserInv, Web!Close
<1>8. Web!TypeOK'
  BY <1>2, <1>4, <1>7, RotationTypes DEF BrowserInv, Web!TypeOK, CallType
<1>9. HandlersServeCalls'
  <2> SUFFICES ASSUME NEW q \in Request PROVE HandlerServes(q)'
    BY DEF HandlersServeCalls
  <2>1. CASE call[q].page # p
    BY <2>1, <1>3, <1>4 DEF BrowserInv, HandlersServeCalls, HandlerServes, Web!UnderWay
  <2>2. CASE call[q].page = p
    BY <1>3, <1>4, NoCallIsTyped DEF BrowserInv, HandlersServeCalls, HandlerServes, Web!UnderWay
  <2> QED  BY <2>1, <2>2
<1>10. TokensExist'
  BY <1>3, <1>4, NoCallIsTyped DEF BrowserInv, TokensExist, Web!Server!Exists
<1>11. PagesAreSound'
  BY <1>3, <1>4, NoCallIsTyped DEF BrowserInv, PagesAreSound, Web!NoneAssumption
<1>12. \A q \in Request : Web!UnderWay(q)' => Web!UnderWay(q) /\ call'[q].page = call[q].page
  BY <1>3, NoCallIsTyped DEF Web!UnderWay, Web!NoneAssumption
<1>13. \A q \in Request : Refreshing(q)' => /\ call[q].page # p /\ call'[q] = call[q]
                                            /\ Refreshing(q) /\ Web!UnderWay(q)
  BY <1>3, NoCallIsTyped DEF Refreshing, Live, Web!UnderWay
<1>14. OneCallOfPage'
  <2>1. \A q \in Request : Refreshing(q) => call[q].page \in Page
    BY NoCallIsTyped DEF BrowserInv, HandlersServeCalls, HandlerServes, Refreshing, Live,
       Web!UnderWay
  <2> QED  BY <1>4, <1>12, <1>13, <2>1 DEF BrowserInv, OneCallOfPage
<1>15. Clear' => \A q \in Request : Web!UnderWay(q) => call[q].page # p
  <2> SUFFICES ASSUME Clear', NEW q \in Request, Web!UnderWay(q), call[q].page = p PROVE FALSE
    OBVIOUS
  <2>1. call'[q] = call[q] /\ call[q].phase # "abandoned"
    BY <1>5 DEF BrowserInv, OnePageCalls
  <2> QED  BY <1>3, <2>1 DEF Web!UnderWay
<1>16. OnePageCalls'
  <2> SUFFICES ASSUME Clear' PROVE OnePageCalls'
    BY DEF OnePageCalls
  <2>1. \A q \in Request : Web!UnderWay(q) => call[q].page \in Page \ {p}
    BY <1>15 DEF BrowserInv, HandlersServeCalls, HandlerServes
  <2>2. \A q \in Request : call[q].kind = "restore" => Web!UnderWay(q)
    BY NoCallIsTyped DEF Web!UnderWay
  <2>3. \A q \in Request : Web!UnderWay(q)' => Web!UnderWay(q)
    BY <1>12
  <2> QED  BY <1>4, <1>5, <1>13, <2>1, <2>2, <2>3 DEF BrowserInv, OnePageCalls
<1>17. TokenUsedOnce'
  <2>1. Clear' => \A q \in Request : Refreshing(q)' <=> Refreshing(q)
    BY <1>5 DEF Refreshing, Live
  <2> QED  BY <1>4, <1>5, <2>1 DEF BrowserInv, TokenUsedOnce, Renews
<1>18. ReuseFindsNothing'
  BY <1>4, <1>5 DEF BrowserInv, ReuseFindsNothing, Web!Server!Unrevoked
<1>19. CookieIsSession'
  BY <1>4, <1>6 DEF BrowserInv, CookieIsSession, Web!UnderWay, Valid
<1> QED  BY <1>7, <1>8, <1>9, <1>10, <1>11, <1>14, <1>16, <1>17, <1>18, <1>19 DEF BrowserInv

-----------------------------------------------------------------------------
(* Browser: the theorems                                                   *)

\* No call is under way and no session exists at first.
LEMMA InitBrowserInv ==
    ASSUME Web!NoneAssumption
    PROVE  Web!Init => BrowserInv
<1> SUFFICES ASSUME Web!Init PROVE BrowserInv
  OBVIOUS
<1>1. /\ call \in [Request -> CallType] /\ \A r \in Request : call[r] = Web!NoCall
      /\ cookie = None /\ busy = {} /\ haze = {} /\ page \in [Page -> Web!PageStatus]
      /\ \A p \in Page : page[p] = "closed"
  BY NoCallIsTyped DEF Web!Init, Web!PageStatus
<1>2. Init
  BY DEF Web!Init, Web!Server!Init, Web!Server!IdleRequest, Web!Server!At, Web!Server!Scanned,
     Init, IdleRequest, At, Scanned
<1>3. IInv
  BY <1>2, InitIInv
<1>4. /\ \A r \in Request : req[r].pc = "idle" /\ req[r].job = "none"
      /\ \A s \in Session : status[s] = "absent"
  BY DEF Web!Init, Web!Server!Init, Web!Server!IdleRequest, Web!Server!At, Web!Server!Scanned
<1>5. Web!TypeOK
  BY <1>1, <1>3, RotationFacts DEF Web!TypeOK, CallType
<1>6. HandlersServeCalls /\ TokensExist
  BY <1>1, <1>4, NoCallIsTyped DEF HandlersServeCalls, HandlerServes, TokensExist, Web!UnderWay
<1>7. PagesAreSound /\ OneCallOfPage /\ OnePageCalls
  BY <1>1, NoCallIsTyped DEF PagesAreSound, OneCallOfPage, OnePageCalls, Refreshing, Live,
     Web!UnderWay, Web!NoneAssumption
<1>8. TokenUsedOnce /\ ReuseFindsNothing /\ CookieIsSession
  BY <1>1, <1>4, NoCallIsTyped DEF TokenUsedOnce, ReuseFindsNothing, CookieIsSession, Web!UnderWay,
     Valid
<1> QED  BY <1>3, <1>5, <1>6, <1>7, <1>8 DEF BrowserInv

\* What a handler does for a call keeps the invariant.
LEMMA SettleKeeps ==
    ASSUME Web!NoneAssumption, BrowserInv, NEW r \in Request, Web!Settle(r)
    PROVE  BrowserInv'
<1>1. CASE Web!ServeRefresh(r)
  BY <1>1, NoCookieKeeps, RejectKeeps, ReadKeeps, ReplayKeeps DEF Web!ServeRefresh
<1>2. CASE Web!ServeRotation(r)
  BY <1>2, RotateKeeps, RotateLostKeeps, FamilyScanKeeps, RevokeKeeps DEF Web!ServeRotation
<1>3. CASE Web!ServeSignIn(r)
  BY <1>3, ServeSignInKeeps DEF Web!ServeSignIn
<1>4. CASE Web!ServeLogout(r)
  BY <1>4, ServeLogoutKeeps, LogoutAllKeeps DEF Web!ServeLogout
<1>5. CASE Web!Deliver(r)
  BY <1>5, DeliverKeeps
<1> QED  BY <1>1, <1>2, <1>3, <1>4, <1>5 DEF Web!Settle

\* Every step keeps the invariant.
LEMMA NextBrowserInv ==
    ASSUME Web!NoneAssumption
    PROVE  BrowserInv /\ [Web!Next]_Web!vars => BrowserInv'
<1> SUFFICES ASSUME BrowserInv, [Web!Next]_Web!vars PROVE BrowserInv'
  OBVIOUS
<1>1. ASSUME NEW p \in Page, NEW r \in Request, Web!RestoreSession(p, r) PROVE BrowserInv'
  <2>1. SendsCall(p, r, "restore")
    BY <1>1 DEF Web!RestoreSession, SendsCall, Web!SignOutKind
  <2> QED  BY <2>1, SendKeeps DEF Web!CallKind, Web!RefreshKind
<1>2. ASSUME NEW p \in Page, NEW r \in Request, Web!RefreshAccessToken(p, r) PROVE BrowserInv'
  <2>1. SendsCall(p, r, "refresh")
    BY <1>2 DEF Web!RefreshAccessToken, SendsCall, Web!SignOutKind
  <2> QED  BY <2>1, SendKeeps DEF Web!CallKind, Web!RefreshKind
<1>3. ASSUME NEW p \in Page, NEW r \in Request, Web!SignIn(p, r) PROVE BrowserInv'
  <2>1. SendsCall(p, r, "signin")
    BY <1>3 DEF Web!SignIn, SendsCall, Web!SignOutKind
  <2> QED  BY <2>1, SendKeeps DEF Web!CallKind
<1>4. ASSUME NEW p \in Page, NEW r \in Request, NEW kind \in Web!SignOutKind, Web!SignOut(p, r, kind)
      PROVE  BrowserInv'
  <2>1. SendsCall(p, r, kind)
    BY <1>4 DEF Web!SignOut, SendsCall, Web!SignOutKind
  <2> QED  BY <2>1, SendKeeps DEF Web!CallKind
<1>5. ASSUME UNCHANGED Web!vars PROVE BrowserInv'
  <2>1. IInv'
    BY <1>5, RotationInvariant DEF Web!vars, BrowserInv
  <2>2. Web!TypeOK' /\ HandlersServeCalls' /\ TokensExist' /\ PagesAreSound' /\ OneCallOfPage'
    BY <1>5, <2>1, RotationTypes DEF Web!vars, Web!server, BrowserInv, Web!TypeOK,
       HandlersServeCalls, HandlerServes, TokensExist, PagesAreSound, OneCallOfPage, Web!UnderWay,
       Refreshing, Live, Web!Server!Exists
  <2>3. OnePageCalls' /\ TokenUsedOnce' /\ ReuseFindsNothing' /\ CookieIsSession'
    BY <1>5 DEF Web!vars, Web!server, BrowserInv, OnePageCalls, TokenUsedOnce, ReuseFindsNothing,
       CookieIsSession, Web!UnderWay, Refreshing, Live, Renews, Valid, Clear, Quiet,
       Web!Server!Unrevoked
  <2> QED  BY <2>1, <2>2, <2>3 DEF BrowserInv
<1> QED  BY <1>1, <1>2, <1>3, <1>4, <1>5, CloseKeeps, SettleKeeps, ServeFailureKeeps, LoseKeeps,
            ExpireKeeps DEF Web!Next

\* The invariant holds in every state.
LEMMA BrowserInvHolds ==
    ASSUME Web!NoneAssumption
    PROVE  Web!Spec => []BrowserInv
<1>1. Web!Init => BrowserInv
  BY InitBrowserInv
<1>2. BrowserInv /\ [Web!Next]_Web!vars => BrowserInv'
  BY NextBrowserInv
<1> QED  BY <1>1, <1>2, PTL DEF Web!Spec

\* A family is revoked for reuse only after a call failed or met the work of another page; and
\* while nothing of the kind happened, the only session that is left is the one in the cookie.
THEOREM SessionStaysHeldOnce ==
    ASSUME Web!NoneAssumption
    PROVE  Web!Spec => []Web!SessionHeldOnce
<1>1. BrowserInv => Web!SessionHeldOnce
  <2> SUFFICES ASSUME BrowserInv PROVE Web!SessionHeldOnce
    OBVIOUS
  <2>1. Web!ReuseHasCause
    BY DEF BrowserInv, ReuseFindsNothing, Clear, Web!ReuseHasCause
  <2>2. Web!NoOrphanSession
    <3> SUFFICES ASSUME haze = {}, \A r \in Request : ~Web!UnderWay(r),
                        NEW s \in Session, status[s] = "valid"
                 PROVE  s = cookie
      BY DEF Web!NoOrphanSession
    <3>1. \A r \in Request : call[r].phase # "answered"
      BY NoCallIsTyped DEF Web!UnderWay
    <3> QED  BY <3>1 DEF BrowserInv, CookieIsSession, Quiet, Valid
  <2> QED  BY <2>1, <2>2 DEF Web!SessionHeldOnce, BrowserInv
<1>2. Web!Spec => []BrowserInv
  BY BrowserInvHolds
<1> QED  BY <1>1, <1>2, PTL

\* A page that is signed out shows the user's data again only after a sign-in, unless a refresh
\* of its own was under way beside the sign-out or was made for a late 401.
THEOREM SignedOutPageStaysOut ==
    ASSUME Web!NoneAssumption
    PROVE  Web!Spec => Web!SignedOutStaysOut
<1> DEFINE Out(p) ==
      page[p] = "unauthenticated" /\ page'[p] = "authenticated" =>
          \/ \E r \in Request : call[r].page = p /\ call[r].kind = "signin" /\ ~Web!UnderWay(r)'
          \/ "own" \in haze
<1>1. BrowserInv /\ [Web!Next]_Web!vars => [\A p \in Page : Out(p)]_Web!vars
  <2> SUFFICES ASSUME BrowserInv, Web!Next, NEW p \in Page, page[p] = "unauthenticated",
                      page'[p] = "authenticated",
                      "own" \notin haze
               PROVE  \E r \in Request : call[r].page = p /\ call[r].kind = "signin"
                        /\ ~Web!UnderWay(r)'
    OBVIOUS
  <2>1. ASSUME NEW r \in Request, Web!Deliver(r)
        PROVE  call[r].page = p /\ call[r].kind = "signin" /\ ~Web!UnderWay(r)'
    <3>1. Live(r) /\ call[r].answer \in {"ok", "401", "error", "none"}
      BY <2>1 DEF Web!Deliver, Live, BrowserInv, Web!TypeOK
    <3>2. /\ \A x \in Page : x # call[r].page => page'[x] = page[x]
          /\ page' = page \/ page'[call[r].page] = Web!StatusAfter(call[r].kind, call[r].answer)
      BY <2>1, <3>1, PageLearns DEF Web!Deliver
    <3>3. call[r].page = p /\ Web!StatusAfter(call[r].kind, call[r].answer) = "authenticated"
      BY <3>2
    <3>4. call[r].kind \notin Web!SignOutKind
      BY <3>3 DEF Web!StatusAfter
    <3>5. ~Refreshing(r)
      BY <3>3 DEF BrowserInv, OneCallOfPage
    <3>6. call[r].kind # "none"
      BY <3>1, NoCallIsTyped DEF Live, BrowserInv, HandlersServeCalls, HandlerServes
    <3>7. call[r].kind = "signin"
      BY <3>1, <3>4, <3>5, <3>6 DEF Refreshing, BrowserInv, Web!TypeOK, Web!CallKind
    <3>8. ~Web!UnderWay(r)'
      BY <2>1 DEF Web!Deliver, Web!UnderWay, BrowserInv, Web!TypeOK
    <3> QED  BY <3>3, <3>7, <3>8
  <2>2. ASSUME NEW r \in Request, Web!Lose(r) PROVE FALSE
    <3>1. Live(r)
      BY <2>2 DEF Web!Lose, Live
    <3>2. page' = page \/ page'[call[r].page] = Web!StatusAfter(call[r].kind, "error")
      BY <2>2, <3>1, PageLearns DEF Web!Lose
    <3>3. \A x \in Page : x # call[r].page => page'[x] = page[x]
      BY <2>2, <3>1, PageLearns DEF Web!Lose
    <3> QED  BY <3>2, <3>3 DEF Web!StatusAfter
  <2>3. ASSUME NEW x \in Page, NEW r \in Request, Web!RestoreSession(x, r) PROVE FALSE
    BY <2>3 DEF Web!RestoreSession, BrowserInv, Web!TypeOK
  <2>4. ASSUME NEW x \in Page, Web!Close(x) PROVE FALSE
    BY <2>4 DEF Web!Close, BrowserInv, Web!TypeOK
  <2> QED  BY <2>1, <2>2, <2>3, <2>4 DEF Web!Next, Web!Settle, Web!RefreshAccessToken, Web!SignIn,
              Web!SignOut, Web!ServeRefresh, Web!ServeRotation, Web!ServeSignIn, Web!ServeLogout,
              Web!ServeFailure, Web!Expire
<1>2. Web!Spec => []BrowserInv
  BY BrowserInvHolds
<1> QED  BY <1>1, <1>2, PTL DEF Web!Spec, Web!SignedOutStaysOut
=============================================================================
