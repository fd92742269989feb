-------------------------- MODULE InvitationsProofs --------------------------
(***************************************************************************)
(* Theorems about Invitations, for any sets of invitations, addresses and  *)
(* requests.                                                               *)
(*                                                                         *)
(* OnePendingPerEmail is inductive beside the facts about what a request   *)
(* carries from its read to its commit (Carries) and about rows            *)
(* (RowsAreAddressed). That members are not invited rests on it: whoever   *)
(* joins had the only pending invitation to the address, and a creation    *)
(* under way for it is remembered (CreationsAreKnown). The two halves of   *)
(* OnlyRacesRevive are not inductive: what keeps an invitation from        *)
(* serving twice is that nobody has read it to resend it and that it stays *)
(* ACCEPTED (UsedIsSettled); what leaves a deleted organization without    *)
(* pending invitations is that the deletion has scanned them all, and that *)
(* nobody is about to issue one (DeletionSeesAll, NoIssueOutlives).        *)
(***************************************************************************)
EXTENDS Invitations, TLAPS

RequestState ==
    [pc : {"idle", "create", "resend", "revoke", "accept", "delete"},
     inv : Invitation \cup {None}, user : User \cup {None}, cand : SUBSET Invitation]

\* What a request carries from its read to its commit.
Carries(q) ==
    /\ q.pc \in {"create", "accept"} => q.user \in User
    /\ q.pc \in {"resend", "revoke", "accept"} => q.inv \in Invitation
    /\ q.pc = "delete" => q.inv = None
RequestsCarry == \A r \in Request : Carries(req[r])

\* A row has an address; one that does not exist has served nobody.
RowsAreAddressed ==
    \A i \in Invitation : /\ status[i] # "absent" => email[i] \in User
                          /\ status[i] = "absent" => joined[i] = 0

\* A row that a request has read stays.
RowsStay ==
    \A r \in Request : req[r].pc \in {"resend", "revoke", "accept"} => status[req[r].inv] # "absent"

IInv == TypeOK /\ RequestsCarry /\ RowsStay /\ RowsAreAddressed /\ OnePendingPerEmail

Resends(i) == \E r \in Request : req[r].pc = "resend" /\ req[r].inv = i

\* An invitation that was used stays accepted, if no resend had read it before.
UsedIsSettled ==
    "resend" \notin raced =>
        \A i \in Invitation : joined[i] > 0 => joined[i] = 1 /\ status[i] = "ACCEPTED" /\ ~Resends(i)

Deletes(r) == req[r].pc = "delete"
Issues(r) == req[r].pc \in {"create", "resend"}

\* A deletion beside which nothing was issued has seen every pending invitation.
DeletionSeesAll ==
    "delete" \notin raced =>
        \A r \in Request, i \in Invitation : Deletes(r) /\ status[i] = "PENDING" => i \in req[r].cand

\* Once the organization is deleted nobody issues and nothing is pending.
NoIssueOutlives ==
    "delete" \notin raced /\ deleted =>
        (\A r \in Request : ~Issues(r)) /\ (\A i \in Invitation : status[i] # "PENDING")

RInv == IInv /\ UsedIsSettled /\ DeletionSeesAll /\ NoIssueOutlives

-----------------------------------------------------------------------------
(* Requests and rows                                                       *)

\* A request that reads, or that answers, holds a request state.
LEMMA AtType ==
    ASSUME NEW pc \in {"idle", "create", "resend", "revoke", "accept", "delete"},
           NEW inv \in Invitation \cup {None}, NEW u \in User \cup {None},
           NEW cand \in SUBSET Invitation
    PROVE  /\ At(pc, inv, u, cand) \in RequestState
           /\ At(pc, inv, u, cand).pc = pc /\ At(pc, inv, u, cand).inv = inv
           /\ At(pc, inv, u, cand).user = u /\ At(pc, inv, u, cand).cand = cand
BY DEF At, RequestState

\* What a step does to the requests when it replaces one of them.
LEMMA RequestStep ==
    ASSUME TypeOK, RequestsCarry, NEW r \in Request, NEW q \in RequestState, Carries(q),
           req' = [req EXCEPT ![r] = q]
    PROVE  /\ req' \in [Request -> RequestState] /\ RequestsCarry'
           /\ \A s \in Request : req'[s] = IF s = r THEN q ELSE req[s]
<1>1. req \in [Request -> RequestState]
  BY DEF TypeOK, RequestState
<1>2. req' \in [Request -> RequestState] /\ \A s \in Request : req'[s] = IF s = r THEN q ELSE req[s]
  BY <1>1
<1>3. \A s \in Request : Carries(req'[s])
  BY <1>2 DEF RequestsCarry
<1> QED
  BY <1>2, <1>3 DEF RequestsCarry, Carries

\* A request ends.
LEMMA FinishStep ==
    ASSUME TypeOK, RequestsCarry, NEW r \in Request, Finish(r)
    PROVE  /\ req' \in [Request -> RequestState] /\ RequestsCarry'
           /\ \A s \in Request : req'[s].pc # "idle" => s # r /\ req'[s] = req[s]
<1>1. IdleRequest \in RequestState /\ IdleRequest.pc = "idle"
  BY AtType DEF IdleRequest
<1>2. Carries(IdleRequest)
  BY <1>1 DEF Carries
<1> QED
  BY <1>1, <1>2, RequestStep DEF Finish

\* No step but a resend and a creation makes a row pending: the others settle rows.
Settles(st) ==
    /\ st \in [Invitation -> Status]
    /\ \A i \in Invitation :
          st[i] = status[i] \/ (status[i] # "absent" /\ st[i] \in {"EXPIRED", "REVOKED", "ACCEPTED"})

\* The expiry that every listing and handler starts with settles rows.
LEMMA ExpiredSettles ==
    ASSUME TypeOK, NEW I \in SUBSET Invitation
    PROVE  /\ Settles(Expired(I))
           /\ \A i \in Invitation : Expired(I)[i] # status[i] => status[i] = "PENDING"
BY DEF TypeOK, Settles, Expired, Status

\* A step that only settles rows leaves one pending row per address.
LEMMA SettlingStep ==
    ASSUME IInv, Settles(status'), email' = email,
           \A i \in Invitation : status[i] = "absent" => joined'[i] = joined[i]
    PROVE  RowsAreAddressed' /\ OnePendingPerEmail'
<1>1. RowsAreAddressed'
  BY DEF IInv, RowsAreAddressed, Settles
<1>2. OnePendingPerEmail'
  BY DEF IInv, OnePendingPerEmail, Settles
<1> QED
  BY <1>1, <1>2

\* What requests have read stays if no row goes.
LEMMA ReadRowsStay ==
    ASSUME IInv, \A i \in Invitation : status[i] # "absent" => status'[i] # "absent",
           \A s \in Request : req'[s].pc \in {"resend", "revoke", "accept"} =>
                                  req'[s] = req[s] \/ status'[req'[s].inv] # "absent"
    PROVE  RowsStay'
<1> SUFFICES ASSUME NEW s \in Request, req'[s].pc \in {"resend", "revoke", "accept"}
             PROVE  status'[req'[s].inv] # "absent"
  BY DEF RowsStay
<1>1. CASE req'[s] = req[s]
  <2>1. req[s].inv \in Invitation /\ status[req[s].inv] # "absent"
    BY <1>1 DEF IInv, RequestsCarry, Carries, RowsStay
  <2> QED
    BY <1>1, <2>1
<1> QED
  BY <1>1

-----------------------------------------------------------------------------
(* The invariant of every run                                              *)

\* No invitation is there at first.
LEMMA InitIInv == Init => IInv
<1> SUFFICES ASSUME Init PROVE IInv
  OBVIOUS
<1>1. IdleRequest \in RequestState /\ IdleRequest.pc = "idle"
  BY AtType DEF IdleRequest
<1>2. \A r \in Request : req[r] = IdleRequest
  BY DEF Init
<1>3. RequestsCarry /\ RowsStay
  BY <1>1, <1>2 DEF RequestsCarry, Carries, RowsStay
<1>4. TypeOK
  <2>1. req \in [Request -> RequestState]
    BY <1>1 DEF Init
  <2>2. joined \in [Invitation -> 0..MaxJoined] /\ late \in [Invitation -> BOOLEAN]
    BY MaxJoinedAssumption DEF Init
  <2>3. status \in [Invitation -> Status] /\ email \in [Invitation -> User \cup {None}]
    BY DEF Init, Status
  <2> QED
    BY <2>1, <2>2, <2>3 DEF Init, TypeOK, RequestState
<1> QED
  BY <1>3, <1>4 DEF Init, IInv, RowsAreAddressed, OnePendingPerEmail

\* The reads of a handler, which expire rows first.
LEMMA ReadStep ==
    ASSUME IInv, NEW r \in Request, NEW q \in RequestState, Carries(q),
           req' = [req EXCEPT ![r] = q], Settles(status'),
           q.pc \in {"resend", "revoke", "accept"} => status'[q.inv] # "absent",
           UNCHANGED <<email, late, member, deleted, joined, raced, reached>>
    PROVE  IInv'
<1>1. /\ req' \in [Request -> RequestState] /\ RequestsCarry'
      /\ \A s \in Request : req'[s] = IF s = r THEN q ELSE req[s]
  BY RequestStep DEF IInv
<1>2. RowsAreAddressed' /\ OnePendingPerEmail'
  BY SettlingStep
<1>3. RowsStay'
  <2>1. \A s \in Request : req'[s].pc \in {"resend", "revoke", "accept"} =>
                               req'[s] = req[s] \/ status'[req'[s].inv] # "absent"
    BY <1>1
  <2> QED
    BY <2>1, ReadRowsStay DEF Settles
<1>4. TypeOK'
  BY <1>1 DEF IInv, TypeOK, RequestState, Settles, reached
<1> QED
  BY <1>1, <1>2, <1>3, <1>4 DEF IInv

\* A step that leaves the rows alone.
LEMMA Unsettled == ASSUME TypeOK PROVE Settles(status)
BY DEF TypeOK, Settles

\* The first steps of the handlers expire rows and read the others.
LEMMA ReadsIInv ==
    ASSUME IInv, NEW r \in Request,
           \/ \E u \in User : BeginCreate(r, u)
           \/ \E i \in Invitation : BeginResend(r, i) \/ BeginRevoke(r, i) \/ BeginAccept(r, i)
           \/ BeginDelete(r)
    PROVE  IInv'
<1>0. TypeOK /\ Settles(Expired(Invitation))
  BY ExpiredSettles DEF IInv
<1>1. ASSUME NEW u \in User, BeginCreate(r, u) PROVE IInv'
  <2> DEFINE q == At("create", None, u, {})
  <2>1. Settles(Expired({i \in Invitation : email[i] = u}))
    BY <1>0, ExpiredSettles
  <2>2. q \in RequestState /\ q.pc = "create" /\ q.user = u
    BY AtType
  <2>3. Carries(q)
    BY <2>2 DEF Carries
  <2> QED
    BY <1>1, <2>1, <2>2, <2>3, ReadStep DEF BeginCreate
<1>2. ASSUME NEW i \in Invitation, BeginResend(r, i) PROVE IInv'
  <2> DEFINE q == At("resend", i, None, {})
  <2>1. q \in RequestState /\ q.pc = "resend" /\ q.inv = i
    BY AtType
  <2>2. Carries(q)
    BY <2>1 DEF Carries
  <2> QED
    BY <1>0, <1>2, <2>1, <2>2, ReadStep DEF BeginResend
<1>3. ASSUME NEW i \in Invitation, BeginRevoke(r, i) PROVE IInv'
  <2> DEFINE q == At("revoke", i, None, {})
  <2>1. q \in RequestState /\ q.pc = "revoke" /\ q.inv = i
    BY AtType
  <2>2. Carries(q)
    BY <2>1 DEF Carries
  <2> QED
    BY <1>0, <1>3, <2>1, <2>2, ReadStep DEF BeginRevoke
<1>4. ASSUME NEW i \in Invitation, BeginAccept(r, i) PROVE IInv'
  <2> DEFINE q == At("accept", i, email[i], {})
  <2>1. email[i] \in User
    BY <1>4 DEF BeginAccept, IInv, RowsAreAddressed
  <2>2. q \in RequestState /\ q.pc = "accept" /\ q.inv = i /\ q.user = email[i]
    BY <2>1, AtType
  <2>3. Carries(q)
    BY <2>1, <2>2 DEF Carries
  <2>4. Settles(status')
    BY <1>0, <1>4, Unsettled DEF BeginAccept, Settles
  <2> QED
    BY <1>4, <2>2, <2>3, <2>4, ReadStep DEF BeginAccept
<1>5. ASSUME BeginDelete(r) PROVE IInv'
  <2> DEFINE q == At("delete", None, None, {i \in Invitation : status[i] = "PENDING"})
  <2>1. q \in RequestState /\ q.pc = "delete" /\ q.inv = None
    BY AtType
  <2>2. Carries(q)
    BY <2>1 DEF Carries
  <2>3. Settles(status')
    BY <1>0, <1>5, Unsettled DEF BeginDelete, Settles
  <2> QED
    BY <1>5, <2>1, <2>2, <2>3, ReadStep DEF BeginDelete
<1> QED
  BY <1>1, <1>2, <1>3, <1>4, <1>5

\* Commits that settle rows, and failures.
LEMMA SettlingCommit ==
    ASSUME IInv, NEW r \in Request, Finish(r), Settles(status'), UNCHANGED <<email, late>>,
           member' \subseteq User, deleted' \in BOOLEAN, raced' \subseteq {"resend", "delete"},
           joined' \in [Invitation -> 0..MaxJoined],
           unaware' \subseteq Request, toMember' \subseteq Invitation,
           \A i \in Invitation : status[i] = "absent" => joined'[i] = joined[i]
    PROVE  IInv'
<1>1. /\ req' \in [Request -> RequestState] /\ RequestsCarry'
      /\ \A s \in Request : req'[s].pc # "idle" => s # r /\ req'[s] = req[s]
  BY FinishStep DEF IInv
<1>2. RowsAreAddressed' /\ OnePendingPerEmail'
  BY SettlingStep
<1>3. RowsStay'
  BY <1>1, ReadRowsStay DEF Settles
<1>4. TypeOK'
  BY <1>1 DEF IInv, TypeOK, RequestState, Settles
<1> QED
  BY <1>1, <1>2, <1>3, <1>4 DEF IInv

\* An invitation is issued: by createInvitation or resendInvitation.
LEMMA IssuingCommit ==
    ASSUME IInv, NEW r \in Request, NEW i \in Invitation, NEW u \in User, Finish(r),
           PendingIndex(i, u), status' = [status EXCEPT ![i] = "PENDING"],
           email' = [email EXCEPT ![i] = u],
           late' \in [Invitation -> BOOLEAN], raced' \subseteq {"resend", "delete"},
           unaware' \subseteq Request, toMember' \subseteq Invitation,
           UNCHANGED <<member, deleted, joined>>
    PROVE  IInv'
<1>1. /\ req' \in [Request -> RequestState] /\ RequestsCarry'
      /\ \A s \in Request : req'[s].pc # "idle" => s # r /\ req'[s] = req[s]
  BY FinishStep DEF IInv
<1>2. /\ status' \in [Invitation -> Status] /\ email' \in [Invitation -> User \cup {None}]
      /\ \A j \in Invitation : /\ status'[j] = IF j = i THEN "PENDING" ELSE status[j]
                               /\ email'[j] = IF j = i THEN u ELSE email[j]
  BY DEF IInv, TypeOK, Status
<1>3. RowsAreAddressed'
  BY <1>2 DEF IInv, RowsAreAddressed
<1>4. OnePendingPerEmail'
  BY <1>2 DEF IInv, OnePendingPerEmail, PendingIndex
<1>5. RowsStay'
  BY <1>1, <1>2, ReadRowsStay
<1>6. TypeOK'
  BY <1>1, <1>2 DEF IInv, TypeOK, RequestState
<1> QED
  BY <1>1, <1>3, <1>4, <1>5, <1>6 DEF IInv

\* What a race is recorded as.
LEMMA RaceType ==
    ASSUME TypeOK, NEW what \in {"resend", "delete"}, NEW pcs, NEW I
    PROVE  raced \cup Race(what, pcs, I) \subseteq {"resend", "delete"}
BY DEF TypeOK, Race

\* The transactions keep one pending row per address.
LEMMA CommitsIInv ==
    ASSUME IInv, NEW r \in Request,
           \/ \E i \in Invitation : CreateInvitation(r, i)
           \/ ResendInvitation(r) \/ RevokeInvitation(r) \/ AcceptInvitation(r)
           \/ DeleteOrganization(r) \/ Fail(r)
    PROVE  IInv'
<1>0. TypeOK /\ Carries(req[r])
  BY DEF IInv, RequestsCarry
<1>1. ASSUME NEW i \in Invitation, CreateInvitation(r, i) PROVE IInv'
  <2>1. req[r].user \in User
    BY <1>0, <1>1 DEF CreateInvitation, Carries
  <2>2. raced' \subseteq {"resend", "delete"} /\ late' \in [Invitation -> BOOLEAN]
    BY <1>0, <1>1, RaceType DEF CreateInvitation, TypeOK
  <2>3. unaware' \subseteq Request /\ toMember' \subseteq Invitation
    BY <1>0, <1>1 DEF CreateInvitation, IssuedTo, TypeOK
  <2> QED
    BY <1>1, <2>1, <2>2, <2>3, IssuingCommit DEF CreateInvitation
<1>2. ASSUME ResendInvitation(r) PROVE IInv'
  <2> DEFINE i == req[r].inv
  <2>1. i \in Invitation /\ status[i] # "absent"
    BY <1>0, <1>2 DEF ResendInvitation, Carries, IInv, RowsStay
  <2>2. email[i] \in User /\ email' = [email EXCEPT ![i] = email[i]]
    BY <1>0, <1>2, <2>1 DEF ResendInvitation, TypeOK, IInv, RowsAreAddressed
  <2>3. raced' \subseteq {"resend", "delete"} /\ late' \in [Invitation -> BOOLEAN]
    BY <1>0, <1>2, RaceType DEF ResendInvitation, TypeOK
  <2>4. /\ Finish(r) /\ PendingIndex(i, email[i])
        /\ status' = [status EXCEPT ![i] = "PENDING"] /\ UNCHANGED <<member, deleted, joined>>
    BY <1>2 DEF ResendInvitation
  <2>5. unaware' \subseteq Request /\ toMember' \subseteq Invitation
    BY <1>0, <1>2, <2>1 DEF ResendInvitation, IssuedTo, TypeOK
  <2> QED
    BY <2>1, <2>2, <2>3, <2>4, <2>5, IssuingCommit
<1>3. ASSUME RevokeInvitation(r) PROVE IInv'
  <2> DEFINE i == req[r].inv
  <2>1. i \in Invitation /\ status[i] # "absent"
    BY <1>0, <1>3 DEF RevokeInvitation, Carries, IInv, RowsStay
  <2>2. Settles(status')
    BY <1>0, <1>3, <2>1 DEF RevokeInvitation, TypeOK, Settles, Status
  <2> QED
    BY <1>0, <1>3, <2>2, SettlingCommit DEF RevokeInvitation, TypeOK, reached
<1>4. ASSUME AcceptInvitation(r) PROVE IInv'
  <2> DEFINE i == req[r].inv
  <2>1. i \in Invitation /\ status[i] = "PENDING" /\ req[r].user \in User
    BY <1>0, <1>4 DEF AcceptInvitation, Carries
  <2>2. Settles(status')
    BY <1>0, <1>4, <2>1 DEF AcceptInvitation, TypeOK, Settles, Status
  <2>3. joined[i] \in 0..MaxJoined /\ joined[i] < MaxJoined
    BY <1>0, <1>4, <2>1 DEF AcceptInvitation, TypeOK
  <2>4. /\ joined' \in [Invitation -> 0..MaxJoined]
        /\ \A j \in Invitation : j # i => joined'[j] = joined[j]
    BY <1>0, <1>4, <2>1, <2>3, MaxJoinedAssumption DEF AcceptInvitation, TypeOK
  <2>5. member' \subseteq User /\ raced' \subseteq {"resend", "delete"}
    BY <1>0, <1>4, <2>1, RaceType DEF AcceptInvitation, TypeOK
  <2>6. Finish(r) /\ UNCHANGED <<email, late, deleted>>
    BY <1>4 DEF AcceptInvitation
  <2>7. deleted' \in BOOLEAN
    BY <1>0, <2>6 DEF TypeOK
  <2>8. unaware' \subseteq Request /\ toMember' \subseteq Invitation
    BY <1>0, <1>4 DEF AcceptInvitation, TypeOK
  <2> QED
    BY <2>1, <2>2, <2>4, <2>5, <2>6, <2>7, <2>8, SettlingCommit
<1>5. ASSUME DeleteOrganization(r) PROVE IInv'
  <2>1. Settles(status')
    BY <1>0, <1>5 DEF DeleteOrganization, TypeOK, Settles, Status
  <2>2. raced' \subseteq {"resend", "delete"}
    BY <1>0, <1>5, RaceType DEF DeleteOrganization
  <2> QED
    BY <1>0, <1>5, <2>1, <2>2, SettlingCommit DEF DeleteOrganization, TypeOK, reached
<1>6. ASSUME Fail(r) PROVE IInv'
  <2>1. Settles(status')
    BY <1>0, <1>6, Unsettled DEF Fail, Settles
  <2> QED
    BY <1>0, <1>6, <2>1, SettlingCommit DEF Fail, TypeOK
<1> QED
  BY <1>1, <1>2, <1>3, <1>4, <1>5, <1>6

\* Steps of no request: rows expire, members leave, time passes.
LEMMA OthersIInv ==
    ASSUME IInv, UNCHANGED <<email, deleted, req, joined, raced, reached>>, Settles(status'),
           late' \in [Invitation -> BOOLEAN], member' \subseteq member
    PROVE  IInv'
<1>1. RowsAreAddressed' /\ OnePendingPerEmail'
  BY SettlingStep
<1>2. RowsStay'
  BY ReadRowsStay DEF Settles
<1>3. TypeOK' /\ RequestsCarry'
  BY DEF IInv, TypeOK, Settles, RequestsCarry, Carries, reached
<1> QED
  BY <1>1, <1>2, <1>3 DEF IInv

Others ==
    \/ \E i \in Invitation : AcceptLate(i) \/ Lapse(i)
    \/ \E u \in User : Leave(u)
    \/ ExpireInvitations(Invitation)
    \/ \E u \in User : ExpireInvitations({i \in Invitation : email[i] = u})

\* What those steps leave alone.
LEMMA OthersStep ==
    ASSUME TypeOK, Others \/ UNCHANGED vars
    PROVE  /\ UNCHANGED <<email, deleted, req, joined, raced, reached>>
           /\ Settles(status') /\ late' \in [Invitation -> BOOLEAN] /\ member' \subseteq member
           /\ \A i \in Invitation : status'[i] # status[i] => status[i] = "PENDING"
<1>1. ASSUME NEW i \in Invitation, AcceptLate(i)
      PROVE  Settles(status') /\ \A j \in Invitation : status'[j] # status[j] => status[j] = "PENDING"
  BY <1>1 DEF AcceptLate, Settles, TypeOK, Status
<1>2. ASSUME NEW I \in SUBSET Invitation, ExpireInvitations(I)
      PROVE  Settles(status') /\ \A j \in Invitation : status'[j] # status[j] => status[j] = "PENDING"
  BY <1>2, ExpiredSettles DEF ExpireInvitations
<1>3. ASSUME UNCHANGED status
      PROVE  Settles(status') /\ \A j \in Invitation : status'[j] # status[j] => status[j] = "PENDING"
  BY <1>3, Unsettled DEF Settles
<1>4. late' \in [Invitation -> BOOLEAN]
  BY DEF TypeOK, Others, AcceptLate, Lapse, Leave, ExpireInvitations, vars
<1>5. UNCHANGED <<email, deleted, req, joined, raced, reached>> /\ member' \subseteq member
  BY DEF Others, AcceptLate, Lapse, Leave, ExpireInvitations, vars, reached
<1> QED
  BY <1>1, <1>2, <1>3, <1>4, <1>5 DEF Others, Lapse, Leave, vars

\* Every step keeps the invariant.
LEMMA NextIInv == IInv /\ [Next]_vars => IInv'
<1> SUFFICES ASSUME IInv, [Next]_vars PROVE IInv'
  OBVIOUS
<1>1. CASE Others \/ UNCHANGED vars
  <2>1. TypeOK
    BY DEF IInv
  <2> QED
    BY <1>1, <2>1, OthersStep, OthersIInv
<1> QED
  BY <1>1, ReadsIInv, CommitsIInv DEF Next, Others

-----------------------------------------------------------------------------
(* Who is invited                                                          *)

\* Whoever accepts is the addressee; a creation under way for a member's address is known.
AcceptsOwn == \A r \in Request : req[r].pc = "accept" => req[r].user = email[req[r].inv]
CreationsAreKnown ==
    \A r \in Request : req[r].pc = "create" /\ req[r].user \in member => r \in unaware

MInv == IInv /\ AcceptsOwn /\ CreationsAreKnown /\ MembersAreNotInvited

\* A step that issues nothing and lets nobody join keeps both, if its request read them right.
LEMMA UninvitedKept ==
    ASSUME MInv, member' \subseteq member, unaware' = unaware, toMember' = toMember,
           email' = email,
           \A i \in Invitation : status'[i] = "PENDING" => status[i] = "PENDING",
           \A s \in Request : \/ req'[s] = req[s]
                              \/ /\ req'[s].pc = "accept" => req'[s].user = email[req'[s].inv]
                                 /\ req'[s].pc = "create" => req'[s].user \notin member
    PROVE  AcceptsOwn' /\ CreationsAreKnown' /\ MembersAreNotInvited'
<1>1. AcceptsOwn' /\ CreationsAreKnown'
  BY DEF MInv, AcceptsOwn, CreationsAreKnown
<1>2. MembersAreNotInvited'
  BY DEF MInv, MembersAreNotInvited
<1> QED
  BY <1>1, <1>2

\* The first steps of the handlers, which read the memberships and the invitation.
LEMMA ReadsInvite ==
    ASSUME MInv, NEW r \in Request,
           \/ \E u \in User : BeginCreate(r, u)
           \/ \E i \in Invitation : BeginResend(r, i) \/ BeginRevoke(r, i) \/ BeginAccept(r, i)
           \/ BeginDelete(r)
    PROVE  AcceptsOwn' /\ CreationsAreKnown' /\ MembersAreNotInvited'
<1>1. /\ member' = member /\ unaware' = unaware /\ toMember' = toMember /\ email' = email
      /\ \A i \in Invitation : status'[i] = "PENDING" => status[i] = "PENDING"
  BY DEF BeginCreate, BeginResend, BeginRevoke, BeginAccept, BeginDelete, Expired, reached
<1>2. \A s \in Request : \/ req'[s] = req[s]
                         \/ /\ req'[s].pc = "accept" => req'[s].user = email[req'[s].inv]
                            /\ req'[s].pc = "create" => req'[s].user \notin member
  <2>1. DOMAIN req = Request /\ req \in [Request -> RequestState]
    BY DEF MInv, IInv, TypeOK, RequestState
  <2>2. ASSUME NEW u \in User, BeginCreate(r, u)
        PROVE  req'[r].pc = "create" /\ req'[r].user \notin member
               /\ \A s \in Request : s = r \/ req'[s] = req[s]
    <3>1. req' = [req EXCEPT ![r] = At("create", None, u, {})] /\ u \notin member
      BY <2>2 DEF BeginCreate
    <3>2. req'[r] = At("create", None, u, {}) /\ \A s \in Request : s = r \/ req'[s] = req[s]
      BY <2>1, <3>1
    <3> QED
      BY <3>1, <3>2 DEF At
  <2>3. ASSUME NEW i \in Invitation, BeginResend(r, i) \/ BeginRevoke(r, i)
        PROVE  req'[r].pc \in {"resend", "revoke"} /\ \A s \in Request : s = r \/ req'[s] = req[s]
    <3>1. PICK pc \in {"resend", "revoke"} : req' = [req EXCEPT ![r] = At(pc, i, None, {})]
      BY <2>3 DEF BeginResend, BeginRevoke
    <3>2. req'[r] = At(pc, i, None, {}) /\ \A s \in Request : s = r \/ req'[s] = req[s]
      BY <2>1, <3>1
    <3> QED
      BY <3>2 DEF At
  <2>4. ASSUME NEW i \in Invitation, BeginAccept(r, i)
        PROVE  /\ req'[r].pc = "accept" /\ req'[r].user = email[req'[r].inv]
               /\ \A s \in Request : s = r \/ req'[s] = req[s]
    <3>1. req' = [req EXCEPT ![r] = At("accept", i, email[i], {})]
      BY <2>4 DEF BeginAccept
    <3>2. req'[r] = At("accept", i, email[i], {}) /\ \A s \in Request : s = r \/ req'[s] = req[s]
      BY <2>1, <3>1
    <3> QED
      BY <3>2 DEF At
  <2>5. ASSUME BeginDelete(r)
        PROVE  req'[r].pc = "delete" /\ \A s \in Request : s = r \/ req'[s] = req[s]
    <3>1. PICK pending \in SUBSET Invitation :
              req' = [req EXCEPT ![r] = At("delete", None, None, pending)]
      BY <2>5 DEF BeginDelete
    <3>2. req'[r] = At("delete", None, None, pending)
          /\ \A s \in Request : s = r \/ req'[s] = req[s]
      BY <2>1, <3>1
    <3> QED
      BY <3>2 DEF At
  <2>6. /\ req'[r].pc = "accept" => req'[r].user = email[req'[r].inv]
        /\ req'[r].pc = "create" => req'[r].user \notin member
        /\ \A s \in Request : s = r \/ req'[s] = req[s]
    BY <2>2, <2>3, <2>4, <2>5
  <2>7. email' = email
    BY <1>1
  <2> QED
    BY <2>6, <2>7
<1> QED
  BY <1>1, <1>2, UninvitedKept

\* The one who joins had the only pending invitation to the address, and creations for it
\* are remembered.
LEMMA AcceptInvites ==
    ASSUME MInv, NEW r \in Request, AcceptInvitation(r)
    PROVE  AcceptsOwn' /\ CreationsAreKnown' /\ MembersAreNotInvited'
<1>1. TypeOK /\ req[r].inv \in Invitation /\ req[r].user = email[req[r].inv]
  BY DEF MInv, IInv, RequestsCarry, Carries, AcceptsOwn, AcceptInvitation
<1>2. \A s \in Request : req'[s].pc # "idle" => s # r /\ req'[s] = req[s]
  BY <1>1, FinishStep DEF MInv, IInv, AcceptInvitation
<1>3. /\ member' = member \cup {req[r].user} /\ email' = email /\ toMember' = toMember
      /\ unaware' = unaware \cup {q \in Request : req[q].pc = "create" /\ req[q].user = req[r].user}
      /\ status[req[r].inv] = "PENDING"
      /\ status' = [status EXCEPT ![req[r].inv] = "ACCEPTED"]
  BY DEF AcceptInvitation
<1>4. AcceptsOwn' /\ CreationsAreKnown'
  BY <1>2, <1>3 DEF MInv, AcceptsOwn, CreationsAreKnown
<1>5. MembersAreNotInvited'
  <2> SUFFICES ASSUME NEW i \in Invitation, status'[i] = "PENDING", email[i] \in member'
               PROVE  i \in toMember
    BY <1>3 DEF MembersAreNotInvited
  <2>1. i # req[r].inv /\ status[i] = "PENDING"
    BY <1>1, <1>3 DEF TypeOK
  <2>2. email[i] # req[r].user
    BY <1>1, <1>3, <2>1 DEF MInv, IInv, OnePendingPerEmail
  <2> QED
    BY <1>3, <2>1, <2>2 DEF MInv, MembersAreNotInvited
<1> QED
  BY <1>4, <1>5

\* An invitation that is issued is remembered if its address is a member's.
LEMMA IssueInvites ==
    ASSUME MInv, NEW r \in Request, NEW i \in Invitation, NEW u \in User, Finish(r),
           status' = [status EXCEPT ![i] = "PENDING"], email' = [email EXCEPT ![i] = u],
           NEW known \in BOOLEAN, IssuedTo(i, known), u \in member => known,
           status[i] = "absent" \/ u = email[i],
           member' = member, \A s \in Request \ {r} : s \in unaware => s \in unaware'
    PROVE  AcceptsOwn' /\ CreationsAreKnown' /\ MembersAreNotInvited'
<1>1. \A s \in Request : req'[s].pc # "idle" => s # r /\ req'[s] = req[s]
  BY FinishStep DEF MInv, IInv
<1>2. \A j \in Invitation : /\ status'[j] = IF j = i THEN "PENDING" ELSE status[j]
                            /\ email'[j] = IF j = i THEN u ELSE email[j]
  BY DEF MInv, IInv, TypeOK
<1>3. AcceptsOwn'
  <2> SUFFICES ASSUME NEW s \in Request, req'[s].pc = "accept"
               PROVE  req'[s].user = email'[req'[s].inv]
    BY DEF AcceptsOwn
  <2>1. req'[s] = req[s] /\ req[s].pc = "accept"
    BY <1>1
  <2>2. /\ req[s].inv \in Invitation /\ status[req[s].inv] # "absent"
        /\ req[s].user = email[req[s].inv]
    BY <2>1 DEF MInv, IInv, RequestsCarry, Carries, RowsStay, AcceptsOwn
  <2> QED
    BY <1>2, <2>1, <2>2
<1>4. CreationsAreKnown'
  BY <1>1 DEF MInv, CreationsAreKnown
<1>5. MembersAreNotInvited'
  BY <1>2 DEF MInv, MembersAreNotInvited, IssuedTo
<1> QED
  BY <1>3, <1>4, <1>5

\* The other commits issue nothing and let nobody join.
LEMMA CommitInvites ==
    ASSUME MInv, NEW r \in Request, Finish(r), UNCHANGED <<email, member, toMember>>,
           \A s \in Request \ {r} : s \in unaware => s \in unaware',
           \A i \in Invitation : status'[i] = "PENDING" => status[i] = "PENDING"
    PROVE  AcceptsOwn' /\ CreationsAreKnown' /\ MembersAreNotInvited'
<1>1. \A s \in Request : req'[s].pc # "idle" => s # r /\ req'[s] = req[s]
  BY FinishStep DEF MInv, IInv
<1>2. AcceptsOwn' /\ CreationsAreKnown'
  BY <1>1 DEF MInv, AcceptsOwn, CreationsAreKnown
<1>3. MembersAreNotInvited'
  BY DEF MInv, MembersAreNotInvited
<1> QED
  BY <1>2, <1>3

\* Every step keeps members uninvited.
LEMMA NextMInv == MInv /\ [Next]_vars => MInv'
<1> SUFFICES ASSUME MInv, [Next]_vars
             PROVE  AcceptsOwn' /\ CreationsAreKnown' /\ MembersAreNotInvited'
  BY NextIInv DEF MInv
<1>0. IInv /\ TypeOK
  BY DEF MInv, IInv
<1>1. CASE Others \/ UNCHANGED vars
  <2>1. /\ UNCHANGED <<email, req, reached>> /\ Settles(status') /\ member' \subseteq member
    BY <1>0, <1>1, OthersStep
  <2> QED
    BY <2>1, UninvitedKept DEF reached, Settles
<1>2. ASSUME NEW r \in Request, NEW i \in Invitation, CreateInvitation(r, i)
      PROVE  AcceptsOwn' /\ CreationsAreKnown' /\ MembersAreNotInvited'
  <2>1. /\ req[r].user \in User /\ (req[r].user \in member => r \in unaware)
        /\ (r \in unaware) \in BOOLEAN
    BY <1>2 DEF MInv, IInv, RequestsCarry, Carries, CreationsAreKnown, CreateInvitation
  <2> QED
    BY <1>2, <2>1, IssueInvites DEF CreateInvitation
<1>3. ASSUME NEW r \in Request, ResendInvitation(r)
      PROVE  AcceptsOwn' /\ CreationsAreKnown' /\ MembersAreNotInvited'
  <2>1. req[r].inv \in Invitation /\ status[req[r].inv] # "absent"
    BY <1>3 DEF MInv, IInv, RequestsCarry, Carries, RowsStay, ResendInvitation
  <2>2. PICK i \in Invitation : i = req[r].inv
    BY <2>1
  <2>3. PICK u \in User : u = email[i]
    BY <2>1, <2>2 DEF MInv, IInv, RowsAreAddressed
  <2>4. email' = [email EXCEPT ![i] = u] /\ (u \in member) \in BOOLEAN
    BY <1>0, <1>3, <2>3 DEF ResendInvitation, TypeOK
  <2>5. /\ Finish(r) /\ status' = [status EXCEPT ![i] = "PENDING"] /\ member' = member
        /\ IssuedTo(i, u \in member) /\ unaware' = unaware
    BY <1>3, <2>2, <2>3 DEF ResendInvitation
  <2> QED
    BY <2>3, <2>4, <2>5, IssueInvites
<1>4. ASSUME NEW r \in Request, RevokeInvitation(r) \/ DeleteOrganization(r) \/ Fail(r)
      PROVE  AcceptsOwn' /\ CreationsAreKnown' /\ MembersAreNotInvited'
  <2>1. /\ Finish(r) /\ UNCHANGED <<email, member, toMember>>
        /\ \A s \in Request \ {r} : s \in unaware => s \in unaware'
        /\ \A i \in Invitation : status'[i] = "PENDING" => status[i] = "PENDING"
    BY <1>0, <1>4 DEF RevokeInvitation, DeleteOrganization, Fail, TypeOK, reached
  <2> QED
    BY <2>1, CommitInvites
<1> QED
  BY <1>1, <1>2, <1>3, <1>4, AcceptInvites, ReadsInvite DEF Next, Others

\* ADR 0005: an address has at most one pending invitation, however the stale checks of
\* createInvitation and resendInvitation interleave, because the partial unique index
\* decides; and a member is invited only by a creation under way while the member joined,
\* or by a resend.
THEOREM InvitationsStayConsistent == Spec => []InvitationsConsistent
<1>1. MInv => InvitationsConsistent
  BY DEF MInv, IInv, InvitationsConsistent
<1>2. Init => MInv
  <2>1. Init => \A r \in Request : req[r].pc = "idle"
    BY DEF Init, IdleRequest, At
  <2> QED
    BY <2>1, InitIInv DEF Init, MInv, AcceptsOwn, CreationsAreKnown, MembersAreNotInvited
<1> QED
  BY <1>1, <1>2, NextMInv, PTL DEF Spec

-----------------------------------------------------------------------------
(* Acceptances                                                             *)

\* What a step may do to the history and the status of an invitation.
JoinsAreLive == \A i \in Invitation : joined'[i] # joined[i] => status[i] = "PENDING" /\ ~late[i]
AcceptedIsKept ==
    \A i \in Invitation : status[i] = "ACCEPTED" => status'[i] \notin {"REVOKED", "EXPIRED"}

\* No step lets anyone in but by a pending invitation in time, or takes an acceptance back.
LEMMA NextAccepts == IInv /\ [Next]_vars => JoinsAreLive /\ AcceptedIsKept
<1> SUFFICES ASSUME IInv, [Next]_vars PROVE JoinsAreLive /\ AcceptedIsKept
  OBVIOUS
<1> USE DEF JoinsAreLive, AcceptedIsKept
<1>0. TypeOK /\ \A r \in Request : Carries(req[r])
  BY DEF IInv, RequestsCarry
<1>1. CASE Others \/ UNCHANGED vars
  BY <1>0, <1>1, OthersStep
<1>2. ASSUME NEW r \in Request, NEW u \in User, BeginCreate(r, u) PROVE JoinsAreLive /\ AcceptedIsKept
  BY <1>0, <1>2, ExpiredSettles DEF BeginCreate
<1>3. ASSUME NEW r \in Request, NEW i \in Invitation,
             CreateInvitation(r, i) \/ BeginResend(r, i) \/ BeginRevoke(r, i) \/ BeginAccept(r, i)
      PROVE  JoinsAreLive /\ AcceptedIsKept
  <2>1. CASE CreateInvitation(r, i)
    BY <1>0, <2>1 DEF CreateInvitation, TypeOK
  <2>2. CASE BeginResend(r, i) \/ BeginRevoke(r, i)
    BY <1>0, <2>2, ExpiredSettles DEF BeginResend, BeginRevoke
  <2>3. CASE BeginAccept(r, i)
    BY <2>3 DEF BeginAccept
  <2> QED
    BY <1>3, <2>1, <2>2, <2>3
<1>4. ASSUME NEW r \in Request, ResendInvitation(r) PROVE JoinsAreLive /\ AcceptedIsKept
  BY <1>0, <1>4 DEF ResendInvitation, TypeOK
<1>5. ASSUME NEW r \in Request, RevokeInvitation(r) PROVE JoinsAreLive /\ AcceptedIsKept
  BY <1>0, <1>5 DEF RevokeInvitation, StatusCheck, TypeOK
<1>6. ASSUME NEW r \in Request, AcceptInvitation(r) PROVE JoinsAreLive /\ AcceptedIsKept
  BY <1>0, <1>6 DEF AcceptInvitation, TypeOK
<1>7. ASSUME NEW r \in Request, BeginDelete(r) \/ DeleteOrganization(r) \/ Fail(r)
      PROVE  JoinsAreLive /\ AcceptedIsKept
  BY <1>0, <1>7 DEF BeginDelete, DeleteOrganization, Fail, TypeOK
<1> QED
  BY <1>1, <1>2, <1>3, <1>4, <1>5, <1>6, <1>7 DEF Next, Others

\* acceptInvitation checks again when it commits: nobody joins by an invitation
\* that was revoked or expired since its token was looked up; and the check
\* constraint keeps an acceptance from being revoked.
THEOREM AcceptanceStaysSound == Spec => AcceptanceIsSound
<1>1. IInv /\ [Next]_vars => /\ [JoinsAreLive]_vars /\ [AcceptedIsKept]_vars
  BY NextAccepts
<1>2. Spec => []IInv
  BY InitIInv, NextIInv, PTL DEF Spec
<1>3. Spec => [][JoinsAreLive]_vars /\ [][AcceptedIsKept]_vars
  BY <1>1, <1>2, PTL DEF Spec
<1> QED
  BY <1>3 DEF AcceptanceIsSound, JoinNeedsPending, AcceptanceNotRevoked, JoinsAreLive, AcceptedIsKept

-----------------------------------------------------------------------------
(* Races                                                                   *)

\* Nothing was accepted or deleted at first.
LEMMA InitRInv == Init => RInv
BY InitIInv DEF Init, RInv, UsedIsSettled, DeletionSeesAll, NoIssueOutlives, IdleRequest, At, Deletes

\* A step at which no new resend is read and nothing is used keeps what was used.
LEMMA SettledKept ==
    ASSUME IInv, UsedIsSettled, joined' = joined, raced \subseteq raced',
           \A i \in Invitation : status[i] = "ACCEPTED" /\ status'[i] # "ACCEPTED" => Resends(i),
           \A s \in Request : req'[s].pc = "resend" =>
               req'[s] = req[s] \/ status[req'[s].inv] # "ACCEPTED"
    PROVE  UsedIsSettled'
BY DEF UsedIsSettled, Resends

\* A step that issues nothing beside a deletion keeps what the deletion has seen.
LEMMA DeletionKept ==
    ASSUME DeletionSeesAll, raced \subseteq raced',
           \A i \in Invitation : status'[i] = "PENDING" =>
               \/ status[i] = "PENDING"
               \/ "delete" \in raced' \/ \A s \in Request : ~Deletes(s),
           \A s \in Request : req'[s].pc = "delete" =>
               \/ req'[s] = req[s]
               \/ \A i \in Invitation : status'[i] = "PENDING" => i \in req'[s].cand
    PROVE  DeletionSeesAll'
BY DEF DeletionSeesAll, Deletes

\* Nothing is issued after a deletion by a request that comes after it.
LEMMA DeletedKept ==
    ASSUME NoIssueOutlives, raced \subseteq raced', deleted' = deleted,
           \A s \in Request : req'[s].pc \in {"create", "resend"} => req'[s] = req[s] \/ ~deleted,
           \A i \in Invitation : status'[i] = "PENDING" =>
               status[i] = "PENDING" \/ \E s \in Request : Issues(s)
    PROVE  NoIssueOutlives'
BY DEF NoIssueOutlives, Issues

\* The three parts, for a step that uses no invitation and deletes nothing.
KeptBy(st, rq, rcd) ==
    /\ raced \subseteq rcd
    /\ \A i \in Invitation : status[i] = "ACCEPTED" /\ st[i] # "ACCEPTED" => Resends(i)
    /\ \A s \in Request : rq[s].pc = "resend" => rq[s] = req[s] \/ status[rq[s].inv] # "ACCEPTED"
    /\ \A i \in Invitation : st[i] = "PENDING" =>
           \/ status[i] = "PENDING"
           \/ /\ \E s \in Request : Issues(s)
              /\ "delete" \in rcd \/ \A s \in Request : ~Deletes(s)
    /\ \A s \in Request : rq[s].pc = "delete" =>
           rq[s] = req[s] \/ \A i \in Invitation : st[i] = "PENDING" => i \in rq[s].cand
    /\ \A s \in Request : rq[s].pc \in {"create", "resend"} => rq[s] = req[s] \/ ~deleted

\* Such a step keeps what holds while nothing raced.
LEMMA RacesKept ==
    ASSUME RInv, KeptBy(status', req', raced'), joined' = joined, deleted' = deleted
    PROVE  UsedIsSettled' /\ DeletionSeesAll' /\ NoIssueOutlives'
<1>1. UsedIsSettled'
  BY SettledKept DEF RInv, KeptBy
<1>2. DeletionSeesAll'
  BY DeletionKept DEF RInv, KeptBy
<1>3. NoIssueOutlives'
  BY DeletedKept DEF RInv, KeptBy
<1> QED
  BY <1>1, <1>2, <1>3

\* One read by a request.
LEMMA ReadKept ==
    ASSUME IInv, NEW r \in Request, NEW q \in RequestState, Carries(q), ~deleted,
           req' = [req EXCEPT ![r] = q], UNCHANGED <<deleted, joined, raced>>,
           \A i \in Invitation : status'[i] # status[i] =>
               status[i] = "PENDING" /\ status'[i] # "PENDING",
           q.pc = "resend" => status[q.inv] # "ACCEPTED",
           q.pc = "delete" => \A i \in Invitation : status'[i] = "PENDING" => i \in q.cand
    PROVE  KeptBy(status', req', raced')
<1>1. \A s \in Request : req'[s] = IF s = r THEN q ELSE req[s]
  BY RequestStep DEF IInv
<1> QED
  BY <1>1 DEF KeptBy

\* The commit of a request that makes nothing pending that was not.
LEMMA CommitKept ==
    ASSUME IInv, NEW r \in Request, Finish(r), raced \subseteq raced',
           \A i \in Invitation : status'[i] # status[i] =>
               status'[i] # "PENDING" /\ status[i] # "ACCEPTED"
    PROVE  KeptBy(status', req', raced')
<1>1. \A s \in Request : req'[s].pc # "idle" => s # r /\ req'[s] = req[s]
  BY FinishStep DEF IInv
<1> QED
  BY <1>1 DEF KeptBy

\* The commit of a request that issues an invitation.
LEMMA IssueKept ==
    ASSUME IInv, NEW r \in Request, NEW i \in Invitation, Issues(r), Finish(r),
           raced' = raced \cup Race("delete", {"delete"}, {None}),
           status' = [status EXCEPT ![i] = "PENDING"], status[i] # "ACCEPTED" \/ Resends(i)
    PROVE  KeptBy(status', req', raced')
<1>1. \A s \in Request : req'[s].pc # "idle" => s # r /\ req'[s] = req[s]
  BY FinishStep DEF IInv
<1>2. "delete" \in raced' \/ \A s \in Request : ~Deletes(s)
  BY DEF Race, Deletes, IInv, RequestsCarry, Carries
<1>3. \A j \in Invitation : status'[j] = IF j = i THEN "PENDING" ELSE status[j]
  BY DEF IInv, TypeOK
<1> QED
  BY <1>1, <1>2, <1>3 DEF KeptBy

\* The first steps of the handlers are of that form.
LEMMA ReadsKeep ==
    ASSUME IInv, NEW r \in Request,
           \/ \E u \in User : BeginCreate(r, u)
           \/ \E i \in Invitation : BeginResend(r, i) \/ BeginRevoke(r, i) \/ BeginAccept(r, i)
           \/ BeginDelete(r)
    PROVE  KeptBy(status', req', raced') /\ UNCHANGED <<joined, deleted>>
<1>0. /\ TypeOK /\ RequestsCarry
      /\ \A I \in SUBSET Invitation : \A i \in Invitation :
             Expired(I)[i] # status[i] => status[i] = "PENDING" /\ Expired(I)[i] # "PENDING"
  BY DEF IInv, Expired
<1>1. ASSUME NEW u \in User, BeginCreate(r, u) PROVE KeptBy(status', req', raced')
  <2> DEFINE q == At("create", None, u, {})
  <2>1. q \in RequestState /\ q.pc = "create" /\ q.user = u
    BY AtType
  <2>2. Carries(q)
    BY <2>1 DEF Carries
  <2> QED
    BY <1>0, <1>1, <2>1, <2>2, ReadKept DEF BeginCreate
<1>2. ASSUME NEW i \in Invitation, BeginResend(r, i) PROVE KeptBy(status', req', raced')
  <2> DEFINE q == At("resend", i, None, {})
  <2>1. q \in RequestState /\ q.pc = "resend" /\ q.inv = i
    BY AtType
  <2>2. Carries(q)
    BY <2>1 DEF Carries
  <2>3. status[i] # "ACCEPTED"
    BY <1>0, <1>2 DEF BeginResend
  <2> QED
    BY <1>0, <1>2, <2>1, <2>2, <2>3, ReadKept DEF BeginResend
<1>3. ASSUME NEW i \in Invitation, BeginRevoke(r, i) PROVE KeptBy(status', req', raced')
  <2> DEFINE q == At("revoke", i, None, {})
  <2>1. q \in RequestState /\ q.pc = "revoke" /\ q.inv = i
    BY AtType
  <2>2. Carries(q)
    BY <2>1 DEF Carries
  <2> QED
    BY <1>0, <1>3, <2>1, <2>2, ReadKept DEF BeginRevoke
<1>4. ASSUME NEW i \in Invitation, BeginAccept(r, i) PROVE KeptBy(status', req', raced')
  <2> DEFINE q == At("accept", i, email[i], {})
  <2>1. email[i] \in User
    BY <1>4 DEF BeginAccept, IInv, RowsAreAddressed
  <2>2. q \in RequestState /\ q.pc = "accept" /\ q.inv = i /\ q.user = email[i]
    BY <2>1, AtType
  <2>3. Carries(q)
    BY <2>1, <2>2 DEF Carries
  <2> QED
    BY <1>4, <2>2, <2>3, ReadKept DEF BeginAccept
<1>5. ASSUME BeginDelete(r) PROVE KeptBy(status', req', raced')
  <2> DEFINE q == At("delete", None, None, {i \in Invitation : status[i] = "PENDING"})
  <2>1. /\ q \in RequestState /\ q.pc = "delete" /\ q.inv = None
        /\ q.cand = {i \in Invitation : status[i] = "PENDING"}
    BY AtType
  <2>2. Carries(q)
    BY <2>1 DEF Carries
  <2> QED
    BY <1>5, <2>1, <2>2, ReadKept DEF BeginDelete
<1> QED
  BY <1>1, <1>2, <1>3, <1>4, <1>5
  DEF BeginCreate, BeginResend, BeginRevoke, BeginAccept, BeginDelete

\* An acceptance that overtakes a resend is remembered.
LEMMA AcceptKept ==
    ASSUME RInv, NEW r \in Request, AcceptInvitation(r)
    PROVE  UsedIsSettled' /\ DeletionSeesAll' /\ NoIssueOutlives'
<1>a. TypeOK /\ IInv /\ req[r].inv \in Invitation
  BY DEF RInv, IInv, RequestsCarry, Carries, AcceptInvitation
<1>b. PICK i \in Invitation : i = req[r].inv
  BY <1>a
<1>0. TypeOK /\ IInv /\ i \in Invitation /\ i = req[r].inv
  BY <1>a, <1>b
<1>1. \A s \in Request : req'[s].pc # "idle" => s # r /\ req'[s] = req[s]
  BY <1>0, FinishStep DEF IInv, AcceptInvitation
<1>2. \A j \in Invitation : /\ status'[j] = IF j = i THEN "ACCEPTED" ELSE status[j]
                            /\ joined'[j] = IF j = i THEN joined[i] + 1 ELSE joined[j]
  BY <1>0 DEF TypeOK, AcceptInvitation
<1>3. status[i] = "PENDING" /\ raced \subseteq raced' /\ deleted' = deleted
  BY <1>0 DEF AcceptInvitation
<1>4. "resend" \in raced' \/ ~Resends(i)
  BY <1>0 DEF AcceptInvitation, Race, Resends
<1>5. UsedIsSettled'
  <2> SUFFICES ASSUME "resend" \notin raced', NEW j \in Invitation, joined'[j] > 0
               PROVE  joined'[j] = 1 /\ status'[j] = "ACCEPTED" /\ ~Resends(j)'
    BY DEF UsedIsSettled
  <2>1. "resend" \notin raced
    BY <1>3
  <2>2. CASE j = i
    <3>1. ~(joined[i] > 0) /\ joined[i] \in Nat
      BY <1>0, <1>3, <2>1, MaxJoinedAssumption DEF RInv, UsedIsSettled, TypeOK
    <3>2. ~Resends(i)'
      BY <1>1, <1>4 DEF Resends
    <3> QED
      BY <1>2, <2>2, <3>1, <3>2
  <2>3. CASE j # i
    <3>1. joined[j] = 1 /\ status[j] = "ACCEPTED" /\ ~Resends(j)
      BY <1>2, <2>1, <2>3 DEF RInv, UsedIsSettled
    <3> QED
      BY <1>1, <1>2, <2>3, <3>1 DEF Resends
  <2> QED
    BY <2>2, <2>3
<1>6. DeletionSeesAll'
  BY <1>1, <1>2, <1>3, DeletionKept DEF RInv
<1>7. NoIssueOutlives'
  BY <1>1, <1>2, <1>3, DeletedKept DEF RInv
<1> QED
  BY <1>5, <1>6, <1>7

\* A deletion revokes what it has seen, and remembers who is about to issue.
LEMMA DeleteKept ==
    ASSUME RInv, NEW r \in Request, DeleteOrganization(r)
    PROVE  UsedIsSettled' /\ DeletionSeesAll' /\ NoIssueOutlives'
<1>0. TypeOK /\ IInv /\ req \in [Request -> RequestState]
  BY DEF RInv, IInv, TypeOK, RequestState
<1>1. \A s \in Request : req'[s].pc # "idle" => s # r /\ req'[s] = req[s]
  BY <1>0, FinishStep DEF IInv, DeleteOrganization
<1>2. /\ raced \subseteq raced' /\ joined' = joined
      /\ \A i \in Invitation : status'[i] # status[i] => status[i] = "PENDING" /\ status'[i] = "REVOKED"
  BY DEF DeleteOrganization
<1>3. UsedIsSettled'
  BY <1>0, <1>1, <1>2, SettledKept DEF RInv
<1>4. DeletionSeesAll'
  BY <1>1, <1>2, DeletionKept DEF RInv
<1>5. NoIssueOutlives'
  <2> SUFFICES ASSUME "delete" \notin raced'
               PROVE  (\A s \in Request : ~Issues(s)') /\ (\A i \in Invitation : status'[i] # "PENDING")
    BY DEF NoIssueOutlives
  <2>1. \A s \in Request : ~Issues(s)
    BY <1>0 DEF DeleteOrganization, Race, Issues, RequestState
  <2>2. \A s \in Request : ~Issues(s)'
    BY <1>1, <2>1 DEF Issues
  <2>3. \A i \in Invitation : status[i] = "PENDING" => i \in req[r].cand
    BY <1>2 DEF RInv, DeletionSeesAll, Deletes, DeleteOrganization
  <2>4. \A i \in Invitation : status'[i] # "PENDING"
    BY <2>3 DEF DeleteOrganization
  <2> QED
    BY <2>2, <2>4
<1> QED
  BY <1>3, <1>4, <1>5

\* Every step keeps what holds while nothing raced.
LEMMA NextRInv == RInv /\ [Next]_vars => RInv'
<1> SUFFICES ASSUME RInv, [Next]_vars PROVE UsedIsSettled' /\ DeletionSeesAll' /\ NoIssueOutlives'
  BY NextIInv DEF RInv
<1>0. IInv /\ TypeOK
  BY DEF RInv, IInv
<1>1. CASE Others \/ UNCHANGED vars
  <2>1. /\ UNCHANGED <<deleted, req, joined, raced>> /\ Settles(status')
        /\ \A i \in Invitation : status'[i] # status[i] => status[i] = "PENDING"
    BY <1>0, <1>1, OthersStep
  <2>2. KeptBy(status', req', raced')
    BY <2>1 DEF KeptBy, Settles
  <2> QED
    BY <2>1, <2>2, RacesKept
<1>2. ASSUME NEW r \in Request,
             \/ \E u \in User : BeginCreate(r, u)
             \/ \E i \in Invitation : BeginResend(r, i) \/ BeginRevoke(r, i) \/ BeginAccept(r, i)
             \/ BeginDelete(r)
      PROVE  UsedIsSettled' /\ DeletionSeesAll' /\ NoIssueOutlives'
  <2>1. KeptBy(status', req', raced') /\ UNCHANGED <<joined, deleted>>
    BY <1>0, <1>2, ReadsKeep
  <2> QED
    BY <2>1, RacesKept
<1>3. ASSUME NEW r \in Request, NEW i \in Invitation, CreateInvitation(r, i)
      PROVE  UsedIsSettled' /\ DeletionSeesAll' /\ NoIssueOutlives'
  <2>1. KeptBy(status', req', raced')
    BY <1>0, <1>3, IssueKept DEF CreateInvitation, Issues
  <2> QED
    BY <1>3, <2>1, RacesKept DEF CreateInvitation
<1>4. ASSUME NEW r \in Request, ResendInvitation(r)
      PROVE  UsedIsSettled' /\ DeletionSeesAll' /\ NoIssueOutlives'
  <2>1. req[r].inv \in Invitation
    BY <1>0, <1>4 DEF ResendInvitation, IInv, RequestsCarry, Carries
  <2>2. Issues(r) /\ Resends(req[r].inv)
    BY <1>4 DEF ResendInvitation, Issues, Resends
  <2>3. KeptBy(status', req', raced')
    BY <1>0, <1>4, <2>1, <2>2, IssueKept DEF ResendInvitation
  <2> QED
    BY <1>4, <2>3, RacesKept DEF ResendInvitation
<1>5. ASSUME NEW r \in Request, RevokeInvitation(r) \/ Fail(r)
      PROVE  UsedIsSettled' /\ DeletionSeesAll' /\ NoIssueOutlives'
  <2>1. /\ Finish(r) /\ UNCHANGED <<deleted, joined, raced>>
        /\ \A i \in Invitation : status'[i] # status[i] => status'[i] # "PENDING" /\ status[i] # "ACCEPTED"
    BY <1>0, <1>5 DEF RevokeInvitation, StatusCheck, Fail, TypeOK
  <2>2. KeptBy(status', req', raced')
    BY <1>0, <2>1, CommitKept
  <2> QED
    BY <2>1, <2>2, RacesKept
<1> QED
  BY <1>1, <1>2, <1>3, <1>4, <1>5, AcceptKept, DeleteKept DEF Next, Others

\* ADR 0005: an invitation serves twice only after a resend had read it before it
\* was accepted (resendInvitation updates by id), and a deleted organization keeps
\* a pending one only when a creation or a resend ran beside the deletion.
THEOREM OnlyRacesBringBack == Spec => []OnlyRacesRevive
<1>1. RInv => OnlyRacesRevive
  <2> SUFFICES ASSUME RInv PROVE OnlyRacingResendReuses /\ OnlyRacingIssueSurvives
    BY DEF OnlyRacesRevive
  <2>1. OnlyRacingResendReuses
    <3>1. \A i \in Invitation : joined[i] \in Nat
      BY MaxJoinedAssumption DEF RInv, IInv, TypeOK
    <3>2. \A i \in Invitation : joined[i] > 1 => joined[i] > 0 /\ joined[i] # 1
      BY <3>1
    <3> QED
      BY <3>2 DEF RInv, UsedIsSettled, OnlyRacingResendReuses
  <2>2. OnlyRacingIssueSurvives
    BY DEF RInv, NoIssueOutlives, OnlyRacingIssueSurvives
  <2> QED
    BY <2>1, <2>2
<1> QED
  BY <1>1, InitRInv, NextRInv, PTL DEF Spec
=============================================================================
