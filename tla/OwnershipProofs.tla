--------------------------- MODULE OwnershipProofs ---------------------------
(***************************************************************************)
(* Proofs about Ownership for every set of users and of requests.          *)
(***************************************************************************)
EXTENDS Ownership, TLAPS

(***************************************************************************)
(* What the properties need in order to be inductive.  A role a request    *)
(* has read may be stale, but the role it is about to write is not: no     *)
(* updateMemberRole carries OWNER past assertCanAssignMembershipRole, and  *)
(* the rows a request names are rows of users.  OnlyRacingTransferOrphans  *)
(* needs that, as long as no transfer overtook a member change, the change *)
(* is of nobody who is the owner, and that a row a request names was made  *)
(* already: a row of the future would come alive with a new membership.    *)
(***************************************************************************)
CarriesNoOwnerRole(q) == q.handler = "updateMemberRole" => q.newRole # "OWNER"
NamesUsers(q) == q.pc # "idle" => q.me.user \in User /\ q.target.user \in User
RequestsWellFormed == \A r \in Request : CarriesNoOwnerRole(req[r]) /\ NamesUsers(req[r])

TargetIsOld(q) == q.pc # "idle" => q.target.join <= joins[q.target.user]
TargetsAreOld == \A r \in Request : TargetIsOld(req[r])

ChangesSpareOwner ==
    overtaken \/ \A r \in Request : ChangesMember(r) /\ Present(req[r].target)
                                   => req[r].target.user # ownerId

IInv == TypeOK /\ RequestsWellFormed /\ OwnerRoleIsRecorded
OInv == IInv /\ TargetsAreOld /\ ChangesSpareOwner /\ OnlyRacingTransferOrphans

-----------------------------------------------------------------------------
(* Requests                                                                *)

\* The record a request is given is a request state.
LEMMA AtType ==
    ASSUME NEW pc \in {"idle", "read", "commit"}, NEW h \in Handler \cup {"none"},
           NEW me \in Membership, NEW myRole \in Role \cup {"none"},
           NEW target \in Membership, NEW newRole \in Role \cup {"none"}
    PROVE  At(pc, h, me, myRole, target, newRole) \in RequestState
BY DEF At, RequestState

\* A free slot is a request state that names nobody and writes nothing.
LEMMA IdleRequestType ==
    IdleRequest \in RequestState /\ CarriesNoOwnerRole(IdleRequest) /\ NamesUsers(IdleRequest)
<1>1. NoRow \in Membership
  BY MaxJoinsAssumption DEF NoRow, Membership
<1> QED
  BY <1>1, AtType DEF IdleRequest, At, CarriesNoOwnerRole, NamesUsers

\* The row the guard or a handler reads is a membership of that user.
LEMMA RowOfType ==
    ASSUME TypeOK, NEW u \in User PROVE RowOf(u) \in Membership /\ RowOf(u).user = u
BY DEF TypeOK, RowOf, Membership

\* Replacing one request by a well-formed one leaves all of them well formed.
LEMMA RequestStep ==
    ASSUME TypeOK, RequestsWellFormed, NEW r \in Request, NEW q \in RequestState,
           CarriesNoOwnerRole(q), NamesUsers(q), req' = [req EXCEPT ![r] = q]
    PROVE  req' \in [Request -> RequestState] /\ RequestsWellFormed'
<1>1. \A s \in Request : req'[s] = IF s = r THEN q ELSE req[s]
  BY DEF TypeOK
<1>2. req' \in [Request -> RequestState]
  BY DEF TypeOK
<1>3. \A s \in Request : CarriesNoOwnerRole(req'[s]) /\ NamesUsers(req'[s])
  BY <1>1 DEF RequestsWellFormed
<1> QED
  BY <1>2, <1>3 DEF RequestsWellFormed, CarriesNoOwnerRole, NamesUsers

\* A handler that answers leaves the requests well formed.
LEMMA FinishStep ==
    ASSUME TypeOK, RequestsWellFormed, NEW r \in Request, Finish(r)
    PROVE  req' \in [Request -> RequestState] /\ RequestsWellFormed'
BY RequestStep, IdleRequestType DEF Finish

-----------------------------------------------------------------------------
(* The inductive invariant                                                 *)

\* A new organization satisfies it.
LEMMA InitIInv == Init => IInv
<1> SUFFICES ASSUME Init PROVE IInv
  OBVIOUS
<1>1. PICK u \in User :
        /\ role = [v \in User |-> IF v = u THEN "OWNER" ELSE "none"]
        /\ joins = [v \in User |-> IF v = u THEN 1 ELSE 0]
        /\ ownerId = u
        /\ deleted = FALSE
        /\ req = [r \in Request |-> IdleRequest]
        /\ overtaken = FALSE
  BY DEF Init
<1>2. TypeOK
  <2>1. joins \in [User -> 0..MaxJoins]
    BY <1>1, MaxJoinsAssumption
  <2>2. req \in [Request -> RequestState]
    BY <1>1, IdleRequestType
  <2>3. role \in [User -> Role \cup {"none"}]
    BY <1>1 DEF Role
  <2> QED
    BY <1>1, <2>1, <2>2, <2>3 DEF TypeOK
<1>3. RequestsWellFormed
  BY <1>1, IdleRequestType DEF RequestsWellFormed
<1>4. OwnerRoleIsRecorded
  BY <1>1 DEF OwnerRoleIsRecorded
<1> QED
  BY <1>2, <1>3, <1>4 DEF IInv

\* The reads change nothing but their request.
LEMMA ReadIInv ==
    ASSUME IInv, NEW r \in Request, NEW v \in User,
           \/ \E h \in Handler : Resolve(r, v, h)
           \/ \E new \in Role \cup {"none"} : ReadManagedTarget(r, v, new)
           \/ ReadNewOwner(r, v)
    PROVE  IInv'
<1> USE DEF IInv
<1>1. req[r] \in RequestState
  BY DEF TypeOK
<1>2. RowOf(v) \in Membership /\ RowOf(v).user = v
  BY RowOfType
<1>3. /\ UNCHANGED <<role, joins, ownerId, deleted, overtaken>>
      /\ \E q \in RequestState :
            CarriesNoOwnerRole(q) /\ NamesUsers(q) /\ req' = [req EXCEPT ![r] = q]
  <2>1. CASE \E h \in Handler : Resolve(r, v, h)
    <3>1. PICK h \in Handler : Resolve(r, v, h)
      BY <2>1
    <3> DEFINE q == At(IF h \in {"leave", "delete"} THEN "commit" ELSE "read",
                       h, RowOf(v), role[v], RowOf(v), "none")
    <3>2. q \in RequestState
      BY <1>2, AtType DEF TypeOK
    <3>3. CarriesNoOwnerRole(q) /\ NamesUsers(q)
      BY <1>2 DEF At, CarriesNoOwnerRole, NamesUsers
    <3> QED
      BY <3>1, <3>2, <3>3 DEF Resolve
  <2>2. CASE \E new \in Role \cup {"none"} : ReadManagedTarget(r, v, new)
    <3>1. PICK new \in Role \cup {"none"} : ReadManagedTarget(r, v, new)
      BY <2>2
    <3> DEFINE q == At("commit", req[r].handler, req[r].me, req[r].myRole, RowOf(v), new)
    <3>2. q \in RequestState
      BY <1>1, <1>2, AtType DEF RequestState
    <3>3. req[r].me.user \in User
      BY <3>1 DEF ReadManagedTarget, RequestsWellFormed, NamesUsers
    <3>4. CarriesNoOwnerRole(q)
      BY <3>1 DEF ReadManagedTarget, CanAssignMembershipRole, CarriesNoOwnerRole, At
    <3>5. NamesUsers(q)
      BY <3>3, <1>2 DEF NamesUsers, At
    <3> QED
      BY <3>1, <3>2, <3>4, <3>5 DEF ReadManagedTarget
  <2>3. CASE ReadNewOwner(r, v)
    <3> DEFINE q == At("commit", "transfer", req[r].me, req[r].myRole, RowOf(v), "OWNER")
    <3>1. q \in RequestState
      BY <1>1, <1>2, AtType DEF RequestState, Handler, Role
    <3>2. req[r].me.user \in User
      BY <2>3 DEF ReadNewOwner, RequestsWellFormed, NamesUsers
    <3>3. CarriesNoOwnerRole(q) /\ NamesUsers(q)
      BY <3>2, <1>2 DEF NamesUsers, CarriesNoOwnerRole, At
    <3> QED
      BY <2>3, <3>1, <3>3 DEF ReadNewOwner
  <2> QED
    BY <2>1, <2>2, <2>3
<1>4. req' \in [Request -> RequestState] /\ RequestsWellFormed'
  BY <1>3, RequestStep
<1> QED
  BY <1>3, <1>4 DEF TypeOK, OwnerRoleIsRecorded

\* A role change or a departure makes nobody an OWNER.
LEMMA ManageIInv ==
    ASSUME IInv, NEW r \in Request, UpdateMemberRole(r) \/ DeleteMembership(r)
    PROVE  IInv'
<1> USE DEF IInv
<1>1. req' \in [Request -> RequestState] /\ RequestsWellFormed'
  BY FinishStep DEF UpdateMemberRole, DeleteMembership
<1>2. req[r] \in RequestState /\ CarriesNoOwnerRole(req[r])
  BY DEF TypeOK, RequestsWellFormed
<1>3. \E new \in (Role \cup {"none"}) \ {"OWNER"} :
          role' = [role EXCEPT ![req[r].target.user] = new]
  BY <1>2 DEF UpdateMemberRole, DeleteMembership, RequestState, CarriesNoOwnerRole
<1>4. UNCHANGED <<joins, ownerId, deleted, overtaken>>
  BY DEF UpdateMemberRole, DeleteMembership
<1> QED
  BY <1>1, <1>3, <1>4 DEF TypeOK, OwnerRoleIsRecorded

\* A transfer that the index lets through moves the role and the record together.
LEMMA TransferIInv ==
    ASSUME IInv, NEW r \in Request, TransferOwnership(r)
    PROVE  IInv'
<1> USE DEF IInv
<1>1. req' \in [Request -> RequestState] /\ RequestsWellFormed'
  BY FinishStep DEF TransferOwnership
<1>2. req[r].target.user \in User
  BY DEF TransferOwnership, RequestsWellFormed, NamesUsers
<1>3. TypeOK'
  BY <1>1, <1>2 DEF TransferOwnership, TypeOK, Role
<1>4. OwnerRoleIsRecorded'
  BY <1>2 DEF TransferOwnership, OneOwnerIndex, OwnerRoleIsRecorded
<1> QED
  BY <1>1, <1>3, <1>4

\* Every step preserves it.
LEMMA NextIInv == IInv /\ [Next]_vars => IInv'
<1> SUFFICES ASSUME IInv, [Next]_vars PROVE IInv'
  OBVIOUS
<1>1. ASSUME NEW r \in Request, DeleteOrganization(r) \/ Fail(r) PROVE IInv'
  <2>1. req' \in [Request -> RequestState] /\ RequestsWellFormed'
    BY <1>1, FinishStep DEF IInv, DeleteOrganization, Fail
  <2> QED
    BY <1>1, <2>1 DEF IInv, TypeOK, OwnerRoleIsRecorded, DeleteOrganization, Fail
<1>2. ASSUME NEW u \in User, NEW invited \in Assignable, Join(u, invited) PROVE IInv'
  <2>1. TypeOK'
    BY <1>2, MaxJoinsAssumption DEF IInv, TypeOK, Join, Assignable
  <2>2. RequestsWellFormed'
    BY <1>2 DEF IInv, Join, RequestsWellFormed, CarriesNoOwnerRole, NamesUsers
  <2>3. OwnerRoleIsRecorded'
    BY <1>2 DEF IInv, TypeOK, Join, Assignable, OwnerRoleIsRecorded
  <2> QED
    BY <2>1, <2>2, <2>3 DEF IInv
<1>3. CASE UNCHANGED vars
  BY <1>3 DEF vars, IInv, TypeOK, RequestsWellFormed, CarriesNoOwnerRole, NamesUsers,
              OwnerRoleIsRecorded
<1> QED
  BY <1>1, <1>2, <1>3, ReadIInv, ManageIInv, TransferIInv DEF Next

\* The inductive invariant holds in every reachable state.
LEMMA Inductive == Spec => []IInv
BY InitIInv, NextIInv, PTL DEF Spec

-----------------------------------------------------------------------------
(* Who can leave an organization without its owner                         *)

\* A new organization has its owner.
LEMMA InitOInv == Init => OInv
<1> SUFFICES ASSUME Init PROVE OInv
  OBVIOUS
<1>1. PICK u \in User :
        /\ role = [v \in User |-> IF v = u THEN "OWNER" ELSE "none"]
        /\ ownerId = u
        /\ req = [r \in Request |-> IdleRequest]
  BY DEF Init
<1>2. IInv
  BY InitIInv
<1>3. IdleRequest.pc = "idle"
  BY DEF IdleRequest, At
<1> QED
  BY <1>1, <1>2, <1>3 DEF OInv, TargetsAreOld, TargetIsOld, ChangesSpareOwner, ChangesMember,
                          OnlyRacingTransferOrphans

\* A step that only replaces one request: what it reads is a row of now, and a
\* member it is going to change is not the OWNER.
LEMMA RequestStepOInv ==
    ASSUME OInv, IInv', NEW r \in Request, NEW q \in RequestState,
           req' = [req EXCEPT ![r] = q], UNCHANGED <<role, joins, ownerId, overtaken>>,
           TargetIsOld(q),
           q.pc = "commit" /\ q.handler \in {"updateMemberRole", "removeMember", "leave"}
               => role[q.target.user] # "OWNER"
    PROVE  OInv'
<1> USE DEF OInv
<1>1. \A s \in Request : req'[s] = IF s = r THEN q ELSE req[s]
  BY DEF IInv, TypeOK
<1>2. TargetsAreOld'
  BY <1>1 DEF TargetsAreOld, TargetIsOld
<1>3. ChangesSpareOwner'
  BY <1>1 DEF ChangesSpareOwner, ChangesMember, Present, OnlyRacingTransferOrphans
<1>4. OnlyRacingTransferOrphans'
  BY DEF OnlyRacingTransferOrphans
<1> QED
  BY <1>2, <1>3, <1>4

\* The reads: the hierarchy rules refuse the OWNER, and so does leaving.
LEMMA ReadOInv ==
    ASSUME OInv, NEW r \in Request, NEW v \in User,
           \/ \E h \in Handler : Resolve(r, v, h)
           \/ \E new \in Role \cup {"none"} : ReadManagedTarget(r, v, new)
           \/ ReadNewOwner(r, v)
    PROVE  OInv'
<1> USE DEF OInv
<1>1. IInv'
  BY ReadIInv
<1>2. req[r] \in RequestState
  BY DEF IInv, TypeOK
<1>3. RowOf(v) \in Membership /\ RowOf(v).user = v /\ RowOf(v).join = joins[v]
  BY RowOfType DEF IInv, RowOf
<1>4. joins[v] <= joins[v]
  BY MaxJoinsAssumption DEF IInv, TypeOK
<1>5. CASE \E h \in Handler : Resolve(r, v, h)
  <2>1. PICK h \in Handler : Resolve(r, v, h)
    BY <1>5
  <2> DEFINE q == At(IF h \in {"leave", "delete"} THEN "commit" ELSE "read",
                     h, RowOf(v), role[v], RowOf(v), "none")
  <2>2. q \in RequestState
    BY <1>3, AtType DEF IInv, TypeOK
  <2>3. q.target = RowOf(v) /\ q.handler = h /\ (q.pc = "commit" => h \in {"leave", "delete"})
    BY DEF At
  <2>4. TargetIsOld(q)
    BY <1>3, <1>4, <2>3 DEF TargetIsOld
  <2>5. q.pc = "commit" /\ q.handler \in {"updateMemberRole", "removeMember", "leave"}
            => role[q.target.user] # "OWNER"
    BY <1>3, <2>1, <2>3 DEF Resolve, CanLeaveOrganization
  <2>6. req' = [req EXCEPT ![r] = q] /\ UNCHANGED <<role, joins, ownerId, overtaken>>
    BY <2>1 DEF Resolve
  <2> QED
    BY <1>1, <2>2, <2>4, <2>5, <2>6, RequestStepOInv
<1>6. CASE \E new \in Role \cup {"none"} : ReadManagedTarget(r, v, new)
  <2>1. PICK new \in Role \cup {"none"} : ReadManagedTarget(r, v, new)
    BY <1>6
  <2> DEFINE q == At("commit", req[r].handler, req[r].me, req[r].myRole, RowOf(v), new)
  <2>2. q \in RequestState
    BY <1>2, <1>3, AtType DEF RequestState
  <2>3. q.target = RowOf(v)
    BY DEF At
  <2>4. TargetIsOld(q)
    BY <1>3, <1>4, <2>3 DEF TargetIsOld
  <2>5. role[q.target.user] # "OWNER"
    BY <1>3, <2>1, <2>3 DEF ReadManagedTarget, CanManageMembership
  <2>6. req' = [req EXCEPT ![r] = q] /\ UNCHANGED <<role, joins, ownerId, overtaken>>
    BY <2>1 DEF ReadManagedTarget
  <2> QED
    BY <1>1, <2>2, <2>4, <2>5, <2>6, RequestStepOInv
<1>7. CASE ReadNewOwner(r, v)
  <2> DEFINE q == At("commit", "transfer", req[r].me, req[r].myRole, RowOf(v), "OWNER")
  <2>1. q \in RequestState
    BY <1>2, <1>3, AtType DEF RequestState, Handler, Role
  <2>2. q.target = RowOf(v) /\ q.handler = "transfer"
    BY DEF At
  <2>3. TargetIsOld(q)
    BY <1>3, <1>4, <2>2 DEF TargetIsOld
  <2>4. req' = [req EXCEPT ![r] = q] /\ UNCHANGED <<role, joins, ownerId, overtaken>>
    BY <1>7 DEF ReadNewOwner
  <2> QED
    BY <1>1, <2>1, <2>2, <2>3, <2>4, RequestStepOInv
<1> QED
  BY <1>5, <1>6, <1>7

\* A member change that commits is not of the owner.
LEMMA ManageOInv ==
    ASSUME OInv, NEW r \in Request, UpdateMemberRole(r) \/ DeleteMembership(r)
    PROVE  OInv'
<1> USE DEF OInv
<1>1. IInv'
  BY ManageIInv
<1>2. PICK new \in Role \cup {"none"} : role' = [role EXCEPT ![req[r].target.user] = new]
  BY DEF UpdateMemberRole, DeleteMembership, IInv, TypeOK, RequestState
<1>3. /\ UNCHANGED <<joins, ownerId, overtaken>> /\ Finish(r)
      /\ ChangesMember(r) /\ Present(req[r].target) /\ req[r].target.user \in User
  BY DEF UpdateMemberRole, DeleteMembership, ChangesMember, IInv, RequestsWellFormed, NamesUsers
<1>4. \A s \in Request : req'[s] = req[s] \/ req'[s].pc = "idle"
  BY <1>3 DEF Finish, IInv, TypeOK, IdleRequest, At
<1>5. TargetsAreOld'
  BY <1>3, <1>4 DEF TargetsAreOld, TargetIsOld
<1>6. OnlyRacingTransferOrphans'
  BY <1>2, <1>3 DEF OnlyRacingTransferOrphans, ChangesSpareOwner, IInv, TypeOK
<1>7. ChangesSpareOwner'
  <2> SUFFICES ASSUME ~overtaken, NEW s \in Request, ChangesMember(s)', Present(req[s].target)'
               PROVE  req'[s].target.user # ownerId
    BY <1>3 DEF ChangesSpareOwner
  <2>1. req'[s] = req[s] /\ ChangesMember(s) /\ req[s].target.user \in User
    BY <1>4 DEF ChangesMember, IInv, RequestsWellFormed, NamesUsers
  <2>2. CASE Present(req[s].target)
    BY <2>1, <2>2 DEF ChangesSpareOwner
  <2>3. CASE ~Present(req[s].target)
    BY <1>2, <1>3, <2>1, <2>3 DEF Present, ChangesSpareOwner, IInv, TypeOK
  <2> QED
    BY <2>2, <2>3
<1> QED
  BY <1>1, <1>5, <1>6, <1>7

\* A transfer makes its target the owner, or notices what it overtook.
LEMMA TransferOInv ==
    ASSUME OInv, NEW r \in Request, TransferOwnership(r)
    PROVE  OInv'
<1> USE DEF OInv
<1> DEFINE t == req[r].target
<1>1. IInv'
  BY TransferIInv
<1>2. /\ t \in Membership /\ t.user \in User /\ Present(t) /\ Finish(r)
      /\ role' = [role EXCEPT ![req[r].me.user] = "ADMIN", ![t.user] = "OWNER"]
      /\ ownerId' = t.user /\ joins' = joins
      /\ overtaken' = (overtaken \/ \E q \in Request : ChangesMember(q) /\ req[q].target = t)
  BY DEF TransferOwnership, IInv, TypeOK, RequestState, RequestsWellFormed, NamesUsers
<1>3. \A s \in Request : req'[s] = req[s] \/ req'[s].pc = "idle"
  BY <1>2 DEF Finish, IInv, TypeOK, IdleRequest, At
<1>4. TargetsAreOld'
  BY <1>2, <1>3 DEF TargetsAreOld, TargetIsOld
<1>5. OnlyRacingTransferOrphans'
  BY <1>2 DEF OnlyRacingTransferOrphans, IInv, TypeOK
<1>6. ChangesSpareOwner'
  <2> SUFFICES ASSUME ~overtaken', NEW s \in Request, ChangesMember(s)', Present(req[s].target)',
                      req'[s].target.user = ownerId'
               PROVE  FALSE
    BY DEF ChangesSpareOwner
  <2>1. req'[s] = req[s] /\ ChangesMember(s) /\ req[s].target \in Membership
    BY <1>3 DEF ChangesMember, IInv, TypeOK, RequestState
  <2>2. req[s].target.user = t.user /\ req[s].target.join = joins[t.user] /\ t.join = joins[t.user]
    BY <1>2, <2>1 DEF Present
  <2>3. req[s].target = t
    BY <1>2, <2>1, <2>2 DEF Membership
  <2> QED
    BY <1>2, <2>1, <2>3
<1> QED
  BY <1>1, <1>4, <1>5, <1>6

\* A new membership is no row that a request has read, nor the owner's.
LEMMA JoinOInv ==
    ASSUME OInv, IInv', NEW u \in User, NEW invited \in Assignable, Join(u, invited)
    PROVE  OInv'
<1> USE DEF OInv
<1>1. joins[u] \in Nat /\ joins' = [joins EXCEPT ![u] = joins[u] + 1]
  BY MaxJoinsAssumption DEF Join, IInv, TypeOK
<1>2. \A s \in Request : req[s].pc # "idle" =>
          req[s].target.join \in Nat /\ req[s].target.user \in User
  BY MaxJoinsAssumption DEF IInv, TypeOK, RequestState, Membership, RequestsWellFormed, NamesUsers
<1>3. \A w \in User : joins[w] \in Nat
  BY MaxJoinsAssumption DEF IInv, TypeOK
<1>4. TargetsAreOld'
  BY <1>1, <1>2, <1>3 DEF Join, TargetsAreOld, TargetIsOld, IInv, TypeOK
<1>5. OnlyRacingTransferOrphans'
  BY DEF Join, OnlyRacingTransferOrphans, IInv, TypeOK
<1>6. ChangesSpareOwner'
  <2> SUFFICES ASSUME ~overtaken, NEW s \in Request, ChangesMember(s), Present(req[s].target)'
               PROVE  req[s].target.user # ownerId
    BY DEF Join, ChangesSpareOwner, ChangesMember
  <2>1. req[s].pc # "idle"
    BY DEF ChangesMember
  <2>2. req[s].target.join <= joins[req[s].target.user]
    BY <2>1 DEF TargetsAreOld, TargetIsOld
  <2>3. req[s].target.user # u
    BY <1>1, <1>2, <2>1, <2>2 DEF Join, Present, IInv, TypeOK
  <2>4. Present(req[s].target)
    BY <1>1, <1>2, <2>1, <2>3 DEF Join, Present, IInv, TypeOK
  <2> QED
    BY <2>4 DEF ChangesSpareOwner
<1> QED
  BY <1>4, <1>5, <1>6

\* Every step preserves it.
LEMMA NextOInv == OInv /\ [Next]_vars => OInv'
<1> SUFFICES ASSUME OInv, [Next]_vars PROVE OInv'
  OBVIOUS
<1>1. IInv'
  BY NextIInv DEF OInv
<1>2. ASSUME NEW r \in Request, DeleteOrganization(r) \/ Fail(r) PROVE OInv'
  <2>1. req' = [req EXCEPT ![r] = IdleRequest] /\ UNCHANGED <<role, joins, ownerId, overtaken>>
    BY <1>2 DEF DeleteOrganization, Fail, Finish
  <2>2. IdleRequest \in RequestState /\ IdleRequest.pc = "idle"
    BY IdleRequestType DEF IdleRequest, At
  <2>3. TargetIsOld(IdleRequest)
    BY <2>2 DEF TargetIsOld
  <2> QED
    BY <1>1, <2>1, <2>2, <2>3, RequestStepOInv
<1>3. ASSUME NEW u \in User, NEW invited \in Assignable, Join(u, invited) PROVE OInv'
  BY <1>1, <1>3, JoinOInv
<1>4. CASE UNCHANGED vars
  BY <1>1, <1>4 DEF vars, OInv, TargetsAreOld, TargetIsOld, ChangesSpareOwner, ChangesMember,
                    Present, OnlyRacingTransferOrphans
<1> QED
  BY <1>2, <1>3, <1>4, ReadOInv, ManageOInv, TransferOInv DEF Next

-----------------------------------------------------------------------------
(* Theorems                                                                *)

\* However many requests act on stale roles, memberships and requests stay well typed, and
\* the OWNER member is the owner organizations.owner_id names.
THEOREM OwnershipStaysConsistent == Spec => []OwnershipConsistent
<1>1. IInv => OwnershipConsistent
  BY DEF IInv, OwnershipConsistent
<1> QED
  BY <1>1, Inductive, PTL

\* An organization never has two OWNER memberships.
THEOREM OneOwner == Spec => []AtMostOneOwner
<1>1. IInv => AtMostOneOwner
  BY DEF IInv, OwnerRoleIsRecorded, AtMostOneOwner
<1> QED
  BY <1>1, Inductive, PTL

\* An organization is left without its owner by one race alone: a transfer to a
\* member whom another request has already checked and is about to change.
THEOREM OrphansComeFromRaces == Spec => []OnlyRacingTransferOrphans
<1>1. OInv => OnlyRacingTransferOrphans
  BY DEF OInv
<1> QED
  BY <1>1, InitOInv, NextOInv, PTL DEF Spec
=============================================================================
