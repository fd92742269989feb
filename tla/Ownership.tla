------------------------------ MODULE Ownership ------------------------------
(***************************************************************************)
(* The memberships and the owner of one organization, and the handlers of  *)
(* organizations.service.ts that change them.                              *)
(*                                                                         *)
(* A request passes OrganizationAuthorizationGuard, which attaches the     *)
(* caller's membership and role; the handler reads the target membership;  *)
(* a transaction commits.  The three are separate steps: no handler reads  *)
(* a role again inside its transaction, nor makes the update depend on it. *)
(***************************************************************************)
EXTENDS Authorization, Naturals, FiniteSets

CONSTANTS User, Request,
          None,      \* no user
          MaxJoins   \* bound on how often a user joins

ASSUME MaxJoinsAssumption == MaxJoins \in Nat \ {0}
ASSUME NoneAssumption == None \notin User

VARIABLES role,     \* role[u]: of the membership of u, "none" without one
          joins,    \* joins[u]: names the membership row of u (a new one each time)
          ownerId,  \* organizations.owner_id
          deleted,  \* organizations.deleted_at is set
          req,      \* what each request has read and does next
          overtaken \* history: a member about to be changed was made the owner

vars == <<role, joins, ownerId, deleted, req, overtaken>>

Assignable == Role \ {"OWNER"}

\* The handlers, and the capability their route requires.
Handler == {"updateMemberRole", "removeMember", "leave", "transfer", "delete"}
RequiredCapability ==
    [h \in Handler |->
        CASE h = "updateMemberRole" -> "membership:change-role"
          [] h = "removeMember"     -> "membership:remove"
          [] h = "leave"            -> "organization:leave"
          [] h = "transfer"         -> "ownership:transfer"
          [] h = "delete"           -> "organization:delete"]

\* A membership row: the user and which of the user's rows it is.
RowOf(u) == [user |-> u, join |-> joins[u]]
Present(m) == role[m.user] # "none" /\ joins[m.user] = m.join

NoRow == [user |-> None, join |-> 0]

\* A request of a handler: the caller's row and role as the guard attached
\* them, the row the handler read and the role it is to give.
At(pc, h, me, myRole, target, newRole) ==
    [pc |-> pc, handler |-> h, me |-> me, myRole |-> myRole,
     target |-> target, newRole |-> newRole]
IdleRequest == At("idle", "none", NoRow, "none", NoRow, "none")
IsIdle(r) == req[r].pc = "idle"
Finish(r) == req' = [req EXCEPT ![r] = IdleRequest]

\* createOrganization: the organization and its OWNER membership.
Init ==
    \E u \in User :
        /\ role = [v \in User |-> IF v = u THEN "OWNER" ELSE "none"]
        /\ joins = [v \in User |-> IF v = u THEN 1 ELSE 0]
        /\ ownerId = u
        /\ deleted = FALSE
        /\ req = [r \in Request |-> IdleRequest]
        /\ overtaken = FALSE

-----------------------------------------------------------------------------
\* memberships_one_owner_per_organization_key: u may become OWNER only if no
\* other membership is one.
OneOwnerIndex(u, newRole) == \A v \in User \ {u} : newRole[v] # "OWNER"

\* Bug: the Owner may leave.
ResolveAnyLeave(r, u, h) ==
    /\ IsIdle(r)
    /\ ~deleted
    /\ role[u] # "none"
    /\ hasCapability(role[u], RequiredCapability[h])
    /\ req' = [req EXCEPT ![r] = At(IF h \in {"leave", "delete"} THEN "commit" ELSE "read",
                                    h, RowOf(u), role[u], RowOf(u), "none")]
    /\ UNCHANGED <<role, joins, ownerId, deleted, overtaken>>

\* The guard: contextService.resolve, then the required capability.
Resolve(r, u, h) ==
    /\ IsIdle(r)
    /\ ~deleted
    /\ role[u] # "none"
    /\ hasCapability(role[u], RequiredCapability[h])
    /\ h = "leave" => CanLeaveOrganization(role[u])
    /\ req' = [req EXCEPT ![r] = At(IF h \in {"leave", "delete"} THEN "commit" ELSE "read",
                                    h, RowOf(u), role[u], RowOf(u), "none")]
    /\ UNCHANGED <<role, joins, ownerId, deleted, overtaken>>

\* updateMemberRole and removeMember read the target and ask the hierarchy rules.
ReadManagedTarget(r, v, newRole) ==
    /\ req[r].pc = "read"
    /\ req[r].handler \in {"updateMemberRole", "removeMember"}
    /\ role[v] # "none"
    /\ CanManageMembership(req[r].myRole, req[r].me, RowOf(v), role[v],
                           RequiredCapability[req[r].handler])
    /\ IF req[r].handler = "updateMemberRole"
       THEN CanAssignMembershipRole(req[r].myRole, newRole)
       ELSE newRole = "none"
    /\ req' = [req EXCEPT ![r] = At("commit", req[r].handler, req[r].me, req[r].myRole,
                                    RowOf(v), newRole)]
    /\ UNCHANGED <<role, joins, ownerId, deleted, overtaken>>

\* transferOwnership reads the target, any member but the caller.
ReadNewOwner(r, v) ==
    /\ req[r].pc = "read"
    /\ req[r].handler = "transfer"
    /\ role[v] # "none"
    /\ v # req[r].me.user
    /\ req' = [req EXCEPT ![r] = At("commit", "transfer", req[r].me, req[r].myRole,
                                    RowOf(v), "OWNER")]
    /\ UNCHANGED <<role, joins, ownerId, deleted, overtaken>>

-----------------------------------------------------------------------------
(* Commits.  A row that is gone makes the statement fail; see Fail.        *)

\* The handler of q is about to change or delete the membership it read.
ChangesMember(q) ==
    req[q].pc = "commit" /\ req[q].handler \in {"updateMemberRole", "removeMember", "leave"}

\* membership.update by id.
UpdateMemberRole(r) ==
    /\ req[r].pc = "commit"
    /\ req[r].handler = "updateMemberRole"
    /\ Present(req[r].target)
    /\ role' = [role EXCEPT ![req[r].target.user] = req[r].newRole]
    /\ Finish(r)
    /\ UNCHANGED <<joins, ownerId, deleted, overtaken>>

\* membership.delete by id: of the target, or of the caller who leaves.
DeleteMembership(r) ==
    /\ req[r].pc = "commit"
    /\ req[r].handler \in {"removeMember", "leave"}
    /\ Present(req[r].target)
    /\ role' = [role EXCEPT ![req[r].target.user] = "none"]
    /\ Finish(r)
    /\ UNCHANGED <<joins, ownerId, deleted, overtaken>>

\* Bug: without the partial unique index the second of two transfers commits.
TransferWithoutIndex(r) ==
    LET me == req[r].me  target == req[r].target IN
    /\ req[r].pc = "commit"
    /\ req[r].handler = "transfer"
    /\ Present(me) /\ Present(target)
    /\ role' = [role EXCEPT ![me.user] = "ADMIN", ![target.user] = "OWNER"]
    /\ ownerId' = target.user
    /\ Finish(r)
    /\ UNCHANGED <<joins, deleted, overtaken>>

\* Bug: the transaction forgets organizations.owner_id.
TransferKeepsOwnerId(r) ==
    LET me == req[r].me  target == req[r].target IN
    /\ req[r].pc = "commit"
    /\ req[r].handler = "transfer"
    /\ Present(me) /\ Present(target)
    /\ role' = [role EXCEPT ![me.user] = "ADMIN", ![target.user] = "OWNER"]
    /\ OneOwnerIndex(target.user, role')
    /\ Finish(r)
    /\ UNCHANGED <<joins, ownerId, deleted, overtaken>>

\* The caller becomes ADMIN, the target OWNER, and the organization is theirs.
TransferOwnership(r) ==
    LET me == req[r].me  target == req[r].target IN
    /\ req[r].pc = "commit"
    /\ req[r].handler = "transfer"
    /\ Present(me) /\ Present(target)
    /\ role' = [role EXCEPT ![me.user] = "ADMIN", ![target.user] = "OWNER"]
    /\ OneOwnerIndex(target.user, role')
    /\ ownerId' = target.user
    /\ Finish(r)
    /\ overtaken' = (overtaken \/ \E q \in Request : ChangesMember(q) /\ req[q].target = target)
    /\ UNCHANGED <<joins, deleted>>

\* deleteOrganization sets deletedAt (its invitations: see Invitations).
DeleteOrganization(r) ==
    /\ req[r].pc = "commit"
    /\ req[r].handler = "delete"
    /\ deleted' = TRUE
    /\ Finish(r)
    /\ UNCHANGED <<role, joins, ownerId, overtaken>>

\* A check throws, a row is gone, the index refuses, or the process dies: the
\* transaction rolls back.
Fail(r) ==
    /\ ~IsIdle(r)
    /\ Finish(r)
    /\ UNCHANGED <<role, joins, ownerId, deleted, overtaken>>

\* acceptInvitation creates a membership with the invited role; Invitations
\* says when.
Join(u, invited) ==
    /\ role[u] = "none"
    /\ joins[u] < MaxJoins
    /\ role' = [role EXCEPT ![u] = invited]
    /\ joins' = [joins EXCEPT ![u] = @ + 1]
    /\ UNCHANGED <<ownerId, deleted, req, overtaken>>

Next ==
    \/ \E r \in Request :
          \/ \E u \in User, h \in Handler : Resolve(r, u, h)
          \/ \E v \in User, new \in Role \cup {"none"} : ReadManagedTarget(r, v, new)
          \/ \E v \in User : ReadNewOwner(r, v)
          \/ UpdateMemberRole(r) \/ DeleteMembership(r) \/ TransferOwnership(r)
          \/ DeleteOrganization(r) \/ Fail(r)
    \/ \E u \in User, invited \in Assignable : Join(u, invited)

Spec == Init /\ [][Next]_vars

-----------------------------------------------------------------------------
(* Properties                                                              *)

Membership == [user : User \cup {None}, join : 0..MaxJoins]
RequestState == [pc : {"idle", "read", "commit"}, handler : Handler \cup {"none"},
                 me : Membership, myRole : Role \cup {"none"},
                 target : Membership, newRole : Role \cup {"none"}]

\* Roles, rows and requests hold values the code can write.
TypeOK ==
    /\ role \in [User -> Role \cup {"none"}]
    /\ joins \in [User -> 0..MaxJoins]
    /\ ownerId \in User
    /\ deleted \in BOOLEAN
    /\ req \in [Request -> RequestState]
    /\ overtaken \in BOOLEAN

\* However transfers and role changes based on stale roles interleave, an
\* organization never has two OWNER memberships.
AtMostOneOwner == \A u, v \in User : role[u] = "OWNER" /\ role[v] = "OWNER" => u = v

\* The member with the OWNER role is the owner the organization records (who
\* gets billing and its notifications): the two tables never name two people.
OwnerRoleIsRecorded == \A u \in User : role[u] = "OWNER" => ownerId = u

\* However stale the roles that requests act on, an OWNER member is the owner the
\* organization records.
OwnershipConsistent == TypeOK /\ OwnerRoleIsRecorded

\* The recorded owner is the OWNER member, unless a transfer once made someone
\* the owner whose membership another handler had read, as not the OWNER's, and
\* was about to change: nothing else leaves an organization without its owner.
OnlyRacingTransferOrphans == role[ownerId] = "OWNER" \/ overtaken

\* ADR 0005:38-41: ownership is transferred transactionally and the Owner must
\* transfer it before leaving: the recorded owner is always the OWNER member.
OwnerIsMember == role[ownerId] = "OWNER"
=============================================================================
