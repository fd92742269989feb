----------------------------- MODULE Invitations -----------------------------
(***************************************************************************)
(* The invitations of one organization: created, resent, revoked, expired, *)
(* accepted, and revoked with the organization when it is deleted          *)
(* (organizations.service.ts, with the constraints of the migrations).     *)
(*                                                                         *)
(* A handler's reads and its commit are separate steps.  Accepting is a    *)
(* conditional update; resending and revoking update by id whatever the    *)
(* row has become since it was read, up to what the constraints refuse.    *)
(* The bulk revocation of a deletion has a scan and a commit: READ         *)
(* COMMITTED, as in SessionRotation.                                       *)
(***************************************************************************)
EXTENDS Naturals, FiniteSets

CONSTANTS Invitation,  \* ids of invitation rows
          User,        \* invited email addresses, and the accounts behind them
          Request,
          None,        \* SQL NULL
          MaxJoined    \* bound on the memberships made from one invitation

ASSUME NoneAssumption == None \notin User \cup Invitation
ASSUME MaxJoinedAssumption == MaxJoined \in Nat

VARIABLES status,   \* invitations.status, "absent" before the row exists
          email,    \* invitations.email
          late,     \* expires_at has passed
          member,   \* users with a membership
          deleted,  \* organizations.deleted_at is set
          req,      \* what each request has read and does next
          joined,   \* history: memberships made from each invitation
          raced,    \* history: "resend" or "delete" was overtaken, see below
          unaware,  \* history: creations under way when their address joined
          toMember  \* history: invitations issued by these, or resent to a member

vars == <<status, email, late, member, deleted, req, joined, raced, unaware, toMember>>
reached == <<unaware, toMember>>

Status == {"absent", "PENDING", "EXPIRED", "ACCEPTED", "REVOKED"}

\* A request at pc about invitation inv or user u, with the rows it scanned.
At(pc, inv, u, cand) == [pc |-> pc, inv |-> inv, user |-> u, cand |-> cand]
IdleRequest == At("idle", None, None, {})
Finish(r) == req' = [req EXCEPT ![r] = IdleRequest]
IsIdle(r) == req[r].pc = "idle"

\* The organization exists (Ownership); its creator is not modelled here.
Init ==
    /\ status = [i \in Invitation |-> "absent"]
    /\ email = [i \in Invitation |-> None]
    /\ late = [i \in Invitation |-> FALSE]
    /\ member = {}
    /\ deleted = FALSE
    /\ req = [r \in Request |-> IdleRequest]
    /\ joined = [i \in Invitation |-> 0]
    /\ raced = {}
    /\ unaware = {} /\ toMember = {}

-----------------------------------------------------------------------------
\* expireInvitations over the rows of I: pending ones past expires_at.
Expired(I) ==
    [i \in Invitation |->
        IF i \in I /\ status[i] = "PENDING" /\ late[i] THEN "EXPIRED" ELSE status[i]]

\* invitations_pending_organization_email_key lets i be pending.
PendingIndex(i, u) == \A j \in Invitation \ {i} : status[j] = "PENDING" => email[j] # u

\* invitations_status_check lets i be revoked: accepted_at is null.
StatusCheck(i) == status[i] # "ACCEPTED"

\* A request is at one of pcs, about one of I, with what it read before: the
\* race is remembered as what.
Race(what, pcs, I) ==
    IF \E q \in Request : req[q].pc \in pcs /\ req[q].inv \in I THEN {what} ELSE {}

\* Invitation i is issued: the address is remembered to be a member's, or not to be.
IssuedTo(i, isMember) == toMember' = IF isMember THEN toMember \cup {i} ELSE toMember \ {i}

-----------------------------------------------------------------------------
(* createInvitation                                                        *)

\* Bug: the memberships are not asked.
BeginCreateUnchecked(r, u) ==
    /\ IsIdle(r)
    /\ ~deleted
    /\ status' = Expired({i \in Invitation : email[i] = u})
    /\ req' = [req EXCEPT ![r] = At("create", None, u, {})]
    /\ UNCHANGED <<email, late, member, deleted, joined, raced, reached>>

\* The guard saw the organization; stale invitations to u are expired and u
\* is no member.
BeginCreate(r, u) ==
    /\ IsIdle(r)
    /\ ~deleted
    /\ u \notin member
    /\ status' = Expired({i \in Invitation : email[i] = u})
    /\ req' = [req EXCEPT ![r] = At("create", None, u, {})]
    /\ UNCHANGED <<email, late, member, deleted, joined, raced, reached>>

\* The row is inserted, unless an invitation to u is pending by now.
CreateInvitation(r, i) ==
    /\ req[r].pc = "create"
    /\ status[i] = "absent"
    /\ PendingIndex(i, req[r].user)
    /\ status' = [status EXCEPT ![i] = "PENDING"]
    /\ email' = [email EXCEPT ![i] = req[r].user]
    /\ Finish(r)
    /\ raced' = raced \cup Race("delete", {"delete"}, {None})
    /\ IssuedTo(i, r \in unaware)
    /\ unaware' = unaware \ {r}
    /\ UNCHANGED <<late, member, deleted, joined>>

-----------------------------------------------------------------------------
(* resendInvitation, revokeInvitation, listInvitations                     *)

\* listInvitations expires every invitation first.  So do resendInvitation and
\* revokeInvitation, and createInvitation those to one address, before a check
\* of theirs throws.
ExpireInvitations(I) ==
    /\ ~deleted
    /\ status' = Expired(I)
    /\ UNCHANGED <<email, late, member, deleted, req, joined, raced, reached>>

\* Neither accepted nor revoked, and no other invitation to the address pending.
BeginResend(r, i) ==
    /\ IsIdle(r)
    /\ ~deleted
    /\ status' = Expired(Invitation)
    /\ status'[i] \in {"PENDING", "EXPIRED"}
    /\ \A j \in Invitation \ {i} : status'[j] = "PENDING" => email[j] # email[i]
    /\ req' = [req EXCEPT ![r] = At("resend", i, None, {})]
    /\ UNCHANGED <<email, late, member, deleted, joined, raced, reached>>

\* Bug: no partial unique index behind the check made when it was read.
ResendWithoutIndex(r) ==
    /\ req[r].pc = "resend"
    /\ status' = [status EXCEPT ![req[r].inv] = "PENDING"]
    /\ late' = [late EXCEPT ![req[r].inv] = FALSE]
    /\ Finish(r)
    /\ raced' = raced \cup Race("delete", {"delete"}, {None})
    /\ IssuedTo(req[r].inv, email[req[r].inv] \in member)
    /\ UNCHANGED <<email, member, deleted, joined, unaware>>

\* The row, whatever its status is by now, becomes pending with a new token
\* and a new expiry.
ResendInvitation(r) ==
    /\ req[r].pc = "resend"
    /\ PendingIndex(req[r].inv, email[req[r].inv])
    /\ status' = [status EXCEPT ![req[r].inv] = "PENDING"]
    /\ late' = [late EXCEPT ![req[r].inv] = FALSE]
    /\ Finish(r)
    /\ raced' = raced \cup Race("delete", {"delete"}, {None})
    /\ IssuedTo(req[r].inv, email[req[r].inv] \in member)
    /\ UNCHANGED <<email, member, deleted, joined, unaware>>

\* Pending when it is read.
BeginRevoke(r, i) ==
    /\ IsIdle(r)
    /\ ~deleted
    /\ status' = Expired(Invitation)
    /\ status'[i] = "PENDING"
    /\ req' = [req EXCEPT ![r] = At("revoke", i, None, {})]
    /\ UNCHANGED <<email, late, member, deleted, joined, raced, reached>>

\* Bug: no check constraint behind the status read before.
RevokeAccepted(r) ==
    /\ req[r].pc = "revoke"
    /\ status' = [status EXCEPT ![req[r].inv] = "REVOKED"]
    /\ Finish(r)
    /\ UNCHANGED <<email, late, member, deleted, joined, raced, reached>>

\* The row becomes revoked if the constraint allows it.
RevokeInvitation(r) ==
    /\ req[r].pc = "revoke"
    /\ StatusCheck(req[r].inv)
    /\ status' = [status EXCEPT ![req[r].inv] = "REVOKED"]
    /\ Finish(r)
    /\ UNCHANGED <<email, late, member, deleted, joined, raced, reached>>

-----------------------------------------------------------------------------
(* acceptInvitation                                                        *)

\* The invitation of the token is pending and in time, the organization is
\* there, and the address is the caller's.
BeginAccept(r, i) ==
    /\ IsIdle(r)
    /\ ~deleted
    /\ status[i] = "PENDING" /\ ~late[i]
    /\ req' = [req EXCEPT ![r] = At("accept", i, email[i], {})]
    /\ UNCHANGED <<status, email, late, member, deleted, joined, raced, reached>>

\* It is late: it is marked so, and the request answers 410.
AcceptLate(i) ==
    /\ ~deleted
    /\ status[i] = "PENDING" /\ late[i]
    /\ status' = [status EXCEPT ![i] = "EXPIRED"]
    /\ UNCHANGED <<email, late, member, deleted, req, joined, raced, reached>>

\* Bug: the update inside the transaction does not ask for PENDING.
AcceptUnconditionally(r) ==
    /\ req[r].pc = "accept"
    /\ req[r].user \notin member
    /\ joined[req[r].inv] < MaxJoined
    /\ status' = [status EXCEPT ![req[r].inv] = "ACCEPTED"]
    /\ member' = member \cup {req[r].user}
    /\ joined' = [joined EXCEPT ![req[r].inv] = @ + 1]
    /\ Finish(r)
    /\ raced' = raced \cup Race("resend", {"resend"}, {req[r].inv})
    /\ unaware' = unaware \cup {q \in Request : req[q].pc = "create" /\ req[q].user = req[r].user}
    /\ UNCHANGED <<email, late, deleted, toMember>>

\* Not a member, the invitation still pending and in time: accepted, and the
\* membership created (memberships_organization_id_user_id_key).
AcceptInvitation(r) ==
    /\ req[r].pc = "accept"
    /\ req[r].user \notin member
    /\ joined[req[r].inv] < MaxJoined
    /\ status[req[r].inv] = "PENDING" /\ ~late[req[r].inv]
    /\ status' = [status EXCEPT ![req[r].inv] = "ACCEPTED"]
    /\ member' = member \cup {req[r].user}
    /\ joined' = [joined EXCEPT ![req[r].inv] = @ + 1]
    /\ Finish(r)
    /\ raced' = raced \cup Race("resend", {"resend"}, {req[r].inv})
    /\ unaware' = unaware \cup {q \in Request : req[q].pc = "create" /\ req[q].user = req[r].user}
    /\ UNCHANGED <<email, late, deleted, toMember>>

-----------------------------------------------------------------------------
(* deleteOrganization                                                      *)

\* Its first statement scans the pending invitations.
BeginDelete(r) ==
    /\ IsIdle(r)
    /\ ~deleted
    /\ LET pending == {i \in Invitation : status[i] = "PENDING"}
       IN  req' = [req EXCEPT ![r] = At("delete", None, None, pending)]
    /\ UNCHANGED <<status, email, late, member, deleted, joined, raced, reached>>

\* Bug: the invitations are left to expire.
DeleteOrganizationOnly(r) ==
    /\ req[r].pc = "delete"
    /\ deleted' = TRUE
    /\ Finish(r)
    /\ raced' = raced \cup Race("delete", {"create", "resend"}, Invitation \cup {None})
    /\ UNCHANGED <<status, email, late, member, joined, reached>>

\* Those still pending are revoked, deletedAt is set, the transaction commits.
DeleteOrganization(r) ==
    /\ req[r].pc = "delete"
    /\ status' = [i \in Invitation |-> IF i \in req[r].cand /\ status[i] = "PENDING"
                                       THEN "REVOKED" ELSE status[i]]
    /\ deleted' = TRUE
    /\ Finish(r)
    /\ raced' = raced \cup Race("delete", {"create", "resend"}, Invitation \cup {None})
    /\ UNCHANGED <<email, late, member, joined, reached>>

-----------------------------------------------------------------------------
(* Failures, other handlers, time                                          *)

\* A conditional update matches nothing, a constraint refuses, or the process
\* dies: the transaction rolls back.
Fail(r) ==
    /\ ~IsIdle(r)
    /\ Finish(r)
    /\ unaware' = unaware \ {r}
    /\ UNCHANGED <<status, email, late, member, deleted, joined, raced, toMember>>

\* leaveOrganization or removeMember (Ownership).
Leave(u) ==
    /\ u \in member
    /\ member' = member \ {u}
    /\ UNCHANGED <<status, email, late, deleted, req, joined, raced, reached>>

\* ORGANIZATION_INVITATION_TTL_DAYS pass.
Lapse(i) ==
    /\ status[i] = "PENDING" /\ ~late[i]
    /\ late' = [late EXCEPT ![i] = TRUE]
    /\ UNCHANGED <<status, email, member, deleted, req, joined, raced, reached>>

Next ==
    \/ \E r \in Request :
          \/ \E u \in User : BeginCreate(r, u)
          \/ \E i \in Invitation : \/ CreateInvitation(r, i) \/ BeginResend(r, i)
                                   \/ BeginRevoke(r, i) \/ BeginAccept(r, i)
          \/ ResendInvitation(r) \/ RevokeInvitation(r) \/ AcceptInvitation(r)
          \/ BeginDelete(r) \/ DeleteOrganization(r) \/ Fail(r)
    \/ \E i \in Invitation : AcceptLate(i) \/ Lapse(i)
    \/ \E u \in User : Leave(u)
    \/ ExpireInvitations(Invitation)
    \/ \E u \in User : ExpireInvitations({i \in Invitation : email[i] = u})

Spec == Init /\ [][Next]_vars

-----------------------------------------------------------------------------
(* Properties                                                              *)

\* Rows and requests hold values the code can write.
TypeOK ==
    /\ status \in [Invitation -> Status]
    /\ email \in [Invitation -> User \cup {None}]
    /\ late \in [Invitation -> BOOLEAN]
    /\ member \subseteq User
    /\ deleted \in BOOLEAN
    /\ req \in [Request -> [pc : {"idle", "create", "resend", "revoke", "accept", "delete"},
                            inv : Invitation \cup {None}, user : User \cup {None},
                            cand : SUBSET Invitation]]
    /\ joined \in [Invitation -> 0..MaxJoined]
    /\ raced \subseteq {"resend", "delete"}
    /\ unaware \subseteq Request /\ toMember \subseteq Invitation

\* ADR 0005, "only one pending invitation per organization and email", however
\* creations and resends with stale checks interleave.
OnePendingPerEmail ==
    \A i, j \in Invitation :
        status[i] = "PENDING" /\ status[j] = "PENDING" /\ email[i] = email[j] => i = j

\* Nobody who is a member can be invited, "already an organization member" (createInvitation);
\* otherwise one who is removed later could come back by it.  Two ways remain: the address
\* joined by another invitation while the creation was under way, and a resend, which asks
\* for no membership.
MembersAreNotInvited ==
    \A i \in Invitation : status[i] = "PENDING" /\ email[i] \in member => i \in toMember

\* An address has at most one pending invitation, and a member none but one that was created
\* while the member joined, or resent.
InvitationsConsistent == TypeOK /\ OnePendingPerEmail /\ MembersAreNotInvited

\* Nobody joins on an invitation that is revoked or expired when the membership
\* is created, whatever it was when the token was looked up.
JoinNeedsPending ==
    [][\A i \in Invitation : joined'[i] # joined[i] => status[i] = "PENDING" /\ ~late[i]]_vars

\* An acceptance is never turned into a revocation or an expiry afterwards: the
\* member who joined keeps an accepted invitation (or one that was resent).
AcceptanceNotRevoked ==
    [][\A i \in Invitation :
           status[i] = "ACCEPTED" => status'[i] \notin {"REVOKED", "EXPIRED"}]_vars

\* Nobody joins by an invitation that is not pending, and what was accepted stays accepted.
AcceptanceIsSound == JoinNeedsPending /\ AcceptanceNotRevoked

\* ADR 0005:33-34, "Invitations are single-use": one serves twice only after a
\* resend had read it before it was accepted, and made it pending again.
OnlyRacingResendReuses == (\E i \in Invitation : joined[i] > 1) => "resend" \in raced

\* ADR 0005:42: a deleted organization has a pending invitation only when a
\* creation or a resend ran beside the deletion.
OnlyRacingIssueSurvives ==
    deleted /\ (\E i \in Invitation : status[i] = "PENDING") => "delete" \in raced

\* An invitation is used twice, or pending in a deleted organization, only after a resend or
\* an issue that had read the invitation or the organization before that changed.
OnlyRacesRevive == OnlyRacingResendReuses /\ OnlyRacingIssueSurvives

\* ADR 0005:33-34: "Invitations are single-use".
InvitationIsSingleUse == \A i \in Invitation : joined[i] <= 1

\* ADR 0005:42: deleting an organization revokes its pending invitations.
DeletedHasNoPending == deleted => \A i \in Invitation : status[i] # "PENDING"
=============================================================================
