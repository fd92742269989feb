---------------------------- MODULE Authorization ----------------------------
(***************************************************************************)
(* The role-to-capability matrix and the hierarchy rules every             *)
(* organization handler asks (authorization/authorization.service.ts).     *)
(***************************************************************************)
Role == {"OWNER", "ADMIN", "MEMBER", "VIEWER"}

ViewerCapabilities ==
    {"organization:read", "organization:leave", "membership:read",
     "notification:read", "notification:manage", "file:read"}

MemberCapabilities == ViewerCapabilities \cup {"file:upload", "file:delete"}

AdminCapabilities ==
    MemberCapabilities \cup
    {"organization:update", "membership:change-role", "membership:remove",
     "invitation:read", "invitation:create", "invitation:resend", "invitation:revoke"}

Capability ==
    AdminCapabilities \cup
    {"organization:delete", "ownership:transfer", "billing:read", "billing:manage"}

ROLE_CAPABILITIES ==
    [role \in Role |->
        CASE role = "OWNER"  -> Capability
          [] role = "ADMIN"  -> AdminCapabilities
          [] role = "MEMBER" -> MemberCapabilities
          [] role = "VIEWER" -> ViewerCapabilities]

hasCapability(role, capability) == capability \in ROLE_CAPABILITIES[role]

\* assertCanAssignMembershipRole does not throw.
CanAssignMembershipRole(actorRole, assignedRole) ==
    \/ actorRole = "OWNER" /\ assignedRole # "OWNER"
    \/ actorRole = "ADMIN" /\ assignedRole \in {"MEMBER", "VIEWER"}

\* assertCanManageMembership does not throw.
CanManageMembership(actorRole, actor, target, targetRole, capability) ==
    /\ hasCapability(actorRole, capability)
    /\ targetRole # "OWNER"
    /\ actor # target
    /\ ~(actorRole = "ADMIN" /\ targetRole = "ADMIN")

\* assertCanLeaveOrganization does not throw.
CanLeaveOrganization(role) == hasCapability(role, "organization:leave") /\ role # "OWNER"
=============================================================================
