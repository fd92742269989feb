----------------------------- MODULE Workspace ------------------------------
(***************************************************************************)
(* The active organization of a page: organization-session.ts,             *)
(* organization.store.ts, OrganizationBootstrap and the mutations of       *)
(* organizations of the frontend, with the query cache they share.         *)
(* activateOrganization and clearActiveOrganizationData wait for the       *)
(* queries of the organization that was active when they began, mutations  *)
(* for the server; what the user does, a refused call, an effect or a      *)
(* sign-out may come in between.                                           *)
(*                                                                         *)
(* Of the cache, the list of organizations is kept with the user it was    *)
(* fetched for; of the data of an organization only whether there is any.  *)
(***************************************************************************)
EXTENDS Naturals, FiniteSets

CONSTANTS User, Organization,
          Call,  \* the async functions that may be under way at a time
          None

ASSUME NoneAssumption == None \notin User \cup Organization \cup Call

VARIABLES member,  \* the server: the organizations of each user
          user,    \* who is signed in on the page
          active,  \* activeOrganizationId
          list,    \* the cache: organizationKeys.list
          cache,   \* the cache: the organizations with data under their scope
          seen,    \* the dependencies with which the bootstrap effect last ran
          call,    \* the async functions under way
          haze     \* history: what was overtaken

vars == <<member, user, active, list, cache, seen, call, haze>>

\* The mutations: "create" and "depart" (leave, delete, accept an invitation)
\* become "created" and "departed" when the server has committed them.
Mutation == {"create", "created", "update", "depart", "departed"}
Kind == Mutation \cup {"activate", "clear", "exit", "recover", "reload"}
List(u, items) == [of |-> u, items |-> items]
NoList == List(None, {})

\* An async function, for organization org, that began when from was active (for
\* mutations and recover: when from was signed in).
Async(kind, org, from) == [kind |-> kind, org |-> org, from |-> from]
Idle == Async("none", None, None)
NotSeen == [valid |-> FALSE, list |-> NoList]

Init ==
    /\ member \in [User -> SUBSET Organization]
    /\ user = None /\ active = None /\ list = NoList /\ cache = {} /\ seen = NotSeen
    /\ call = [c \in Call |-> Idle]
    /\ haze = {}

\* activeOrganizationIsValid, and what the effect of OrganizationBootstrap depends on.
Valid == active \in list.items
Dependencies == [valid |-> Valid, list |-> list]

\* The page is rendered, and its effects have run if it is below
\* OrganizationBootstrap, before the next answer of the server is looked at; the
\* functions that wait for canceled queries may go on before that.
Rendered == user = None \/ seen \in {NotSeen, Dependencies}

\* The pages below OrganizationBootstrap are rendered, and nothing changed since
\* that would take them away.
Shown == user # None /\ Valid /\ seen.valid

\* organizations.data.items[0]
First(items) == CHOOSE org \in items : TRUE

\* The active organization is set, or cleared, by c: while another function waits
\* for the queries of the one that was.
Waiting(d) == call[d].kind \in {"activate", "clear", "exit"}
Crossed(c) == IF active' # active /\ \E d \in Call \ {c} : Waiting(d) THEN {"crossed"} ELSE {}
Cross(c) == haze' = haze \cup Crossed(c)

-----------------------------------------------------------------------------
(* organization-session.ts                                                 *)

\* activateOrganization, by c: at once when nothing is active (or the organization
\* is already), otherwise after the queries of the one that is are canceled.
ActivateOrganization(c, org) ==
    \/ /\ active \in {None, org} /\ active' = org
       /\ call' = [call EXCEPT ![c] = Idle]
    \/ /\ active \notin {None, org} /\ active' = active
       /\ call' = [call EXCEPT ![c] = Async("activate", org, active)]

\* Bug: the data of the previous organization stay in the cache.
ResumeKeeping(c) ==
    LET a == call[c] IN
    /\ Waiting(c)
    /\ active' = IF a.kind = "activate" THEN a.org ELSE None
    /\ call' = [call EXCEPT ![c] = IF a.kind = "exit" THEN Async("reload", None, None) ELSE Idle]
    /\ Cross(c)
    /\ UNCHANGED <<member, user, list, cache, seen>>

\* The queries are canceled: those of the previous organization are removed and
\* the store is set, or cleared, whatever is active by now.
Resume(c) ==
    LET a == call[c] IN
    /\ Waiting(c)
    /\ cache' = cache \ {a.from}
    /\ active' = IF a.kind = "activate" THEN a.org ELSE None
    /\ call' = [call EXCEPT ![c] = IF a.kind = "exit" THEN Async("reload", None, None) ELSE Idle]
    /\ Cross(c)
    /\ UNCHANGED <<member, user, list, seen>>

\* recoverOrganizationAuthorization: a call for the active organization was
\* answered 403 or 404, and the list is fetched.
Recover(c) ==
    /\ Shown /\ call[c] = Idle
    /\ call' = [call EXCEPT ![c] = Async("recover", active, user)]
    /\ UNCHANGED <<member, user, active, list, cache, seen, haze>>

\* Bug: the answer is cached as a page of items, not as the items.
RecoveredPage(c) ==
    /\ call[c].kind = "recover" /\ Rendered
    /\ list' = List(call[c].from, {member[call[c].from]})
    /\ call' = [call EXCEPT ![c] = Idle]
    /\ UNCHANGED <<member, user, active, cache, seen, haze>>

\* The list is answered and cached; the organization is cleared if it is not in
\* it and still active.
Recovered(c) ==
    LET a == call[c]
        items == member[a.from]
    IN
    /\ a.kind = "recover" /\ Rendered
    /\ list' = List(a.from, items)
    /\ call' = [call EXCEPT ![c] = IF a.org \notin items /\ active = a.org
                                   THEN Async("clear", None, a.org) ELSE Idle]
    /\ haze' = IF user = a.from THEN haze ELSE haze \cup {"recovered"}
    /\ UNCHANGED <<member, user, active, cache, seen>>

\* The list is not answered.
RecoverFails(c) ==
    /\ call[c].kind = "recover"
    /\ call' = [call EXCEPT ![c] = Idle]
    /\ UNCHANGED <<member, user, active, list, cache, seen, haze>>

-----------------------------------------------------------------------------
(* What the page and its user do                                           *)

SignIn(u) ==
    /\ user = None
    /\ user' = u
    /\ UNCHANGED <<member, active, list, cache, seen, call, haze>>

\* Bug: the query cache is not cleared.
SignOutStoresOnly ==
    /\ user # None
    /\ user' = None /\ active' = None /\ seen' = NotSeen
    /\ haze' = IF \A c \in Call : call[c] = Idle THEN {} ELSE haze \cup Crossed(None)
    /\ UNCHANGED <<member, list, cache, call>>

\* clearSessionState, after a sign-out or a refresh that failed: with nothing under
\* way the page is as new.
SignOut ==
    /\ user # None
    /\ user' = None /\ active' = None /\ list' = NoList /\ cache' = {} /\ seen' = NotSeen
    /\ haze' = IF \A c \in Call : call[c] = Idle THEN {} ELSE haze \cup Crossed(None)
    /\ UNCHANGED <<member, call>>

\* useOrganizations fetches the list.
LoadList ==
    /\ user # None /\ seen = Dependencies
    /\ list' = List(user, member[user])
    /\ UNCHANGED <<member, user, active, cache, seen, call, haze>>

\* A page shown for the active organization fetches data of it.
LoadData ==
    /\ Shown /\ active \in member[user]
    /\ cache' = cache \cup {active}
    /\ UNCHANGED <<member, user, active, list, seen, call, haze>>

\* Bug: the effect looks only for no active organization.
BootstrapOnce(c) ==
    /\ user # None /\ Dependencies # seen
    /\ seen' = Dependencies
    /\ IF active = None /\ list.items # {} THEN call[c] = Idle /\ ActivateOrganization(c, First(list.items)) /\ Cross(c)
       ELSE UNCHANGED <<active, call, haze>>
    /\ UNCHANGED <<member, user, list, cache>>

\* The effect of OrganizationBootstrap, after a render that changed what it
\* depends on: the first organization is activated if the active one is not listed.
Bootstrap(c) ==
    /\ user # None /\ Dependencies # seen
    /\ seen' = Dependencies
    /\ IF ~Valid /\ list.items # {} THEN call[c] = Idle /\ ActivateOrganization(c, First(list.items)) /\ Cross(c)
       ELSE UNCHANGED <<active, call, haze>>
    /\ UNCHANGED <<member, user, list, cache>>

\* OrganizationSwitcher.
Switch(c, org) ==
    /\ Shown /\ org \in list.items \ {active}
    /\ call[c] = Idle /\ ActivateOrganization(c, org) /\ Cross(c)
    /\ UNCHANGED <<member, user, list, cache, seen>>

-----------------------------------------------------------------------------
(* Mutations                                                               *)

Begin(c, kind, org) ==
    /\ call[c] = Idle
    /\ call' = [call EXCEPT ![c] = Async(kind, org, user)]
    /\ UNCHANGED <<member, user, active, list, cache, seen, haze>>

\* CreateOrganizationDialog, in the switcher and for a user without organizations.
CreateOrganization(c, org) ==
    /\ Shown \/ (user # None /\ seen = Dependencies /\ list # NoList /\ list.items = {})
    /\ org # active /\ \A u \in User : org \notin member[u]
    /\ \A d \in Call : call[d].org # org
    /\ Begin(c, "create", org)

\* OrganizationSettings: the active organization is renamed, or transferred.
UpdateOrganization(c) == Shown /\ active \in member[user] /\ Begin(c, "update", active)

\* OrganizationSettings: the user leaves the active organization, or deletes it;
\* AcceptInvitationPage, outside OrganizationBootstrap: the user joins another.
Depart(c, org) ==
    /\ \/ Shown /\ org = active /\ org \in member[user]
       \/ user # None /\ seen = NotSeen /\ org \notin member[user]
    /\ Begin(c, "depart", org)

\* The server commits a mutation of members: before that is answered.
Commit(c) ==
    LET a == call[c] IN
    /\ a.kind \in {"create", "depart"}
    /\ member' = [member EXCEPT ![a.from] = IF a.org \in @ THEN @ \ {a.org} ELSE @ \cup {a.org}]
    /\ call' = [call EXCEPT ![c] = IF a.kind = "create" THEN Async("created", a.org, a.from)
                                   ELSE Async("departed", None, None)]
    /\ UNCHANGED <<user, active, list, cache, seen, haze>>

\* onSuccess of CreateOrganizationDialog: the organization is added to whatever
\* list is cached (a list of its own, if there is none) and activated.
Created(c) ==
    LET a == call[c] IN
    /\ a.kind = "created" /\ Rendered
    /\ list' = IF list = NoList THEN List(a.from, {a.org})
               ELSE List(list.of, list.items \cup {a.org})
    /\ ActivateOrganization(c, a.org)
    /\ haze' = haze \cup Crossed(c) \cup (IF user = a.from THEN {} ELSE {"created"})
    /\ UNCHANGED <<member, user, cache, seen>>

\* applyOrganization: the answer is data of its organization, whichever is active
\* by now.
Updated(c) ==
    LET a == call[c] IN
    /\ a.kind = "update" /\ Rendered
    /\ cache' = cache \cup {a.org}
    /\ call' = [call EXCEPT ![c] = Idle]
    /\ haze' = IF user = a.from /\ active = a.org THEN haze ELSE haze \cup {"updated"}
    /\ UNCHANGED <<member, user, active, list, seen>>

\* exitOrganization, and onSuccess of AcceptInvitationPage:
\* clearActiveOrganizationData, then the list is invalidated.
Exit(c) ==
    /\ call[c].kind = "departed" /\ Rendered
    /\ call' = [call EXCEPT ![c] = IF active = None THEN Async("reload", None, None)
                                   ELSE Async("exit", None, active)]
    /\ UNCHANGED <<member, user, active, list, cache, seen, haze>>

\* A mutation fails: handleActionError looks whether the user is still a member.
MutationFails(c) ==
    LET a == call[c] IN
    /\ a.kind \in Mutation
    /\ \/ call' = [call EXCEPT ![c] = Idle]
       \/ /\ a.kind \in {"update", "depart"} /\ user # None
          /\ \E org \in {a.org, active} \ {None} :
                call' = [call EXCEPT ![c] = Async("recover", org, user)]
    /\ UNCHANGED <<member, user, active, list, cache, seen, haze>>

\* The invalidated list is fetched again, if a page of the user is still there.
Reload(c) ==
    /\ call[c].kind = "reload" /\ Rendered
    /\ list' = IF user # None THEN List(user, member[user]) ELSE list
    /\ call' = [call EXCEPT ![c] = Idle]
    /\ UNCHANGED <<member, user, active, cache, seen, haze>>

\* Somebody else removes the user from an organization, or adds the user.
MembershipChanges(u, org) ==
    /\ member' = [member EXCEPT ![u] = IF org \in @ THEN @ \ {org} ELSE @ \cup {org}]
    /\ UNCHANGED <<user, active, list, cache, seen, call, haze>>

-----------------------------------------------------------------------------
Settle(c) ==
    \/ Resume(c) \/ Recovered(c) \/ RecoverFails(c) \/ Reload(c)
    \/ Commit(c) \/ Created(c) \/ Updated(c) \/ Exit(c) \/ MutationFails(c)

Next ==
    \/ \E u \in User : SignIn(u) \/ \E org \in Organization : MembershipChanges(u, org)
    \/ SignOut \/ LoadList \/ LoadData
    \/ \E c \in Call :
          \/ Settle(c) \/ Recover(c) \/ Bootstrap(c) \/ UpdateOrganization(c)
          \/ \E org \in Organization : Switch(c, org) \/ CreateOrganization(c, org) \/ Depart(c, org)

Spec == Init /\ [][Next]_vars

-----------------------------------------------------------------------------
(* Properties                                                              *)

\* The stores and the cache hold values the code can write.
TypeOK ==
    /\ member \in [User -> SUBSET Organization]
    /\ user \in User \cup {None}
    /\ active \in Organization \cup {None}
    /\ list \in [of : User \cup {None}, items : SUBSET Organization]
    /\ cache \subseteq Organization
    /\ seen \in [valid : BOOLEAN, list : [of : User \cup {None}, items : SUBSET Organization]]
    /\ call \in [Call -> [kind : Kind \cup {"none"}, org : Organization \cup {None},
                          from : Organization \cup User \cup {None}]]
    /\ haze \subseteq {"crossed", "recovered", "created", "updated"}

\* The cache holds data of the active organization only, unless the organization
\* was replaced while a function waited for its queries, or a rename or transfer
\* was answered when it, or its user, had been left.
OneTenantInCache == cache \subseteq {active} \/ haze \cap {"crossed", "updated"} # {}

\* The stores are well formed and, unless two changes of the organization crossed or
\* the answer to a rename or transfer came late, the cache holds data of the active
\* one only.
WorkspaceConsistent == TypeOK /\ OneTenantInCache

\* A sign-out leaves nothing of its user for the next one: no data (unless a rename
\* or transfer is answered after it), no active organization (unless an activation
\* or creation goes on after it) and no list (unless a recovery or creation is
\* answered after it).
PreviousUserIsForgotten ==
    /\ user = None => cache = {} \/ "updated" \in haze
    /\ user = None => active = None \/ haze \cap {"crossed", "created"} # {}
    /\ list # NoList => list.of = user \/ haze \cap {"recovered", "created"} # {}

\* "Opening your organization..." does not stay: with the effect run and nobody
\* waiting for queries, a listed organization is active, unless functions
\* crossed.
OpensAnOrganization ==
    /\ user # None /\ list.items # {}
    /\ seen = Dependencies
    /\ \A c \in Call : ~Waiting(c)
    => Valid \/ "crossed" \in haze
=============================================================================
