# Shipflow in TLA+

A model of the stateful core of Shipflow: a NestJS API over PostgreSQL
(Prisma), with Stripe, Resend, an S3 bucket and a malware scanner behind it, and
a React client. The modules are written from the code under `src/backend/src`,
the constraints of `src/backend/prisma/migrations` and the stateful part of
`src/frontend/src`; TLC checks them on small instances and TLAPS proves theorems
about all twelve specifications for every instance.

## 1. The system

### 1.1 Parts, state, operations

| Part | State | Operations | Module |
| --- | --- | --- | --- |
| Refresh sessions (`auth.service.ts`) | `sessions`: family, revocation and its reason, replacement | sign-in, refresh with rotation and reuse detection, logout, logout everywhere, the revocations of a password reset and of enabling or disabling two-factor authentication | `SessionRotation`, `TokenFamily` |
| Two-factor authentication (`two-factor.service.ts`) | credential, recovery codes, login challenges | begin and confirm setup, challenge, verify, regenerate, disable | `SecondFactor` |
| Account, password and links (`auth.service.ts`) | the user, verification and reset tokens, the sessions opened for a password | register, log in, sign in by a provider, request a link, confirm an address, reset the password | `AccountTokens` |
| Role policy and guard (`authorization/`) | none; a role read once per request | allow or refuse | `Authorization`, used by `Ownership` |
| Memberships and ownership (`organizations.service.ts`) | memberships, `organizations.owner_id`, `deleted_at` | change role, remove, leave, transfer, delete, join | `Ownership` |
| Invitations (`organizations.service.ts`) | `invitations` with a partial unique index and a check constraint | create, list (which expires), resend, revoke, accept, deletion of the organization | `Invitations` |
| Files (`files.service.ts`, `file-maintenance.service.ts`) | `stored_files` with the lifecycle check, objects in the bucket | initiate, complete, delete, restore; scan, purge, tombstones, orphan reconciliation | `FileLifecycle` |
| Stripe webhook (`stripe-webhook.service.ts`, `notification.writer.ts`) | the subscription row, processed events, `trial_used_at`, the notifications of the owner | process an event, synchronize, cancel for a refund or dispute, notify | `StripeSync` |
| Checkout (`billing.service.ts`) | one reservation per organization | reserve, create, save, drop, clear | `Checkout` |
| Transactional email and Resend webhook (`email/`) | `email_deliveries`, `email_webhook_events` | deliver with retries, record an event | `EmailDelivery` |
| Session of the browser (`auth-session.ts`, `api-client.ts`, `auth.store.ts`) | status of each page, the shared cookie, calls under way | restore, refresh, sign in, sign out | `BrowserSession`, over `SessionRotation` |
| Uploader of the browser (`use-file-uploader.ts`, `file-transfer.ts`) | current operation, task, context of a retry, transfer | start, cancel, retry, reset, change of organization | `Uploader` |
| Active organization of the browser (`organization-session.ts`, `OrganizationBootstrap.tsx`) | active organization, list and data in the query cache | activate, clear, recover, bootstrap, sign in and out | `Workspace` |
| Reading of notifications, audit log | rows of one user; rows that are only inserted and pruned | read, mark, prune | not modelled |
| Everything else | none, or constant | request ids, validation, headers, health, templates, pages, generated clients | not modelled |

The parts meet in the database more than in calls. A password reset writes the
sessions; enabling two-factor authentication revokes sessions; accepting an
invitation makes a membership; deleting an organization revokes invitations; the
Stripe webhook clears the Checkout reservation; sign-in turns into a challenge or
a session depending on the credential. Each module has the actions by which the
other parts reach its tables. The browser and the server meet in calls:
`BrowserSession` is composed with the handlers of `SessionRotation` by INSTANCE,
so a call of a page runs the server's own steps.

### 1.2 What is hard here

* **Interleaving under READ COMMITTED.** A handler reads, decides and then
  writes; Prisma's transactions use PostgreSQL's default isolation. What was read
  may be stale at the write, and only the WHERE clause of a conditional update,
  a unique index, a check constraint or an advisory lock stands in between.
* **Bulk updates.** An `updateMany` fixes its candidates when it starts. Rows
  committed while it waits are not among them.
* **Things outside the database.** Stripe and Resend send events late, twice and
  out of order, and a call to them, to the bucket or to the scanner may succeed
  and its answer be lost. The process may die between the call and the row.
* **Awaits in the browser.** A chain of awaits goes on after the user has signed
  out, canceled or changed the organization; tabs share a cookie and nothing else.
* **Timers.** Reservations, recovery periods, scan attempts and Checkout locks
  run out while a request that relies on them is under way.

`PROJECT.json` lists forty such hazards, each at its line.

### 1.3 What makes each part correct

* Sessions: a family of refresh tokens is one chain with one usable end; a
  revocation is final; reuse of a rotated token ends the family.
* Second factor: a proof counts once, a challenge gives one session, nothing
  bypasses an enabled credential.
* Ownership: one owner, the same one in both tables.
* Invitations: one pending per address, used once, nobody joins on a dead one.
* Files: what is shown as uploaded has its bytes; a purge is final and happens;
  only clean files are downloadable; quota and reservations hold.
* Billing: the local status ends up as Stripe's; a paid plan has access; one
  trial, one grace period, one payable Checkout session.
* Email: a delivery ends, and shows the newest event.
* Account: a reset ends the sessions that were there and every other link, and the old
  password with them.
* Browser: a page's own refreshes never look like reuse; a page that signed out
  stays out; nothing of one user or organization is shown to the next; what the
  uploader shows is what the server has.

## 2. How the modules model the code

A request (or webhook delivery, or file of a maintenance pass) is a process in a
slot. Its **steps** are its reads, its calls to the outside and its commits:

* a transaction whose only contended statement is a conditional UPDATE of one row
  is one step at its commit: another transaction that meets the row lock waits and
  rechecks its WHERE clause on the committed row;
* a bulk UPDATE or DELETE is two steps, scan and commit, where that matters
  (`SessionRotation`, `AccountTokens`, `confirmSetup` in `SecondFactor`, and the
  deletion in `Invitations`); elsewhere it is one step, which in `SecondFactor`
  may spare any row, since any may be newer than the scan;
* the statements of a password reset are steps of their own in `AccountTokens`,
  with the row locks they take, so that two resets can wait for each other and
  PostgreSQL has to end one (`BreakDeadlock`);
* in the browser a step is what runs between two awaits;
* a constraint or index is a guard of the commit; when it refuses, the request
  fails (`Fail`, `GiveUp`, `Abort`, which also stand for a process that dies or
  a database that errs).

Modules carry **history variables** where a property has to say how a state came
about: `raced`, `overtaken`, `cause`, `haze`, `late` and `lost` record that one of the
races the module names has happened, and `known`, `beside`, `unaware` and `toMember` what
was there when a request read. No guard reads them. The properties named
`OnlyRacing...`, `Only...` or `...HasCause` then say that the bad outcome has no
other origin; what the race itself can do is kept in section 3.2.

Values that no decision depends on (names, templates, payloads, hashes) are left
out. A definition that starts with the comment *Bug:* is a deliberately wrong
form of the definition after it; no specification uses it. Substituting one shows
that the property it is listed with in `PROJECT.json` depends on that line of code.

| Module | State and its source | Actions |
| --- | --- | --- |
| `TokenFamily` | abstract: who holds the baton of each family | open, hand on, drop |
| `SessionRotation` | `status`, `family`, `replacedBy`: the rows of `sessions`; `req`: the requests | `SignIn`, `RefreshRead/Reject/Replay`, `Rotate`, `RotateLost`, `FamilyScan`, `SignOutScan`, `Revoke`, `Logout`, `Expire`, `Abort` |
| `SecondFactor` | `cred`, `codes`, `challenge`, whether sessions of one factor are `live` and whether one was created since the scan of a confirmation (`missed`), the TOTP `clock`; histories of uses | `FirstFactor`, `IssueSession/Challenge`, `ReadChallenge`, `ResolveChallenge`, `VerifyLoginChallenge`, `VerifyStepUp`, `RegenerateBackupCodes`, `Disable`, `BeginSetup`, `UpsertCredential`, `ReadPending`, `EnableCredential` (with the scan), `ConfirmSetup` (the commit), `Refresh`, `SignOutEverywhere` and the environment |
| `Authorization` | none: the role table and the decisions of `AuthorizationService` as operators | |
| `Ownership` | `role`, `joins` (which row of a user), `ownerId`, `deleted` | `Resolve` (guard), `ReadManagedTarget`, `ReadNewOwner`, `UpdateMemberRole`, `DeleteMembership` (remove and leave), `TransferOwnership`, `DeleteOrganization`, `Join`, `Fail` |
| `Invitations` | `status`, `email`, `late`, `member`, `deleted`; histories `joined`, `raced`, `unaware`, `toMember` | begin and commit of create, resend, revoke, accept and delete; `ExpireInvitations`, `AcceptLate`, `Leave`, `Lapse`, `Fail` |
| `FileLifecycle` | `row` (`stored_files`), `object` (bucket), `url` (signed uploads) | initiate, complete, delete, restore, scan, purge in their steps; `Upload`, `DropTombstone`, `ReconcileOrphan`, time, `GiveUp` |
| `StripeSync` | Stripe's subscriptions and events; `processed`, `local`, `trialUsed`, `notices`; history `overlaps` | what Stripe does, other events included; `Receive`, `IgnoreEvent`, `Retrieve`, `CancelSubscriptionNow`, `ReadExisting`, `SyncSubscription` (with its notifications), `Record`, `Fail` |
| `Checkout` | `row` (the reservation), Stripe's `session` per request key, `subscribed` | `Begin`, `LookForNone`, `LookAtReservation`, `DropReservation`, `InsertReservation/Refused`, `CreateSession(Fails)`, `SaveSession`, `Pay`, `ProcessCheckout`, `SyncSubscription`, time, `Fail`; history `cause` |
| `EmailDelivery` | `row`, the `call` of `deliver`, Resend's `accepted` and `events`, `recorded`; histories `applied`, `lost` | `CreateDelivery`, `Attempt`, `Send(Fails)`, `SaveSent`, `SaveFails`, `RecordError`, `RecordUnexpectedFailure`, `DatabaseFails`, `Crash`, `ProviderEvent`, `RecordEvent` |
| `AccountTokens` | `account`, `token` (both tables), `session` with the password it was opened under and the one its sign-in proved; histories `overtaken`, `beside` | `Register`, `LoginRead`, `AuthenticateOAuth`, `CompleteFirstFactor`, `Rotate`, `IssueRead/Scan/Commit`, `LinkRead/Lost`, `ConfirmEmailVerification`, `ResetConsume/UpdateUser/DeleteLinks/Commit`, `BreakDeadlock`, `Abort`, `Expire` |
| `BrowserSession` | the server of `SessionRotation`; `cookie`, `page`, `call`; history `haze` | `RestoreSession`, `RefreshAccessToken`, `SignIn`, `SignOut`, `Serve...` (the handlers), `Deliver`, `Lose`, `Close`, `Expire` |
| `Uploader` | `operation`, `task`, `context`, `transfer`, `run` (the awaits), `row` and `object` of the server; history `late` | `Start`, `Hashed`, `Reserved`, `Transferred`, `CompleteAnswered`, `Refreshed`, `AwaitFails`, `Cancel`, `Retry`, `Reset`, `SwitchOrganization`, the server's calls, `ScanFails`, `Expire` |
| `Workspace` | `member` (the server), `user`, `active`, `list`, `cache`, `call`; history `haze` | `Switch`; the mutations from the call to what its answer does: `CreateOrganization` and `Created`, `UpdateOrganization` and `Updated`, `Depart` and `Exit`, with `Commit` on the server and `MutationFails`; `Bootstrap`, `Resume`, `Recover(ed/Fails)`, `Reload`, `SignIn`, `SignOut`, `LoadList`, `LoadData`, `MembershipChanges` |

`MC*` modules declare the model values and symmetry sets of the instances;
`*Proofs` modules hold the theorems. `PROJECT.json` maps every definition to its
lines.

Stripe, Resend, the bucket and the scanner are modelled from how the code uses
them: any result the code distinguishes may come.

## 3. Runs

### 3.1 The runs and what they show

An invariant of a run may be a conjunction of named parts; the parts are in
parentheses. The states are the distinct states TLC finds.

| Run | Instance | What it shows |
| --- | --- | --- |
| `session_rotation` | 3 sessions, 2 requests; @session_rotation@ | `LinearFamily`: two refreshes of one token, amid logouts, resets and revocations, never leave two usable sessions. `OnlyNewcomersEscape` (`SurvivorWasRotated`, `ResetSurvivorWasRotated`, `SignOutSurvivorIsNew`): the revocation of a family or by a reset misses only what replaced a session it had scanned; logout everywhere and `confirmSetup`, which do not lock the user, also miss the session of a sign-in after their scan. `RevocationIsFinal`: no handler rewrites a revocation. `ReuseEndsSessions` (liveness). `RotationIsABaton`: refinement of `TokenFamily`. `TypeOK`. |
| `second_factor` | 3 requests, 1 challenge, 2 secrets, 2 batches of codes, 2 time steps; @second_factor@ | `ProofsCountOnce` (`OneSessionPerChallenge`, `OnlyOverwritingReuses`, `TypeOK`) over logins, step-ups, setups and credentials removed and made again: a code counts once, a TOTP too until a setup has overwritten an enabled credential. `OnlyRacesWeaken` (`OnlyRacingSignInBypasses`, `OnlyRacingSetupIsUnproven`) and `OnlyRacingSetupOverwrites`: a session of one factor lives beside an enabled credential only if `confirmSetup` crossed its creation (by a sign-in that had read before the commit, or by a sign-in or a refresh between scan and commit); an enabled credential is unproven or overwritten only by a request that had read it earlier. |
| `ownership` | 3 users, 2 requests, each user joins twice; 556 thousand | `OwnershipConsistent` (`OwnerRoleIsRecorded`, `TypeOK`): an OWNER member is the one `owner_id` names, hence there is one, although handlers act on stale roles. `OnlyRacingTransferOrphans`: an organization loses its owner only to a transfer beside a request that leaves, removes or demotes. |
| `invitations` | 2 invitations, 2 addresses, 3 requests; 1.27 million | `InvitationsConsistent` (`OnePendingPerEmail`, `MembersAreNotInvited`, `TypeOK`): an address has one pending invitation, and a member none but one that was created while the member joined, or resent. `AcceptanceIsSound` (`JoinNeedsPending`, `AcceptanceNotRevoked`), `OnlyRacesRevive` (`OnlyRacingResendReuses`, `OnlyRacingIssueSurvives`) |
| `file_lifecycle` | 1 file, 2 slots, 2 scan attempts; 52 thousand | `FilesConsistent` (`AvailableHasObject`, `OnlyRestoredIsUnclean`, `TypeOK`), `PurgeIsFinal`; under fair maintenance `DueFilesArePurged`, `LateUploadsAreErased` |
| `stripe_sync` | 2 subscriptions, 4 events, of which 1 is of neither and 1 shares a second with the one before it, 2 handlers, which may overlap once; @stripe_sync@ | `RowFollowsNewestEvent` and `GraceIsKept` over repeated, delayed and reordered events and crashes, as long as no two events are handled at once: the row ends up at an event of the newest second; if that is the only one, with Stripe's status, and at the subscription started last unless it is the refund of an earlier one. `SyncConsistent` (`TrialIsRemembered`, `NotifiedOnce`, `TypeOK`) also when they overlap |
| `checkout` | 2 request keys, 3 requests; @checkout@ | `CheckoutConsistent` (`OnePayableCheckout`, `AnsweredAsAsked`, `TypeOK`), `PaidTwiceHasCause`: an organization pays twice only after its reservation was cleared by the webhook of another session, after a webhook overtook requests under way, or after a reservation made while a payment had not become a subscription: `processCheckout` deletes the reservation of the payment before it asks for the subscription, and one that expired is dropped |
| `email_delivery` | 3 attempts, 3 events; @email_delivery@ | `DeliveryConsistent` (`NewestEventShown`, `TypeOK`): whatever fails, and with updates that are committed though their answers are lost, a delivery is at the newest event that found it; it shows another status only if the answer to the update that saves the message id was lost. `EveryDeliveryEnds` |
| `account_tokens` | 3 links, 2 sessions, 2 requests; @account_tokens@ | `AccountConsistent` (`GoodLinksAreConcurrent`, `ResetEndsSessions`, `TypeOK`): what is older than the password was rotated between the scan and the commit of every reset since. `OnlyOvertakenLoginOutlives`: an old password opens a session after a reset only for a login the reset overtook; `PasswordNeedsLiveLink`; `LinkUseEnds`, deadlocks between two resets included |
| `browser_session` | 2 pages, 3 sessions, 2 requests; @browser_session@ | `SessionHeldOnce` (`ReuseHasCause`, `NoOrphanSession`, `TypeOK`): a page's own refreshes never set off the reuse detection; `SignedOutStaysOut`; `RestoreEnds` |
| `uploader` | 2 organizations, 4 operations, 1 file found infected; 1.08 million | `UploaderConsistent` (`SuccessIsReal`, `OneTransfer`, `WorkIsForOrganization`, `TypeOK`): a success is of a file the server has validated and has (a scan may still reject it), and what is continued or shown is of the organization on the screen, but for a success that came late. `OnlySuccessComesLate`, `StoredTwiceHasCause`, `UploadEnds` |
| `workspace` | 2 users, 2 organizations, 2 calls, one kind of overtaking at a time; 2.19 million | `WorkspaceConsistent` (`OneTenantInCache`, `TypeOK`): data of two organizations are together only after one was replaced under a function that waits, or a late answer to a rename or transfer. `PreviousUserIsForgotten`: what a sign-out leaves comes back only by an activation, recovery or mutation it overtook. `OpensAnOrganization` |

**Why the bounds are enough.** Every property that can be broken is broken by two
actors that meet on one row, so two requests (three where a third has to change
what both have read: `invitations`, `checkout`, `second_factor`) and two rows of each kind let the
case happen; sessions need a third row for the replacement of a replacement,
links a third for two that are retired by one reset, ownership a third user for
two transfers by one owner, and the uploader four operations for a retry after a
cancel of a retry. Counters are bounded one above the code's limit or at the
smallest value at which the limit bites: three attempts of an email are the
code's own number; a file fails at the second inconclusive scan instead of the
third. `MaxOverlaps` of `StripeSync` counts how often two handlers may be under
way at once: at 0 they never are, at 1 the properties that do not need this are
checked beyond it; `MaxOthers` and `MaxShared` leave three of the four events to the
subscriptions, two of which may share a second. `MaxInfected` lets one file fail its
scan after it was completed. `FewOvertaken` of `MCWorkspace`, a state constraint, follows
a behaviour until its history names two kinds of overtaking: the properties except one
or two kinds each, and a state with more says less. `SessionsLeft` keeps pages of `BrowserSession` from calling when
the server would have no row left to answer with. Where a fresh row may be any unused one, the first
is taken (`FirstFree`, `FirstAbsent`, `NewToken`, `NewSession`); rows are
interchangeable until they are used. The mutants listed in `PROJECT.json` are found
at these bounds, at least one for every property, and every action of every
specification occurs.

`Workspace` assumes in `Rendered` that React has rendered a change and run its
effects before the user's next click or the next answer of the server; functions
that wait for canceled queries may go on before that.

`CHECK_DEADLOCK FALSE` stands where the system may stop or its bounded supply of
ids runs out: a deleted organization, all events processed, a delivery ended,
every link, session or operation used.

**Fairness.**

* `SessionRotation`: weak fairness of each started handler (`Continue`). The event
  loop resumes a handler whose query is answered. A handler that dies is recorded
  and excused by the property.
* `FileLifecycle`: weak fairness of the steps of a slot; strong fairness of
  beginning a purge, of erasing the object and of writing the tombstone, because
  the maintenance timer comes round for ever while single calls to the bucket may
  fail and slots are taken by requests; weak fairness of the tombstone and orphan
  passes and of the end of a reservation (time passes). A bucket that fails for
  ever is excluded: then nothing is purged, and nothing can be.
* `EmailDelivery`: weak fairness of `Deliver`. The clients answer or throw.
* `AccountTokens`: strong fairness of each started request going on or being ended
  as the victim of a deadlock. PostgreSQL grants row locks in the order of
  arrival, so a request that waits again and again is served, and its deadlock
  detector ends one of two that wait for each other.
* `BrowserSession`: weak fairness of `Settle`. A call of a page is answered or
  given up; fetch rejects when the connection is lost.
* `Uploader`: weak fairness of each operation's next step or its failure, for the
  same reason.
* The other modules are checked for safety only and assume none.

### 3.2 Further configurations

The runs above say that certain outcomes come from one race and nothing else.
These configurations show the outcomes themselves, against what a document,
a message or the design says. Each can be run with `tlc -config X.cfg MC...`; TLC
stops at the first property that is violated, and with `-continue` it goes on to
the others of the configuration.

| Configuration | Property | Outcome |
| --- | --- | --- |
| `SessionRotationRaces` | `ReuseRevokesFamily` | violated: a replayed token starts `revokeTokenFamily`; its UPDATE fixes its candidates; a refresh of the family's current session commits; the UPDATE never sees the replacement. Locking the family, or repeating the update until it matches nothing, would close it |
| `SessionRotationRaces` | `ResetSignsOutEverywhere` | violated: a refresh that commits during the reset's UPDATE survives the reset, for the same cause |
| `AccountTokensLogin` | `OldPasswordIsUseless` | violated: a login that verified the old password before a reset committed opens its session after it, beside the message "all existing sessions were signed out" |
| `SecondFactorRaces` | `NoSessionBypassesSecondFactor` | violated: `isEnabled` is read before the session is created, and the setup is confirmed in between; or a sign-in or a refresh commits between the scan of `confirmSetup` and its commit |
| `SecondFactorRaces` | `SetupSparesEnabledCredential` | violated: `beginSetup` upserts a credential that was unfinished when read and is enabled when written |
| `SecondFactorRaces` | `EnabledSecretWasProven` | violated: `confirmSetup` checks the code against a secret that another `beginSetup` has replaced |
| `SecondFactorRaces` | `SecondFactorIsSingleUse` | violated with three requests: a setup overwrites the enabled credential, which keeps its id and forgets the last time step; a request that holds a TOTP of the old secret, accepted before, claims it again (ADR 0013: "Permit the current TOTP time step only once") |
| `OwnershipOrphan` | `OwnerIsMember` | violated: a member passes the guard of `leaveOrganization`, is made the owner, and leaves; `updateMemberRole` and `removeMember` can do the same |
| `InvitationsRaces` | `InvitationIsSingleUse` | violated: a resend that read the invitation while pending makes it pending again after it was accepted |
| `InvitationsRaces` | `DeletedHasNoPending` | violated: an invitation created or resent by a request that had passed the guard stays pending |
| `FileLifecycleRaces` | `OnlyCleanIsDownloadable` | violated: a deletion reads a file that is being scanned; the scan finds it infected; the deletion commits by id; `restoreFile` makes everything whose scan is not pending READY |
| `FileReservations` | `ReservationsBounded` | holds: the advisory lock keeps concurrent initiations within the limit (2 files, 2 slots); proved as `ReservationsStayBounded` |
| `FileLifecycleRaces` | `QuotaHolds` | violated: a completion commits after its reservation ended and the room was given away |
| `StripeSyncRefund` | `PaidPlanKeepsAccess` | violated: a charge of an ended subscription is refunded after another one was started; the row of the organization is overwritten with the ended one |
| `StripeSyncRace` | `StatusConverges` | violated: two handlers read the row before either writes (ADR 0008: "Duplicate, retried, failed, and out-of-order events are safe to process") |
| `StripeSyncSecond` | `StatusConverges` | violated: of two changes of one second the second is ignored if the first was retrieved before it |
| `CheckoutTwice` | `OneSubscription` | violated: a request that looked for a subscription before the webhook committed reserves after it (ADR 0008: "Allow one subscription per organization.") |
| `EmailDeliveryRaces` | `OutcomeIsObservable` | violated: an event that overtakes the update with the message id finds no delivery and is recorded as processed |
| `EmailDeliveryRaces` | `OutcomeIsKept` | violated: the update with the message id is committed and its answer lost; an event finds the row, and the retry writes over it |

## 4. Proofs

TLAPS checks the theorems below for every value of the constants: any sets of
sessions, users, files, keys, requests, any number of attempts. What is assumed of
the constants is what the modules state and TLC evaluates on every run: `None` is
not an element of the sets it is added to, bounds are natural numbers, and those
that count something which always happens (joins, attempts, time steps) are
positive. Four modules hold the theorems of two
specifications each: the second one is instantiated (`Sync`, `Web`, `Email`, `Page`),
and what it assumes of its constants is then a hypothesis of its theorems.

A proof has three parts: `Init` implies the inductive invariant, each action
preserves it (one lemma per group of actions, with a lemma under it for what the
group has in common), and the invariant implies what a run checks. The invariants
were checked by TLC before they were proved. Theorems are named in `PROJECT.json`;
those that state a property of a run name it.

| Module | Theorems | Property |
| --- | --- | --- |
| `SessionRotationProofs` | `TypeCorrect`, `FamilyStaysLinear`, `NewcomersAloneEscape`, `RevocationStaysFinal`, `RotationImplementsBaton`; `SessionStaysHeldOnce`, `SignedOutPageStaysOut` | `TypeOK`, `LinearFamily`, `OnlyNewcomersEscape`, `RevocationIsFinal`, `RotationIsABaton`; `SessionHeldOnce`, `SignedOutStaysOut` |
| `OwnershipProofs` | `OwnershipStaysConsistent`, `OneOwner`, `OrphansComeFromRaces` | `OwnershipConsistent`, at most one owner, `OnlyRacingTransferOrphans` |
| `SecondFactorProofs` | `ProofsAlwaysCountOnce`, `OnlyRacesEverWeaken`, `OnlyRacingSetupEverOverwrites` | `ProofsCountOnce`, `OnlyRacesWeaken`, `OnlyRacingSetupOverwrites` |
| `AccountTokensProofs` | `AccountStaysConsistent`, `OnlyOvertakenLoginEverOutlives`, `PasswordAlwaysNeedsLink`; `DeliveryTypeCorrect`, `DeliveryStaysConsistent` | `AccountConsistent`, `OnlyOvertakenLoginOutlives`, `PasswordNeedsLiveLink`; `TypeOK`, `DeliveryConsistent` |
| `InvitationsProofs` | `InvitationsStayConsistent`, `AcceptanceStaysSound`, `OnlyRacesBringBack` | `InvitationsConsistent`, `AcceptanceIsSound`, `OnlyRacesRevive` |
| `BillingProofs` | `CheckoutStaysConsistent`, `PayingTwiceHasCause`; `SyncStaysConsistent`, `GraceStaysKept`, `RowAlwaysFollows` | `CheckoutConsistent`, `PaidTwiceHasCause`; `SyncConsistent`, `GraceIsKept`, `RowFollowsNewestEvent` |
| `FileLifecycleProofs` | `FilesStayConsistent`, `PurgeStaysFinal`, `ReservationsStayBounded` | `FilesConsistent`, `PurgeIsFinal`, `ReservationsBounded` |
| `UploaderProofs` | `UploaderStaysConsistent`, `OnlySuccessEverComesLate`, `StoringTwiceHasCause`; `WorkspaceStaysConsistent`, `PreviousUserStaysForgotten`, `AlwaysOpensAnOrganization` | `UploaderConsistent`, `OnlySuccessComesLate`, `StoredTwiceHasCause`; `WorkspaceConsistent`, `PreviousUserIsForgotten`, `OpensAnOrganization` |

**`SessionRotationProofs`, the server.** The inductive invariant is

    IInv == /\ TypeOK /\ RowsWellFormed /\ RequestsWellFormed /\ LinearFamily
            /\ SurvivorWasRotated /\ ResetSurvivorWasRotated /\ SignOutSurvivorIsNew

`LinearFamily` alone is not inductive: `RotateLost` and `FamilyScan` need to know that
the token a request holds is a row that exists, of the family to be revoked
(`RequestsWellFormed`), and rows that do not exist must have neither family nor
replacement, or inserting one would break a chain (`RowsWellFormed`). `StepKinds`
shows that a step does one of four things to the table (opens a family, rotates,
retires rows, or only moves a request), and one lemma each shows that it preserves
`IInv`. `NewcomersAloneEscape` rests, for a reset, on the sign-in waiting for the
lock on the user; `logoutAll` and `confirmSetup` take no such lock, and what they miss
besides is of families that were not there at their scan (the history `known`). `RotationImplementsBaton` maps a family to the set of its
unrevoked sessions (at most one, by `LinearFamily`) and shows that every step is a
step of `TokenFamily` or leaves the batons alone.

**`SessionRotationProofs`, the browser.** `BrowserSession` is instantiated as `Web`,
over the same sessions and requests.

    BrowserInv == /\ IInv /\ Web!TypeOK /\ HandlersServeCalls /\ TokensExist
                  /\ PagesAreSound /\ OneCallOfPage /\ OnePageCalls
                  /\ TokenUsedOnce /\ ReuseFindsNothing /\ CookieIsSession

What a handler does for a call is a step of `SessionRotation`, or leaves its tables
alone (`RotationInvariant`), so `IInv` is kept without a second proof. The rest follows
a refresh token from the cookie into a call, through the handler that rotates it and
back with the answer. `SessionHeldOnce` speaks of rows only, and no row tells that
nobody is about to present a rotated token. That is a fact about the calls: as long as
none failed or met the work of another page, one page has calls under way and no two of
them refresh with one token (`OnePageCalls`, which rests on `refreshPromise` and on a
sign-in beside a restoration having replaced the cookie, and `OneCallOfPage` for the
page's own work); so the cookie holds a rotated token only while the answer that
replaces it is on its way, and the token of an answer is known to that answer alone
(`TokenUsedOnce`). Reuse is then detected for dead families only
(`ReuseFindsNothing`), and with nothing in the page's way the one session left is the
one in the cookie or in that answer (`CookieIsSession`). `SignedOutPageStaysOut` is an
action property of the same invariant.

**`OwnershipProofs`.**

    IInv == TypeOK /\ RequestsWellFormed /\ OwnerRoleIsRecorded

The role change and the removal act on stale roles, but no handler writes
OWNER except the transfer, and the transfer writes `owner_id` in the same
transaction behind the partial unique index on the OWNER role. That the role
a request is to give is assignable is in `RequestsWellFormed`. `OrphansComeFromRaces`
uses `OInv`, which adds that a target read by a request is an old row
(`TargetsAreOld`) and that a change under way spares the owner unless a transfer
ran beside it (`ChangesSpareOwner`).

**`SecondFactorProofs`.**

    Inv == /\ Base /\ LockFits /\ ExchangedIsSpent /\ Uses
           /\ EnabledIsAsked /\ ConfirmedIsProven

`Base` is the types, what a request carries and that the row holds a secret no
older than the one it was created with. A confirmation holds the pending row it read
from its scan to its commit (`LockFits`). A TOTP counts once because of which
secret a claim can be of: a row keeps its id while a setup replaces its secret,
and the conditional update of a claim names the id. What saves it is that no
claim of the row's id is under way while the row is pending
(`PendingIsUntouched`), so the claims of an enabled row are of its present secret
(`ClaimsFit`) and every TOTP of it that was accepted is no later than the step the
row remembers (`StepIsLatest`). All of these hold until a setup overwrites an
enabled row, and that can happen. The attempt to prove that
a proof counts once without this condition failed here, and TLC then found the
reuse with a third request; the property that holds is `OnlyOverwritingReuses`, and
`SecondFactorRaces` in section 3.2 shows what a racing setup does. Recovery codes
count once in any case (`CodesCountOnce`), and a challenge gives one session
(`ExchangedIsSpent`). A session of one factor beside an enabled credential was
created between the scan and the commit of `confirmSetup` (`missed`), or by a request that
had seen no credential (`EnabledIsAsked`); of sessions created before the scan none is left.

**`AccountTokensProofs`, links and passwords.**

    Inv == /\ TypeOK /\ RequestsSound /\ Apart /\ AccountIsFirst /\ SeenIsMade
           /\ MadeBefore /\ GoodLinksAreConcurrent /\ ResetEndsSessions
           /\ OnlyOvertakenLoginOutlives

The argument is about the locks of an open reset. The rows that open
transactions have written are disjoint and one of them at most holds the row of
the user (`Apart`). So the link a reset has consumed stays good until it commits,
and no sign-in opens a session while it holds the user. A refresh does not wait for
the user: what is live at the commit was scanned or is what a rotation put in the place
of a session meanwhile (`RequestsSound`), and `beside` remembers the resets this happened
beside. A live session is of no password to come (`MadeBefore`). `AccountIsFirst` keeps registration out of this. That a
password changes only by a link that was good is an action property of the same
invariant.

**`InvitationsProofs`.**

    IInv == TypeOK /\ RequestsCarry /\ RowsStay /\ RowsAreAddressed /\ OnePendingPerEmail
    MInv == IInv /\ AcceptsOwn /\ CreationsAreKnown /\ MembersAreNotInvited
    RInv == IInv /\ UsedIsSettled /\ DeletionSeesAll /\ NoIssueOutlives

One pending invitation per address follows from `IInv`, the partial index and what a
request carries from its read to its commit; so does `AcceptanceStaysSound`, an action
property. `MembersAreNotInvited` rests on it: whoever joins had the only pending
invitation to the address (`AcceptsOwn`), and a creation that is under way for it by then
is remembered (`CreationsAreKnown`). For the races: an invitation that was used stays accepted unless
somebody had read it to resend it (`UsedIsSettled`), and a deletion beside which
nothing was issued has seen every pending invitation (`DeletionSeesAll`), after
which nobody issues (`NoIssueOutlives`).

**`BillingProofs`, Checkout.**

    IInv == TypeOK /\ RequestsCarry /\ RowIsSound /\ AnsweredAsAsked /\ AnswersAreMade
    CInv == /\ IInv /\ PayableIsReserved /\ SubscribedIsQuiet /\ OnePayable
            /\ PaidIsReserved /\ OnePaid

The reservation decides which session may be paid. While no webhook has cleared
one it should have left alone, and no subscription is there, every open session that
was answered is the one of the row (`PayableIsReserved`), hence there is one. The webhook of the payment itself
clears the row too; then the subscription is there and no request is under way
that would not see it (`SubscribedIsQuiet`). Between the payment and its subscription
the row is that of the payment or empty, since `processCheckout` deletes it and it may
expire; a reservation made then is the cause `unsettled`, which leaves one payable session
and ends that there is one paid. Without a cause a paid session is the one of the row, if
there is a row (`PaidIsReserved`), which gives `PaidTwiceHasCause`.

**`BillingProofs`, Stripe webhook.** `StripeSync` is instantiated as `Sync`, and its
assumption on the bounds is a hypothesis of the theorems.

    SyncInv   == /\ SyncTypes /\ EventsAreStarted /\ RetrievedIsOurs
                 /\ StartedIsTrialed /\ WrittenIsRemembered /\ RefundsAreTold /\ Sync!NotifiedOnce
    LoneInv   == SyncInv /\ Alone /\ LoneReads /\ GraceRuns
    FollowInv == /\ LoneInv /\ StripeInv /\ RetrievedIsFresh /\ RowIsFresh
                 /\ HandledIsWritten

`TrialIsRemembered` is not inductive: a handler may record an event because the row
is newer, and then the trial must have been remembered by whoever wrote the row,
possibly for another subscription. It was: a subscription starts without a trial
only when one is remembered (`StartedIsTrialed`), so that nothing is written while
none is (`WrittenIsRemembered`). `SyncStaysConsistent` holds with overlapping handlers.
The other two are about handlers that do not overlap: what one read of the row is
there at its commit (`LoneReads`), so a running grace period is kept
(`GraceStaysKept`) and the row only moves to newer events (`HandledIsWritten`).
A status that was retrieved or written is Stripe's until an event tells of a change
(`RetrievedIsFresh`, `RowIsFresh`). When every event is handled, one that tells of a
change is no newer than the row, hence of its second. So the row is at an event of the
newest second, and if no other shares that second its status is Stripe's
(`RowAlwaysFollows`). Which subscription it is follows from what Stripe does
(`StripeInv`): a change is of the subscription started last, or one is still to come.

**`FileLifecycleProofs`.**

    FInv == /\ TypeOK /\ SlotsNameFiles /\ UploadedIsBacked /\ CompletedIsBacked
            /\ AvailableIsUploaded /\ OnlyRestoredIsUnclean
    BInv == FInv /\ IsFiniteSet(ActiveReservations) /\ OneDecides /\ ReservationsBounded

`AvailableHasObject` is not inductive: a rejected file can become a deleted, then a
restored one by slots that read it earlier. What is kept is that every row with
`uploadedAt`, whatever its status, has its bytes, or somebody erased them and is
about to write the tombstone, or died there, or has written it; and the same for a
completion that has seen the bytes but not written its row. `ReservationsStayBounded`
rests on the advisory lock letting one slot decide at a time (`OneDecides`).

**`AccountTokensProofs`, emails.** `EmailDelivery` is instantiated as `Email`.

    EmailTypes == Email!TypeOK /\ events \in Seq(Email!Outcome) /\ Counted
    EmailInv   == EmailTypes /\ ShowsNewest /\ MessageComesLast

No event finds the row before the message id is saved, and saving it is the last
thing `deliver` does unless the answer to that is lost (`MessageComesLast`); then it goes
on, and what it writes keeps which event the row is at but not the status
(`EmailDeliveryRaces`, section 3.2). Of all other updates it makes no difference whether
one that throws was committed.

**`UploaderProofs`, the uploader.**

    Inv == /\ TypeOK /\ OnlyBegun /\ StartsAlone /\ CompletedIsValid /\ TransferIsShown
           /\ WorkIsForOrganization /\ OnlySuccessComesLate /\ OneUpload
           /\ AttemptsAreKnown /\ OnePromise

A chain of awaits goes on after the user has canceled or chosen another file, and so
does the server: a row whose chain was canceled may be completed much later.
`StoredTwiceHasCause` counts the rows that were validated and is not inductive for that
reason. `OnePromise` says the same of every attempt at a file that may still be
completed: two of them need a target that had expired or a late success. A retry from the
start makes a new attempt, and it may because those whose target lives are the context
and the upload that is being started (`AttemptsAreKnown`); a retry that continues adds
none. `UploaderStaysConsistent` uses that a chain which was told of a completed upload
holds a validated row with its object (`CompletedIsValid`), that the one transfer is of
the current operation (`TransferIsShown`) and that the chain, the task and the context
of an operation name one upload (`OneUpload`).

**`UploaderProofs`, the active organization.** `Workspace` is instantiated as `Page`.

    PageInv == /\ Page!TypeOK /\ CallsAreSound /\ WaitsForActive /\ Page!OneTenantInCache
               /\ NobodyIn /\ ListIsOfUser /\ Opening /\ NoUnseenOpening

A function that waits for canceled queries will remove the data of the organization it
read before; one cache for one organization needs that this is still the active one,
unless `haze` says that it was replaced meanwhile (`WaitsForActive`). The answer to a
mutation writes what it names whoever is signed in and whatever is active by then; `haze`
says so when it came late. What a sign-out leaves follows from these facts and from whom a
recovery asks for (`CallsAreSound`, `NobodyIn`, `ListIsOfUser`). With nothing under way at
a sign-in or sign-out `haze` is empty again: the page is as new. `AlwaysOpensAnOrganization` is about an
effect of React, which runs again only when what it depends on has changed: whenever it
has run and no listed organization is active, an activation of a listed one is under
way (`Opening`), and none becomes active and inactive again between two of its runs
(`NoUnseenOpening`).

**Only model-checked.** Every safety property of the runs is proved. Left to TLC is
liveness (`ReuseEndsSessions`, `DueFilesArePurged`, `LateUploadsAreErased`,
`EveryDeliveryEnds`, `LinkUseEnds`, `RestoreEnds`, `UploadEnds`), because it rests on
fairness and ENABLED, which the installed provers do not handle, and the
counterexamples of section 3.2.

## 5. Not modelled

Of the 69 thousand lines of TypeScript some 45 thousand are generated (the Prisma
client and the API types of the frontend); the rest is largely pages and
components, DTOs, modules, templates and configuration. The modules map some 4,500 lines,
which are most of the code that changes state: 482 of the 621 lines of
`auth.service.ts`, 381 of 488 of `two-factor.service.ts`, 335 of 438 of
`stripe-webhook.service.ts`, 158 of 192 of `use-file-uploader.ts`. What is left out:

* Passwords, token signatures, hashes, TOTP arithmetic and the encryption of
  secrets are taken to be correct; a token or code is its identity.
* The rows that link OAuth accounts; listings, downloads and other reads;
  creating and renaming an organization on the server (single statements on one row).
* The audit log: its rows are inserted and pruned, and no operation decides by one.
* Reading, preferences and retention of notifications; cancellation at the end
  of a billing period; the Portal session.
* The limit of reservations per user and the quota in bytes (an initiation is refused
  by the number of files or of reservations only). The object a scan reads is there at its
  commit; `Uploader` leaves out that a file is deleted.
* File formats (the verdict of the validation is a free choice), the S3 and clamd
  protocols, email templates, progress of an upload.
* The advisory lock of an initiation is one step; row locks are modelled one
  by one in `AccountTokens` only. Elsewhere a deadlock PostgreSQL resolves by
  aborting a transaction appears as that abort.
* `regenerateBackupCodes` as one step: two of them at once could each miss the
  batch of the other.
* HTTP plumbing, configuration, health, pages, generated code: no state.

## 6. Plan

The stateful parts are modelled, the runs check them, and all twelve specifications
have the safety properties of their runs proved. What could be added, in this order:

1. `regenerateBackupCodes` in the two steps of its transaction, so that two of them
   can miss each other's codes.
2. The statements of `completeUpload` and of an initiation as steps of their own, with
   the advisory lock held between them, and the end of a reservation in between.
3. A composition of `Checkout` and `StripeSync` over one subscription row, in place of
   the environment actions by which each represents the other.
