----------------------------- MODULE StripeSync -----------------------------
(***************************************************************************)
(* How the subscription of one organization follows Stripe                 *)
(* (billing/stripe-webhook.service.ts).  Stripe changes subscriptions and  *)
(* sends an event for every change and every refund or dispute of a        *)
(* charge, and others that are none of ours: at least once, in any order,  *)
(* with a creation time in seconds (counted here from the first event,     *)
(* without the idle ones), which several events may share.                 *)
(* A handler looks the event up, retrieves the subscription as it is then, *)
(* reads the local row, commits the new one and records the event; each is *)
(* a step, and it may die after any of them, when Stripe sends it again.   *)
(* The commit also notifies the owner (notifications/notification.writer). *)
(* The Checkout reservation that it clears is in Checkout.                 *)
(***************************************************************************)
EXTENDS Naturals, Sequences, FiniteSets

CONSTANTS Handler,          \* deliveries being handled at a time
          MaxSub,           \* subscriptions Stripe makes for the organization
          MaxEvents,        \* bound on the events Stripe sends
          MaxOthers,        \* bound on those that are none of ours
          MaxShared,        \* bound on those of the same second as the one before
          MaxOverlaps,      \* bound on the deliveries that overlap another
          GracePeriod       \* BILLING_GRACE_PERIOD_DAYS

ASSUME BoundsAssumption ==
    /\ MaxSub \in Nat \ {0} /\ MaxEvents \in Nat /\ MaxOthers \in Nat
    /\ MaxShared \in Nat /\ MaxOverlaps \in Nat /\ GracePeriod \in Nat

VARIABLES stripe,     \* Stripe: status of each subscription, "none" before it exists
          trialed,    \* Stripe: the subscriptions that began with a trial
          events,     \* Stripe: the events sent, in the order they were created
          processed,  \* processed_stripe_events
          local,      \* the subscriptions row of the organization
          trialUsed,  \* stripe_customers.trial_used_at is set
          notices,    \* notifications of the owner: how many by event and type
          handler,    \* what each handler has read and does next
          overlaps    \* history: how often a handler started beside another

vars == <<stripe, trialed, events, processed, local, trialUsed, notices, handler, overlaps>>

Sub == 1..MaxSub
Live == {"TRIALING", "ACTIVE", "PAST_DUE"}
SubscriptionStatus == Live \cup {"CANCELED"}
EventId == 1..Len(events)
Kind == {"changed", "refund", "other"}

\* The events that are about a subscription of the organization.
Ours == {e \in EventId : events[e].kind # "other"}

\* BILLING_FULL_REFUND stands for BILLING_DISPUTE too, BILLING_PAYMENT_FAILED
\* for the BILLING_GRACE_PERIOD_STARTED that is written beside it.
NotificationType == {"BILLING_FULL_REFUND", "BILLING_SUBSCRIPTION_CANCELED",
                     "BILLING_TRIAL_STARTED", "BILLING_PAYMENT_FAILED"}

\* The row, with the creation time of the event it was written for and the end
\* of the grace period (0 for null in both, as for no row).
NoRow == [sub |-> 0, status |-> "none", last |-> 0, grace |-> 0]

\* A handler at pc for event e, with the status retrieved and the row read.
At(pc, e, status, existing) == [pc |-> pc, event |-> e, status |-> status, existing |-> existing]
IdleHandler == At("idle", 0, "none", NoRow)
Goto(h, pc, status, existing) == handler' = [handler EXCEPT ![h] = At(pc, @.event, status, existing)]
Finish(h) == handler' = [handler EXCEPT ![h] = IdleHandler]

Init ==
    /\ stripe = [i \in Sub |-> "none"]
    /\ trialed = {}
    /\ events = <<>>
    /\ processed = {}
    /\ local = NoRow
    /\ trialUsed = FALSE
    /\ notices = [n \in (1..MaxEvents) \X NotificationType |-> 0]
    /\ handler = [h \in Handler |-> IdleHandler]
    /\ overlaps = 0

-----------------------------------------------------------------------------
(* Stripe                                                                  *)

LastSecond == IF events = <<>> THEN 0 ELSE events[Len(events)].at

\* Stripe sends an event about subscription i (0: none of ours).
Send(i, kind) ==
    /\ Len(events) < MaxEvents
    /\ \E at \in IF events = <<>> THEN {1} ELSE {LastSecond, LastSecond + 1} :
          /\ Len(events) + 1 <= at + MaxShared
          /\ events' = Append(events, [sub |-> i, kind |-> kind, at |-> at])

\* A subscription starts (with a trial, if the organization has had none) once
\* no other is live.
StartSubscription(i) ==
    /\ stripe[i] = "none"
    /\ \A j \in 1..(i - 1) : stripe[j] = "CANCELED"
    /\ stripe' = [stripe EXCEPT ![i] = IF trialUsed THEN "ACTIVE" ELSE "TRIALING"]
    /\ trialed' = IF trialUsed THEN trialed ELSE trialed \cup {i}
    /\ Send(i, "changed")
    /\ UNCHANGED <<processed, local, trialUsed, handler, notices, overlaps>>

\* It is paid, a payment fails, or it ends.
ChangeSubscription(i, status) ==
    /\ stripe[i] \in Live
    /\ status # stripe[i] /\ status # "TRIALING"
    /\ stripe' = [stripe EXCEPT ![i] = status]
    /\ Send(i, "changed")
    /\ UNCHANGED <<trialed, processed, local, trialUsed, handler, notices, overlaps>>

\* A payment fails again: the state is the same, the invoice event is new.
FailPaymentAgain(i) ==
    /\ stripe[i] = "PAST_DUE"
    /\ Send(i, "changed")
    /\ UNCHANGED <<stripe, trialed, processed, local, trialUsed, handler, notices, overlaps>>

\* A charge of the subscription is fully refunded or disputed.
Refund(i) ==
    /\ stripe[i] # "none"
    /\ Send(i, "refund")
    /\ UNCHANGED <<stripe, trialed, processed, local, trialUsed, handler, notices, overlaps>>

\* An event of an unsupported kind, of a charge without a subscription, or of a
\* subscription without an organization or of another product or price.
OtherEvent ==
    /\ Cardinality(EventId \ Ours) < MaxOthers
    /\ Send(0, "other")
    /\ UNCHANGED <<stripe, trialed, processed, local, trialUsed, handler, notices, overlaps>>

-----------------------------------------------------------------------------
(* process                                                                 *)

\* 1 when another handler is under way.
Beside(h) == IF \E g \in Handler \ {h} : handler[g].pc # "idle" THEN 1 ELSE 0

\* Bug: the event is recorded before it is processed.
ReceiveAndRecord(h, e) ==
    /\ handler[h].pc = "idle"
    /\ e \notin processed
    /\ processed' = processed \cup {e}
    /\ handler' = [handler EXCEPT ![h] = At("retrieve", e, "none", NoRow)]
    /\ overlaps' = overlaps + Beside(h)
    /\ overlaps' <= MaxOverlaps
    /\ UNCHANGED <<stripe, trialed, events, local, trialUsed, notices>>

\* An event arrives, for the first time or again, and is not recorded yet.
\* (One that is recorded is answered at once.)
Receive(h, e) ==
    /\ handler[h].pc = "idle"
    /\ e \notin processed
    /\ handler' = [handler EXCEPT ![h] = At("retrieve", e, "none", NoRow)]
    /\ overlaps' = overlaps + Beside(h)
    /\ overlaps' <= MaxOverlaps
    /\ UNCHANGED <<stripe, trialed, events, processed, local, trialUsed, notices>>

EventOf(h) == events[handler[h].event]

\* process, cancelForCharge and syncSubscription return early: the event is only
\* recorded.
IgnoreEvent(h) ==
    /\ handler[h].pc = "retrieve"
    /\ EventOf(h).kind = "other"
    /\ Goto(h, "record", "none", NoRow)
    /\ UNCHANGED <<stripe, trialed, events, processed, local, trialUsed, notices, overlaps>>

\* retrieveSubscription; or for a refund or dispute resolveSubscriptionForCharge
\* and cancelSubscriptionNow, which finds the subscription canceled,
Retrieve(h) ==
    LET i == EventOf(h).sub IN
    /\ handler[h].pc = "retrieve"
    /\ EventOf(h).kind = "changed" \/ (EventOf(h).kind = "refund" /\ stripe[i] = "CANCELED")
    /\ Goto(h, "read", stripe[i], NoRow)
    /\ UNCHANGED <<stripe, trialed, events, processed, local, trialUsed, notices, overlaps>>

\* or cancels it (and Stripe sends the event of that).
CancelSubscriptionNow(h) ==
    LET i == EventOf(h).sub IN
    /\ handler[h].pc = "retrieve"
    /\ EventOf(h).kind = "refund"
    /\ stripe[i] # "CANCELED"
    /\ stripe' = [stripe EXCEPT ![i] = "CANCELED"]
    /\ Send(i, "changed")
    /\ Goto(h, "read", "CANCELED", NoRow)
    /\ UNCHANGED <<trialed, processed, local, trialUsed, notices, overlaps>>

\* Bug: the notification is created without its dedupe key.
WriteEach(e, types) ==
    notices' = [n \in DOMAIN notices |->
                  IF n[1] = e /\ n[2] \in types THEN notices[n] + 1 ELSE notices[n]]

\* writeNotification: an upsert by user and `stripe:${eventId}:${type}`.
WriteNotifications(e, types) ==
    notices' = [n \in DOMAIN notices |-> IF n[1] = e /\ n[2] \in types THEN 1 ELSE notices[n]]

\* syncSubscription reads the row: one written for a later event, or one of the
\* same second, is left alone, and writeBillingCause tells of the refund.
ReadExisting(h) ==
    LET old == local.last >= EventOf(h).at IN
    /\ handler[h].pc = "read"
    /\ Goto(h, IF old THEN "record" ELSE "commit", handler[h].status, local)
    /\ WriteNotifications(handler[h].event, IF old /\ EventOf(h).kind = "refund"
                                             THEN {"BILLING_FULL_REFUND"} ELSE {})
    /\ UNCHANGED <<stripe, trialed, events, processed, local, trialUsed, overlaps>>

\* Bug: every failed payment starts a grace period.
GraceAlways(status, existing, at) == IF status = "PAST_DUE" THEN at + GracePeriod ELSE 0

\* gracePeriodEndsAt: the one that is running, or a new one.
GraceFor(status, existing, at) ==
    IF status # "PAST_DUE" THEN 0
    ELSE IF existing.grace # 0 THEN existing.grace
    ELSE at + GracePeriod

\* What the owner is told: the refund, else that the subscription ended, and
\* that a trial or a series of failed payments began.
NotificationsFor(kind, status, existing) ==
    {type \in NotificationType :
        CASE type = "BILLING_FULL_REFUND"           -> kind = "refund"
          [] type = "BILLING_SUBSCRIPTION_CANCELED" ->
                kind # "refund" /\ status = "CANCELED" /\ existing.status # "CANCELED"
          [] type = "BILLING_TRIAL_STARTED"         ->
                status = "TRIALING" /\ existing.status # "TRIALING"
          [] type = "BILLING_PAYMENT_FAILED"        ->
                status = "PAST_DUE" /\ existing.status # "PAST_DUE"}

\* Bug: a trial is remembered only while it runs.
SyncRunningTrial(h) ==
    LET status == handler[h].status  event == EventOf(h) IN
    /\ handler[h].pc = "commit"
    /\ local' = [sub |-> event.sub, status |-> status, last |-> event.at,
                 grace |-> GraceFor(status, handler[h].existing, event.at)]
    /\ trialUsed' = (trialUsed \/ status = "TRIALING")
    /\ WriteNotifications(handler[h].event, NotificationsFor(event.kind, status, handler[h].existing))
    /\ Goto(h, "record", "none", NoRow)
    /\ UNCHANGED <<stripe, trialed, events, processed, overlaps>>

\* Its transaction: the row is upserted from what was retrieved and read, a
\* trial is remembered and the owner notified.
SyncSubscription(h) ==
    LET status == handler[h].status  event == EventOf(h) IN
    /\ handler[h].pc = "commit"
    /\ local' = [sub |-> event.sub, status |-> status, last |-> event.at,
                 grace |-> GraceFor(status, handler[h].existing, event.at)]
    /\ trialUsed' = (trialUsed \/ event.sub \in trialed)
    /\ WriteNotifications(handler[h].event, NotificationsFor(event.kind, status, handler[h].existing))
    /\ Goto(h, "record", "none", NoRow)
    /\ UNCHANGED <<stripe, trialed, events, processed, overlaps>>

\* Bug: the handler forgets its event before it records it.
RecordForgotten(h) ==
    /\ handler[h].pc = "record"
    /\ Finish(h)
    /\ processed' = processed \cup {handler'[h].event}
    /\ UNCHANGED <<stripe, trialed, events, local, trialUsed, notices, overlaps>>

\* The event is recorded as processed, and Stripe answered.
Record(h) ==
    /\ handler[h].pc = "record"
    /\ processed' = processed \cup {handler[h].event}
    /\ Finish(h)
    /\ UNCHANGED <<stripe, trialed, events, local, trialUsed, notices, overlaps>>

\* A call to Stripe or the database fails, or the process dies: Stripe will
\* send the event again.
Fail(h) ==
    /\ handler[h].pc # "idle"
    /\ Finish(h)
    /\ UNCHANGED <<stripe, trialed, events, processed, local, trialUsed, notices, overlaps>>

Next ==
    \/ \E i \in Sub : \/ StartSubscription(i) \/ FailPaymentAgain(i) \/ Refund(i)
                      \/ \E status \in SubscriptionStatus : ChangeSubscription(i, status)
    \/ OtherEvent
    \/ \E h \in Handler : \/ \E e \in EventId : Receive(h, e)
                          \/ IgnoreEvent(h) \/ Retrieve(h) \/ CancelSubscriptionNow(h)
                          \/ ReadExisting(h) \/ SyncSubscription(h) \/ Record(h) \/ Fail(h)

Spec == Init /\ [][Next]_vars

-----------------------------------------------------------------------------
(* Properties                                                              *)

Row == [sub : Sub \cup {0}, status : SubscriptionStatus \cup {"none"}, last : 0..MaxEvents,
        grace : 0..(MaxEvents + GracePeriod)]

\* Rows, events and handlers hold values the code and Stripe can write.
TypeOK ==
    /\ stripe \in [Sub -> SubscriptionStatus \cup {"none"}]
    /\ trialed \subseteq Sub
    /\ Len(events) <= MaxEvents
    /\ \A e \in EventId : events[e] \in [sub : Sub \cup {0}, kind : Kind, at : 1..MaxEvents]
    /\ processed \subseteq EventId
    /\ local \in Row
    /\ trialUsed \in BOOLEAN
    /\ notices \in [(1..MaxEvents) \X NotificationType -> Nat]
    /\ overlaps \in 0..MaxOverlaps
    /\ handler \in [Handler -> [pc : {"idle", "retrieve", "read", "commit", "record"},
                                event : EventId \cup {0},
                                status : SubscriptionStatus \cup {"none"}, existing : Row]]

\* Everything Stripe sent has been processed and nothing is under way.
Settled == processed = EventId /\ \A h \in Handler : handler[h].pc = "idle"

\* The subscription Stripe made last.
Started == {i \in Sub : stripe[i] # "none"}
Latest == CHOOSE i \in Started : \A j \in Started : j <= i

\* The events of the newest second; Stripe's timestamps do not order them.
Newest == {e \in Ours : \A d \in Ours : events[d].at <= events[e].at}

\* Whatever is lost, sent again or out of order, as long as no two events are
\* handled at once the row ends up at an event of the newest second.  When that is
\* one event, the row has the state Stripe has, and it is of the subscription Stripe
\* made last unless that event is the refund of an earlier one: only a second event
\* of the same second, which the >= of syncSubscription drops, leaves a state that is
\* no longer Stripe's, and only a late refund takes the row from the subscription
\* that is paid for.
RowFollowsNewestEvent ==
    overlaps = 0 /\ Settled /\ Ours # {} =>
        \E e \in Newest :
            /\ local.last = events[e].at /\ local.sub = events[e].sub
            /\ Newest = {e} => /\ local.status = stripe[local.sub]
                               /\ local.sub = Latest \/ events[e].kind = "refund"

\* ADR 0008: "Duplicate, retried, failed, and out-of-order events are safe to
\* process": once they are, the local status is Stripe's.
StatusConverges == Settled /\ Started # {} => local.status = stripe[Latest]

\* ADR 0008: "do not extend that grace window on repeated failures".  So it is,
\* late and repeated events included, while no two are handled at once.
GraceIsKept ==
    [][overlaps = 0 /\ local.status = "PAST_DUE" /\ local'.status = "PAST_DUE"
          => local'.grace = local.grace]_vars

\* The owner is told once of what an event brought, however often it is sent
\* and wherever its handler dies, and of every refund, be it too old to count.
NotifiedOnce ==
    /\ \A n \in DOMAIN notices : notices[n] <= 1
    /\ \A e \in processed : events[e].kind = "refund" => notices[e, "BILLING_FULL_REFUND"] = 1

\* Once any event of a subscription that began with a trial is processed, the
\* organization gets no other trial, whether the trial was seen running or not.
TrialIsRemembered == \A e \in processed : events[e].sub \in trialed => trialUsed

\* However often and in whatever order events are handled, a trial is remembered once its
\* event was processed and the owner is notified of an event once.
SyncConsistent == TypeOK /\ TrialIsRemembered /\ NotifiedOnce

\* A refund or dispute of a charge of an earlier subscription leaves the one
\* that is paid for alone: local access is Stripe's.
HasPaidAccess == local.status \in Live
PaidPlanKeepsAccess ==
    Settled /\ Started # {} /\ stripe[Latest] \in {"TRIALING", "ACTIVE"} => HasPaidAccess
=============================================================================
