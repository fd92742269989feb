---------------------------- MODULE EmailDelivery ----------------------------
(***************************************************************************)
(* One transactional email: deliver of TransactionalEmailService, which    *)
(* sends it in at most three attempts and writes what happened to its      *)
(* email_deliveries row, and the webhook of Resend, which writes later     *)
(* outcomes to the same row.  Every caller makes a fresh token or UUID, so *)
(* an idempotency key is delivered by one call of deliver; the early       *)
(* returns for a row that exists are never taken.  The steps of deliver    *)
(* are its database updates and the call of the provider.  At each update  *)
(* the database may fail, or commit it and its answer be lost, which       *)
(* deliver cannot tell apart; the process may die between any two steps.   *)
(***************************************************************************)
EXTENDS Naturals, Sequences

CONSTANTS MaxAttempts,  \* MAX_DELIVERY_ATTEMPTS
          MaxEvents     \* bound on the events the provider sends

ASSUME AttemptsAssumption == MaxAttempts \in Nat \ {0} /\ MaxEvents \in Nat

VARIABLES row,       \* the email_deliveries row
          call,      \* where deliver is, and its attempt
          answer,    \* what deliver returned
          accepted,  \* Resend: the message of the idempotency key is accepted
          events,    \* Resend: the outcomes of the message, in order of created_at
          recorded,  \* email_webhook_events
          applied,   \* history: the events that found the row
          lost       \* history: the message id was saved, and the answer to that lost

vars == <<row, call, answer, accepted, events, recorded, applied, lost>>

\* deliveryStatus: what an event of Resend says.
Outcome == {"SENT", "DELIVERED", "FAILED", "BOUNCED", "COMPLAINED", "SUPPRESSED"}
EmailDeliveryStatus == Outcome \cup {"PENDING", "SENDING"}
EventId == 1..Len(events)

\* message: provider_message_id is set.  last: the event last_event_at is from.
NoRow == [status |-> "none", attempts |-> 0, message |-> FALSE, last |-> 0]

Goto(pc, attempt) == call' = [pc |-> pc, attempt |-> attempt]
Answer(a) == answer' = a /\ Goto("done", call.attempt)

Init ==
    /\ row = NoRow
    /\ call = [pc |-> "start", attempt |-> 1]
    /\ answer = "none"
    /\ accepted = FALSE
    /\ events = <<>>
    /\ recorded = {}
    /\ applied = {}
    /\ lost = FALSE

-----------------------------------------------------------------------------
(* deliver and attemptDelivery                                             *)

\* Bug: only a permanent error is final.
FinalIfPermanent == call.pc = "permanent"

IsFinalAttempt == call.pc = "permanent" \/ call.attempt = MaxAttempts

\* What the update under way writes: the upsert of the row; an attempt, counted
\* before it is made; the provider's id of the message; the error of an attempt;
\* and recordUnexpectedFailure.
CreatedRow == [status |-> "PENDING", attempts |-> 0, message |-> FALSE, last |-> 0]
AttemptedRow == [row EXCEPT !.status = "SENDING", !.attempts = @ + 1]
SentRow == [row EXCEPT !.status = "SENT", !.message = TRUE]
ErrorRow == [row EXCEPT !.status = IF IsFinalAttempt THEN "FAILED" ELSE "PENDING"]
FailedRow == [row EXCEPT !.status = "FAILED"]

\* The upsert; then the message is built, or that throws.
CreateDelivery ==
    /\ call.pc = "start"
    /\ row' = CreatedRow
    /\ \E pc \in {"attempt", "fail"} : Goto(pc, 1)
    /\ UNCHANGED <<answer, accepted, events, recorded, applied, lost>>

\* Bug: the loop does not count.
AttemptUncounted ==
    /\ call.pc = "attempt"
    /\ row' = [row EXCEPT !.status = "SENDING"]
    /\ Goto("send", 1)
    /\ UNCHANGED <<answer, accepted, events, recorded, applied, lost>>

Attempt ==
    /\ call.pc = "attempt"
    /\ row' = AttemptedRow
    /\ Goto("send", call.attempt)
    /\ UNCHANGED <<answer, accepted, events, recorded, applied, lost>>

\* The provider accepts the message (or has accepted it: idempotencyKey).
Send ==
    /\ call.pc = "send"
    /\ accepted' = TRUE
    /\ Goto("save", call.attempt)
    /\ UNCHANGED <<row, answer, events, recorded, applied, lost>>

\* It refuses it, for now or for good; or accepts it, and no answer comes.
SendFails ==
    /\ call.pc = "send"
    /\ \/ \E pc \in {"retryable", "permanent"} : Goto(pc, call.attempt) /\ UNCHANGED accepted
       \/ Goto("retryable", call.attempt) /\ accepted' = TRUE
    /\ UNCHANGED <<row, answer, events, recorded, applied, lost>>

SaveSent ==
    /\ call.pc = "save"
    /\ row' = SentRow
    /\ Answer("sent")
    /\ UNCHANGED <<accepted, events, recorded, applied, lost>>

\* That update is inside the try: if it throws, toProviderError calls it a
\* network error, and the message is sent again, saved or not.
SaveFails ==
    /\ call.pc = "save"
    /\ \/ UNCHANGED <<row, lost>>
       \/ row' = SentRow /\ lost' = TRUE
    /\ Goto("retryable", call.attempt)
    /\ UNCHANGED <<answer, accepted, events, recorded, applied>>

\* The error is written to the row; the final one is thrown.
RecordError ==
    /\ call.pc \in {"retryable", "permanent"}
    /\ row' = ErrorRow
    /\ IF IsFinalAttempt THEN Goto("fail", call.attempt) ELSE Goto("attempt", call.attempt + 1)
    /\ UNCHANGED <<answer, accepted, events, recorded, applied, lost>>

\* deliver catches what was thrown and marks the row FAILED.
RecordUnexpectedFailure ==
    /\ call.pc = "fail"
    /\ row' = FailedRow
    /\ Answer("failed")
    /\ UNCHANGED <<accepted, events, recorded, applied, lost>>

\* One of the other updates throws, committed or not: deliver catches that too.
\* With no row that it knows of, or in recordUnexpectedFailure itself, it returns.
DatabaseFails ==
    /\ \/ call.pc = "start" /\ row' \in {row, CreatedRow} /\ Answer("failed")
       \/ call.pc = "fail" /\ row' \in {row, FailedRow} /\ Answer("failed")
       \/ /\ \/ call.pc = "attempt" /\ row' \in {row, AttemptedRow}
             \/ call.pc \in {"retryable", "permanent"} /\ row' \in {row, ErrorRow}
          /\ Goto("fail", call.attempt)
          /\ UNCHANGED answer
    /\ UNCHANGED <<accepted, events, recorded, applied, lost>>

\* The process dies.
Crash ==
    /\ call.pc # "done"
    /\ Goto("done", call.attempt)
    /\ UNCHANGED <<row, answer, accepted, events, recorded, applied, lost>>

-----------------------------------------------------------------------------
(* Resend and its webhook                                                  *)

\* Something happens to the message, and Resend sends an event.
ProviderEvent(outcome) ==
    /\ accepted
    /\ Len(events) < MaxEvents
    /\ events' = Append(events, outcome)
    /\ UNCHANGED <<row, call, answer, accepted, recorded, applied, lost>>

\* Bug: the time of the event is not compared.
MatchesAnyEvent(e) == row.message

\* The row of the message, if the event is newer than the one it shows.
Matches(e) == row.message /\ (row.last = 0 \/ row.last < e)

\* recordEvent, one transaction: the event is recorded (one that is recorded
\* already is answered at once) and written to the row it matches, if any.
RecordEvent(e) ==
    /\ e \notin recorded
    /\ recorded' = recorded \cup {e}
    /\ row' = IF Matches(e) THEN [row EXCEPT !.status = events[e], !.last = e] ELSE row
    /\ applied' = IF row.message THEN applied \cup {e} ELSE applied
    /\ UNCHANGED <<call, answer, accepted, events, lost>>

Deliver ==
    \/ CreateDelivery \/ Attempt \/ Send \/ SendFails \/ SaveSent \/ SaveFails
    \/ RecordError \/ RecordUnexpectedFailure \/ DatabaseFails

Next ==
    \/ Deliver
    \/ Crash
    \/ \E outcome \in Outcome : ProviderEvent(outcome)
    \/ \E e \in EventId : RecordEvent(e)

Spec == Init /\ [][Next]_vars

\* A call of deliver goes on until it returns: the provider's client answers or
\* throws, and so does the database's.
FairSpec == Spec /\ WF_vars(Deliver)

-----------------------------------------------------------------------------
(* Properties                                                              *)

\* The row and the call hold values the code can write; the provider is asked
\* at most three times.
TypeOK ==
    /\ row \in [status : EmailDeliveryStatus \cup {"none"}, attempts : 0..MaxAttempts,
                message : BOOLEAN, last : 0..MaxEvents]
    /\ call \in [pc : {"start", "attempt", "send", "save", "retryable", "permanent", "fail", "done"},
                 attempt : 1..MaxAttempts]
    /\ answer \in {"none", "sent", "failed"}
    /\ accepted \in BOOLEAN
    /\ Len(events) <= MaxEvents /\ \A e \in EventId : events[e] \in Outcome
    /\ recorded \subseteq EventId /\ applied \subseteq recorded
    /\ lost \in BOOLEAN

\* The newest of the events that found the row.
Newest == CHOOSE e \in applied : \A f \in applied : f <= e

\* ADR 0007: "ignore status updates older than the latest recorded provider
\* event": of the events that found their delivery, in whatever order they came,
\* the row is at the newest once deliver has returned, and shows what it says.
\* The one way to another status is attemptDelivery's: the update that saves the
\* message id is committed, its answer is lost, and deliver, which takes that for
\* a failed send, goes on writing attempts over the events that come meanwhile.
NewestEventShown ==
    call.pc = "done" /\ applied # {} =>
        row.last = Newest /\ (row.status = events[Newest] \/ lost)

\* The delivery is well formed and shows the newest event that found it.
DeliveryConsistent == TypeOK /\ NewestEventShown

\* The same without the exception: EmailDeliveryRaces.cfg shows the overwritten
\* outcome.
OutcomeIsKept == call.pc = "done" /\ applied # {} => row.status = events[Newest]

\* ADR 0007: "Provider acceptance and later delivery outcomes are observable in
\* PostgreSQL": once every event is recorded, a delivery that was answered as
\* sent shows the last outcome.
OutcomeIsObservable ==
    answer = "sent" /\ events # <<>> /\ recorded = EventId => row.status = events[Len(events)]

\* A request that waits for deliver gets an answer, however often sending fails.
EveryDeliveryEnds == <>(call.pc = "done")
=============================================================================
