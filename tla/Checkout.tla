------------------------------ MODULE Checkout ------------------------------
(***************************************************************************)
(* Starting a subscription of one organization: the reservation of one     *)
(* pending Checkout session (billing/billing.service.ts), the sessions at  *)
(* Stripe, and the webhook commits that clear the reservation              *)
(* (StripeSync).  Stripe makes one session per requestKey: the key is sent *)
(* as its idempotency key.                                                 *)
(***************************************************************************)
EXTENDS Naturals, FiniteSets

CONSTANTS Key,        \* requestKeys
          Request,
          None        \* no key

ASSUME NoneAssumption == None \notin Key

VARIABLES row,         \* the billing_checkout_sessions row of the organization
          session,     \* Stripe: the session of each key
          intervalOf,  \* the interval each key was reserved for
          subscribed,  \* the local subscription is a managed one
          req,         \* what each request has read and does next
          given,       \* history: sessions answered, with the interval asked for
          cause        \* history: what took the reservation from a session, see Cause

vars == <<row, session, intervalOf, subscribed, req, given, cause>>

Interval == {"MONTHLY", "ANNUAL"}

\* The webhook of an earlier subscription cleared it; the webhook of this one did
\* while requests that had not found a subscription were under way; or a request
\* made its own while a payment had not led to a subscription yet: processCheckout
\* had deleted the one of the payment, or it had expired.
Cause == {"cleared", "overtaken", "unsettled"}
Unsettled(k) == ~subscribed /\ \E j \in Key \ {k} : session[j] = "paid"

\* A reservation is saved once it has its Stripe session, whose expiry it takes
\* over; while it has none it is fresh for CHECKOUT_CREATION_LOCK_MS.
Reservation(key, saved) ==
    [key |-> key, saved |-> saved, fresh |-> ~saved, expired |-> session[key] = "expired"]
NoReservation == [key |-> None, saved |-> FALSE, fresh |-> FALSE, expired |-> FALSE]
Reserved == row.key # None
StaleCreation == ~row.saved /\ ~row.fresh

At(pc, interval, key) == [pc |-> pc, interval |-> interval, key |-> key]
IdleRequest == At("idle", "none", None)
Goto(r, pc, key) == req' = [req EXCEPT ![r] = At(pc, @.interval, key)]
Finish(r) == req' = [req EXCEPT ![r] = IdleRequest]
Answer(r, key) == given' = given \cup {[key |-> key, asked |-> req[r].interval]}

Init ==
    /\ row = NoReservation
    /\ session = [k \in Key |-> "none"]
    /\ intervalOf = [k \in Key |-> "none"]
    /\ subscribed = FALSE
    /\ req = [r \in Request |-> IdleRequest]
    /\ given = {}
    /\ cause = {}

-----------------------------------------------------------------------------
(* createCheckoutSession                                                   *)

\* Bug: nobody looks for a subscription.
BeginAnyway(r, interval) ==
    /\ req[r].pc = "idle"
    /\ req' = [req EXCEPT ![r] = At("look", interval, None)]
    /\ UNCHANGED <<row, session, intervalOf, subscribed, given, cause>>

\* No managed subscription; ensureCustomer finds or creates the customer.
Begin(r, interval) ==
    /\ req[r].pc = "idle"
    /\ ~subscribed
    /\ req' = [req EXCEPT ![r] = At("look", interval, None)]
    /\ UNCHANGED <<row, session, intervalOf, subscribed, given, cause>>

\* reserveCheckout reads the reservation.  None, or one that has expired or was
\* abandoned while its session was being made: it makes its own.
LookForNone(r) ==
    /\ req[r].pc = "look"
    /\ ~Reserved \/ row.expired \/ StaleCreation
    /\ Goto(r, IF Reserved THEN "drop" ELSE "insert", row.key)
    /\ UNCHANGED <<row, session, intervalOf, subscribed, given, cause>>

\* Bug: the interval of the reservation is not compared.
LookAtAnyInterval(r) ==
    /\ req[r].pc = "look"
    /\ Reserved /\ ~row.expired /\ ~StaleCreation
    /\ IF row.saved THEN Answer(r, row.key) /\ Finish(r)
                    ELSE Goto(r, "create", row.key) /\ UNCHANGED given
    /\ UNCHANGED <<row, session, intervalOf, subscribed, cause>>

\* One for the same interval: its session is the answer, or is asked for under
\* the same key.  (Another interval: 409, see Fail.)
LookAtReservation(r) ==
    /\ req[r].pc = "look"
    /\ Reserved /\ ~row.expired /\ ~StaleCreation
    /\ intervalOf[row.key] = req[r].interval
    /\ IF row.saved THEN Answer(r, row.key) /\ Finish(r)
                    ELSE Goto(r, "create", row.key) /\ UNCHANGED given
    /\ UNCHANGED <<row, session, intervalOf, subscribed, cause>>

\* deleteMany of the row read, if it is still expired or abandoned.  An
\* abandoned one that is gone, or has its session by now, is looked at again.
DropReservation(r) ==
    LET matches == row.key = req[r].key /\ (row.expired \/ StaleCreation) IN
    /\ req[r].pc = "drop"
    /\ row' = IF matches THEN NoReservation ELSE row
    /\ \/ Goto(r, "insert", None)
       \/ ~matches /\ Goto(r, "look", None)
    /\ UNCHANGED <<session, intervalOf, subscribed, given, cause>>

\* The row is created with a new requestKey
InsertReservation(r, k) ==
    /\ req[r].pc = "insert"
    /\ ~Reserved
    /\ intervalOf[k] = "none"
    /\ row' = Reservation(k, FALSE)
    /\ intervalOf' = [intervalOf EXCEPT ![k] = req[r].interval]
    /\ Goto(r, "create", k)
    /\ cause' = cause \cup {c \in {"unsettled"} : Unsettled(k)}
    /\ UNCHANGED <<session, subscribed, given>>

\* unless another request made one: it is looked at (three times at most).
InsertRefused(r) ==
    /\ req[r].pc = "insert"
    /\ Reserved
    /\ Goto(r, "look", None)
    /\ UNCHANGED <<row, session, intervalOf, subscribed, given, cause>>

\* Bug: the provider's own name of the state is kept.
CreateSessionRaw(r) ==
    /\ req[r].pc = "create"
    /\ session' = [session EXCEPT ![req[r].key] = IF @ = "none" THEN "complete" ELSE @]
    /\ Goto(r, "save", req[r].key)
    /\ UNCHANGED <<row, intervalOf, subscribed, given, cause>>

\* The provider makes the session of the key, or returns the one it made.
CreateSession(r) ==
    /\ req[r].pc = "create"
    /\ session' = [session EXCEPT ![req[r].key] = IF @ = "none" THEN "open" ELSE @]
    /\ Goto(r, "save", req[r].key)
    /\ UNCHANGED <<row, intervalOf, subscribed, given, cause>>

\* The provider throws (whether or not Stripe made the session): the
\* reservation is dropped if it still has no session.
CreateSessionFails(r) ==
    /\ req[r].pc = "create"
    /\ row' = IF row.key = req[r].key /\ ~row.saved THEN NoReservation ELSE row
    /\ \/ UNCHANGED session
       \/ session' = [session EXCEPT ![req[r].key] = IF @ = "none" THEN "open" ELSE @]
    /\ Finish(r)
    /\ UNCHANGED <<intervalOf, subscribed, given, cause>>

\* Bug: the reservation of another request is overwritten.
SaveOver(r) ==
    /\ req[r].pc = "save"
    /\ row' = Reservation(req[r].key, TRUE)
    /\ Answer(r, req[r].key)
    /\ Finish(r)
    /\ cause' = cause \cup {c \in {"unsettled"} : Unsettled(req[r].key)}
    /\ UNCHANGED <<session, intervalOf, subscribed>>

\* upsert by requestKey: the row is updated, or created again if it is gone.
\* One of another request makes the insert fail (billing_checkout_sessions_
\* organization_id_key), and the request with it.
SaveSession(r) ==
    /\ req[r].pc = "save"
    /\ row.key \in {req[r].key, None}
    /\ row' = Reservation(req[r].key, TRUE)
    /\ Answer(r, req[r].key)
    /\ Finish(r)
    /\ cause' = cause \cup {c \in {"unsettled"} : Unsettled(req[r].key)}
    /\ UNCHANGED <<session, intervalOf, subscribed>>

\* A conflict, a failure or the end of the process.
Fail(r) ==
    /\ req[r].pc # "idle"
    /\ Finish(r)
    /\ UNCHANGED <<row, session, intervalOf, subscribed, given, cause>>

-----------------------------------------------------------------------------
(* The user, the webhook, time                                             *)

\* The user pays in a session the API answered.
Pay(k) ==
    /\ session[k] = "open"
    /\ \E g \in given : g.key = k
    /\ session' = [session EXCEPT ![k] = "paid"]
    /\ UNCHANGED <<row, intervalOf, subscribed, req, given, cause>>

\* processCheckout deletes the reservation by its stripeSessionId, before it asks
\* for the subscription; the event may come again, and too late.
ProcessCheckout(k) ==
    /\ session[k] = "paid"
    /\ row.key = k /\ row.saved
    /\ row' = NoReservation
    /\ UNCHANGED <<session, intervalOf, subscribed, req, given, cause>>

\* syncSubscription commits: for the subscription that was paid, or for an
\* earlier one that has ended (a late event, a refund).
SyncSubscription(managed) ==
    /\ managed => \E k \in Key : session[k] = "paid"
    /\ row' = NoReservation
    /\ subscribed' = (subscribed \/ managed)
    /\ cause' = cause \cup {c \in {"cleared"} : ~managed}
                      \cup {c \in {"overtaken"} : \E r \in Request : req[r].pc # "idle"}
    /\ UNCHANGED <<session, intervalOf, req, given>>

\* CHECKOUT_CREATION_LOCK_MS pass.
LockEnds ==
    /\ Reserved /\ row.fresh
    /\ row' = [row EXCEPT !.fresh = FALSE]
    /\ UNCHANGED <<session, intervalOf, subscribed, req, given, cause>>

\* The session of the reservation expires, and the reservation with it,
ReservationExpires ==
    /\ Reserved /\ ~row.expired
    /\ row' = [row EXCEPT !.expired = TRUE]
    /\ session' = [session EXCEPT ![row.key] = IF @ = "open" THEN "expired" ELSE @]
    /\ UNCHANGED <<intervalOf, subscribed, req, given, cause>>

\* or a session that has lost its reservation does.
SessionExpires(k) ==
    /\ session[k] = "open" /\ row.key # k
    /\ session' = [session EXCEPT ![k] = "expired"]
    /\ UNCHANGED <<row, intervalOf, subscribed, req, given, cause>>

Next ==
    \/ \E r \in Request :
          \/ \E interval \in Interval : Begin(r, interval)
          \/ LookForNone(r) \/ LookAtReservation(r) \/ DropReservation(r)
          \/ \E k \in Key : InsertReservation(r, k)
          \/ InsertRefused(r) \/ CreateSession(r) \/ CreateSessionFails(r) \/ SaveSession(r) \/ Fail(r)
    \/ \E k \in Key : Pay(k) \/ ProcessCheckout(k) \/ SessionExpires(k)
    \/ \E managed \in BOOLEAN : SyncSubscription(managed)
    \/ LockEnds \/ ReservationExpires

Spec == Init /\ [][Next]_vars

-----------------------------------------------------------------------------
(* Properties                                                              *)

\* The reservation, the sessions and the requests hold values the code and
\* Stripe can write.
TypeOK ==
    /\ row \in [key : Key \cup {None}, saved : BOOLEAN, fresh : BOOLEAN, expired : BOOLEAN]
    /\ session \in [Key -> {"none", "open", "paid", "expired"}]
    /\ intervalOf \in [Key -> Interval \cup {"none"}]
    /\ subscribed \in BOOLEAN
    /\ req \in [Request -> [pc : {"idle", "look", "drop", "insert", "create", "save"},
                            interval : Interval \cup {"none"}, key : Key \cup {None}]]
    /\ given \subseteq [key : Key, asked : Interval]
    /\ cause \subseteq Cause

Payable == {k \in Key : session[k] = "open" /\ \E g \in given : g.key = k}

\* ADR 0008, "Reserve one pending Checkout session per organization": until a
\* webhook clears the reservation of another session, or of requests under way,
\* no two sessions can be paid, however requests that find the reservation
\* abandoned, expired or gone interleave.
OnePayableCheckout == cause \subseteq {"unsettled"} => Cardinality(Payable) <= 1

\* An organization pays for two subscriptions only after one of the three events
\* of Cause; the reservation and the look for a subscription stop everything else.
PaidTwiceHasCause == Cardinality({k \in Key : session[k] = "paid"}) > 1 => cause # {}

\* "reject a competing interval": nobody is answered a session of the other one.
AnsweredAsAsked == \A g \in given : intervalOf[g.key] = g.asked

\* Without a reservation cleared or overtaken one session can be paid, and each answer is a
\* session of the interval that was asked for.
CheckoutConsistent == TypeOK /\ OnePayableCheckout /\ AnsweredAsAsked

\* ADR 0008: "Allow one subscription per organization."
OneSubscription == Cardinality({k \in Key : session[k] = "paid"}) <= 1
=============================================================================
