---------------------------- MODULE BillingProofs ----------------------------
(***************************************************************************)
(* Theorems about Checkout and StripeSync, for any sets of keys, requests  *)
(* and handlers and any number of subscriptions and events.                *)
(*                                                                         *)
(* Checkout.  The reservation decides which session may be paid: while no  *)
(* webhook has cleared one it should have left, every session that was     *)
(* answered and is still open is the one of the row (PayableIsReserved),   *)
(* so there is one.  The webhook of the payment itself clears the row too; *)
(* then the subscription is there and no request is under way that would   *)
(* not see it (SubscribedIsQuiet), so that what could be paid at that      *)
(* moment stays alone (OnePayable).  Paying twice needs the same of the    *)
(* sessions that were paid: until the subscription is there, no other key  *)
(* has taken their place (PaidIsReserved, OnePaid).  Under both lies what a request and the row  *)
(* know of a key (Carries, RowIsSound): its interval, and that a saved row *)
(* has a session and expires with it.                                      *)
(*                                                                         *)
(* StripeSync.  A subscription begins without a trial only when one is     *)
(* remembered, so until one is nothing was written (WrittenIsRemembered),  *)
(* and a handler that left its event to an older one may record it.  While *)
(* handlers do not overlap, the row one has read is there at its commit    *)
(* (LoneReads), hence the row only moves to newer events, and what was     *)
(* handled is no newer than it (HandledIsWritten).  A status that was      *)
(* retrieved or written is Stripe's until an event tells of a change       *)
(* (Fresh); with every event handled, that one shares its second.          *)
(***************************************************************************)
EXTENDS Checkout, FiniteSetTheorems, SequenceTheorems, TLAPS

RowState == [key : Key \cup {None}, saved : BOOLEAN, fresh : BOOLEAN, expired : BOOLEAN]
RequestState == [pc : {"idle", "look", "drop", "insert", "create", "save"},
                 interval : Interval \cup {"none"}, key : Key \cup {None}]

\* A request has the key of a reservation for the interval it was asked for.
Carries(q) ==
    /\ q.pc # "idle" => q.interval \in Interval
    /\ q.pc \in {"create", "save"} => q.key \in Key /\ intervalOf[q.key] = q.interval
    /\ q.pc = "save" => session[q.key] # "none"
RequestsCarry == \A r \in Request : Carries(req[r])

\* A saved row has a session and has expired only with it.
RowIsSound ==
    row.saved => /\ row.key \in Key /\ session[row.key] # "none"
                 /\ row.expired => session[row.key] # "open"

\* What is answered is a session that was made.
AnswersAreMade == \A g \in given : session[g.key] # "none"

IInv == TypeOK /\ RequestsCarry /\ RowIsSound /\ AnsweredAsAsked /\ AnswersAreMade

Paid == {k \in Key : session[k] = "paid"}
Holds(k) == row.key = k /\ row.saved

PayableIsReserved == cause \subseteq {"unsettled"} /\ ~subscribed => \A k \in Payable : Holds(k)
SubscribedIsQuiet == cause \subseteq {"unsettled"} /\ subscribed => \A r \in Request : req[r].pc = "idle"
OnePayable == cause \subseteq {"unsettled"} => \A j, k \in Payable : j = k

PaidIsReserved == cause = {} /\ ~subscribed => \A k \in Paid : row.key \in {k, None}
OnePaid == cause = {} => \A j, k \in Payable \cup Paid : j = k

CInv == IInv /\ PayableIsReserved /\ SubscribedIsQuiet /\ OnePayable /\ PaidIsReserved /\ OnePaid

-----------------------------------------------------------------------------
(* Sessions, reservations, requests                                        *)

\* What every step does to the keys: a session stays made, is opened once, and
\* keeps its interval.
Moves(st, iv) ==
    /\ st \in [Key -> {"none", "open", "paid", "expired"}] /\ iv \in [Key -> Interval \cup {"none"}]
    /\ \A k \in Key : /\ session[k] # "none" => st[k] # "none"
                      /\ st[k] = "open" => session[k] \in {"none", "open"}
                      /\ intervalOf[k] # "none" => iv[k] = intervalOf[k]

\* A step that leaves the keys alone.
LEMMA NoMove == ASSUME TypeOK PROVE Moves(session, intervalOf)
BY DEF TypeOK, Moves

\* CreateSession opens a session, the user or time closes it.
LEMMA SessionMoves ==
    ASSUME TypeOK, NEW k \in Key, NEW st \in {"open", "paid", "expired"},
           st = "open" => session[k] \in {"none", "open"}
    PROVE  Moves([session EXCEPT ![k] = st], intervalOf)
BY DEF TypeOK, Moves

\* A request is given a new state.
LEMMA RequestStep ==
    ASSUME IInv, NEW r \in Request, NEW q \in RequestState, req' = [req EXCEPT ![r] = q],
           Moves(session', intervalOf'),
           q.pc # "idle" => q.interval \in Interval,
           q.pc \in {"create", "save"} => q.key \in Key /\ intervalOf'[q.key] = q.interval,
           q.pc = "save" => session'[q.key] # "none"
    PROVE  /\ req' \in [Request -> RequestState] /\ RequestsCarry'
           /\ \A s \in Request : req'[s] = IF s = r THEN q ELSE req[s]
<1>1. req \in [Request -> RequestState]
  BY DEF IInv, TypeOK, RequestState
<1>2. req' \in [Request -> RequestState] /\ \A s \in Request : req'[s] = IF s = r THEN q ELSE req[s]
  BY <1>1
<1>3. ASSUME NEW s \in Request PROVE Carries(req[s])'
  <2>1. CASE s = r
    BY <1>2, <2>1 DEF Carries
  <2>2. CASE s # r
    <3>1. Carries(req[s]) /\ req'[s] = req[s]
      BY <1>2, <2>2 DEF IInv, RequestsCarry
    <3>2. "none" \notin Interval
      BY DEF Interval
    <3> QED
      BY <3>1, <3>2 DEF Carries, Moves
  <2> QED
    BY <2>1, <2>2
<1> QED
  BY <1>2, <1>3 DEF RequestsCarry

\* No request moves.
LEMMA RequestsKept ==
    ASSUME IInv, UNCHANGED req, Moves(session', intervalOf') PROVE RequestsCarry'
<1> SUFFICES ASSUME NEW s \in Request PROVE Carries(req[s])'
  BY DEF RequestsCarry
<1>1. Carries(req[s]) /\ "none" \notin Interval
  BY DEF IInv, RequestsCarry, Interval
<1> QED
  BY <1>1 DEF Carries, Moves

\* What At makes.
LEMMA AtType ==
    ASSUME NEW pc \in {"idle", "look", "drop", "insert", "create", "save"},
           NEW interval \in Interval \cup {"none"}, NEW key \in Key \cup {None}
    PROVE  /\ At(pc, interval, key) \in RequestState
           /\ At(pc, interval, key).pc = pc /\ At(pc, interval, key).interval = interval
           /\ At(pc, interval, key).key = key
BY DEF At, RequestState

\* A request goes on.
LEMMA GotoStep ==
    ASSUME IInv, NEW r \in Request, req[r].pc # "idle", Moves(session', intervalOf'),
           NEW pc \in {"look", "drop", "insert", "create", "save"}, NEW key \in Key \cup {None},
           Goto(r, pc, key),
           pc \in {"create", "save"} => key \in Key /\ intervalOf'[key] = req[r].interval,
           pc = "save" => session'[key] # "none"
    PROVE  /\ req' \in [Request -> RequestState] /\ RequestsCarry'
           /\ \A s \in Request : s # r => req'[s] = req[s]
<1>1. req[r].interval \in Interval
  BY DEF IInv, RequestsCarry, Carries
<1> DEFINE q == At(pc, req[r].interval, key)
<1>2. q \in RequestState /\ q.pc = pc /\ q.interval = req[r].interval /\ q.key = key
  BY <1>1, AtType
<1>3. req' = [req EXCEPT ![r] = q]
  BY DEF Goto, IInv, TypeOK
<1> HIDE DEF q
<1> QED
  BY <1>1, <1>2, <1>3, RequestStep

\* A request ends.
LEMMA FinishStep ==
    ASSUME IInv, NEW r \in Request, Finish(r), Moves(session', intervalOf')
    PROVE  /\ req' \in [Request -> RequestState] /\ RequestsCarry'
           /\ \A s \in Request : req'[s].pc # "idle" => s # r /\ req'[s] = req[s]
<1>1. IdleRequest \in RequestState /\ IdleRequest.pc = "idle"
  BY AtType DEF IdleRequest
<1> QED
  BY <1>1, RequestStep DEF Finish

\* The row of a reservation, saved or not.
LEMMA ReservationType ==
    ASSUME NEW k \in Key, NEW saved \in BOOLEAN
    PROVE  /\ Reservation(k, saved) \in RowState /\ Reservation(k, saved).key = k
           /\ Reservation(k, saved).saved = saved
           /\ Reservation(k, saved).expired = (session[k] = "expired")
BY DEF Reservation, RowState

\* The row when there is none.
LEMMA NoReservationType ==
    NoReservation \in RowState /\ NoReservation.key = None /\ NoReservation.saved = FALSE
BY DEF NoReservation, RowState

\* The row stays, or goes.
LEMMA RowKept ==
    ASSUME IInv, Moves(session', intervalOf'), row' = row \/ row' = NoReservation
    PROVE  row' \in RowState /\ RowIsSound'
<1>1. CASE row' = row
  BY <1>1 DEF IInv, TypeOK, RowIsSound, Moves, RowState
<1>2. CASE row' = NoReservation
  BY <1>2, NoReservationType DEF RowIsSound
<1> QED
  BY <1>1, <1>2

\* An answer is of the interval that was asked for.
LEMMA AnswersKept ==
    ASSUME IInv, Moves(session', intervalOf'), given' \subseteq [key : Key, asked : Interval],
           \A g \in given' : g \in given \/ (intervalOf'[g.key] = g.asked /\ session'[g.key] # "none")
    PROVE  AnsweredAsAsked' /\ AnswersAreMade'
<1> SUFFICES ASSUME NEW g \in given, g \in given' 
             PROVE  intervalOf'[g.key] = g.asked /\ session'[g.key] # "none"
  BY DEF AnsweredAsAsked, AnswersAreMade
<1>1. intervalOf[g.key] = g.asked /\ session[g.key] # "none" /\ g.key \in Key /\ g.asked # "none"
  BY DEF IInv, AnsweredAsAsked, AnswersAreMade, TypeOK, Interval
<1> QED
  BY <1>1 DEF Moves

-----------------------------------------------------------------------------
(* The invariant of every run                                              *)

\* The parts of a step, put together.
LEMMA IInvStep ==
    ASSUME IInv, Moves(session', intervalOf'), row' \in RowState, RowIsSound',
           req' \in [Request -> RequestState], RequestsCarry',
           given' \subseteq [key : Key, asked : Interval],
           \A g \in given' : g \in given \/ (intervalOf'[g.key] = g.asked /\ session'[g.key] # "none"),
           subscribed' \in BOOLEAN, cause' \subseteq Cause
    PROVE  IInv'
<1>1. AnsweredAsAsked' /\ AnswersAreMade'
  BY AnswersKept
<1>2. TypeOK'
  BY DEF TypeOK, Moves, RowState, RequestState
<1> QED
  BY <1>1, <1>2 DEF IInv

\* An organization that never checked out.
LEMMA InitIInv == Init => IInv
<1> SUFFICES ASSUME Init PROVE IInv
  OBVIOUS
<1>1. IdleRequest \in RequestState /\ IdleRequest.pc = "idle"
  BY AtType DEF IdleRequest
<1>2. req \in [Request -> RequestState] /\ \A r \in Request : req[r] = IdleRequest
  BY <1>1 DEF Init
<1>3. RequestsCarry
  BY <1>1, <1>2 DEF RequestsCarry, Carries
<1>4. row \in RowState /\ RowIsSound
  BY NoReservationType DEF Init, RowIsSound
<1>5. TypeOK
  BY <1>2, <1>4 DEF Init, TypeOK, RowState, RequestState
<1> QED
  BY <1>3, <1>4, <1>5 DEF IInv, Init, AnsweredAsAsked, AnswersAreMade

\* createCheckoutSession up to the call of the provider.
LEMMA BeginIInv ==
    ASSUME IInv, NEW r \in Request, NEW interval \in Interval, Begin(r, interval)
    PROVE  IInv'
<1>1. TypeOK /\ Moves(session', intervalOf') /\ row' = row
  BY NoMove DEF Begin, IInv, Moves
<1> DEFINE q == At("look", interval, None)
<1>2. q \in RequestState /\ q.pc = "look" /\ q.interval = interval
  BY AtType
<1>3. req' \in [Request -> RequestState] /\ RequestsCarry'
  BY <1>1, <1>2, RequestStep DEF Begin
<1> QED
  BY <1>1, <1>3, RowKept, IInvStep DEF Begin, TypeOK

\* A request that found none in use goes on to make its own.
LEMMA LookForNoneIInv == ASSUME IInv, NEW r \in Request, LookForNone(r) PROVE IInv'
<1>1. TypeOK /\ Moves(session', intervalOf') /\ row' = row /\ row.key \in Key \cup {None}
  BY NoMove DEF LookForNone, IInv, Moves, TypeOK
<1>2. req' \in [Request -> RequestState] /\ RequestsCarry'
  BY <1>1, GotoStep DEF LookForNone
<1> QED
  BY <1>1, <1>2, RowKept, IInvStep DEF LookForNone, TypeOK

\* An answer of the session of key, to a request for its interval.
LEMMA AnswerType ==
    ASSUME TypeOK, NEW r \in Request, NEW key \in Key, Answer(r, key), req[r].interval \in Interval,
           intervalOf'[key] = req[r].interval, session'[key] # "none"
    PROVE  /\ given' \subseteq [key : Key, asked : Interval]
           /\ \A g \in given' : g \in given \/ (intervalOf'[g.key] = g.asked /\ session'[g.key] # "none")
BY DEF TypeOK, Answer

\* One for the same interval is answered, or its key is gone on with.
LEMMA LookAtReservationIInv == ASSUME IInv, NEW r \in Request, LookAtReservation(r) PROVE IInv'
<1>1. TypeOK /\ Moves(session', intervalOf') /\ row' = row /\ row.key \in Key
  BY NoMove DEF LookAtReservation, IInv, Moves, TypeOK, Reserved
<1>2. req[r].interval \in Interval /\ intervalOf'[row.key] = req[r].interval /\ req[r].pc # "idle"
  BY DEF LookAtReservation, IInv, RequestsCarry, Carries
<1>3. req' \in [Request -> RequestState] /\ RequestsCarry'
  <2>1. CASE row.saved
    BY <1>1, <2>1, FinishStep DEF LookAtReservation
  <2>2. CASE ~row.saved
    BY <1>1, <1>2, <2>2, GotoStep DEF LookAtReservation
  <2> QED
    BY <2>1, <2>2
<1>4. /\ given' \subseteq [key : Key, asked : Interval]
      /\ \A g \in given' : g \in given \/ (intervalOf'[g.key] = g.asked /\ session'[g.key] # "none")
  <2>1. CASE row.saved
    BY <1>1, <1>2, <2>1, AnswerType DEF LookAtReservation, IInv, RowIsSound
  <2>2. CASE ~row.saved
    BY <1>1, <2>2 DEF LookAtReservation, TypeOK
  <2> QED
    BY <2>1, <2>2
<1>5. subscribed' \in BOOLEAN /\ cause' \subseteq Cause
  BY <1>1 DEF LookAtReservation, TypeOK
<1> QED
  BY <1>1, <1>3, <1>4, <1>5, RowKept, IInvStep

\* An expired or abandoned reservation is dropped if it still is one.
LEMMA DropReservationIInv == ASSUME IInv, NEW r \in Request, DropReservation(r) PROVE IInv'
<1>1. TypeOK /\ Moves(session', intervalOf') /\ req[r].pc # "idle"
  BY NoMove DEF DropReservation, IInv, Moves
<1>2. row' = row \/ row' = NoReservation
  BY DEF DropReservation
<1>3. req' \in [Request -> RequestState] /\ RequestsCarry'
  <2>1. Goto(r, "insert", None) \/ Goto(r, "look", None)
    BY DEF DropReservation
  <2> QED
    BY <1>1, <2>1, GotoStep
<1> QED
  BY <1>1, <1>2, <1>3, RowKept, IInvStep DEF DropReservation, TypeOK

\* A new key gets the interval of the request.
LEMMA InsertReservationIInv ==
    ASSUME IInv, NEW r \in Request, NEW k \in Key, InsertReservation(r, k) PROVE IInv'
<1>1. TypeOK /\ req[r].interval \in Interval /\ req[r].pc # "idle"
  BY DEF InsertReservation, IInv, RequestsCarry, Carries
<1>2. Moves(session', intervalOf') /\ intervalOf'[k] = req[r].interval
  BY <1>1 DEF InsertReservation, TypeOK, Moves
<1>3. req' \in [Request -> RequestState] /\ RequestsCarry'
  BY <1>1, <1>2, GotoStep DEF InsertReservation
<1>4. row' \in RowState /\ RowIsSound'
  BY ReservationType DEF InsertReservation, RowIsSound
<1> QED
  BY <1>1, <1>2, <1>3, <1>4, IInvStep DEF InsertReservation, TypeOK, Cause

\* The row is there already: the request looks again.
LEMMA InsertRefusedIInv == ASSUME IInv, NEW r \in Request, InsertRefused(r) PROVE IInv'
<1>1. TypeOK /\ Moves(session', intervalOf') /\ row' = row
  BY NoMove DEF InsertRefused, IInv, Moves
<1>2. req' \in [Request -> RequestState] /\ RequestsCarry'
  BY <1>1, GotoStep DEF InsertRefused
<1> QED
  BY <1>1, <1>2, RowKept, IInvStep DEF InsertRefused, TypeOK

\* The provider makes the session of a key, or has made it.
LEMMA MadeMoves ==
    ASSUME IInv, NEW k \in Key, UNCHANGED intervalOf,
           session' = [session EXCEPT ![k] = IF @ = "none" THEN "open" ELSE @]
    PROVE  Moves(session', intervalOf') /\ session'[k] # "none"
BY DEF IInv, TypeOK, Moves

\* Stripe answers with the session of the key.
LEMMA CreateSessionIInv == ASSUME IInv, NEW r \in Request, CreateSession(r) PROVE IInv'
<1> DEFINE k == req[r].key
<1>1. TypeOK /\ k \in Key /\ intervalOf[k] = req[r].interval /\ row' = row
  BY DEF CreateSession, IInv, RequestsCarry, Carries
<1>2. Moves(session', intervalOf') /\ session'[k] # "none" /\ intervalOf' = intervalOf
  BY <1>1, MadeMoves DEF CreateSession
<1>3. req' \in [Request -> RequestState] /\ RequestsCarry'
  BY <1>1, <1>2, GotoStep DEF CreateSession
<1> QED
  BY <1>1, <1>2, <1>3, RowKept, IInvStep DEF CreateSession, TypeOK

\* Stripe throws, and the reservation that was not saved goes.
LEMMA CreateSessionFailsIInv == ASSUME IInv, NEW r \in Request, CreateSessionFails(r) PROVE IInv'
<1>1. TypeOK /\ req[r].key \in Key
  BY DEF CreateSessionFails, IInv, RequestsCarry, Carries
<1>2. Moves(session', intervalOf')
  BY <1>1, NoMove, MadeMoves DEF CreateSessionFails, Moves
<1>3. req' \in [Request -> RequestState] /\ RequestsCarry'
  BY <1>1, <1>2, FinishStep DEF CreateSessionFails
<1>4. row' = row \/ row' = NoReservation
  BY DEF CreateSessionFails
<1> QED
  BY <1>1, <1>2, <1>3, <1>4, RowKept, IInvStep DEF CreateSessionFails, TypeOK

\* The session is saved in the row and answered.
LEMMA SaveSessionIInv == ASSUME IInv, NEW r \in Request, SaveSession(r) PROVE IInv'
<1> DEFINE k == req[r].key
<1>1. /\ TypeOK /\ k \in Key /\ intervalOf[k] = req[r].interval /\ req[r].interval \in Interval
      /\ session[k] # "none" /\ UNCHANGED <<session, intervalOf>>
  BY DEF SaveSession, IInv, RequestsCarry, Carries
<1>2. Moves(session', intervalOf')
  BY <1>1, NoMove DEF Moves
<1>3. req' \in [Request -> RequestState] /\ RequestsCarry'
  BY <1>1, <1>2, FinishStep DEF SaveSession
<1>4. row' \in RowState /\ RowIsSound'
  <2>1. row' = Reservation(k, TRUE)
    BY DEF SaveSession
  <2>2. row' \in RowState /\ row'.key = k /\ row'.saved /\ row'.expired = (session[k] = "expired")
    BY <1>1, <2>1, ReservationType
  <2> QED
    BY <1>1, <2>2 DEF RowIsSound
<1>5. /\ given' \subseteq [key : Key, asked : Interval]
      /\ \A g \in given' : g \in given \/ (intervalOf'[g.key] = g.asked /\ session'[g.key] # "none")
  BY <1>1, AnswerType DEF SaveSession
<1>6. subscribed' \in BOOLEAN /\ cause' \subseteq Cause
  BY <1>1 DEF SaveSession, TypeOK, Cause
<1> QED
  BY <1>2, <1>3, <1>4, <1>5, <1>6, IInvStep

\* The request fails and leaves the row as it is.
LEMMA FailIInv == ASSUME IInv, NEW r \in Request, Fail(r) PROVE IInv'
<1>1. TypeOK /\ Moves(session', intervalOf') /\ row' = row
  BY NoMove DEF Fail, IInv, Moves
<1>2. req' \in [Request -> RequestState] /\ RequestsCarry'
  BY <1>1, FinishStep DEF Fail
<1> QED
  BY <1>1, <1>2, RowKept, IInvStep DEF Fail, TypeOK

\* The user, the webhook and time.
LEMMA OthersIInv ==
    ASSUME IInv,
           \/ \E k \in Key : Pay(k) \/ ProcessCheckout(k) \/ SessionExpires(k)
           \/ \E managed \in BOOLEAN : SyncSubscription(managed)
           \/ LockEnds \/ ReservationExpires
    PROVE  IInv'
<1>0. TypeOK /\ Moves(session, intervalOf) /\ req \in [Request -> RequestState]
  BY NoMove DEF IInv, TypeOK, RequestState
<1>1. ASSUME NEW k \in Key, Pay(k) \/ SessionExpires(k) PROVE IInv'
  <2>1. Moves(session', intervalOf') /\ UNCHANGED <<row, req, given, subscribed, cause>>
    BY <1>0, <1>1, SessionMoves DEF Pay, SessionExpires
  <2> QED
    BY <1>0, <2>1, RequestsKept, RowKept, IInvStep DEF TypeOK
<1>2. ASSUME NEW managed \in BOOLEAN, SyncSubscription(managed) PROVE IInv'
  <2>1. UNCHANGED <<session, intervalOf, req, given>> /\ row' = NoReservation /\ cause' \subseteq Cause
    BY <1>0, <1>2 DEF SyncSubscription, TypeOK, Cause
  <2>2. subscribed' \in BOOLEAN
    BY <1>2 DEF SyncSubscription
  <2>3. Moves(session', intervalOf')
    BY <1>0, <2>1 DEF Moves
  <2> QED
    BY <1>0, <2>1, <2>2, <2>3, RequestsKept, RowKept, IInvStep DEF TypeOK
<1>3. ASSUME LockEnds PROVE IInv'
  <2>1. UNCHANGED <<session, intervalOf, subscribed, req, given, cause>>
    BY <1>3 DEF LockEnds
  <2>2. Moves(session', intervalOf')
    BY <1>0, <2>1 DEF Moves
  <2>3. /\ row' \in RowState /\ row'.key = row.key
        /\ row'.saved = row.saved /\ row'.expired = row.expired
    BY <1>0, <1>3 DEF LockEnds, TypeOK, RowState
  <2>4. RowIsSound'
    BY <2>1, <2>3 DEF IInv, RowIsSound
  <2> QED
    BY <1>0, <2>1, <2>2, <2>3, <2>4, RequestsKept, IInvStep DEF TypeOK
<1>4. ASSUME ReservationExpires PROVE IInv'
  <2>1. UNCHANGED <<intervalOf, subscribed, req, given>> /\ cause' \subseteq Cause
    BY <1>0, <1>4 DEF ReservationExpires, TypeOK, Cause
  <2>2. row.key \in Key
    BY <1>0, <1>4 DEF ReservationExpires, TypeOK, Reserved
  <2>3. Moves(session', intervalOf') /\ session'[row.key] # "open"
    BY <1>0, <1>4, <2>2 DEF ReservationExpires, TypeOK, Moves
  <2>4. row' \in RowState /\ row'.key = row.key /\ row'.saved = row.saved
    BY <1>0, <1>4 DEF ReservationExpires, TypeOK, RowState
  <2>5. RowIsSound'
    BY <2>2, <2>3, <2>4 DEF IInv, RowIsSound, Moves
  <2> QED
    BY <1>0, <2>1, <2>3, <2>4, <2>5, RequestsKept, IInvStep DEF TypeOK
<1>5. ASSUME NEW k \in Key, ProcessCheckout(k) PROVE IInv'
  <2>1. UNCHANGED <<session, intervalOf, subscribed, req, given, cause>> /\ row' = NoReservation
    BY <1>5 DEF ProcessCheckout
  <2>2. Moves(session', intervalOf')
    BY <1>0, <2>1 DEF Moves
  <2> QED
    BY <1>0, <2>1, <2>2, RequestsKept, RowKept, IInvStep DEF TypeOK
<1> QED
  BY <1>1, <1>2, <1>3, <1>4, <1>5

\* Every step keeps the facts about keys, requests and the row.
LEMMA NextIInv == IInv /\ [Next]_vars => IInv'
<1> SUFFICES ASSUME IInv, [Next]_vars PROVE IInv'
  OBVIOUS
<1>1. CASE UNCHANGED vars
  BY <1>1 DEF vars, IInv, TypeOK, RequestsCarry, Carries, RowIsSound, AnsweredAsAsked,
              AnswersAreMade
<1> QED
  BY <1>1, BeginIInv, LookForNoneIInv, LookAtReservationIInv, DropReservationIInv,
     InsertReservationIInv, InsertRefusedIInv, CreateSessionIInv, CreateSessionFailsIInv,
     SaveSessionIInv, FailIInv, OthersIInv
  DEF Next

-----------------------------------------------------------------------------
(* One session to pay                                                      *)

\* Nothing is payable before the first checkout.
LEMMA InitCInv == Init => CInv
BY InitIInv DEF Init, CInv, PayableIsReserved, SubscribedIsQuiet, OnePayable, PaidIsReserved, OnePaid,
                Payable, Paid, IdleRequest, At

Races == PayableIsReserved /\ SubscribedIsQuiet /\ OnePayable /\ PaidIsReserved /\ OnePaid

\* What has to be shown of a step that is not the webhook of a payment.
LEMMA RacesStep ==
    ASSUME CInv, UNCHANGED subscribed, cause \subseteq cause',
           cause' \subseteq {"unsettled"} /\ subscribed =>
               /\ \A s \in Request : req'[s].pc = "idle"
               /\ \A k \in Payable' : k \in Payable,
           \A k \in Paid' : k \in Paid \/ k \in Payable,
           cause' \subseteq {"unsettled"} /\ ~subscribed => \A k \in Payable' : Holds(k)',
           cause' = {} /\ ~subscribed => \A k \in Paid' : row'.key \in {k, None}
    PROVE  Races'
<1>1. PayableIsReserved' /\ SubscribedIsQuiet' /\ PaidIsReserved'
  BY DEF PayableIsReserved, SubscribedIsQuiet, PaidIsReserved
<1>2. OnePayable'
  BY DEF CInv, OnePayable, Holds
<1>3. ASSUME cause' = {}, NEW j \in Payable' \cup Paid', NEW k \in Payable' \cup Paid' PROVE j = k
  <2>0. cause = {} /\ j \in Key /\ k \in Key
    BY <1>3 DEF Payable, Paid
  <2>1. CASE subscribed
    BY <1>3, <2>0, <2>1 DEF CInv, OnePaid
  <2>2. CASE ~subscribed
    <3>1. j \in Paid' /\ k \in Paid' => j = k
      BY <2>0 DEF CInv, OnePaid
    <3>2. \A i \in Payable' : row'.key = i
      BY <1>3, <2>2 DEF Holds
    <3>3. \A i \in Paid' : row'.key \in {i, None}
      BY <1>3, <2>2
    <3> QED
      BY <1>3, <2>0, <3>1, <3>2, <3>3, NoneAssumption
  <2> QED
    BY <2>1, <2>2
<1>4. OnePaid'
  BY <1>3 DEF OnePaid
<1> QED
  BY <1>1, <1>2, <1>4 DEF Races

\* A request runs only while there is no subscription, or was overtaken by it.
LEMMA RequestRaces ==
    ASSUME CInv, NEW r \in Request, req[r].pc # "idle" \/ ~subscribed, UNCHANGED subscribed,
           cause \subseteq cause', \A k \in Paid' : k \in Paid,
           cause' \subseteq {"unsettled"} /\ ~subscribed => \A k \in Payable' : Holds(k)',
           cause' = {} /\ ~subscribed => \A k \in Paid' : row'.key \in {k, None}
    PROVE  Races'
<1>1. cause \subseteq {"unsettled"} => ~subscribed
  BY DEF CInv, SubscribedIsQuiet
<1> QED
  BY <1>1, RacesStep

\* A step of a request that neither answers nor takes the reservation of a session.
LEMMA PlainRaces ==
    ASSUME CInv, NEW r \in Request, req[r].pc # "idle" \/ ~subscribed, UNCHANGED <<subscribed, cause>>,
           \A k \in Payable' : k \in Payable, \A k \in Paid' : k \in Paid,
           row' = row \/ (~row.saved /\ row'.key = None)
    PROVE  Races'
<1>1. ASSUME cause \subseteq {"unsettled"} /\ ~subscribed, NEW k \in Payable' PROVE Holds(k)'
  BY <1>1 DEF CInv, PayableIsReserved, Holds
<1>2. ASSUME cause = {} /\ ~subscribed, NEW k \in Paid' PROVE row'.key \in {k, None}
  BY <1>2 DEF CInv, PaidIsReserved
<1> QED
  BY <1>1, <1>2, RequestRaces

\* The requests before they have a reservation.
LEMMA EarlyRaces ==
    ASSUME CInv, NEW r \in Request,
           \/ \E interval \in Interval : Begin(r, interval)
           \/ LookForNone(r) \/ InsertRefused(r) \/ Fail(r)
    PROVE  Races'
<1>1. req[r].pc # "idle" \/ ~subscribed
  BY DEF Begin, LookForNone, InsertRefused, Fail
<1>2. UNCHANGED <<row, session, given, subscribed, cause>>
  BY DEF Begin, LookForNone, InsertRefused, Fail
<1>3. (\A k \in Payable' : k \in Payable) /\ (\A k \in Paid' : k \in Paid)
  BY <1>2 DEF Payable, Paid
<1> QED
  BY <1>1, <1>2, <1>3, PlainRaces

\* The reservation is made where there is none, and names a cause when a payment
\* of another session is unsettled.
LEMMA InsertReservationRaces ==
    ASSUME CInv, NEW r \in Request, NEW p \in Key, InsertReservation(r, p) PROVE Races'
<1>1. req[r].pc # "idle" /\ UNCHANGED <<session, given, subscribed>> /\ cause \subseteq cause'
  BY DEF InsertReservation
<1>2. Payable' = Payable /\ Paid' = Paid
  BY <1>1 DEF Payable, Paid
<1>3. ~row.saved
  BY NoneAssumption DEF InsertReservation, Reserved, CInv, IInv, RowIsSound
<1>4. ASSUME cause' \subseteq {"unsettled"} /\ ~subscribed, NEW k \in Payable' PROVE Holds(k)'
  BY <1>1, <1>2, <1>3, <1>4 DEF CInv, PayableIsReserved, Holds
<1>5. ASSUME cause' = {} /\ ~subscribed, NEW k \in Paid' PROVE row'.key \in {k, None}
  <2>1. k \in Key /\ session[k] = "paid"
    BY <1>2 DEF Paid
  <2>2. ~Unsettled(p)
    BY <1>5 DEF InsertReservation
  <2>3. row'.key = p
    BY ReservationType DEF InsertReservation
  <2> QED
    BY <1>5, <2>1, <2>2, <2>3 DEF Unsettled
<1> QED
  BY <1>1, <1>2, <1>4, <1>5, RequestRaces

\* The provider is asked for a session nobody was answered yet.
LEMMA MadeIsNotPayable ==
    ASSUME IInv, NEW key \in Key, UNCHANGED given,
           \/ UNCHANGED session
           \/ session' = [session EXCEPT ![key] = IF @ = "none" THEN "open" ELSE @]
    PROVE  (\A k \in Payable' : k \in Payable) /\ (\A k \in Paid' : k \in Paid)
<1>1. \A k \in Key : session'[k] = session[k] \/ (session[k] = "none" /\ session'[k] = "open")
  BY DEF IInv, TypeOK
<1>2. \A k \in Key : session[k] = "none" => ~\E g \in given : g.key = k
  BY DEF IInv, AnswersAreMade
<1> QED
  BY <1>1, <1>2 DEF Payable, Paid

\* A session that was not answered yet is not payable.
LEMMA CreateRaces ==
    ASSUME CInv, NEW r \in Request, CreateSession(r) \/ CreateSessionFails(r) PROVE Races'
<1>1. IInv /\ req[r].pc # "idle" /\ req[r].key \in Key
  BY DEF CInv, IInv, RequestsCarry, Carries, CreateSession, CreateSessionFails
<1>2. UNCHANGED <<given, subscribed, cause>> /\ (row' = row \/ (~row.saved /\ row'.key = None))
  BY NoReservationType DEF CreateSession, CreateSessionFails
<1>3. \/ UNCHANGED session
      \/ session' = [session EXCEPT ![req[r].key] = IF @ = "none" THEN "open" ELSE @]
  BY DEF CreateSession, CreateSessionFails
<1>4. (\A k \in Payable' : k \in Payable) /\ (\A k \in Paid' : k \in Paid)
  BY <1>1, <1>2, <1>3, MadeIsNotPayable
<1> QED
  BY <1>1, <1>2, <1>4, PlainRaces

\* The session of the reservation is answered.
LEMMA LookAtReservationRaces == ASSUME CInv, NEW r \in Request, LookAtReservation(r) PROVE Races'
<1>1. req[r].pc # "idle" /\ UNCHANGED <<row, session, subscribed, cause>>
  BY DEF LookAtReservation
<1>2. \A g \in given' : g \in given \/ (row.saved /\ g.key = row.key)
  BY DEF LookAtReservation, Answer
<1>3. \A k \in Payable' : k \in Payable \/ Holds(k)
  BY <1>1, <1>2 DEF Payable, Holds
<1>4. ASSUME cause \subseteq {"unsettled"} /\ ~subscribed, NEW k \in Payable' PROVE Holds(k)'
  BY <1>1, <1>3, <1>4 DEF CInv, PayableIsReserved, Holds
<1>5. ASSUME cause = {} /\ ~subscribed, NEW k \in Paid' PROVE row'.key \in {k, None}
  BY <1>1, <1>5 DEF CInv, PaidIsReserved, Paid
<1>6. \A k \in Paid' : k \in Paid
  BY <1>1 DEF Paid
<1> QED
  BY <1>1, <1>6, <1>4, <1>5, RequestRaces

\* A reservation is dropped only when its session is no longer to be paid.
LEMMA DropReservationRaces == ASSUME CInv, NEW r \in Request, DropReservation(r) PROVE Races'
<1>1. req[r].pc # "idle" /\ UNCHANGED <<session, given, subscribed, cause>>
  BY DEF DropReservation
<1>2. row' = row \/ row.expired \/ ~row.saved
  BY DEF DropReservation, StaleCreation
<1>3. Payable' = Payable /\ Paid' = Paid
  BY <1>1 DEF Payable, Paid
<1>4. ASSUME cause \subseteq {"unsettled"} /\ ~subscribed, NEW k \in Payable PROVE Holds(k)'
  <2>1. Holds(k) /\ session[k] = "open"
    BY <1>4 DEF CInv, PayableIsReserved, Payable
  <2>2. ~row.expired
    BY <2>1 DEF CInv, IInv, RowIsSound, Holds
  <2> QED
    BY <1>2, <2>1, <2>2 DEF Holds
<1>5. ASSUME cause = {} /\ ~subscribed, NEW k \in Paid PROVE row'.key \in {k, None}
  BY <1>5, NoReservationType DEF CInv, PaidIsReserved, DropReservation
<1> QED
  BY <1>1, <1>3, <1>4, <1>5, RequestRaces

\* A session is saved and answered where no other one is reserved.
LEMMA SaveSessionRaces == ASSUME CInv, NEW r \in Request, SaveSession(r) PROVE Races'
<1>1. /\ req[r].pc # "idle" /\ UNCHANGED <<session, subscribed>> /\ cause \subseteq cause'
      /\ req[r].key \in Key /\ row.key \in {req[r].key, None}
  BY DEF SaveSession, CInv, IInv, RequestsCarry, Carries
<1>2. /\ row'.key = req[r].key /\ row'.saved
      /\ row'.expired = (session[req[r].key] = "expired")
  BY <1>1, ReservationType DEF SaveSession
<1>3. \A g \in given' : g \in given \/ g.key = req[r].key
  BY DEF SaveSession, Answer
<1>4. \A k \in Payable' : k \in Payable \/ k = req[r].key
  BY <1>1, <1>3 DEF Payable
<1>5. ASSUME cause' \subseteq {"unsettled"} /\ ~subscribed, NEW k \in Payable' PROVE Holds(k)'
  <2>1. k \in Payable => k = req[r].key
    BY <1>1, <1>5, NoneAssumption DEF CInv, PayableIsReserved, Holds, Payable
  <2> QED
    BY <1>2, <1>4, <2>1 DEF Holds
<1>6. ASSUME cause' = {} /\ ~subscribed, NEW k \in Paid' PROVE row'.key \in {k, None}
  <2>1. session[k] = "paid" /\ k \in Key
    BY <1>1 DEF Paid
  <2>2. ~Unsettled(req[r].key)
    BY <1>6 DEF SaveSession
  <2> QED
    BY <1>2, <1>6, <2>1, <2>2 DEF Unsettled
<1>7. \A k \in Paid' : k \in Paid
  BY <1>1 DEF Paid
<1> QED
  BY <1>1, <1>7, <1>5, <1>6, RequestRaces

\* Payment: of the session of the reservation, which has not expired.
LEMMA PayRaces == ASSUME CInv, NEW p \in Key, Pay(p) PROVE Races'
<1>1. UNCHANGED <<row, subscribed, req, given, cause>> /\ p \in Payable
  BY DEF Pay, Payable
<1>2. \A k \in Key : session'[k] = IF k = p THEN "paid" ELSE session[k]
  BY DEF Pay, CInv, IInv, TypeOK
<1>3. \A k \in Payable' : k \in Payable
  BY <1>1, <1>2 DEF Payable
<1>4. \A k \in Paid' : k \in Paid \/ k = p
  BY <1>2 DEF Paid
<1>5. cause \subseteq {"unsettled"} /\ subscribed => \A s \in Request : req'[s].pc = "idle"
  BY <1>1 DEF CInv, SubscribedIsQuiet
<1>6. cause \subseteq {"unsettled"} /\ ~subscribed => \A k \in Payable : Holds(k)'
  BY <1>1 DEF CInv, PayableIsReserved, Holds
<1>7. cause = {} /\ ~subscribed => Holds(p)
  BY <1>1 DEF CInv, PayableIsReserved
<1>8. cause = {} /\ ~subscribed => \A k \in Paid' : row'.key \in {k, None}
  BY <1>1, <1>4, <1>7 DEF CInv, PaidIsReserved, Holds
<1> QED
  BY <1>1, <1>3, <1>4, <1>5, <1>6, <1>8, RacesStep

\* A session expires, with its reservation or alone; the lock ends.
LEMMA TimeRaces ==
    ASSUME CInv, (\E p \in Key : SessionExpires(p)) \/ LockEnds \/ ReservationExpires
    PROVE  Races'
<1>0. TypeOK /\ UNCHANGED <<subscribed, req, given>> /\ cause \subseteq cause'
  BY DEF CInv, IInv, SessionExpires, LockEnds, ReservationExpires
<1>1. \A k \in Key : session'[k] = session[k] \/ session'[k] = "expired"
  <2>1. ReservationExpires => row.key \in Key
    BY <1>0 DEF ReservationExpires, Reserved, TypeOK
  <2> QED
    BY <1>0, <2>1 DEF SessionExpires, LockEnds, ReservationExpires, TypeOK
<1>2. \A k \in Payable' : k \in Payable
  BY <1>0, <1>1 DEF Payable
<1>3. \A k \in Paid' : k \in Paid
  BY <1>1 DEF Paid
<1>4. row'.key = row.key /\ row'.saved = row.saved
  BY <1>0 DEF SessionExpires, LockEnds, ReservationExpires, TypeOK
<1>6. cause' \subseteq {"unsettled"} /\ subscribed => \A s \in Request : req'[s].pc = "idle"
  BY <1>0 DEF CInv, SubscribedIsQuiet
<1>7. cause' \subseteq {"unsettled"} /\ ~subscribed => \A k \in Payable : Holds(k)'
  BY <1>0, <1>4 DEF CInv, PayableIsReserved, Holds
<1>8. cause' = {} /\ ~subscribed => \A k \in Paid : row'.key \in {k, None}
  BY <1>0, <1>4 DEF CInv, PaidIsReserved
<1> QED
  BY <1>0, <1>2, <1>3, <1>6, <1>7, <1>8, RacesStep

\* processCheckout takes away the reservation of a session that was paid.
LEMMA ProcessCheckoutRaces == ASSUME CInv, NEW p \in Key, ProcessCheckout(p) PROVE Races'
<1>1. UNCHANGED <<session, subscribed, req, given, cause>> /\ row'.key = None
  BY NoReservationType DEF ProcessCheckout
<1>2. Payable' = Payable /\ Paid' = Paid
  BY <1>1 DEF Payable, Paid
<1>3. cause \subseteq {"unsettled"} /\ subscribed => \A s \in Request : req'[s].pc = "idle"
  BY <1>1 DEF CInv, SubscribedIsQuiet
<1>4. cause \subseteq {"unsettled"} /\ ~subscribed => \A k \in Payable : FALSE
  BY DEF CInv, PayableIsReserved, Holds, Payable, ProcessCheckout
<1> QED
  BY <1>1, <1>2, <1>3, <1>4, RacesStep

\* The webhook: either it is remembered as a cause, or it is the payment's and
\* finds no request under way.
LEMMA SyncRaces == ASSUME CInv, NEW managed \in BOOLEAN, SyncSubscription(managed) PROVE Races'
<1>1. UNCHANGED <<session, given, req>> /\ cause \subseteq cause'
  BY DEF SyncSubscription
<1>2. Payable' = Payable /\ Paid' = Paid
  BY <1>1 DEF Payable, Paid
<1>3. cause' \subseteq {"unsettled"} => managed /\ \A s \in Request : req[s].pc = "idle"
  BY DEF SyncSubscription
<1>4. managed => subscribed'
  BY DEF SyncSubscription
<1>5. PayableIsReserved' /\ SubscribedIsQuiet' /\ PaidIsReserved'
  BY <1>1, <1>3, <1>4 DEF PayableIsReserved, SubscribedIsQuiet, PaidIsReserved
<1>6. OnePayable' /\ OnePaid'
  BY <1>1, <1>2 DEF CInv, OnePayable, OnePaid
<1> QED
  BY <1>5, <1>6 DEF Races

\* Every step keeps what holds while no webhook raced.
LEMMA NextCInv == CInv /\ [Next]_vars => CInv'
<1> SUFFICES ASSUME CInv, [Next]_vars PROVE Races'
  BY NextIInv DEF CInv, Races
<1>1. CASE UNCHANGED vars
  <2>1. Payable' = Payable /\ Paid' = Paid
    BY <1>1 DEF vars, Payable, Paid
  <2> QED
    BY <1>1, <2>1 DEF vars, CInv, Races, PayableIsReserved, SubscribedIsQuiet, OnePayable,
                      PaidIsReserved, OnePaid, Holds
<1> QED
  BY <1>1, EarlyRaces, InsertReservationRaces, CreateRaces, LookAtReservationRaces, DropReservationRaces, SaveSessionRaces,
     PayRaces, ProcessCheckoutRaces, TimeRaces, SyncRaces
  DEF Next

-----------------------------------------------------------------------------
(* Theorems                                                                *)

\* A set without two elements has at most one.
LEMMA AtMostOne == ASSUME NEW S, \A j, k \in S : j = k PROVE Cardinality(S) \in {0, 1}
<1>1. CASE S = {}
  BY <1>1, FS_EmptySet
<1>2. CASE S # {}
  <2>1. PICK x \in S : TRUE
    BY <1>2
  <2>2. S = {x}
    BY <2>1
  <2> QED
    BY <2>2, FS_Singleton
<1> QED
  BY <1>1, <1>2

\* ADR 0008, reserveCheckout: without a reservation cleared or overtaken one
\* session can be paid, and every answer is a session of the interval asked for,
\* however the requests interleave.
THEOREM CheckoutStaysConsistent == Spec => []CheckoutConsistent
<1>1. CInv => CheckoutConsistent
  <2> SUFFICES ASSUME CInv PROVE OnePayableCheckout
    BY DEF CInv, IInv, CheckoutConsistent
  <2>1. cause \subseteq {"unsettled"} => Cardinality(Payable) \in {0, 1}
    BY AtMostOne DEF CInv, OnePayable
  <2> QED
    BY <2>1 DEF OnePayableCheckout
<1> QED
  BY <1>1, InitCInv, NextCInv, PTL DEF Spec

\* createCheckoutSession looks for a managed subscription first: an organization pays twice
\* only after a webhook of an earlier subscription cleared the reservation, a
\* webhook overtook requests under way, or a request reserved another session
\* between a payment and the commit of its subscription.
THEOREM PayingTwiceHasCause == Spec => []PaidTwiceHasCause
<1>1. CInv => PaidTwiceHasCause
  <2> SUFFICES ASSUME CInv, cause = {} PROVE ~(Cardinality(Paid) > 1)
    BY DEF PaidTwiceHasCause, Paid
  <2>1. Cardinality(Paid) \in {0, 1}
    <3>1. \A j, k \in Paid : j = k
      BY DEF CInv, OnePaid
    <3> QED
      BY <3>1, AtMostOne
  <2> QED
    BY <2>1
<1> QED
  BY <1>1, InitCInv, NextCInv, PTL DEF Spec

-----------------------------------------------------------------------------
(* The webhook: StripeSync                                                 *)

CONSTANTS Handler, MaxSub, MaxEvents, MaxOthers, MaxShared, MaxOverlaps, GracePeriod
VARIABLES stripe, trialed, events, processed, local, trialUsed, notices, handler, overlaps

Sync == INSTANCE StripeSync

Event == [sub : Sync!Sub \cup {0}, kind : Sync!Kind, at : 1..MaxEvents]
Status == Sync!SubscriptionStatus \cup {"none"}
HandlerState == [pc : {"idle", "retrieve", "read", "commit", "record"}, event : 0..MaxEvents,
                 status : Status, existing : Sync!Row]

\* A handler at work has an event; an event is no later than its number.
HandlersHaveEvents ==
    \A h \in Handler : /\ handler[h].event \in Sync!EventId \cup {0}
                       /\ handler[h].pc # "idle" => handler[h].event \in Sync!EventId
SecondsAreBounded == \A e \in Sync!EventId : events[e].at <= e

SyncTypes == /\ Sync!BoundsAssumption /\ Sync!TypeOK /\ events \in Seq(Event)
             /\ HandlersHaveEvents /\ SecondsAreBounded

\* Events of ours are of subscriptions that were started, and only they are retrieved.
EventsAreStarted ==
    /\ \A e \in Sync!Ours : events[e].sub \in Sync!Sub /\ stripe[events[e].sub] # "none"
    /\ \A e \in Sync!EventId : e \in Sync!Ours \/ events[e].sub = 0
RetrievedIsOurs ==
    \A h \in Handler : handler[h].pc \in {"read", "commit"} => handler[h].event \in Sync!Ours

\* A subscription starts without a trial only when one is remembered, so that
\* none is remembered only while no event of ours has been written.
StartedIsTrialed == \A i \in Sync!Sub : stripe[i] # "none" => i \in trialed \/ trialUsed
NothingWritten ==
    /\ processed \cap Sync!Ours = {} /\ local.last = 0
    /\ \A h \in Handler : handler[h].pc = "record" => handler[h].event \notin Sync!Ours
WrittenIsRemembered == trialUsed \/ NothingWritten

\* A handler that is to record a refund has told of it.
Told(e) == events[e].kind = "refund" => notices[e, "BILLING_FULL_REFUND"] = 1
RefundsAreTold == \A h \in Handler : handler[h].pc = "record" => Told(handler[h].event)

SyncInv == /\ SyncTypes /\ EventsAreStarted /\ RetrievedIsOurs /\ StartedIsTrialed
           /\ WrittenIsRemembered /\ RefundsAreTold /\ Sync!NotifiedOnce

\* The type of handlers, apart from which events there are.
LEMMA HandlersTyped ==
    ASSUME handler \in [Handler -> HandlerState], HandlersHaveEvents
    PROVE  handler \in [Handler -> [pc : {"idle", "retrieve", "read", "commit", "record"},
                                    event : Sync!EventId \cup {0},
                                    status : Sync!SubscriptionStatus \cup {"none"},
                                    existing : Sync!Row]]
BY DEF HandlersHaveEvents, HandlerState, Status

\* A handler holds the number of an event.
LEMMA TypesOfHandlers == SyncTypes => handler \in [Handler -> HandlerState]
<1> SUFFICES ASSUME SyncTypes PROVE handler \in [Handler -> HandlerState]
  OBVIOUS
<1>1. Sync!EventId \cup {0} \subseteq 0..MaxEvents
  BY LenProperties DEF SyncTypes, Sync!TypeOK, Sync!EventId, Sync!BoundsAssumption
<1> QED
  BY <1>1 DEF SyncTypes, Sync!TypeOK, HandlerState, Status

\* No event was ever sent.
LEMMA InitSync == ASSUME Sync!BoundsAssumption, Sync!Init PROVE SyncInv
<1>1. events \in Seq(Event) /\ Len(events) = 0 /\ Sync!EventId = {}
  BY DEF Sync!Init, Sync!EventId
<1>2. Sync!NoRow \in Sync!Row /\ Sync!NoRow.last = 0
  BY DEF Sync!NoRow, Sync!Row, Sync!BoundsAssumption
<1>3. handler \in [Handler -> HandlerState] /\ \A h \in Handler : handler[h].pc = "idle" /\ handler[h].event = 0
  BY <1>2 DEF Sync!Init, Sync!IdleHandler, Sync!At, HandlerState, Status, Sync!BoundsAssumption
<1>4. HandlersHaveEvents /\ SecondsAreBounded
  BY <1>1, <1>3 DEF HandlersHaveEvents, SecondsAreBounded
<1>5. notices \in [(1..MaxEvents) \X Sync!NotificationType -> Nat] /\ Sync!NotifiedOnce
  BY DEF Sync!Init, Sync!NotifiedOnce
<1>6. Sync!TypeOK
  <2>1. handler \in [Handler -> [pc : {"idle", "retrieve", "read", "commit", "record"},
                                 event : Sync!EventId \cup {0},
                                 status : Sync!SubscriptionStatus \cup {"none"},
                                 existing : Sync!Row]]
    BY <1>3, <1>4, HandlersTyped
  <2>2. Len(events) <= MaxEvents /\ overlaps \in 0..MaxOverlaps
    BY <1>1 DEF Sync!Init, Sync!BoundsAssumption
  <2>3. /\ stripe \in [Sync!Sub -> Sync!SubscriptionStatus \cup {"none"}]
        /\ trialed \subseteq Sync!Sub /\ processed \subseteq Sync!EventId
        /\ local \in Sync!Row /\ trialUsed \in BOOLEAN
    BY <1>2 DEF Sync!Init
  <2> QED
    BY <1>1, <1>5, <2>1, <2>2, <2>3 DEF Sync!TypeOK
<1>7. /\ EventsAreStarted /\ RetrievedIsOurs /\ StartedIsTrialed /\ WrittenIsRemembered
      /\ RefundsAreTold
  BY <1>1, <1>2, <1>3 DEF EventsAreStarted, RetrievedIsOurs, StartedIsTrialed, WrittenIsRemembered,
       NothingWritten, RefundsAreTold, Sync!Init, Sync!Ours
<1> QED
  BY <1>1, <1>4, <1>5, <1>6, <1>7 DEF SyncInv, SyncTypes

\* A handler is given a new state.
LEMMA HandlerMoves ==
    ASSUME SyncTypes, UNCHANGED events, NEW h \in Handler, NEW q \in HandlerState,
           handler' = [handler EXCEPT ![h] = q], q.event \in Sync!EventId \cup {0},
           q.pc # "idle" => q.event \in Sync!EventId
    PROVE  /\ handler' \in [Handler -> HandlerState] /\ HandlersHaveEvents'
           /\ handler'[h] = q /\ \A g \in Handler : g # h => handler'[g] = handler[g]
<1>1. /\ handler' \in [Handler -> HandlerState]
      /\ handler'[h] = q /\ \A g \in Handler : g # h => handler'[g] = handler[g]
  BY TypesOfHandlers
<1>2. Sync!EventId' = Sync!EventId
  BY DEF Sync!EventId
<1>3. HandlersHaveEvents'
  BY <1>1, <1>2 DEF SyncTypes, HandlersHaveEvents
<1> QED
  BY <1>1, <1>3

\* What every step of a handler keeps: notices and the memory of a trial stay,
\* and a handler that comes to its end has told of its event.
LEMMA HandlerStep ==
    ASSUME SyncInv, UNCHANGED <<stripe, trialed, events>>,
           NEW h \in Handler, NEW q \in HandlerState, handler' = [handler EXCEPT ![h] = q],
           q.event \in Sync!EventId \cup {0}, q.pc # "idle" => q.event \in Sync!EventId,
           local' \in Sync!Row, trialUsed' \in BOOLEAN, overlaps' \in 0..MaxOverlaps,
           notices' \in [(1..MaxEvents) \X Sync!NotificationType -> Nat],
           \A n \in DOMAIN notices : notices'[n] <= 1 /\ (notices[n] = 1 => notices'[n] = 1),
           trialUsed => trialUsed',
           local'.last # 0 => local.last # 0 \/ trialUsed',
           q.pc \in {"read", "commit"} => q.event \in Sync!Ours,
           q.pc = "record" => (q.event \in Sync!Ours => trialUsed') /\ Told(q.event)',
           processed' \subseteq Sync!EventId,
           \A e \in processed' :
              e \in processed \/ ((e \in Sync!Ours => trialUsed') /\ Told(e)')
    PROVE  SyncInv'
<1>0. SyncTypes /\ Sync!TypeOK /\ Sync!NotifiedOnce
  BY DEF SyncInv, SyncTypes
<1>1. /\ handler' \in [Handler -> HandlerState] /\ HandlersHaveEvents'
      /\ handler'[h] = q /\ \A g \in Handler : g # h => handler'[g] = handler[g]
  BY <1>0, HandlerMoves
<1>2. Sync!EventId' = Sync!EventId /\ Sync!EventId \subseteq 1..MaxEvents
  BY <1>0, LenProperties DEF Sync!EventId, Sync!TypeOK, SyncTypes, Sync!BoundsAssumption
<1>3. SyncTypes'
  <2>1. Sync!TypeOK'
    <3>1. handler' \in [Handler -> [pc : {"idle", "retrieve", "read", "commit", "record"},
                                   event : Sync!EventId' \cup {0},
                                   status : Sync!SubscriptionStatus \cup {"none"},
                                   existing : Sync!Row]]
      BY <1>1 DEF HandlersHaveEvents, HandlerState, Status
    <3> QED
      BY <1>0, <1>2, <3>1 DEF Sync!TypeOK
  <2>2. SecondsAreBounded'
    BY <1>0, <1>2 DEF SyncTypes, SecondsAreBounded
  <2> QED
    BY <1>0, <1>1, <2>1, <2>2 DEF SyncTypes
<1>9. Sync!Ours' = Sync!Ours
  BY <1>2 DEF Sync!Ours
<1>4. EventsAreStarted' /\ StartedIsTrialed' /\ RetrievedIsOurs'
  <2>1. EventsAreStarted'
    BY <1>2, <1>9 DEF SyncInv, EventsAreStarted
  <2>2. StartedIsTrialed'
    BY DEF SyncInv, StartedIsTrialed
  <2>3. RetrievedIsOurs'
    BY <1>1, <1>9 DEF SyncInv, RetrievedIsOurs
  <2> QED
    BY <2>1, <2>2, <2>3
<1>5. WrittenIsRemembered'
  <2>1. CASE trialUsed'
    BY <2>1 DEF WrittenIsRemembered
  <2>2. CASE ~trialUsed'
    <3>1. NothingWritten
      BY <2>2 DEF SyncInv, WrittenIsRemembered
    <3> QED
      BY <1>1, <1>9, <2>2, <3>1 DEF WrittenIsRemembered, NothingWritten
  <2> QED
    BY <2>1, <2>2
<1>6. \A e \in Sync!EventId : Told(e) => Told(e)'
  <2> SUFFICES ASSUME NEW e \in Sync!EventId PROVE Told(e) => Told(e)'
    OBVIOUS
  <2>1. <<e, "BILLING_FULL_REFUND">> \in DOMAIN notices
    BY <1>0, <1>2 DEF Sync!TypeOK, Sync!NotificationType
  <2> QED
    BY <2>1 DEF Told
<1>7. RefundsAreTold'
  BY <1>0, <1>1, <1>6 DEF SyncInv, SyncTypes, RefundsAreTold, HandlersHaveEvents
<1>8. Sync!NotifiedOnce'
  <2>1. DOMAIN notices' = DOMAIN notices
    BY <1>0 DEF Sync!TypeOK
  <2>2. \A e \in processed : Told(e)
    BY <1>0 DEF Sync!NotifiedOnce, Told
  <2>3. \A e \in processed' : Told(e)'
    BY <1>0, <1>6, <2>2 DEF Sync!TypeOK
  <2> QED
    BY <2>1, <2>3 DEF Sync!NotifiedOnce, Told
<1> QED
  BY <1>3, <1>4, <1>5, <1>7, <1>8 DEF SyncInv

\* Goto keeps the event.
LEMMA GotoState ==
    ASSUME SyncTypes, NEW h \in Handler, handler[h].pc # "idle",
           NEW pc \in {"retrieve", "read", "commit", "record"}, NEW status \in Status,
           NEW existing \in Sync!Row, Sync!Goto(h, pc, status, existing)
    PROVE  \E q \in HandlerState :
              /\ handler' = [handler EXCEPT ![h] = q] /\ q.pc = pc /\ q.event = handler[h].event
              /\ q.status = status /\ q.existing = existing /\ q.event \in Sync!EventId
<1> DEFINE q == Sync!At(pc, handler[h].event, status, existing)
<1>1. handler \in [Handler -> HandlerState] /\ handler[h].event \in Sync!EventId
  BY TypesOfHandlers DEF SyncTypes, HandlersHaveEvents
<1>2. q \in HandlerState
  BY <1>1 DEF HandlerState, Sync!At
<1>3. handler' = [handler EXCEPT ![h] = q]
  BY DEF Sync!Goto
<1>4. /\ q.pc = pc /\ q.event = handler[h].event /\ q.status = status /\ q.existing = existing
  BY DEF Sync!At
<1> QED
  BY <1>1, <1>2, <1>3, <1>4

\* A handler that ends holds no event.
LEMMA FinishState ==
    ASSUME SyncTypes, NEW h \in Handler, Sync!Finish(h)
    PROVE  \E q \in HandlerState :
              handler' = [handler EXCEPT ![h] = q] /\ q.pc = "idle" /\ q.event = 0
<1>1. Sync!NoRow \in Sync!Row
  BY DEF Sync!NoRow, Sync!Row, SyncTypes, Sync!BoundsAssumption
<1>2. /\ Sync!IdleHandler \in HandlerState
      /\ Sync!IdleHandler.pc = "idle" /\ Sync!IdleHandler.event = 0
  BY <1>1 DEF Sync!IdleHandler, Sync!At, HandlerState, Status, SyncTypes, Sync!BoundsAssumption
<1> QED
  BY <1>2 DEF Sync!Finish

\* writeNotification leaves at most one of each, and takes none back.
LEMMA NotificationsOnce ==
    ASSUME SyncInv, NEW e, NEW types, Sync!WriteNotifications(e, types)
    PROVE  /\ notices' \in [(1..MaxEvents) \X Sync!NotificationType -> Nat]
           /\ \A n \in DOMAIN notices : notices'[n] <= 1 /\ (notices[n] = 1 => notices'[n] = 1)
           /\ e \in 1..MaxEvents /\ "BILLING_FULL_REFUND" \in types =>
                  notices'[e, "BILLING_FULL_REFUND"] = 1
<1>1. notices \in [(1..MaxEvents) \X Sync!NotificationType -> Nat]
  BY DEF SyncInv, SyncTypes, Sync!TypeOK
<1>2. \A n \in DOMAIN notices : notices[n] <= 1
  BY DEF SyncInv, Sync!NotifiedOnce
<1>3. notices' = [n \in (1..MaxEvents) \X Sync!NotificationType |->
                     IF n[1] = e /\ n[2] \in types THEN 1 ELSE notices[n]]
  BY <1>1 DEF Sync!WriteNotifications
<1>4. \A n \in DOMAIN notices : notices'[n] <= 1 /\ (notices[n] = 1 => notices'[n] = 1)
  BY <1>1, <1>2, <1>3
<1>5. ASSUME e \in 1..MaxEvents, "BILLING_FULL_REFUND" \in types
      PROVE  notices'[e, "BILLING_FULL_REFUND"] = 1
  <2>1. <<e, "BILLING_FULL_REFUND">> \in (1..MaxEvents) \X Sync!NotificationType
    BY <1>5 DEF Sync!NotificationType
  <2>2. /\ <<e, "BILLING_FULL_REFUND">>[1] = e
        /\ <<e, "BILLING_FULL_REFUND">>[2] = "BILLING_FULL_REFUND"
    OBVIOUS
  <2> QED
    BY <1>3, <1>5, <2>1, <2>2
<1>6. notices' \in [(1..MaxEvents) \X Sync!NotificationType -> Nat]
  BY <1>1, <1>3
<1> QED
  BY <1>4, <1>5, <1>6

\* gracePeriodEndsAt: a failed payment always has one.
LEMMA GraceTyped ==
    ASSUME Sync!BoundsAssumption, NEW status, NEW existing \in Sync!Row, NEW at \in 1..MaxEvents
    PROVE  /\ Sync!GraceFor(status, existing, at) \in 0..(MaxEvents + GracePeriod)
           /\ status = "PAST_DUE" => Sync!GraceFor(status, existing, at) # 0
BY DEF Sync!GraceFor, Sync!Row, Sync!BoundsAssumption

\* A refund is among the notices of its commit.
LEMMA RefundIsTold ==
    ASSUME NEW status, NEW existing
    PROVE  "BILLING_FULL_REFUND" \in Sync!NotificationsFor("refund", status, existing)
BY DEF Sync!NotificationsFor, Sync!NotificationType

\* The event of a handler at work.
LEMMA EventTyped ==
    ASSUME SyncTypes, NEW h \in Handler, handler[h].pc # "idle"
    PROVE  /\ handler[h].event \in Sync!EventId /\ handler[h].event \in 1..MaxEvents
           /\ Sync!EventOf(h) \in Event /\ Sync!EventOf(h) = events[handler[h].event]
           /\ handler[h].status \in Status /\ handler[h].existing \in Sync!Row
<1>1. handler[h].event \in Sync!EventId /\ Sync!EventOf(h) = events[handler[h].event]
  BY DEF SyncTypes, HandlersHaveEvents, Sync!EventOf
<1>2. handler[h].event \in 1..MaxEvents
  BY <1>1, LenProperties DEF SyncTypes, Sync!EventId, Sync!TypeOK, Sync!BoundsAssumption
<1>3. Sync!EventOf(h) \in Event
  BY <1>1 DEF SyncTypes, Sync!TypeOK, Event
<1>4. handler[h].status \in Status /\ handler[h].existing \in Sync!Row
  BY TypesOfHandlers DEF HandlerState
<1> QED
  BY <1>1, <1>2, <1>3, <1>4

\* The steps of a handler that write no notice.
LEMMA QuietStepsSync ==
    ASSUME SyncInv, NEW h \in Handler,
           \/ \E e \in Sync!EventId : Sync!Receive(h, e)
           \/ Sync!IgnoreEvent(h) \/ Sync!Retrieve(h) \/ Sync!Record(h) \/ Sync!Fail(h)
    PROVE  SyncInv'
<1>0. SyncTypes /\ Sync!TypeOK /\ Sync!NoRow \in Sync!Row
  BY DEF SyncInv, SyncTypes, Sync!NoRow, Sync!Row, Sync!BoundsAssumption
<1>1. \A n \in DOMAIN notices : notices[n] <= 1
  BY DEF SyncInv, Sync!NotifiedOnce
<1>2. CASE \E e \in Sync!EventId : Sync!Receive(h, e)
  <2>1. PICK e \in Sync!EventId : Sync!Receive(h, e)
    BY <1>2
  <2>2. e \in 0..MaxEvents
    BY <1>0, LenProperties DEF SyncTypes, Sync!EventId, Sync!TypeOK, Sync!BoundsAssumption
  <2> DEFINE q == Sync!At("retrieve", e, "none", Sync!NoRow)
  <2>3. q \in HandlerState /\ q.pc = "retrieve" /\ q.event = e
    BY <1>0, <2>2 DEF Sync!At, HandlerState, Status
  <2>4. overlaps' \in 0..MaxOverlaps
    BY <1>0, <2>1 DEF Sync!Receive, Sync!Beside, Sync!TypeOK, SyncTypes, Sync!BoundsAssumption
  <2>5. /\ handler' = [handler EXCEPT ![h] = q]
        /\ UNCHANGED <<stripe, trialed, events, processed, local, trialUsed, notices>>
    BY <2>1 DEF Sync!Receive
  <2> HIDE DEF q
  <2> QED
    BY <1>0, <1>1, <2>3, <2>4, <2>5, HandlerStep DEF Sync!TypeOK
<1>3. CASE Sync!Retrieve(h)
  <2>1. /\ handler[h].pc # "idle"
        /\ UNCHANGED <<stripe, trialed, events, processed, local, trialUsed, notices, overlaps>>
    BY <1>3 DEF Sync!Retrieve
  <2>4. handler[h].event \in Sync!Ours
    BY <1>0, <1>3, <2>1, EventTyped DEF Sync!Retrieve, Sync!Ours
  <2>2. PICK status \in Status : Sync!Goto(h, "read", status, Sync!NoRow)
    <3>1. Sync!EventOf(h).sub \in Sync!Sub
      BY <2>4, <1>0, <2>1, EventTyped DEF SyncInv, EventsAreStarted
    <3>2. stripe[Sync!EventOf(h).sub] \in Status
      BY <1>0, <3>1 DEF Sync!TypeOK, Status
    <3> QED
      BY <1>3, <3>2 DEF Sync!Retrieve
  <2>3. PICK q \in HandlerState : /\ handler' = [handler EXCEPT ![h] = q] /\ q.pc = "read"
                                  /\ q.event = handler[h].event /\ q.event \in Sync!EventId
    BY <1>0, <2>1, <2>2, GotoState
  <2> QED
    BY <1>0, <1>1, <2>1, <2>3, <2>4, HandlerStep DEF Sync!TypeOK
<1>6. CASE Sync!IgnoreEvent(h)
  <2>1. /\ handler[h].pc # "idle" /\ events[handler[h].event].kind = "other"
        /\ Sync!Goto(h, "record", "none", Sync!NoRow)
        /\ UNCHANGED <<stripe, trialed, events, processed, local, trialUsed, notices, overlaps>>
    BY <1>6 DEF Sync!IgnoreEvent, Sync!EventOf
  <2>2. "none" \in Status
    BY DEF Status
  <2>3. PICK q \in HandlerState : /\ handler' = [handler EXCEPT ![h] = q] /\ q.pc = "record"
                                  /\ q.event = handler[h].event /\ q.event \in Sync!EventId
    BY <1>0, <2>1, <2>2, GotoState
  <2>4. q.event \notin Sync!Ours /\ Told(q.event)'
    BY <2>1, <2>3 DEF Sync!Ours, Told
  <2> QED
    BY <1>0, <1>1, <2>1, <2>3, <2>4, HandlerStep DEF Sync!TypeOK
<1>4. CASE Sync!Record(h)
  <2>1. /\ handler[h].pc = "record" /\ Sync!Finish(h) /\ processed' = processed \cup {handler[h].event}
        /\ UNCHANGED <<stripe, trialed, events, local, trialUsed, notices, overlaps>>
    BY <1>4 DEF Sync!Record
  <2>2. handler[h].event \in Sync!EventId
    BY <1>0, <2>1, EventTyped
  <2>3. (handler[h].event \in Sync!Ours => trialUsed) /\ Told(handler[h].event)
    BY <2>1 DEF SyncInv, WrittenIsRemembered, NothingWritten, RefundsAreTold
  <2>4. \A e \in processed' : e \in processed \/ ((e \in Sync!Ours => trialUsed') /\ Told(e)')
    BY <2>1, <2>3 DEF Told
  <2>5. PICK q \in HandlerState :
          handler' = [handler EXCEPT ![h] = q] /\ q.pc = "idle" /\ q.event = 0
    BY <1>0, <2>1, FinishState
  <2>6. processed' \subseteq Sync!EventId
    BY <1>0, <2>1, <2>2 DEF Sync!TypeOK
  <2> QED
    BY <1>0, <1>1, <2>1, <2>4, <2>5, <2>6, HandlerStep DEF Sync!TypeOK
<1>5. CASE Sync!Fail(h)
  <2>1. /\ Sync!Finish(h)
        /\ UNCHANGED <<stripe, trialed, events, processed, local, trialUsed, notices, overlaps>>
    BY <1>5 DEF Sync!Fail
  <2>2. PICK q \in HandlerState :
          handler' = [handler EXCEPT ![h] = q] /\ q.pc = "idle" /\ q.event = 0
    BY <1>0, <2>1, FinishState
  <2> QED
    BY <1>0, <1>1, <2>1, <2>2, HandlerStep DEF Sync!TypeOK
<1> QED
  BY <1>2, <1>3, <1>4, <1>5, <1>6

\* syncSubscription: a row that was written remembers the trial, and the
\* subscription of an event had one, if none is remembered.
LEMMA SyncStepsSync ==
    ASSUME SyncInv, NEW h \in Handler, Sync!ReadExisting(h) \/ Sync!SyncSubscription(h)
    PROVE  SyncInv'
<1>0. SyncTypes /\ Sync!TypeOK /\ Sync!BoundsAssumption /\ Sync!NoRow \in Sync!Row
  BY DEF SyncInv, SyncTypes, Sync!NoRow, Sync!Row, Sync!BoundsAssumption
<1> DEFINE e == handler[h].event
           event == Sync!EventOf(h)
<1>1. /\ handler[h].pc # "idle" /\ e \in Sync!EventId /\ e \in 1..MaxEvents
      /\ event \in Event /\ event = events[e]
      /\ handler[h].status \in Status /\ handler[h].existing \in Sync!Row
  BY <1>0, EventTyped DEF Sync!ReadExisting, Sync!SyncSubscription
<1>4. e \in Sync!Ours
  BY DEF SyncInv, RetrievedIsOurs, Sync!ReadExisting, Sync!SyncSubscription
<1> HIDE DEF event
<1>2. CASE Sync!ReadExisting(h)
  <2> DEFINE old == local.last >= event.at
             pc == IF old THEN "record" ELSE "commit"
             types == IF old /\ event.kind = "refund" THEN {"BILLING_FULL_REFUND"} ELSE {}
  <2>1. /\ Sync!Goto(h, pc, handler[h].status, local) /\ Sync!WriteNotifications(e, types)
        /\ UNCHANGED <<stripe, trialed, events, processed, local, trialUsed, overlaps>>
    BY <1>2 DEF Sync!ReadExisting, event
  <2>2. PICK q \in HandlerState : /\ handler' = [handler EXCEPT ![h] = q]
                                  /\ q.pc = pc /\ q.event = e /\ q.event \in Sync!EventId
    BY <1>0, <1>1, <2>1, GotoState DEF Sync!TypeOK
  <2>3. ASSUME q.pc = "record" PROVE trialUsed' /\ Told(q.event)'
    <3>1. old
      BY <2>2, <2>3
    <3>2. local.last # 0
      BY <1>0, <1>1, <3>1 DEF Event, Sync!TypeOK, Sync!Row, Sync!BoundsAssumption
    <3>3. event.kind = "refund" => "BILLING_FULL_REFUND" \in types
      BY <3>1
    <3> QED
      BY <1>1, <2>1, <2>2, <3>2, <3>3, NotificationsOnce
      DEF SyncInv, WrittenIsRemembered, NothingWritten, Told
  <2>4. /\ notices' \in [(1..MaxEvents) \X Sync!NotificationType -> Nat]
        /\ \A n \in DOMAIN notices : notices'[n] <= 1 /\ (notices[n] = 1 => notices'[n] = 1)
    BY <2>1, NotificationsOnce
  <2> HIDE DEF types, pc
  <2> QED
    BY <1>0, <1>4, <2>1, <2>2, <2>3, <2>4, HandlerStep DEF Sync!TypeOK
<1>3. CASE Sync!SyncSubscription(h)
  <2> DEFINE types == Sync!NotificationsFor(event.kind, handler[h].status, handler[h].existing)
             grace == Sync!GraceFor(handler[h].status, handler[h].existing, event.at)
  <2>1. /\ Sync!Goto(h, "record", "none", Sync!NoRow) /\ Sync!WriteNotifications(e, types)
        /\ trialUsed' = (trialUsed \/ event.sub \in trialed)
        /\ local' = [sub |-> event.sub, status |-> handler[h].status, last |-> event.at, grace |-> grace]
        /\ UNCHANGED <<stripe, trialed, events, processed, overlaps>>
    BY <1>3 DEF Sync!SyncSubscription, event
  <2>2. PICK q \in HandlerState : /\ handler' = [handler EXCEPT ![h] = q]
                                  /\ q.pc = "record" /\ q.event = e /\ q.event \in Sync!EventId
    BY <1>0, <1>1, <2>1, GotoState DEF Status
  <2>3. trialUsed' = TRUE
    <3>1. stripe[event.sub] # "none" /\ event.sub \in Sync!Sub
      BY <1>1, <1>4 DEF SyncInv, EventsAreStarted
    <3>2. event.sub \in trialed \/ trialUsed
      BY <3>1 DEF SyncInv, StartedIsTrialed
    <3> QED
      BY <2>1, <3>2
  <2>4. local' \in Sync!Row
    <3>1. grace \in 0..(MaxEvents + GracePeriod)
      BY <1>0, <1>1, GraceTyped DEF Event
    <3>2. event.sub \in Sync!Sub \cup {0} /\ event.at \in 0..MaxEvents
      BY <1>0, <1>1 DEF Event, Sync!BoundsAssumption
    <3> HIDE DEF grace
    <3> QED
      BY <1>1, <2>1, <3>1, <3>2 DEF Sync!Row, Status
  <2>5. /\ notices' \in [(1..MaxEvents) \X Sync!NotificationType -> Nat]
        /\ \A n \in DOMAIN notices : notices'[n] <= 1 /\ (notices[n] = 1 => notices'[n] = 1)
    BY <2>1, NotificationsOnce
  <2>6. Told(q.event)'
    <3>1. event.kind = "refund" => "BILLING_FULL_REFUND" \in types
      BY RefundIsTold
    <3> QED
      BY <1>1, <2>1, <2>2, <3>1, NotificationsOnce DEF Told
  <2> HIDE DEF types, grace
  <2> QED
    BY <1>0, <2>1, <2>2, <2>3, <2>4, <2>5, <2>6, HandlerStep DEF Sync!TypeOK
<1> QED
  BY <1>2, <1>3

\* An event is sent: the ones before it stay, and its second is no later than
\* its number.
LEMMA SendAppends ==
    ASSUME SyncTypes, NEW i \in Sync!Sub \cup {0}, NEW kind \in Sync!Kind, Sync!Send(i, kind)
    PROVE  /\ events' \in Seq(Event) /\ Len(events') = Len(events) + 1 /\ Len(events') <= MaxEvents
           /\ Sync!EventId' = Sync!EventId \cup {Len(events) + 1} /\ Len(events) + 1 \notin Sync!EventId
           /\ \A e \in Sync!EventId : events'[e] = events[e]
           /\ events'[Len(events) + 1] \in Event
           /\ events'[Len(events) + 1].sub = i /\ events'[Len(events) + 1].kind = kind
           /\ events'[Len(events) + 1].at <= Len(events) + 1
           /\ events'[Len(events) + 1].at >= Sync!LastSecond
<1>1. events \in Seq(Event) /\ Len(events) \in Nat
  BY LenProperties DEF SyncTypes
<1>2. Sync!LastSecond \in 0..Len(events)
  <2>1. CASE events = <<>>
    BY <1>1, <2>1, EmptySeq DEF Sync!LastSecond
  <2>2. CASE events # <<>>
    <3>1. Len(events) \in Sync!EventId
      BY <1>1, <2>2, EmptySeq DEF Sync!EventId
    <3>2. events[Len(events)].at \in 1..MaxEvents /\ events[Len(events)].at <= Len(events)
      BY <3>1 DEF SyncTypes, SecondsAreBounded, Sync!TypeOK
    <3> QED
      BY <1>1, <2>2, <3>2 DEF Sync!LastSecond, SyncTypes, Sync!BoundsAssumption
  <2> QED
    BY <2>1, <2>2
<1>3. events = <<>> => Sync!LastSecond = 0
  BY DEF Sync!LastSecond
<1>4. PICK at \in {Sync!LastSecond, Sync!LastSecond + 1} :
         /\ events' = Append(events, [sub |-> i, kind |-> kind, at |-> at])
         /\ events = <<>> => at = Sync!LastSecond + 1
  BY <1>3 DEF Sync!Send
<1>5. Len(events) + 1 <= MaxEvents
  BY <1>1 DEF Sync!Send, SyncTypes, Sync!BoundsAssumption
<1>6. at \in 1..(Len(events) + 1)
  <2>1. CASE events = <<>>
    BY <1>1, <1>2, <1>3, <1>4, <2>1
  <2>2. CASE events # <<>>
    <3>1. Len(events) \in Sync!EventId
      BY <1>1, <2>2, EmptySeq DEF Sync!EventId
    <3>2. Sync!LastSecond \in 1..MaxEvents
      BY <2>2, <3>1 DEF SyncTypes, Sync!TypeOK, Sync!LastSecond
    <3> QED
      BY <1>1, <1>2, <1>4, <3>2 DEF SyncTypes, Sync!BoundsAssumption
  <2> QED
    BY <2>1, <2>2
<1> DEFINE new == [sub |-> i, kind |-> kind, at |-> at]
<1>7. new \in Event /\ new.sub = i /\ new.kind = kind /\ new.at = at
  BY <1>1, <1>5, <1>6 DEF Event, SyncTypes, Sync!BoundsAssumption
<1> HIDE DEF new
<1>8. events' = Append(events, new)
  BY <1>4 DEF new
<1>9. /\ events' \in Seq(Event) /\ Len(events') = Len(events) + 1
      /\ \A e \in 1..Len(events) : events'[e] = events[e] /\ events'[Len(events) + 1] = new
      /\ events'[Len(events) + 1] = new
  BY <1>1, <1>7, <1>8, AppendProperties
<1> QED
  BY <1>1, <1>2, <1>4, <1>5, <1>6, <1>7, <1>9 DEF Sync!EventId

\* What Stripe does, by itself or when a handler cancels: it sends an event of a
\* started subscription, and one that starts without a trial was preceded by one.
LEMMA SendStep ==
    ASSUME SyncInv, NEW i \in Sync!Sub \cup {0}, NEW kind \in Sync!Kind, Sync!Send(i, kind),
           stripe' \in [Sync!Sub -> Status],
           i = 0 <=> kind = "other", i \in Sync!Sub => stripe'[i] # "none",
           \A j \in Sync!Sub : j # i => stripe'[j] = stripe[j],
           trialed \subseteq trialed', trialed' \subseteq Sync!Sub,
           i \in Sync!Sub => i \in trialed' \/ trialUsed,
           UNCHANGED <<processed, local, trialUsed, notices, overlaps>>,
           handler' \in [Handler -> HandlerState],
           \A h \in Handler :
              /\ handler'[h].event = handler[h].event
              /\ handler'[h].pc = "idle" <=> handler[h].pc = "idle"
              /\ handler'[h].pc = "record" => handler[h].pc = "record"
              /\ handler'[h].pc \in {"read", "commit"} => handler[h].event \in Sync!Ours
    PROVE  SyncInv'
<1>0. SyncTypes /\ Sync!TypeOK /\ Sync!NotifiedOnce
  BY DEF SyncInv, SyncTypes
<1>1. /\ events' \in Seq(Event) /\ Len(events') <= MaxEvents
      /\ Sync!EventId' = Sync!EventId \cup {Len(events) + 1}
      /\ \A e \in Sync!EventId : events'[e] = events[e]
      /\ Len(events) + 1 \notin Sync!EventId
      /\ events'[Len(events) + 1] \in Event /\ events'[Len(events) + 1].sub = i
      /\ events'[Len(events) + 1].kind = kind
      /\ events'[Len(events) + 1].at <= Len(events) + 1
  BY <1>0, SendAppends
<1>2. HandlersHaveEvents' /\ SecondsAreBounded'
  BY <1>0, <1>1 DEF SyncTypes, HandlersHaveEvents, SecondsAreBounded
<1>3. SyncTypes'
  <2>1. handler' \in [Handler -> [pc : {"idle", "retrieve", "read", "commit", "record"},
                                 event : Sync!EventId' \cup {0},
                                 status : Sync!SubscriptionStatus \cup {"none"},
                                 existing : Sync!Row]]
    BY <1>2 DEF HandlersHaveEvents, HandlerState, Status
  <2>2. \A e \in Sync!EventId' : events'[e] \in [sub : Sync!Sub \cup {0}, kind : Sync!Kind, at : 1..MaxEvents]
    BY <1>0, <1>1 DEF Sync!TypeOK, Event
  <2>3. processed' \subseteq Sync!EventId'
    BY <1>0, <1>1 DEF Sync!TypeOK
  <2>4. Sync!TypeOK'
    BY <1>0, <1>1, <2>1, <2>2, <2>3 DEF Sync!TypeOK, Status
  <2> QED
    BY <1>0, <1>1, <1>2, <2>4 DEF SyncTypes
<1>9. /\ \A e \in Sync!EventId : e \in Sync!Ours' <=> e \in Sync!Ours
      /\ Sync!Ours \subseteq Sync!EventId /\ Sync!Ours' \subseteq Sync!EventId'
  BY <1>1 DEF Sync!Ours
<1>4. EventsAreStarted'
  <2>3. ASSUME NEW e \in Sync!EventId' PROVE e \in Sync!Ours' \/ events'[e].sub = 0
    BY <1>1, <1>9 DEF SyncInv, EventsAreStarted, Sync!Ours
  <2> SUFFICES ASSUME NEW e \in Sync!Ours'
               PROVE  events'[e].sub \in Sync!Sub /\ stripe'[events'[e].sub] # "none"
    BY <2>3 DEF EventsAreStarted
  <2>1. CASE e \in Sync!EventId
    <3>1. events[e].sub \in Sync!Sub /\ stripe[events[e].sub] # "none"
      BY <1>9, <2>1 DEF SyncInv, EventsAreStarted
    <3> QED
      BY <1>1, <2>1, <3>1
  <2>2. CASE e \notin Sync!EventId
    <3>1. e = Len(events) + 1 /\ kind # "other"
      BY <1>1, <1>9, <2>2 DEF Sync!Ours
    <3> QED
      BY <1>1, <3>1
  <2> QED
    BY <2>1, <2>2
<1>5. StartedIsTrialed' /\ WrittenIsRemembered' /\ RetrievedIsOurs'
  <2>1. StartedIsTrialed'
    BY DEF SyncInv, StartedIsTrialed
  <2>2. processed \subseteq Sync!EventId /\ \A h \in Handler : handler[h].pc # "idle" =>
                                                handler[h].event \in Sync!EventId
    BY <1>0 DEF Sync!TypeOK, SyncTypes, HandlersHaveEvents
  <2>3. WrittenIsRemembered'
    BY <1>9, <2>2 DEF SyncInv, WrittenIsRemembered, NothingWritten
  <2>4. RetrievedIsOurs'
    BY <1>9 DEF RetrievedIsOurs
  <2> QED
    BY <2>1, <2>3, <2>4
<1>6. \A e \in Sync!EventId : Told(e) => Told(e)'
  BY <1>1 DEF Told
<1>7. RefundsAreTold'
  BY <1>0, <1>6 DEF SyncInv, SyncTypes, RefundsAreTold, HandlersHaveEvents
<1>8. Sync!NotifiedOnce'
  <2>1. \A e \in processed : Told(e)'
    BY <1>0, <1>6 DEF Sync!NotifiedOnce, Told, Sync!TypeOK
  <2> QED
    BY <1>0, <2>1 DEF Sync!NotifiedOnce, Told
<1> QED
  BY <1>3, <1>4, <1>5, <1>7, <1>8 DEF SyncInv

\* A subscription starts, changes, fails to be paid or is refunded.
LEMMA StripeStepsSync ==
    ASSUME SyncInv, NEW i \in Sync!Sub,
           \/ Sync!StartSubscription(i) \/ Sync!FailPaymentAgain(i) \/ Sync!Refund(i)
           \/ \E status \in Sync!SubscriptionStatus : Sync!ChangeSubscription(i, status)
    PROVE  SyncInv'
<1>0. SyncTypes /\ Sync!TypeOK /\ handler \in [Handler -> HandlerState]
  BY TypesOfHandlers DEF SyncInv, SyncTypes
<1>1. PICK kind \in Sync!Kind \ {"other"} : Sync!Send(i, kind)
  BY DEF Sync!StartSubscription, Sync!FailPaymentAgain, Sync!Refund, Sync!ChangeSubscription,
         Sync!Kind
<1>2. UNCHANGED <<processed, local, trialUsed, notices, overlaps, handler>>
  BY DEF Sync!StartSubscription, Sync!FailPaymentAgain, Sync!Refund, Sync!ChangeSubscription
<1>3. stripe[i] # "none" => i \in trialed \/ trialUsed
  BY DEF SyncInv, StartedIsTrialed
<1>4. /\ stripe' \in [Sync!Sub -> Status] /\ stripe'[i] # "none"
      /\ \A j \in Sync!Sub : j # i => stripe'[j] = stripe[j]
      /\ trialed \subseteq trialed' /\ trialed' \subseteq Sync!Sub /\ (i \in trialed' \/ trialUsed)
  <2>1. CASE Sync!StartSubscription(i)
    BY <1>0, <2>1 DEF Sync!StartSubscription, Sync!TypeOK, Status, Sync!SubscriptionStatus, Sync!Live
  <2>2. CASE Sync!FailPaymentAgain(i) \/ Sync!Refund(i)
    BY <1>0, <1>3, <2>2 DEF Sync!FailPaymentAgain, Sync!Refund, Sync!TypeOK, Status
  <2>3. CASE \E status \in Sync!SubscriptionStatus : Sync!ChangeSubscription(i, status)
    BY <1>0, <1>3, <2>3
    DEF Sync!ChangeSubscription, Sync!TypeOK, Status, Sync!SubscriptionStatus, Sync!Live
  <2> QED
    BY <2>1, <2>2, <2>3
<1>5. \A h \in Handler : handler[h].pc \in {"read", "commit"} => handler[h].event \in Sync!Ours
  BY DEF SyncInv, RetrievedIsOurs
<1>6. i \in Nat \ {0}
  BY DEF Sync!Sub
<1> QED
  BY <1>0, <1>1, <1>2, <1>4, <1>5, <1>6, SendStep

\* An event that is none of ours.
LEMMA OtherStepSync == ASSUME SyncInv, Sync!OtherEvent PROVE SyncInv'
<1>0. SyncTypes /\ Sync!TypeOK /\ handler \in [Handler -> HandlerState]
  BY TypesOfHandlers DEF SyncInv, SyncTypes
<1>1. /\ Sync!Send(0, "other") /\ "other" \in Sync!Kind
      /\ UNCHANGED <<stripe, trialed, processed, local, trialUsed, notices, overlaps, handler>>
  BY DEF Sync!OtherEvent, Sync!Kind
<1>2. \A h \in Handler : handler[h].pc \in {"read", "commit"} => handler[h].event \in Sync!Ours
  BY DEF SyncInv, RetrievedIsOurs
<1>3. 0 \notin Sync!Sub /\ stripe \in [Sync!Sub -> Status] /\ trialed \subseteq Sync!Sub
  BY <1>0 DEF Sync!Sub, Sync!TypeOK, Status
<1> QED
  BY <1>0, <1>1, <1>2, <1>3, SendStep

\* cancelSubscriptionNow changes Stripe and goes on.
LEMMA CancelStepSync ==
    ASSUME SyncInv, NEW h \in Handler, Sync!CancelSubscriptionNow(h)
    PROVE  SyncInv'
<1>0. SyncTypes /\ Sync!TypeOK /\ handler \in [Handler -> HandlerState] /\ Sync!NoRow \in Sync!Row
  BY TypesOfHandlers DEF SyncInv, SyncTypes, Sync!NoRow, Sync!Row, Sync!BoundsAssumption
<1>8. handler[h].event \in Sync!Ours /\ Sync!EventOf(h) = events[handler[h].event]
  BY <1>0, EventTyped DEF Sync!CancelSubscriptionNow, Sync!Ours
<1>1. PICK i \in Sync!Sub : i = Sync!EventOf(h).sub /\ stripe[i] # "none"
  BY <1>8 DEF SyncInv, EventsAreStarted
<1>2. /\ handler[h].pc = "retrieve"
      /\ stripe' = [stripe EXCEPT ![i] = "CANCELED"] /\ Sync!Send(i, "changed")
      /\ Sync!Goto(h, "read", "CANCELED", Sync!NoRow)
      /\ UNCHANGED <<trialed, processed, local, trialUsed, notices, overlaps>>
  BY <1>1 DEF Sync!CancelSubscriptionNow
<1>3. /\ stripe' \in [Sync!Sub -> Status] /\ stripe'[i] # "none"
      /\ \A j \in Sync!Sub : j # i => stripe'[j] = stripe[j]
  BY <1>0, <1>2 DEF Sync!TypeOK, Status, Sync!SubscriptionStatus
<1>4. trialed \subseteq trialed' /\ trialed' \subseteq Sync!Sub /\ (i \in trialed' \/ trialUsed)
  BY <1>0, <1>1, <1>2 DEF SyncInv, StartedIsTrialed, Sync!TypeOK
<1>5. PICK q \in HandlerState : /\ handler' = [handler EXCEPT ![h] = q]
                                /\ q.pc = "read" /\ q.event = handler[h].event
  <2>1. "CANCELED" \in Status /\ handler[h].pc # "idle"
    BY <1>2 DEF Status, Sync!SubscriptionStatus
  <2> QED
    BY <1>0, <1>2, <2>1, GotoState
<1>6. \A g \in Handler : /\ handler'[g].event = handler[g].event
                         /\ handler'[g].pc = "idle" <=> handler[g].pc = "idle"
                         /\ handler'[g].pc = "record" => handler[g].pc = "record"
                         /\ handler'[g].pc \in {"read", "commit"} =>
                                handler[g].event \in Sync!Ours
  <2>1. \A g \in Handler : handler'[g] = IF g = h THEN q ELSE handler[g]
    BY <1>0, <1>5
  <2> QED
    BY <1>2, <1>5, <1>8, <2>1 DEF SyncInv, RetrievedIsOurs
<1>9. i \in Nat \ {0}
  BY DEF Sync!Sub
<1>7. handler' \in [Handler -> HandlerState] /\ "changed" \in Sync!Kind
  BY <1>0, <1>5 DEF Sync!Kind
<1> QED
  BY <1>2, <1>3, <1>4, <1>6, <1>7, <1>9, SendStep

\* Every step keeps the invariant.
LEMMA NextSync == SyncInv /\ [Sync!Next]_Sync!vars => SyncInv'
<1> SUFFICES ASSUME SyncInv, [Sync!Next]_Sync!vars PROVE SyncInv'
  OBVIOUS
<1>1. CASE UNCHANGED Sync!vars
  BY <1>1 DEF Sync!vars, SyncInv, SyncTypes, Sync!TypeOK, HandlersHaveEvents, SecondsAreBounded,
     EventsAreStarted, RetrievedIsOurs, StartedIsTrialed, WrittenIsRemembered, NothingWritten,
     RefundsAreTold, Told, Sync!NotifiedOnce, Sync!EventId, Sync!Ours
<1>2. CASE Sync!Next
  BY <1>2, StripeStepsSync, OtherStepSync, QuietStepsSync, SyncStepsSync, CancelStepSync
  DEF Sync!Next
<1> QED
  BY <1>1, <1>2

\* Repeated, delayed, reordered and overlapping events, and handlers that die
\* anywhere: a trial stays remembered and the owner is told of an event once.
THEOREM SyncStaysConsistent ==
    ASSUME Sync!BoundsAssumption PROVE Sync!Spec => []Sync!SyncConsistent
<1>1. SyncInv => Sync!SyncConsistent
  <2> SUFFICES ASSUME SyncInv, NEW e \in processed, events[e].sub \in trialed PROVE trialUsed
    BY DEF SyncInv, SyncTypes, Sync!SyncConsistent, Sync!TrialIsRemembered
  <2>1. e \in Sync!EventId /\ events[e].sub \in Sync!Sub
    BY DEF SyncInv, SyncTypes, Sync!TypeOK
  <2>2. e \in Sync!Ours
    BY <2>1 DEF SyncInv, EventsAreStarted, Sync!Sub
  <2> QED
    BY <2>2 DEF SyncInv, WrittenIsRemembered, NothingWritten
<1>2. Sync!Init => SyncInv
  BY InitSync
<1> QED
  BY <1>1, <1>2, NextSync, PTL DEF Sync!Spec

-----------------------------------------------------------------------------
(* One event at a time                                                     *)

\* While no handler started beside another, one at most is at work, and what it
\* read of the row is what is there when it commits.
Alone ==
    overlaps = 0 => \A g, h \in Handler : g # h => handler[g].pc = "idle" \/ handler[h].pc = "idle"
LoneReads ==
    overlaps = 0 => \A h \in Handler : handler[h].pc = "commit" =>
        handler[h].existing = local /\ local.last < events[handler[h].event].at

GraceRuns == local.status = "PAST_DUE" => local.grace # 0

LoneInv == SyncInv /\ Alone /\ LoneReads /\ GraceRuns

\* A status of subscription i is Stripe's, or an event after e tells of the change.
Fresh(subs, sent, e, i, status) ==
    status = subs[i] \/ \E d \in 1..Len(sent) : d > e /\ sent[d].sub = i /\ sent[d].kind # "other"

\* Stripe: the subscriptions before one that was started have ended, seconds grow
\* with the events, and a change is of the subscription started last, or an event
\* after it is of a later one.
EarlierEnded == \A i, j \in Sync!Sub : i < j /\ stripe[j] # "none" => stripe[i] = "CANCELED"
SecondsGrow == \A d, e \in Sync!EventId : d <= e => events[d].at <= events[e].at
ChangedIsLatest ==
    \A e \in Sync!EventId, j \in Sync!Sub :
        events[e].kind = "changed" /\ j > events[e].sub /\ stripe[j] # "none" =>
            \E d \in Sync!Ours : d > e /\ events[d].sub = j
StripeInv == EarlierEnded /\ SecondsGrow /\ ChangedIsLatest

\* What was retrieved for an event, and what was written for one, is what Stripe
\* has, or an event after it is to come; and what was handled is no newer than
\* the row.
RetrievedIsFresh ==
    \A h \in Handler : handler[h].pc \in {"read", "commit"} =>
        Fresh(stripe, events, handler[h].event, events[handler[h].event].sub, handler[h].status)
RowIsFresh ==
    overlaps = 0 /\ local.last # 0 =>
        \E e \in Sync!Ours : /\ local.last = events[e].at /\ local.sub = events[e].sub
                             /\ Fresh(stripe, events, e, local.sub, local.status)
HandledIsWritten ==
    overlaps = 0 =>
        /\ \A e \in processed \cap Sync!Ours : events[e].at <= local.last
        /\ \A h \in Handler : handler[h].pc = "record" /\ handler[h].event \in Sync!Ours =>
              events[handler[h].event].at <= local.last

FollowInv == LoneInv /\ StripeInv /\ RetrievedIsFresh /\ RowIsFresh /\ HandledIsWritten

\* A step of handler h, beside which no other is at work.
Lone(h) == \A g \in Handler : g # h => handler[g].pc = "idle"

\* It stays alone, and is at its commit only with the row that is there.
LEMMA LoneStep ==
    ASSUME LoneInv, NEW h \in Handler, NEW q \in HandlerState,
           handler' = [handler EXCEPT ![h] = q], overlaps' = 0 => overlaps = 0 /\ Lone(h),
           overlaps' = 0 /\ q.pc = "commit" =>
               q.existing = local' /\ local'.last < events'[q.event].at
    PROVE  Alone' /\ LoneReads' /\ (overlaps' = 0 => Lone(h)')
<1>1. handler' \in [Handler -> HandlerState] /\ handler'[h] = q
      /\ \A g \in Handler : g # h => handler'[g] = handler[g]
  BY TypesOfHandlers DEF LoneInv, SyncInv
<1>2. overlaps' = 0 => Lone(h)'
  BY <1>1 DEF Lone
<1>3. Alone'
  BY <1>2 DEF Lone, Alone
<1>4. LoneReads'
  BY <1>1, <1>2 DEF Lone, LoneReads
<1> QED
  BY <1>2, <1>3, <1>4

\* A handler at work is alone.
LEMMA AtWorkIsLone ==
    ASSUME LoneInv, NEW h \in Handler, handler[h].pc # "idle"
    PROVE  overlaps = 0 => Lone(h)
BY DEF LoneInv, Alone, Lone

\* One that receives while the count stays zero met no other.
LEMMA ReceiveIsLone ==
    ASSUME LoneInv, NEW h \in Handler, NEW e \in Sync!EventId, Sync!Receive(h, e), overlaps' = 0
    PROVE  overlaps = 0 /\ Lone(h)
<1>1. overlaps \in Nat
  BY DEF LoneInv, SyncInv, SyncTypes, Sync!TypeOK
<1>2. overlaps' = overlaps + Sync!Beside(h) /\ Sync!Beside(h) \in {0, 1}
  BY DEF Sync!Receive, Sync!Beside
<1>3. overlaps = 0 /\ Sync!Beside(h) = 0
  BY <1>1, <1>2
<1> QED
  BY <1>3 DEF Sync!Beside, Lone

\* At first there is neither a row nor a handler at work.
LEMMA InitLone == ASSUME Sync!BoundsAssumption, Sync!Init PROVE LoneInv
<1>1. \A h \in Handler : handler[h].pc = "idle"
  BY DEF Sync!Init, Sync!IdleHandler, Sync!At
<1>2. local.status = "none"
  BY DEF Sync!Init, Sync!NoRow
<1> QED
  BY <1>1, <1>2, InitSync DEF LoneInv, Alone, LoneReads, GraceRuns

\* Stripe leaves the row and the handlers alone.
LEMMA StripeLone ==
    ASSUME LoneInv, NEW i \in Sync!Sub,
           \/ Sync!StartSubscription(i) \/ Sync!FailPaymentAgain(i) \/ Sync!Refund(i)
           \/ \E status \in Sync!SubscriptionStatus : Sync!ChangeSubscription(i, status)
    PROVE  LoneInv'
<1>0. SyncInv /\ SyncTypes
  BY DEF LoneInv, SyncInv
<1>1. PICK kind \in Sync!Kind \ {"other"} : Sync!Send(i, kind)
  BY DEF Sync!StartSubscription, Sync!FailPaymentAgain, Sync!Refund, Sync!ChangeSubscription,
         Sync!Kind
<1>2. UNCHANGED <<local, overlaps, handler>>
  BY DEF Sync!StartSubscription, Sync!FailPaymentAgain, Sync!Refund, Sync!ChangeSubscription
<1>3. \A h \in Handler : handler[h].pc = "commit" =>
         events'[handler[h].event] = events[handler[h].event]
  BY <1>0, <1>1, SendAppends DEF SyncTypes, HandlersHaveEvents
<1>4. Alone' /\ LoneReads' /\ GraceRuns'
  BY <1>2, <1>3 DEF LoneInv, Alone, LoneReads, GraceRuns
<1> QED
  BY <1>0, <1>4, StripeStepsSync DEF LoneInv

\* So does an event that is none of ours.
LEMMA OtherLone == ASSUME LoneInv, Sync!OtherEvent PROVE LoneInv'
<1>0. SyncInv /\ SyncTypes /\ Sync!Send(0, "other") /\ "other" \in Sync!Kind
  BY DEF LoneInv, SyncInv, Sync!OtherEvent, Sync!Kind
<1>1. UNCHANGED <<local, overlaps, handler>>
  BY DEF Sync!OtherEvent
<1>2. \A h \in Handler : handler[h].pc = "commit" =>
         events'[handler[h].event] = events[handler[h].event]
  BY <1>0, SendAppends DEF SyncTypes, HandlersHaveEvents
<1>3. Alone' /\ LoneReads' /\ GraceRuns'
  BY <1>1, <1>2 DEF LoneInv, Alone, LoneReads, GraceRuns
<1> QED
  BY <1>0, <1>3, OtherStepSync DEF LoneInv

\* Steps of a handler that leave the row alone.
LEMMA HandlerLone ==
    ASSUME LoneInv, NEW h \in Handler,
           \/ \E e \in Sync!EventId : Sync!Receive(h, e)
           \/ Sync!IgnoreEvent(h) \/ Sync!Retrieve(h) \/ Sync!CancelSubscriptionNow(h)
           \/ Sync!ReadExisting(h) \/ Sync!Record(h) \/ Sync!Fail(h)
    PROVE  /\ LoneInv' /\ UNCHANGED local /\ (overlaps' = 0 => overlaps = 0 /\ Lone(h) /\ Lone(h)')
<1>0. SyncInv /\ SyncTypes /\ Sync!NoRow \in Sync!Row
  BY DEF LoneInv, SyncInv, SyncTypes, Sync!NoRow, Sync!Row, Sync!BoundsAssumption
<1>1. SyncInv'
  BY <1>0, QuietStepsSync, SyncStepsSync, CancelStepSync
<1>2. UNCHANGED local
  BY DEF Sync!Receive, Sync!IgnoreEvent, Sync!Retrieve, Sync!CancelSubscriptionNow,
         Sync!ReadExisting, Sync!Record, Sync!Fail
<1>3. overlaps' = 0 => overlaps = 0 /\ Lone(h)
  <2>1. CASE \E e \in Sync!EventId : Sync!Receive(h, e)
    BY <2>1, ReceiveIsLone
  <2>2. CASE ~ \E e \in Sync!EventId : Sync!Receive(h, e)
    <3>1. UNCHANGED overlaps /\ handler[h].pc # "idle"
      BY <2>2 DEF Sync!IgnoreEvent, Sync!Retrieve, Sync!CancelSubscriptionNow, Sync!ReadExisting,
                  Sync!Record, Sync!Fail
    <3> QED
      BY <3>1, AtWorkIsLone
  <2> QED
    BY <2>1, <2>2
<1>4. PICK q \in HandlerState :
         /\ handler' = [handler EXCEPT ![h] = q]
         /\ q.pc = "commit" => q.existing = local' /\ local'.last < events'[q.event].at
  <2>1. CASE \E e \in Sync!EventId : Sync!Receive(h, e)
    <3>1. PICK e \in Sync!EventId : Sync!Receive(h, e)
      BY <2>1
    <3>2. e \in 0..MaxEvents
      BY <1>0, LenProperties DEF SyncTypes, Sync!EventId, Sync!TypeOK, Sync!BoundsAssumption
    <3> DEFINE q == Sync!At("retrieve", e, "none", Sync!NoRow)
    <3>3. q \in HandlerState /\ q.pc = "retrieve"
      BY <1>0, <3>2 DEF Sync!At, HandlerState, Status
    <3> QED
      BY <3>1, <3>3 DEF Sync!Receive
  <2>2. CASE Sync!Retrieve(h) \/ Sync!CancelSubscriptionNow(h)
    <3>1. handler[h].pc # "idle"
      BY <2>2 DEF Sync!Retrieve, Sync!CancelSubscriptionNow
    <3>5. Sync!EventOf(h).sub \in Sync!Sub
      BY <1>0, <2>2, <3>1, EventTyped
      DEF Sync!Retrieve, Sync!CancelSubscriptionNow, Sync!Ours, SyncInv, EventsAreStarted
    <3>2. stripe[Sync!EventOf(h).sub] \in Status /\ "CANCELED" \in Status
      BY <1>0, <3>5 DEF SyncTypes, Sync!TypeOK, Status, Sync!SubscriptionStatus
    <3>3. \E status \in Status : Sync!Goto(h, "read", status, Sync!NoRow)
      BY <2>2, <3>2 DEF Sync!Retrieve, Sync!CancelSubscriptionNow
    <3>4. \E q \in HandlerState : handler' = [handler EXCEPT ![h] = q] /\ q.pc = "read"
      BY <1>0, <3>1, <3>3, GotoState
    <3> QED
      BY <3>4
  <2>3. CASE Sync!ReadExisting(h)
    <3> DEFINE old == local.last >= Sync!EventOf(h).at
               pc == IF old THEN "record" ELSE "commit"
    <3>1. /\ handler[h].pc # "idle" /\ Sync!Goto(h, pc, handler[h].status, local)
          /\ UNCHANGED <<local, events>>
      BY <2>3 DEF Sync!ReadExisting
    <3>2. /\ handler[h].status \in Status /\ Sync!EventOf(h) = events[handler[h].event]
          /\ Sync!EventOf(h).at \in Nat /\ local.last \in Nat /\ local \in Sync!Row
      BY <1>0, <3>1, EventTyped DEF Event, SyncTypes, Sync!TypeOK, Sync!Row, Sync!BoundsAssumption
    <3>3. PICK q \in HandlerState :
            /\ handler' = [handler EXCEPT ![h] = q] /\ q.pc = pc
            /\ q.event = handler[h].event /\ q.existing = local
      BY <1>0, <3>1, <3>2, GotoState
    <3>4. q.pc = "commit" => local.last < events[q.event].at
      BY <3>2, <3>3
    <3> QED
      BY <3>1, <3>3, <3>4
  <2>4. CASE Sync!Record(h) \/ Sync!Fail(h)
    BY <1>0, <2>4, FinishState DEF Sync!Record, Sync!Fail
  <2>5. CASE Sync!IgnoreEvent(h)
    <3>1. /\ handler[h].pc # "idle" /\ "none" \in Status
          /\ Sync!Goto(h, "record", "none", Sync!NoRow)
      BY <2>5 DEF Sync!IgnoreEvent, Status
    <3>2. \E q \in HandlerState : handler' = [handler EXCEPT ![h] = q] /\ q.pc = "record"
      BY <1>0, <3>1, GotoState
    <3> QED
      BY <3>2
  <2> QED
    BY <2>1, <2>2, <2>3, <2>4, <2>5
<1>5. Alone' /\ LoneReads' /\ (overlaps' = 0 => Lone(h)')
  BY <1>3, <1>4, LoneStep
<1> QED
  BY <1>1, <1>2, <1>3, <1>5 DEF LoneInv, GraceRuns

\* The commit: a failed payment leaves the row with an end of its grace period.
LEMMA CommitLone ==
    ASSUME LoneInv, NEW h \in Handler, Sync!SyncSubscription(h)
    PROVE  LoneInv' /\ (overlaps' = 0 => overlaps = 0 /\ Lone(h) /\ Lone(h)')
<1>0. SyncInv /\ SyncTypes /\ Sync!BoundsAssumption /\ Sync!NoRow \in Sync!Row
  BY DEF LoneInv, SyncInv, SyncTypes, Sync!NoRow, Sync!Row, Sync!BoundsAssumption
<1>1. /\ handler[h].pc # "idle" /\ UNCHANGED overlaps /\ Sync!Goto(h, "record", "none", Sync!NoRow)
      /\ local'.status = handler[h].status
      /\ local'.grace = Sync!GraceFor(handler[h].status, handler[h].existing, Sync!EventOf(h).at)
  BY DEF Sync!SyncSubscription
<1>2. SyncInv'
  BY <1>0, SyncStepsSync
<1>3. PICK q \in HandlerState : handler' = [handler EXCEPT ![h] = q] /\ q.pc = "record"
  BY <1>0, <1>1, GotoState DEF Status
<1>4. overlaps' = 0 => overlaps = 0 /\ Lone(h)
  BY <1>1, AtWorkIsLone
<1>5. GraceRuns'
  <2>1. handler[h].existing \in Sync!Row /\ Sync!EventOf(h).at \in 1..MaxEvents
    BY <1>0, <1>1, EventTyped DEF Event
  <2> QED
    BY <1>0, <1>1, <2>1, GraceTyped DEF GraceRuns
<1> QED
  BY <1>2, <1>3, <1>4, <1>5, LoneStep DEF LoneInv

\* Every step keeps what a lone handler relies on.
LEMMA NextLone == LoneInv /\ [Sync!Next]_Sync!vars => LoneInv'
<1> SUFFICES ASSUME LoneInv, [Sync!Next]_Sync!vars PROVE LoneInv'
  OBVIOUS
<1>1. CASE UNCHANGED Sync!vars
  BY <1>1, NextSync DEF Sync!vars, LoneInv, Alone, LoneReads, GraceRuns
<1>2. CASE Sync!Next
  BY <1>2, StripeLone, OtherLone, HandlerLone, CommitLone DEF Sync!Next
<1> QED
  BY <1>1, <1>2

\* A failed payment does not move the end of the grace period that an earlier
\* one began, as long as events are handled one at a time.
THEOREM GraceStaysKept == ASSUME Sync!BoundsAssumption PROVE Sync!Spec => Sync!GraceIsKept
<1>1. LoneInv /\ [Sync!Next]_Sync!vars =>
         [overlaps = 0 /\ local.status = "PAST_DUE" /\ local'.status = "PAST_DUE"
             => local'.grace = local.grace]_Sync!vars
  <2> SUFFICES ASSUME LoneInv, Sync!Next, overlaps = 0, local.status = "PAST_DUE",
                      local'.status = "PAST_DUE"
               PROVE  local'.grace = local.grace
    OBVIOUS
  <2>1. CASE \E h \in Handler : Sync!SyncSubscription(h)
    <3>1. PICK h \in Handler : Sync!SyncSubscription(h)
      BY <2>1
    <3>2. /\ handler[h].existing = local /\ handler[h].status = "PAST_DUE"
          /\ local'.grace = Sync!GraceFor(handler[h].status, handler[h].existing, Sync!EventOf(h).at)
      BY <3>1 DEF Sync!SyncSubscription, LoneInv, LoneReads
    <3> QED
      BY <3>2 DEF Sync!GraceFor, LoneInv, GraceRuns
  <2>2. CASE ~ \E h \in Handler : Sync!SyncSubscription(h)
    <3>1. UNCHANGED local
      BY <2>2, HandlerLone DEF Sync!Next, Sync!StartSubscription, Sync!FailPaymentAgain, Sync!Refund,
         Sync!ChangeSubscription, Sync!OtherEvent
    <3> QED
      BY <3>1
  <2> QED
    BY <2>1, <2>2
<1>2. Sync!Init => LoneInv
  BY InitLone
<1> QED
  BY <1>1, <1>2, NextLone, PTL DEF Sync!Spec, Sync!GraceIsKept

\* Stripe sends an event of j, of none of ours, and changes no other subscription.
Tells(j, kind) ==
    /\ Sync!Send(j, kind) /\ (j = 0 <=> kind = "other")
    /\ \A k \in Sync!Sub : k # j => stripe'[k] = stripe[k]

\* A change of a subscription comes with an event of it.
LEMMA FreshStays ==
    ASSUME SyncTypes, NEW e \in Sync!EventId, NEW i \in Sync!Sub, NEW status,
           Fresh(stripe, events, e, i, status),
           \/ UNCHANGED <<stripe, events>>
           \/ \E j \in Sync!Sub \cup {0}, kind \in Sync!Kind : Tells(j, kind)
    PROVE  Fresh(stripe', events', e, i, status)
<1>1. CASE UNCHANGED <<stripe, events>>
  BY <1>1
<1>2. ASSUME NEW j \in Sync!Sub \cup {0}, NEW kind \in Sync!Kind, Tells(j, kind)
      PROVE  Fresh(stripe', events', e, i, status)
  <2>1. /\ Sync!EventId' = Sync!EventId \cup {Len(events) + 1}
        /\ \A d \in Sync!EventId : events'[d] = events[d]
        /\ events'[Len(events) + 1].sub = j /\ events'[Len(events) + 1].kind = kind
    BY <1>2, SendAppends DEF Tells
  <2>2. CASE \E d \in Sync!EventId : d > e /\ events[d].sub = i /\ events[d].kind # "other"
    BY <2>1, <2>2 DEF Fresh, Sync!EventId
  <2>3. CASE status = stripe[i] /\ i # j
    BY <1>2, <2>3 DEF Fresh, Tells
  <2>4. CASE i = j
    <3>1. Len(events) + 1 > e
      BY LenProperties DEF Sync!EventId, SyncTypes
    <3>2. kind # "other"
      BY <1>2, <2>4 DEF Tells, Sync!Sub
    <3> QED
      BY <2>1, <2>4, <3>1, <3>2 DEF Fresh, Sync!EventId
  <2> QED
    BY <2>2, <2>3, <2>4 DEF Fresh, Sync!EventId
<1> QED
  BY <1>1, <1>2

\* Stripe's own order: what it sends comes last, and only the subscription that
\* was started last changes.
LEMMA StripeInvSent ==
    ASSUME SyncTypes, StripeInv, NEW i \in Sync!Sub \cup {0}, NEW kind \in Sync!Kind, Tells(i, kind),
           i \in Sync!Sub =>
              \/ stripe'[i] = stripe[i] \/ stripe[i] \in Sync!Live
              \/ stripe[i] = "none" /\ \A j \in 1..(i - 1) : stripe[j] = "CANCELED",
           kind = "changed" => stripe[i] # "CANCELED"
    PROVE  StripeInv'
<1>1. /\ Sync!EventId' = Sync!EventId \cup {Len(events) + 1}
      /\ \A e \in Sync!EventId : events'[e] = events[e]
      /\ events'[Len(events) + 1].sub = i /\ events'[Len(events) + 1].kind = kind
      /\ events'[Len(events) + 1].at >= Sync!LastSecond
      /\ events'[Len(events) + 1].at \in 1..MaxEvents
  BY SendAppends DEF Tells, Event
<1>2. Len(events) \in Nat /\ Sync!EventId = 1..Len(events) /\ MaxSub \in Nat /\ MaxEvents \in Nat
  BY LenProperties DEF SyncTypes, Sync!EventId, Sync!BoundsAssumption
<1>3. /\ Sync!Ours \subseteq Sync!Ours' /\ (i \in Sync!Sub => Len(events) + 1 \in Sync!Ours')
      /\ Sync!Ours \subseteq Sync!EventId
  BY <1>1, <1>2 DEF Sync!Ours, Tells, Sync!Sub
<1>4. \A j \in Sync!Sub : j # i => stripe'[j] = stripe[j]
  BY DEF Tells
<1>5. EarlierEnded'
  <2> SUFFICES ASSUME NEW k \in Sync!Sub, NEW j \in Sync!Sub, k < j, stripe'[j] # "none"
               PROVE  stripe'[k] = "CANCELED"
    BY DEF EarlierEnded
  <2>0. stripe[j] # "none" => stripe[k] = "CANCELED"
    BY DEF StripeInv, EarlierEnded
  <2>1. stripe[k] = "CANCELED"
    <3>1. CASE stripe[j] # "none"
      BY <2>0, <3>1
    <3>2. CASE stripe[j] = "none"
      <4>1. j = i /\ ~(stripe[i] \in Sync!Live) /\ stripe'[i] # stripe[i]
        BY <1>4, <3>2 DEF Sync!Live
      <4>2. k \in 1..(i - 1)
        BY <1>2, <4>1 DEF Sync!Sub
      <4> QED
        BY <4>1, <4>2
    <3> QED
      BY <3>1, <3>2
  <2> QED
    BY <1>4, <2>1 DEF Sync!Live
<1>6. SecondsGrow'
  <2>1. \A e \in Sync!EventId : events[e].at <= Sync!LastSecond
    <3> SUFFICES ASSUME NEW e \in Sync!EventId PROVE events[e].at <= Sync!LastSecond
      OBVIOUS
    <3>1. events # <<>>
      BY <1>2, EmptySeq DEF SyncTypes
    <3>2. Len(events) \in Sync!EventId /\ e <= Len(events)
      BY <1>2
    <3> QED
      BY <3>1, <3>2 DEF Sync!LastSecond, StripeInv, SecondsGrow
  <2>2. \A e \in Sync!EventId : events[e].at \in 1..MaxEvents
    BY DEF SyncTypes, Sync!TypeOK
  <2>3. \A e \in Sync!EventId : events[e].at <= events'[Len(events) + 1].at
    <3> SUFFICES ASSUME NEW e \in Sync!EventId PROVE events[e].at <= events'[Len(events) + 1].at
      OBVIOUS
    <3>1. Sync!LastSecond \in Nat
      <4>1. events # <<>> => Len(events) \in Sync!EventId
        BY <1>2, EmptySeq DEF SyncTypes
      <4> QED
        BY <1>2, <2>2, <4>1 DEF Sync!LastSecond
    <3> QED
      BY <1>1, <1>2, <2>1, <2>2, <3>1
  <2> QED
    BY <1>1, <1>2, <2>2, <2>3 DEF StripeInv, SecondsGrow
<1>7. ChangedIsLatest'
  <2> SUFFICES ASSUME NEW e \in Sync!EventId', NEW j \in Sync!Sub, events'[e].kind = "changed",
                      j > events'[e].sub, stripe'[j] # "none"
               PROVE  \E d \in Sync!Ours' : d > e /\ events'[d].sub = j
    BY DEF ChangedIsLatest
  <2>1. CASE e \in Sync!EventId /\ j = i
    BY <1>1, <1>2, <1>3, <2>1
  <2>2. CASE e \in Sync!EventId /\ j # i
    <3>1. \E d \in Sync!Ours : d > e /\ events[d].sub = j
      BY <1>1, <1>4, <2>2 DEF StripeInv, ChangedIsLatest
    <3> QED
      BY <1>1, <1>3, <3>1
  <2>3. CASE e = Len(events) + 1
    <3>1. kind = "changed" /\ j > i /\ i \in Sync!Sub
      BY <1>1, <2>3 DEF Tells
    <3>2. stripe[j] # "none"
      BY <1>4, <3>1 DEF Sync!Sub
    <3> QED
      BY <3>1, <3>2 DEF StripeInv, EarlierEnded
  <2> QED
    BY <1>1, <2>1, <2>2, <2>3
<1> QED
  BY <1>5, <1>6, <1>7 DEF StripeInv

\* Nothing is sent.
LEMMA StripeInvKept == StripeInv /\ UNCHANGED <<stripe, events>> => StripeInv'
BY DEF StripeInv, EarlierEnded, SecondsGrow, ChangedIsLatest, Sync!EventId, Sync!Ours

\* A step that leaves the row alone: what matters is what it does to a handler.
LEMMA FollowStep ==
    ASSUME FollowInv, LoneInv', StripeInv', UNCHANGED local, overlaps' = 0 => overlaps = 0,
           \/ UNCHANGED <<stripe, events>>
           \/ \E j \in Sync!Sub \cup {0}, kind \in Sync!Kind : Tells(j, kind),
           \A h \in Handler :
              \/ handler'[h] = handler[h]
              \/ /\ handler'[h].pc \in {"read", "commit"} =>
                       Fresh(stripe', events', handler'[h].event, events'[handler'[h].event].sub,
                             handler'[h].status)
                 /\ overlaps' = 0 /\ handler'[h].pc = "record" /\ handler'[h].event \in Sync!Ours' =>
                       events'[handler'[h].event].at <= local.last,
           overlaps' = 0 => \A e \in processed' :
              e \in processed \/ (e \in Sync!Ours' => events'[e].at <= local.last)
    PROVE  FollowInv'
<1>0. SyncInv /\ SyncTypes /\ Sync!TypeOK /\ HandlersHaveEvents
  BY DEF FollowInv, LoneInv, SyncInv, SyncTypes
<1>1. \A e \in Sync!EventId : e \in Sync!EventId' /\ events'[e] = events[e]
  <2>1. CASE UNCHANGED events
    BY <2>1 DEF Sync!EventId
  <2>2. CASE \E j \in Sync!Sub \cup {0}, kind \in Sync!Kind : Sync!Send(j, kind)
    BY <1>0, <2>2, SendAppends
  <2> QED
    BY <2>1, <2>2 DEF Tells
<1>5. \A e \in Sync!EventId : e \in Sync!Ours' <=> e \in Sync!Ours
  BY <1>1 DEF Sync!Ours
<1>2. RetrievedIsFresh'
  <2> SUFFICES ASSUME NEW h \in Handler, handler'[h].pc \in {"read", "commit"}
               PROVE  Fresh(stripe', events', handler'[h].event, events'[handler'[h].event].sub,
                            handler'[h].status)
    BY DEF RetrievedIsFresh
  <2>1. CASE handler'[h] = handler[h]
    <3>1. /\ handler[h].event \in Sync!EventId /\ events[handler[h].event].sub \in Sync!Sub
          /\ Fresh(stripe, events, handler[h].event, events[handler[h].event].sub, handler[h].status)
      BY <1>0, <2>1
      DEF HandlersHaveEvents, SyncInv, RetrievedIsOurs, EventsAreStarted, FollowInv, RetrievedIsFresh
    <3>2. Fresh(stripe', events', handler[h].event, events[handler[h].event].sub, handler[h].status)
      BY <1>0, <3>1, FreshStays
    <3> QED
      BY <1>1, <2>1, <3>1, <3>2
  <2> QED
    BY <2>1
<1>3. RowIsFresh'
  <2> SUFFICES ASSUME overlaps' = 0, local.last # 0
               PROVE  \E e \in Sync!Ours' :
                         /\ local.last = events'[e].at /\ local.sub = events'[e].sub
                         /\ Fresh(stripe', events', e, local.sub, local.status)
    BY DEF RowIsFresh
  <2>1. PICK e \in Sync!Ours : /\ local.last = events[e].at /\ local.sub = events[e].sub
                               /\ Fresh(stripe, events, e, local.sub, local.status)
    BY DEF FollowInv, RowIsFresh
  <2>2. local.sub \in Sync!Sub /\ e \in Sync!EventId
    BY <1>0, <2>1 DEF SyncInv, EventsAreStarted, Sync!Ours
  <2>3. Fresh(stripe', events', e, local.sub, local.status)
    BY <1>0, <2>1, <2>2, FreshStays
  <2> QED
    BY <1>1, <1>5, <2>1, <2>2, <2>3
<1>4. HandledIsWritten'
  <2> SUFFICES ASSUME overlaps' = 0
               PROVE  /\ \A e \in processed' \cap Sync!Ours' : events'[e].at <= local.last
                      /\ \A h \in Handler :
                            handler'[h].pc = "record" /\ handler'[h].event \in Sync!Ours' =>
                                events'[handler'[h].event].at <= local.last
    BY DEF HandledIsWritten
  <2>1. processed \subseteq Sync!EventId
    BY <1>0 DEF Sync!TypeOK
  <2>2. ASSUME NEW e \in processed' \cap Sync!Ours' PROVE events'[e].at <= local.last
    BY <1>1, <1>5, <2>1, <2>2 DEF FollowInv, HandledIsWritten
  <2>3. ASSUME NEW h \in Handler, handler'[h].pc = "record", handler'[h].event \in Sync!Ours'
        PROVE  events'[handler'[h].event].at <= local.last
    BY <1>0, <1>1, <1>5, <2>3 DEF FollowInv, HandledIsWritten, HandlersHaveEvents
  <2> QED
    BY <2>2, <2>3
<1> QED
  BY <1>2, <1>3, <1>4 DEF FollowInv

\* At first nothing was sent.
LEMMA InitFollow == ASSUME Sync!BoundsAssumption, Sync!Init PROVE FollowInv
<1>1. Sync!EventId = {} /\ Sync!Ours = {} /\ processed = {}
  BY DEF Sync!Init, Sync!EventId, Sync!Ours
<1>2. \A h \in Handler : handler[h].pc = "idle"
  BY DEF Sync!Init, Sync!IdleHandler, Sync!At
<1>3. local.last = 0 /\ \A i \in Sync!Sub : stripe[i] = "none"
  BY DEF Sync!Init, Sync!NoRow
<1>4. StripeInv
  BY <1>1, <1>3 DEF StripeInv, EarlierEnded, SecondsGrow, ChangedIsLatest
<1> QED
  BY <1>1, <1>2, <1>3, <1>4, InitLone
  DEF FollowInv, RetrievedIsFresh, RowIsFresh, HandledIsWritten

\* What Stripe changes, an event tells.
LEMMA StripeFollow ==
    ASSUME FollowInv, NEW i \in Sync!Sub,
           \/ Sync!StartSubscription(i) \/ Sync!FailPaymentAgain(i) \/ Sync!Refund(i)
           \/ \E status \in Sync!SubscriptionStatus : Sync!ChangeSubscription(i, status)
    PROVE  FollowInv'
<1>0. LoneInv /\ SyncTypes /\ Sync!TypeOK /\ StripeInv
  BY DEF FollowInv, LoneInv, SyncInv, SyncTypes
<1>1. PICK kind \in Sync!Kind \ {"other"} :
        Sync!Send(i, kind) /\ (kind = "changed" => stripe[i] # "CANCELED")
  BY DEF Sync!StartSubscription, Sync!FailPaymentAgain, Sync!Refund, Sync!ChangeSubscription,
         Sync!Kind, Sync!Live
<1>2. /\ UNCHANGED <<local, overlaps, handler, processed>>
      /\ \A k \in Sync!Sub : k # i => stripe'[k] = stripe[k]
  BY <1>0 DEF Sync!StartSubscription, Sync!FailPaymentAgain, Sync!Refund, Sync!ChangeSubscription,
         Sync!TypeOK
<1>3. \/ stripe'[i] = stripe[i] \/ stripe[i] \in Sync!Live
      \/ stripe[i] = "none" /\ \A j \in 1..(i - 1) : stripe[j] = "CANCELED"
  BY DEF Sync!StartSubscription, Sync!FailPaymentAgain, Sync!Refund, Sync!ChangeSubscription
<1>4. Tells(i, kind)
  BY <1>1, <1>2 DEF Tells, Sync!Sub
<1>5. StripeInv' /\ LoneInv'
  BY <1>0, <1>1, <1>3, <1>4, StripeInvSent, StripeLone
<1> QED
  BY <1>2, <1>4, <1>5, FollowStep

\* An event that is none of ours changes nothing.
LEMMA OtherFollow == ASSUME FollowInv, Sync!OtherEvent PROVE FollowInv'
<1>0. LoneInv /\ SyncTypes /\ StripeInv
  BY DEF FollowInv, LoneInv, SyncInv
<1>1. /\ Tells(0, "other") /\ "other" \in Sync!Kind /\ 0 \notin Sync!Sub
      /\ UNCHANGED <<stripe, local, overlaps, handler, processed>>
  BY DEF Tells, Sync!OtherEvent, Sync!Kind, Sync!Sub
<1>2. StripeInv' /\ LoneInv'
  BY <1>0, <1>1, StripeInvSent, OtherLone
<1> QED
  BY <1>1, <1>2, FollowStep

\* Handlers retrieve what Stripe has, and are done only when the row is as new
\* as their event.
LEMMA HandlerFollow ==
    ASSUME FollowInv, NEW h \in Handler,
           \/ \E e \in Sync!EventId : Sync!Receive(h, e)
           \/ Sync!IgnoreEvent(h) \/ Sync!Retrieve(h) \/ Sync!CancelSubscriptionNow(h)
           \/ Sync!ReadExisting(h) \/ Sync!Record(h) \/ Sync!Fail(h)
    PROVE  FollowInv'
<1>0. /\ LoneInv /\ SyncTypes /\ Sync!TypeOK /\ StripeInv /\ Sync!NoRow \in Sync!Row
      /\ handler \in [Handler -> HandlerState]
  BY TypesOfHandlers
  DEF FollowInv, LoneInv, SyncInv, SyncTypes, Sync!NoRow, Sync!Row, Sync!BoundsAssumption
<1>1. LoneInv' /\ UNCHANGED local /\ (overlaps' = 0 => overlaps = 0)
  BY <1>0, HandlerLone
<1>2. CASE \E e \in Sync!EventId : Sync!Receive(h, e)
  <2>1. /\ UNCHANGED <<stripe, events, processed>>
        /\ \A g \in Handler : handler'[g] = handler[g] \/ handler'[g].pc = "retrieve"
    BY <1>0, <1>2 DEF Sync!Receive, Sync!At
  <2> QED
    BY <1>0, <1>1, <2>1, StripeInvKept, FollowStep
<1>3. CASE Sync!Retrieve(h)
  <2>1. /\ UNCHANGED <<stripe, events, processed>> /\ handler[h].pc # "idle"
        /\ Sync!Goto(h, "read", stripe[Sync!EventOf(h).sub], Sync!NoRow)
    BY <1>3 DEF Sync!Retrieve
  <2>6. handler[h].event \in Sync!Ours /\ Sync!EventOf(h) = events[handler[h].event]
    BY <1>0, <1>3, <2>1, EventTyped DEF Sync!Retrieve, Sync!Ours
  <2>2. stripe[Sync!EventOf(h).sub] \in Status
    BY <1>0, <2>6 DEF FollowInv, LoneInv, SyncInv, EventsAreStarted, Sync!TypeOK, Status
  <2>3. PICK q \in HandlerState :
          /\ handler' = [handler EXCEPT ![h] = q] /\ q.pc = "read" /\ q.event = handler[h].event
          /\ q.status = stripe[Sync!EventOf(h).sub]
    BY <1>0, <2>1, <2>2, GotoState
  <2>4. Fresh(stripe', events', q.event, events'[q.event].sub, q.status)
    BY <2>1, <2>3, <2>6 DEF Fresh
  <2>5. \A g \in Handler : handler'[g] = handler[g] \/ handler'[g] = q
    BY <1>0, <2>3
  <2> QED
    BY <1>0, <1>1, <2>1, <2>3, <2>4, <2>5, StripeInvKept, FollowStep
<1>4. CASE Sync!CancelSubscriptionNow(h)
  <2>1. handler[h].pc # "idle"
    BY <1>4 DEF Sync!CancelSubscriptionNow
  <2>11. handler[h].event \in Sync!Ours /\ Sync!EventOf(h) = events[handler[h].event]
    BY <1>0, <1>4, <2>1, EventTyped DEF Sync!CancelSubscriptionNow, Sync!Ours
  <2>2. PICK i \in Sync!Sub : /\ i = Sync!EventOf(h).sub /\ i = events[handler[h].event].sub
                              /\ stripe[i] # "none"
    BY <2>11 DEF FollowInv, LoneInv, SyncInv, EventsAreStarted
  <2>3. /\ stripe' = [stripe EXCEPT ![i] = "CANCELED"] /\ Sync!Send(i, "changed")
        /\ UNCHANGED processed /\ Sync!Goto(h, "read", "CANCELED", Sync!NoRow)
    BY <1>4, <2>2 DEF Sync!CancelSubscriptionNow
  <2>4. PICK q \in HandlerState :
          /\ handler' = [handler EXCEPT ![h] = q] /\ q.pc = "read" /\ q.event = handler[h].event
          /\ q.status = "CANCELED" /\ q.event \in Sync!EventId
    <3>1. "CANCELED" \in Status
      BY DEF Status, Sync!SubscriptionStatus
    <3> QED
      BY <1>0, <2>1, <2>3, <3>1, GotoState
  <2>5. "changed" \in Sync!Kind /\ \A k \in Sync!Sub : k # i => stripe'[k] = stripe[k]
    BY <1>0, <2>3 DEF Sync!Kind, Sync!TypeOK
  <2>6. events'[q.event] = events[q.event]
    BY <1>0, <2>3, <2>4, <2>5, SendAppends
  <2>7. stripe'[i] = "CANCELED"
    BY <1>0, <2>3 DEF Sync!TypeOK
  <2>8. Fresh(stripe', events', q.event, events'[q.event].sub, q.status)
    BY <2>2, <2>4, <2>6, <2>7 DEF Fresh
  <2>9. \A g \in Handler : handler'[g] = handler[g] \/ handler'[g] = q
    BY <1>0, <2>4
  <2>12. stripe[i] \in Sync!Live /\ Tells(i, "changed")
    <3>1. stripe[i] \in Status /\ stripe[i] # "CANCELED" /\ i # 0
      BY <1>0, <1>4, <2>2 DEF Sync!CancelSubscriptionNow, Sync!TypeOK, Status, Sync!Sub
    <3> QED
      BY <2>2, <2>3, <2>5, <3>1 DEF Tells, Status, Sync!SubscriptionStatus
  <2>10. StripeInv'
    BY <1>0, <2>5, <2>12, StripeInvSent DEF Sync!Live
  <2> QED
    BY <1>1, <2>3, <2>4, <2>5, <2>8, <2>9, <2>10, <2>12, FollowStep
<1>5. CASE Sync!ReadExisting(h)
  <2> DEFINE old == local.last >= Sync!EventOf(h).at
             pc == IF old THEN "record" ELSE "commit"
  <2>1. /\ UNCHANGED <<stripe, events, processed>> /\ handler[h].pc = "read"
        /\ Sync!Goto(h, pc, handler[h].status, local)
    BY <1>5 DEF Sync!ReadExisting
  <2>2. /\ handler[h].status \in Status /\ local \in Sync!Row /\ handler[h].event \in Sync!EventId
        /\ Sync!EventOf(h) = events[handler[h].event]
    BY <1>0, <2>1, EventTyped DEF Sync!TypeOK
  <2>3. PICK q \in HandlerState :
          /\ handler' = [handler EXCEPT ![h] = q] /\ q.pc = pc /\ q.event = handler[h].event
          /\ q.status = handler[h].status
    BY <1>0, <2>1, <2>2, GotoState
  <2>4. Fresh(stripe', events', q.event, events'[q.event].sub, q.status)
    BY <2>1, <2>3 DEF FollowInv, RetrievedIsFresh
  <2>5. q.pc = "record" => events'[q.event].at <= local.last
    <3>2. local.last \in Nat /\ Sync!EventOf(h).at \in Nat
      BY <1>0, <2>1, <2>2, EventTyped DEF Sync!Row, Event, SyncTypes, Sync!BoundsAssumption
    <3> QED
      BY <2>1, <2>2, <2>3, <3>2
  <2>6. \A g \in Handler : handler'[g] = handler[g] \/ handler'[g] = q
    BY <1>0, <2>3
  <2> HIDE DEF pc
  <2> QED
    BY <1>0, <1>1, <2>1, <2>4, <2>5, <2>6, StripeInvKept, FollowStep
<1>6. CASE Sync!Record(h) \/ Sync!Fail(h)
  <2>1. PICK q \in HandlerState : handler' = [handler EXCEPT ![h] = q] /\ q.pc = "idle"
    BY <1>0, <1>6, FinishState DEF Sync!Record, Sync!Fail
  <2>2. \A g \in Handler : handler'[g] = handler[g] \/ handler'[g].pc = "idle"
    BY <1>0, <2>1
  <2>3. UNCHANGED <<stripe, events>>
    BY <1>6 DEF Sync!Record, Sync!Fail
  <2>4. overlaps = 0 => \A e \in processed' :
           e \in processed \/ (e \in Sync!Ours => events[e].at <= local.last)
    BY <1>6 DEF Sync!Record, Sync!Fail, FollowInv, HandledIsWritten
  <2>5. Sync!Ours' = Sync!Ours
    BY <2>3 DEF Sync!Ours, Sync!EventId
  <2> QED
    BY <1>0, <1>1, <2>2, <2>3, <2>4, <2>5, StripeInvKept, FollowStep
<1>7. CASE Sync!IgnoreEvent(h)
  <2>1. /\ UNCHANGED <<stripe, events, processed>> /\ handler[h].pc # "idle" /\ "none" \in Status
        /\ Sync!Goto(h, "record", "none", Sync!NoRow)
        /\ events[handler[h].event].kind = "other"
    BY <1>7 DEF Sync!IgnoreEvent, Status, Sync!EventOf
  <2>2. PICK q \in HandlerState :
          /\ handler' = [handler EXCEPT ![h] = q] /\ q.pc = "record" /\ q.event = handler[h].event
    BY <1>0, <2>1, GotoState
  <2>3. q.event \notin Sync!Ours'
    BY <2>1, <2>2 DEF Sync!Ours
  <2>4. \A g \in Handler : handler'[g] = handler[g] \/ handler'[g] = q
    BY <1>0, <2>2
  <2> QED
    BY <1>0, <1>1, <2>1, <2>2, <2>3, <2>4, StripeInvKept, FollowStep
<1> QED
  BY <1>2, <1>3, <1>4, <1>5, <1>6, <1>7

\* The commit of a lone handler moves the row to its event, which is newer.
LEMMA CommitFollow ==
    ASSUME FollowInv, NEW h \in Handler, Sync!SyncSubscription(h)
    PROVE  FollowInv'
<1>0. /\ LoneInv /\ SyncTypes /\ Sync!TypeOK /\ StripeInv /\ Sync!NoRow \in Sync!Row
      /\ handler \in [Handler -> HandlerState]
  BY TypesOfHandlers
  DEF FollowInv, LoneInv, SyncInv, SyncTypes, Sync!NoRow, Sync!Row, Sync!BoundsAssumption
<1> DEFINE e == handler[h].event
<1>1. /\ handler[h].pc = "commit" /\ UNCHANGED <<stripe, events, processed, overlaps>>
      /\ Sync!Goto(h, "record", "none", Sync!NoRow)
      /\ local'.sub = Sync!EventOf(h).sub /\ local'.status = handler[h].status
      /\ local'.last = Sync!EventOf(h).at
  BY DEF Sync!SyncSubscription
<1>2. e \in Sync!EventId /\ e \in Sync!Ours /\ Sync!EventOf(h) = events[e]
  BY <1>0, <1>1, EventTyped DEF LoneInv, SyncInv, RetrievedIsOurs
<1>3. PICK q \in HandlerState :
        handler' = [handler EXCEPT ![h] = q] /\ q.pc = "record" /\ q.event = e
  <2>1. "none" \in Status /\ handler[h].pc # "idle"
    BY <1>1 DEF Status
  <2> QED
    BY <1>0, <1>1, <2>1, GotoState
<1>4. handler'[h] = q /\ \A g \in Handler : g # h => handler'[g] = handler[g]
  BY <1>0, <1>3
<1>5. LoneInv' /\ (overlaps' = 0 => overlaps = 0 /\ Lone(h))
  BY <1>0, CommitLone
<1>6. Sync!EventId' = Sync!EventId /\ Sync!Ours' = Sync!Ours /\ StripeInv'
  BY <1>0, <1>1, StripeInvKept DEF Sync!EventId, Sync!Ours
<1>7. RetrievedIsFresh'
  BY <1>1, <1>3, <1>4 DEF FollowInv, RetrievedIsFresh
<1>8. RowIsFresh'
  <2>1. Fresh(stripe, events, e, events[e].sub, handler[h].status)
    BY <1>1 DEF FollowInv, RetrievedIsFresh
  <2> QED
    BY <1>1, <1>2, <1>6, <2>1 DEF RowIsFresh
<1>9. HandledIsWritten'
  <2> SUFFICES ASSUME overlaps = 0
               PROVE  /\ \A d \in processed \cap Sync!Ours : events[d].at <= events[e].at
                      /\ \A g \in Handler : handler'[g].pc = "record" => handler'[g].event = e
    <3>1. local'.last = events'[e].at /\ events'[e].at \in Nat /\ events' = events
      BY <1>0, <1>1, <1>2 DEF Sync!TypeOK
    <3> QED
      BY <1>1, <1>6, <3>1 DEF HandledIsWritten
  <2>1. /\ local.last < events[e].at /\ events[e].at \in Nat /\ local.last \in Nat
        /\ \A d \in processed : events[d].at \in Nat
    BY <1>0, <1>1, <1>2
    DEF LoneInv, LoneReads, Sync!TypeOK, Sync!Row, SyncTypes, Sync!BoundsAssumption
  <2>2. \A d \in processed \cap Sync!Ours : events[d].at <= local.last
    BY DEF FollowInv, HandledIsWritten
  <2>3. \A d \in processed \cap Sync!Ours : events[d].at <= events[e].at
    BY <2>1, <2>2
  <2> QED
    BY <1>1, <1>3, <1>4, <1>5, <2>3 DEF Lone
<1> QED
  BY <1>5, <1>6, <1>7, <1>8, <1>9 DEF FollowInv

\* Every step keeps the row behind no event that was handled.
LEMMA NextFollow == FollowInv /\ [Sync!Next]_Sync!vars => FollowInv'
<1> SUFFICES ASSUME FollowInv, [Sync!Next]_Sync!vars PROVE FollowInv'
  OBVIOUS
<1>1. CASE UNCHANGED Sync!vars
  BY <1>1, NextLone, StripeInvKept DEF Sync!vars, FollowInv, RetrievedIsFresh, RowIsFresh,
     HandledIsWritten, Sync!EventId, Sync!Ours
<1>2. CASE Sync!Next
  BY <1>2, StripeFollow, OtherFollow, HandlerFollow, CommitFollow DEF Sync!Next
<1> QED
  BY <1>1, <1>2

\* Events that are lost, repeated or out of order, handled one at a time, leave the
\* row at one of the newest second; if it is the only one, at Stripe's status and,
\* unless it is the refund of an earlier one, at the subscription started last.
THEOREM RowAlwaysFollows ==
    ASSUME Sync!BoundsAssumption PROVE Sync!Spec => []Sync!RowFollowsNewestEvent
<1>1. FollowInv => Sync!RowFollowsNewestEvent
  <2> SUFFICES ASSUME FollowInv, overlaps = 0, Sync!Settled, Sync!Ours # {}
               PROVE  \E e \in Sync!Newest :
                         /\ local.last = events[e].at /\ local.sub = events[e].sub
                         /\ Sync!Newest = {e} =>
                               /\ local.status = stripe[local.sub]
                               /\ local.sub = Sync!Latest \/ events[e].kind = "refund"
    BY DEF Sync!RowFollowsNewestEvent
  <2>0. SyncTypes /\ Sync!TypeOK /\ Sync!EventId \subseteq Nat /\ Sync!Ours \subseteq Sync!EventId
    BY DEF FollowInv, LoneInv, SyncInv, SyncTypes, Sync!EventId, Sync!Ours
  <2>1. /\ Sync!Ours \subseteq Sync!EventId /\ Sync!EventId \subseteq Nat /\ local.last \in Nat
        /\ MaxEvents \in Nat
        /\ \A e \in Sync!EventId : /\ events[e].at \in 1..MaxEvents
                                   /\ events[e].kind \in Sync!Kind
    BY <2>0 DEF SyncTypes, Sync!TypeOK, Sync!Row, Sync!BoundsAssumption
  <2>2. \A e \in Sync!Ours : events[e].at <= local.last
    BY <2>1 DEF Sync!Settled, FollowInv, HandledIsWritten
  <2>3. local.last # 0
    <3>1. PICK e \in Sync!Ours : TRUE
      OBVIOUS
    <3>2. events[e].at \in 1..MaxEvents /\ events[e].at <= local.last
      BY <2>1, <2>2, <3>1
    <3> QED
      BY <2>1, <3>2
  <2>4. PICK e \in Sync!Ours : /\ local.last = events[e].at /\ local.sub = events[e].sub
                               /\ Fresh(stripe, events, e, local.sub, local.status)
    BY <2>3 DEF FollowInv, RowIsFresh
  <2>5. e \in Sync!Newest
    BY <2>2, <2>4 DEF Sync!Newest
  <2>6. ASSUME Sync!Newest = {e}, NEW d \in Sync!Ours PROVE ~(d > e)
    <3>1. d > e => events[e].at <= events[d].at
      BY <2>1 DEF FollowInv, StripeInv, SecondsGrow
    <3>2. d > e => d \in Sync!Newest
      BY <2>1, <2>2, <2>4, <3>1 DEF Sync!Newest
    <3>3. d > e => d = e
      BY <2>6, <3>2
    <3>4. d \in Nat /\ e \in Nat
      BY <2>1
    <3> QED
      BY <3>3, <3>4
  <2>7. ASSUME Sync!Newest = {e} PROVE local.status = stripe[local.sub]
    BY <2>4, <2>6, <2>7 DEF Fresh, Sync!Ours, Sync!EventId
  <2>8. ASSUME Sync!Newest = {e}, events[e].kind # "refund" PROVE local.sub = Sync!Latest
    <3>1. events[e].kind = "changed"
      BY <2>1, <2>8 DEF Sync!Ours, Sync!Kind
    <3>2. \A j \in Sync!Started : ~(j > local.sub)
      BY <2>1, <2>4, <2>6, <2>8, <3>1 DEF FollowInv, StripeInv, ChangedIsLatest, Sync!Started
    <3>3. local.sub \in Sync!Started
      BY <2>4 DEF FollowInv, LoneInv, SyncInv, EventsAreStarted, Sync!Started
    <3>4. Sync!Started \subseteq Nat
      BY DEF Sync!Started, Sync!Sub
    <3>5. \A j \in Sync!Started : j <= local.sub
      <4> SUFFICES ASSUME NEW j \in Sync!Started PROVE j <= local.sub
        OBVIOUS
      <4>1. j \in Nat /\ local.sub \in Nat /\ ~(j > local.sub)
        BY <3>2, <3>3, <3>4
      <4> QED
        BY <4>1
    <3>6. /\ Sync!Latest \in Sync!Started
          /\ \A j \in Sync!Started : j <= Sync!Latest
      BY <3>3, <3>5 DEF Sync!Latest
    <3>7. Sync!Latest \in Nat /\ local.sub \in Nat
      BY <3>3, <3>4, <3>6
    <3>8. Sync!Latest <= local.sub /\ local.sub <= Sync!Latest
      BY <3>3, <3>5, <3>6
    <3> QED
      BY <3>7, <3>8
  <2> QED
    BY <2>4, <2>5, <2>7, <2>8
<1>2. Sync!Init => FollowInv
  BY InitFollow
<1>3. FollowInv /\ [Sync!Next]_Sync!vars => FollowInv'
  BY NextFollow
<1> QED
  BY <1>1, <1>2, <1>3, PTL DEF Sync!Spec
==============================================================================
