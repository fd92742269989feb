--------------------------- MODULE BrowserSession ---------------------------
(***************************************************************************)
(* The pages of one browser and the session they share: auth-session.ts,   *)
(* api-client.ts and auth.store.ts of the frontend, over the handlers of   *)
(* SessionRotation.  Every page keeps its own status; the refresh token is *)
(* in a cookie they share, which a call carries as it is when it is sent   *)
(* and an answer replaces when it arrives.  Calls of a page, calls of two  *)
(* pages and the steps of their handlers interleave; an answer, or a call, *)
(* may be lost.                                                            *)
(*                                                                         *)
(* A page makes API calls once it is authenticated.  One that is answered  *)
(* 401 refreshes, or joins the refresh that is under way, and is sent once *)
(* more; late ones are answered after the page has signed out.             *)
(***************************************************************************)
EXTENDS Naturals, FiniteSets

CONSTANTS Page,
          Session, Request,  \* of SessionRotation: a request serves a call
          None

ASSUME NoneAssumption == None \notin Session \cup Page

VARIABLES status, family, replacedBy, req,  \* the server
          cookie,  \* the refresh token in the cookie jar
          page,    \* useAuthStore: the status of each page
          busy,    \* the pages that have made API calls since they were opened,
                   \* any of which may be answered 401 at any time
          call,    \* the authentication call that each request serves
          haze     \* history: what went on that blurs who holds the session

server == <<status, family, replacedBy, req>>
vars == <<server, cookie, page, busy, call, haze>>

Server == INSTANCE SessionRotation

PageStatus == {"closed", "restoring", "authenticated", "unauthenticated", "error"}
RefreshKind == {"restore", "refresh"}
SignOutKind == {"logout", "logoutAll"}
CallKind == RefreshKind \cup SignOutKind \cup {"signin"}
Haze == {"own", "others", "failure"}

\* A call of page p, sent with the cookie tok; phase is sent, serving, answered
\* or abandoned; got is the refresh token of a good answer.
Call(p, kind, tok, phase, answer, got) ==
    [page |-> p, kind |-> kind, tok |-> tok, phase |-> phase, answer |-> answer, got |-> got]
NoCall == Call(None, "none", None, "none", "none", None)
UnderWay(r) == call[r] # NoCall
Pending(p, kinds) ==
    \E r \in Request : call[r].page = p /\ call[r].kind \in kinds /\ call[r].phase # "abandoned"

Init ==
    /\ Server!Init
    /\ cookie = None
    /\ page = [p \in Page |-> "closed"]
    /\ busy = {}
    /\ call = [r \in Request |-> NoCall]
    /\ haze = {}

-----------------------------------------------------------------------------
(* Pages                                                                   *)

\* Bound: each call under way still finds a session id for its answer.
SessionsLeft == Cardinality({s \in Session : status[s] = "absent"})
                    > Cardinality({r \in Request : UnderWay(r)})

\* What sending a call adds to the history.  It meets the work of another page:
\* a call of it under way, or the cookie of a sign-in of it.  Or it meets the
\* page's own: a call under way, or API calls that outlived their session.
HazeOf(p, kind) ==
    {h \in Haze :
        \/ /\ h = "others"
           /\ \/ \E r \in Request : UnderWay(r) /\ call[r].page # p
              \/ kind = "signin" /\ cookie # None
        \/ /\ h = "own"
           /\ \/ \E r \in Request : UnderWay(r) /\ call[r].page = p
              \/ kind = "refresh" /\ page[p] # "authenticated"}

\* Requests are interchangeable, and so are session ids: the next free one is used.
FirstFree(r) == r = CHOOSE q \in Request : ~UnderWay(q)
FirstAbsent(s) == s = CHOOSE n \in Session : status[n] = "absent"

\* Page p sends a call.
Send(p, r, kind) ==
    /\ ~UnderWay(r) /\ FirstFree(r)
    /\ SessionsLeft
    /\ call' = [call EXCEPT ![r] = Call(p, kind, cookie, "sent", "none", None)]
    /\ haze' = haze \cup HazeOf(p, kind)

\* AuthBootstrap restores the session when the page opens, and the user asks for
\* it again after an error, or on a callback page that was refused: one that was
\* never authenticated, since it leaves when it is.  (restorePromise: never
\* twice at a time.)
RestoreSession(p, r) ==
    /\ page[p] \in {"closed", "error"} \/ (page[p] = "unauthenticated" /\ p \notin busy)
    /\ ~Pending(p, {"restore"})
    /\ Send(p, r, "restore")
    /\ page' = [page EXCEPT ![p] = "restoring"]
    /\ UNCHANGED <<server, cookie, busy>>

\* Bug: every API call that is answered 401 refreshes by itself.
RefreshEach(p, r) ==
    /\ p \in busy
    /\ Send(p, r, "refresh")
    /\ UNCHANGED <<server, cookie, page, busy>>

\* An API call is answered 401 (the access token has expired, or the user is
\* gone), and no refresh of the page is under way.
RefreshAccessToken(p, r) ==
    /\ p \in busy
    /\ ~Pending(p, {"refresh"})
    /\ Send(p, r, "refresh")
    /\ UNCHANGED <<server, cookie, page, busy>>

\* The sign-in and sign-up forms, and that of the second factor, which no route
\* guard hides while the page is restoring or after it was authenticated.
SignIn(p, r) ==
    /\ page[p] # "closed"
    /\ ~Pending(p, {"signin"})
    /\ Send(p, r, "signin")
    /\ UNCHANGED <<server, cookie, page, busy>>

\* signOut and signOutAll.
SignOut(p, r, kind) ==
    /\ page[p] = "authenticated"
    /\ ~Pending(p, SignOutKind)
    /\ Send(p, r, kind)
    /\ UNCHANGED <<server, cookie, page, busy>>

-----------------------------------------------------------------------------
(* The server                                                              *)

\* The handler of r answers, to whom it may still concern.
Answer(r, answer, got) ==
    call' = [call EXCEPT ![r] = IF @.phase = "abandoned" THEN NoCall
                                ELSE Call(@.page, @.kind, @.tok, "answered", answer, got)]

Serving(r) == call' = [call EXCEPT ![r].phase = "serving"]

\* The refresh handler starts: without a cookie, or with a token that is not
\* good, it answers 401.
ServeRefresh(r) ==
    LET tok == call[r].tok IN
    /\ call[r].phase = "sent" /\ call[r].kind \in RefreshKind
    /\ \/ tok = None /\ Answer(r, "401", None) /\ UNCHANGED server
       \/ tok # None /\ Server!RefreshReject(r, tok) /\ Answer(r, "401", None)
       \/ tok # None /\ (Server!RefreshRead(r, tok) \/ Server!RefreshReplay(r, tok)) /\ Serving(r)
    /\ UNCHANGED <<cookie, page, busy, haze>>

\* It rotates, and answers with the new token; or revokes the family.
ServeRotation(r) ==
    /\ \/ \E n \in Session : Server!Rotate(r, n) /\ FirstAbsent(n) /\ Answer(r, "ok", n)
       \/ (Server!RotateLost(r) \/ Server!FamilyScan(r)) /\ UNCHANGED call
       \/ Server!Revoke(r) /\ Answer(r, IF req[r].job = "refresh" THEN "401" ELSE "ok", None)
    /\ UNCHANGED <<cookie, page, busy, haze>>

\* A sign-in opens a session.
ServeSignIn(r) ==
    /\ call[r].phase = "sent" /\ call[r].kind = "signin"
    /\ \E s \in Session : Server!SignIn(s) /\ FirstAbsent(s) /\ Answer(r, "ok", s)
    /\ UNCHANGED <<cookie, page, busy, haze>>

\* Bug: logout clears the cookie and leaves the session.
ServeLogoutOfCookie(r) ==
    /\ call[r].phase = "sent"
    /\ \/ call[r].kind = "logout" /\ Answer(r, "ok", None) /\ UNCHANGED server
       \/ call[r].kind = "logoutAll" /\ Server!SignOutScan(r, "logoutAll") /\ Serving(r)
    /\ UNCHANGED <<cookie, page, busy, haze>>

\* logout revokes the session of the cookie it got, if it can be; logoutAll
\* all of the user's.
ServeLogout(r) ==
    LET tok == call[r].tok IN
    /\ call[r].phase = "sent"
    /\ \/ /\ call[r].kind = "logout"
          /\ IF tok # None /\ Server!Unrevoked(tok) THEN Server!Logout(tok) ELSE UNCHANGED server
          /\ Answer(r, "ok", None)
       \/ call[r].kind = "logoutAll" /\ Server!SignOutScan(r, "logoutAll") /\ Serving(r)
    /\ UNCHANGED <<cookie, page, busy, haze>>

\* The server fails (500, or 429 of the rate limit) before the handler has
\* changed anything; what a failure between its steps does to the sessions is
\* SessionRotation's, and what the page sees of it is Lose.
ServeFailure(r) ==
    /\ call[r].phase = "sent"
    /\ Answer(r, "error", None)
    /\ haze' = haze \cup {"failure"}
    /\ UNCHANGED <<server, cookie, page, busy>>

\* REFRESH_TOKEN_TTL_DAYS pass, for the session and for its cookie.
Expire(s) ==
    /\ cookie = s
    /\ Server!Expire(s)
    /\ cookie' = None
    /\ UNCHANGED <<page, busy, call, haze>>

-----------------------------------------------------------------------------
(* Answers                                                                 *)

\* Bug: a session that has ended is a status of its own, which no route knows.
StatusEnded(kind, answer) ==
    CASE answer = "ok" -> IF kind \in SignOutKind THEN "unauthenticated" ELSE "authenticated"
      [] answer = "401" -> "ended"
      [] answer = "error" /\ kind = "restore" -> "error"
      [] OTHER -> "unauthenticated"

\* Bug: a restoration that is refused goes on waiting.
StatusRetriable(kind, answer) ==
    CASE answer = "ok" -> IF kind \in SignOutKind THEN "unauthenticated" ELSE "authenticated"
      [] answer # "ok" /\ kind = "restore" -> "restoring"
      [] OTHER -> "unauthenticated"

\* What an answer makes of the page: applyAuthentication, clearSessionState
\* (whatever became of a refresh or a sign-out that failed) or setRestoreError.
StatusAfter(kind, answer) ==
    CASE answer = "ok" -> IF kind \in SignOutKind THEN "unauthenticated" ELSE "authenticated"
      [] answer = "error" /\ kind = "restore" -> "error"
      [] OTHER -> "unauthenticated"

\* A sign-in that failed leaves the form as it is.
PageAfter(r, answer) ==
    IF call[r].kind = "signin" /\ answer # "ok" THEN page
    ELSE [page EXCEPT ![call[r].page] = StatusAfter(call[r].kind, answer)]

\* A good answer sets the cookie, or clears it; any other leaves it.
CookieAfter(r) == call[r].got

\* The answer arrives.
Deliver(r) ==
    /\ call[r].phase = "answered"
    /\ cookie' = IF call[r].answer = "ok" THEN CookieAfter(r) ELSE cookie
    /\ page' = PageAfter(r, call[r].answer)
    /\ busy' = busy \cup {p \in Page : page'[p] = "authenticated"}
    /\ call' = [call EXCEPT ![r] = NoCall]
    /\ UNCHANGED <<server, haze>>

\* The browser gives up on a call; a handler that runs goes on.
GivenUp(c) ==
    IF c.phase \in {"serving", "abandoned"}
    THEN Call(c.page, c.kind, c.tok, "abandoned", "none", None) ELSE NoCall

\* Bug: a call that takes too long counts as failed, and is still answered.
LoseEarly(r) ==
    /\ call[r].phase \in {"sent", "serving", "answered"}
    /\ page' = PageAfter(r, "error")
    /\ haze' = haze \cup {"failure"}
    /\ UNCHANGED <<server, cookie, busy, call>>

\* The network fails, before the call reaches the server or after.
Lose(r) ==
    /\ call[r].phase \in {"sent", "serving", "answered"}
    /\ page' = PageAfter(r, "error")
    /\ call' = [call EXCEPT ![r] = GivenUp(@)]
    /\ haze' = haze \cup {"failure"}
    /\ UNCHANGED <<server, cookie, busy>>

\* The page is closed, or left to be loaded anew: its calls with it.
Close(p) ==
    /\ page[p] # "closed"
    /\ page' = [page EXCEPT ![p] = "closed"]
    /\ busy' = busy \ {p}
    /\ call' = [r \in Request |-> IF call[r].page = p THEN GivenUp(call[r]) ELSE call[r]]
    /\ haze' = IF call' = call THEN haze ELSE haze \cup {"failure"}
    /\ UNCHANGED <<server, cookie>>

-----------------------------------------------------------------------------
\* What becomes of a call that was sent.
Settle(r) ==
    \/ ServeRefresh(r) \/ ServeRotation(r) \/ ServeSignIn(r) \/ ServeLogout(r) \/ Deliver(r)

Next ==
    \/ \E p \in Page :
          \/ Close(p)
          \/ \E r \in Request : \/ RestoreSession(p, r) \/ RefreshAccessToken(p, r) \/ SignIn(p, r)
                                \/ \E kind \in SignOutKind : SignOut(p, r, kind)
    \/ \E r \in Request : Settle(r) \/ ServeFailure(r) \/ Lose(r)
    \/ \E s \in Session : Expire(s)

Spec == Init /\ [][Next]_vars

\* The server answers what reaches it, and a fetch settles.
FairSpec == Spec /\ \A r \in Request : WF_vars(Settle(r))

-----------------------------------------------------------------------------
(* Properties                                                              *)

\* Pages, calls and the cookie hold values the code can write.
TypeOK ==
    /\ Server!TypeOK
    /\ cookie \in Session \cup {None}
    /\ page \in [Page -> PageStatus]
    /\ busy \subseteq Page
    /\ call \in [Request -> [page : Page \cup {None}, kind : CallKind \cup {"none"},
                             tok : Session \cup {None},
                             phase : {"none", "sent", "serving", "answered", "abandoned"},
                             answer : {"none", "ok", "401", "error"}, got : Session \cup {None}]]
    /\ haze \subseteq Haze

\* A page's own refreshes, however many API calls are answered 401 at once,
\* never look like the reuse of a stolen token: a family is revoked for reuse
\* only after a call failed or met the work of another page.
ReuseHasCause ==
    (\E s \in Session : status[s] = "REUSE_DETECTED") => haze \cap {"others", "failure"} # {}

\* The session the browser can use is the one in its cookie: no other session
\* of it is left usable on the server, as long as no call failed or met another
\* one and nobody signed in over a session.
NoOrphanSession ==
    haze = {} /\ (\A r \in Request : ~UnderWay(r)) =>
        \A s \in Session : status[s] = "valid" => s = cookie

\* A refresh token is presented twice, or a session left that no page can end, only for the
\* causes the client cannot exclude.
SessionHeldOnce == TypeOK /\ ReuseHasCause /\ NoOrphanSession

\* A page that has signed out, or was refused, shows the user's data again only
\* after a sign-in; otherwise a refresh of its own was under way beside its
\* sign-out, or one was still to come for a late 401.
SignedOutStaysOut ==
    [][\A p \in Page :
          page[p] = "unauthenticated" /\ page'[p] = "authenticated" =>
              \/ \E r \in Request : call[r].page = p /\ call[r].kind = "signin" /\ ~UnderWay(r)'
              \/ "own" \in haze]_vars

\* The splash screen goes away: a restoring page learns what it is.
RestoreEnds == \A p \in Page : (page[p] = "restoring") ~> (page[p] # "restoring")
=============================================================================
