----------------------------- MODULE WebSession -----------------------------
(***************************************************************************)
(* Signing in, being onboarded, moving between the pages of the web client *)
(* and signing out, in tabs that each have a cookie jar of their own, next *)
(* to the server of module Sessions.  A page is rendered by Next.js, which *)
(* asks GET /user with the tab's cookie and answers with the page and the  *)
(* user or with a redirect; the client keeps that user in its query cache  *)
(* (query key "user", staleTime Infinity) and renders from the cache.      *)
(*                                                                         *)
(* "order" is /order/new/[stage] and also /order/history, which decides in *)
(* the same way; "detail" is /order/detail/[id] of some order, perhaps not *)
(* the user's.                                                             *)
(***************************************************************************)
EXTENDS Sessions

NoData == [user |-> None, onboarded |-> FALSE]   \* the query has no data yet
Nobody == [user |-> None, onboarded |-> TRUE]    \* its data is null

VARIABLES
    cookie,    \* session_token
    page,      \* what the tab shows: "broken" after a render that threw,
               \* "blank" while it loads a document
    cached,    \* data of the query "user"
    nav,       \* where the router is going, None if it is not
    answer,    \* the props that are on their way, NoData if there are none
    popup,     \* the window of the sign-in button
    refetch,   \* refetchQueries(["user"]) of the sign-in is under way
    request    \* a mutation: onboarding, signing out, or a failed sign-out

browser == <<cookie, page, cached, nav, answer, popup, refetch, request>>
vars == <<server, browser>>

NeedsUser == {"onboard", "glance", "settings"}  \* useUserContext throws on null
ClientPages   == NeedsUser \cup {"order", "detail"}
MerchantPages == {"dashboard", "management"}
Routes == {"landing"} \cup ClientPages \cup MerchantPages

ASSUME WebAssumption == None \notin Routes

Home(u) == IF u.user \in Merchants THEN "dashboard" ELSE "glance"

WebInit ==
    /\ ServerInit
    /\ cookie = [t \in Tabs |-> None]
    /\ page   = [t \in Tabs |-> "landing"]
    /\ cached = [t \in Tabs |-> Nobody]
    /\ nav    = [t \in Tabs |-> None]
    /\ answer = [t \in Tabs |-> NoData]
    /\ popup  = [t \in Tabs |-> "closed"]
    /\ refetch = [t \in Tabs |-> FALSE]
    /\ request = [t \in Tabs |-> "none"]

\* GET /user with the cookie of tab t (fetchUser): the row of the session's
\* user, or null when there is no such session.
Me(t) == IF Live(cookie[t])
         THEN [user      |-> store[cookie[t]].user,
               onboarded |-> store[cookie[t]].user \in onboarded]
         ELSE Nobody
-----------------------------------------------------------------------------
\* getServerSideProps of each page: where it sends user u, itself to stay.
FromLanding(u) ==
    IF u = Nobody THEN "landing" ELSE IF ~u.onboarded THEN "onboard" ELSE Home(u)

\* Variant for a control run: the onboarding page sends everybody home.
FromOnboardHome(u) == IF u = Nobody THEN "landing" ELSE Home(u)

FromOnboard(u) ==
    IF u = Nobody THEN "landing" ELSE IF u.onboarded THEN Home(u) ELSE "onboard"

FromGlance(u) ==
    IF u = Nobody THEN "landing" ELSE IF ~u.onboarded THEN "onboard" ELSE Home(u)

\* These pages turn merchants away, and ask nobody whether they are onboarded.
ForClients(u, p) ==
    IF u = Nobody THEN "landing" ELSE IF u.user \in Merchants THEN "dashboard" ELSE p

FromSettings(u) == ForClients(u, "settings")
FromOrder(u)    == ForClients(u, "order")
FromDetail(u)   == ForClients(u, "detail")

\* Variant for a control run: the merchant's pages do not look at the role.
FromDashboardAnyRole(u) ==
    IF u = Nobody THEN "landing" ELSE IF ~u.onboarded THEN "onboard" ELSE "dashboard"

FromDashboard(u) ==
    IF u = Nobody THEN "landing"
    ELSE IF ~u.onboarded THEN "onboard"
    ELSE IF u.user \in Merchants THEN "dashboard" ELSE "landing"

FromManagement(u) ==
    IF u = Nobody THEN "landing"
    ELSE IF ~u.onboarded THEN "onboard"
    ELSE IF u.user \in Merchants THEN "management" ELSE "landing"

Redirect(p, u) ==
    [landing   |-> FromLanding(u),   onboard    |-> FromOnboard(u),
     glance    |-> FromGlance(u),    settings   |-> FromSettings(u),
     order     |-> FromOrder(u),     detail     |-> FromDetail(u),
     dashboard |-> FromDashboard(u), management |-> FromManagement(u)][p]

\* The router goes to p; what it was waiting for is dropped.
GoTo(t, p) ==
    /\ nav'    = [nav EXCEPT ![t] = p]
    /\ answer' = [answer EXCEPT ![t] = NoData]

\* The user follows a link or goes back; they wait for the last move to end.
Follow(t, p) ==
    /\ nav[t] = None /\ page[t] \in Routes
    /\ GoTo(t, p)
    /\ UNCHANGED <<server, cookie, page, cached, popup, refetch, request>>

\* The document goes, and all the tab knew with it.  Its connections close: the
\* handler of a request under way is dropped at its next await, if it has one
\* left, or ends unheard (Elsewhere).  The window of the sign-in button stays.
Forget(t) ==
    /\ page'    = [page EXCEPT ![t] = "blank"]
    /\ cached'  = [cached EXCEPT ![t] = NoData]
    /\ popup'   = [popup EXCEPT ![t] = "closed"]
    /\ refetch' = [refetch EXCEPT ![t] = FALSE]
    /\ request' = [request EXCEPT ![t] = "none"]

\* The user loads p as a document: the address bar, or reload.
Visit(t, p) ==
    /\ nav[t] = None
    /\ GoTo(t, p)
    /\ Forget(t)
    /\ UNCHANGED <<server, cookie>>

\* Next.js runs getServerSideProps: a redirect, which the router follows ...
ServeRedirect(t) ==
    /\ nav[t] # None /\ answer[t] = NoData
    /\ Serving
    /\ Redirect(nav[t], Me(t)) # nav[t]
    /\ nav' = [nav EXCEPT ![t] = Redirect(nav[t], Me(t))]
    /\ UNCHANGED <<server, cookie, page, cached, answer, popup,
                   refetch, request>>

\* ... or the props, with the user of that moment; for an order the details as
\* well, which the server gives to a session it holds for onboarded ...
ServeProps(t) ==
    /\ nav[t] # None /\ answer[t] = NoData
    /\ Serving
    /\ Redirect(nav[t], Me(t)) = nav[t]
    /\ nav[t] = "detail" => store[cookie[t]].onboarded
    /\ answer' = [answer EXCEPT ![t] = Me(t)]
    /\ UNCHANGED <<server, cookie, page, cached, nav, popup,
                   refetch, request>>

\* ... or it throws: prefetchUser when the backend is not there, and
\* prefetchDetailedOrder when the order is refused.  The router then loads the
\* document, and that is the page of error 500.
ServeError(t) ==
    /\ nav[t] # None /\ answer[t] = NoData
    /\ ~Serving \/ (nav[t] = "detail" /\ FromDetail(Me(t)) = "detail")
    /\ IF page[t] = "blank"
       THEN /\ page' = [page EXCEPT ![t] = "500"]
            /\ nav'  = [nav EXCEPT ![t] = None]
            /\ UNCHANGED <<cached, popup, refetch, request>>
       ELSE Forget(t) /\ UNCHANGED nav
    /\ UNCHANGED <<server, cookie, answer>>

\* The page arrives.  An empty cache takes its user at once.  To a cache that
\* has data HydrationBoundary gives the new user only after the render: a page
\* that needs a user throws before, if the cache has null.
Arrive(t) ==
    /\ answer[t] # NoData
    /\ IF nav[t] \in NeedsUser /\ cached[t] = Nobody
       THEN /\ page' = [page EXCEPT ![t] = "broken"]
            /\ UNCHANGED cached
       ELSE /\ page' = [page EXCEPT ![t] = nav[t]]
            /\ cached' = [cached EXCEPT ![t] = answer[t]]
    /\ nav' = [nav EXCEPT ![t] = None]
    /\ answer' = [answer EXCEPT ![t] = NoData]
    /\ request' = [request EXCEPT ![t] = IF @ = "failed" THEN "none" ELSE @]
    /\ UNCHANGED <<server, cookie, popup, refetch>>

-----------------------------------------------------------------------------
\* onSignInButtonClick opens the window; if the browser blocks it, nothing
\* happens.  isSigningIn, which the click toggles, only makes the button look
\* busy.
ClickSignIn(t) ==
    /\ page[t] = "landing" /\ popup[t] = "closed" /\ flow[t] = None
    /\ MayIssue
    /\ popup' = [popup EXCEPT ![t] = "open"]
    /\ UNCHANGED <<server, cookie, page, cached, nav, answer, refetch, request>>

\* The window asks the server for Google's address.
OpenGoogle(t) ==
    /\ popup[t] = "open"
    /\ AskGoogle(t)
    /\ UNCHANGED browser

\* The user picks an account, and the callback reads their row.
PickAccount(t, u) ==
    /\ ReadUser(t, u)
    /\ UNCHANGED browser

\* The callback answers with the cookie and with the page of success, whose
\* script posts "oauthSuccess" to the tab that opened the window.  If the tab
\* let go of the window, the answer may still find the window open, or not.
Accept(t, i) ==
    /\ Issue(t, i)
    /\ \/ cookie' = [cookie EXCEPT ![t] = i]
       \/ popup[t] # "open" /\ UNCHANGED cookie
    /\ popup'  = [popup EXCEPT ![t] = IF @ = "open" THEN "accepted" ELSE @]
    /\ UNCHANGED <<page, cached, nav, answer, refetch, request>>

\* handleOAuthMessage: it closes the window and asks who the user is.
Message(t) ==
    /\ popup[t] = "accepted"
    /\ popup'   = [popup EXCEPT ![t] = "closed"]
    /\ refetch' = [refetch EXCEPT ![t] = TRUE]
    /\ UNCHANGED <<server, cookie, page, cached, nav, answer, request>>

\* The user closes the window.
ClosePopup(t) ==
    /\ popup[t] = "open"
    /\ popup' = [popup EXCEPT ![t] = "closed"]
    /\ UNCHANGED <<server, cookie, page, cached, nav, answer, refetch, request>>

\* The refetch is answered and the page renders again, which a page that needs
\* a user does not survive without one.  The handler goes to the user's home,
\* and throws when there is none.
Refetched(t) ==
    /\ refetch[t]
    /\ refetch' = [refetch EXCEPT ![t] = FALSE]
    /\ cached' = [cached EXCEPT ![t] = IF Serving THEN Me(t) ELSE @]
    /\ IF cached'[t].user # None THEN GoTo(t, Home(cached'[t]))
       ELSE UNCHANGED <<nav, answer>>
    /\ page' = [page EXCEPT ![t] =
                  IF @ \in NeedsUser /\ cached'[t] = Nobody THEN "broken" ELSE @]
    /\ UNCHANGED <<server, cookie, popup, request>>
-----------------------------------------------------------------------------
\* The form of the onboarding page is submitted: POST /user/onboard.
SubmitOnboard(t) ==
    /\ page[t] = "onboard" /\ request[t] = "none"
    /\ CheckOnboard(cookie[t])
    /\ request' = [request EXCEPT ![t] = "onboard"]
    /\ UNCHANGED <<cookie, page, cached, nav, answer, popup, refetch>>

\* It succeeds: onSuccess puts the user into the cache and goes home.
Onboarded(t) ==
    LET u == [user |-> post[cookie[t]].user, onboarded |-> TRUE] IN
    /\ request[t] = "onboard"
    /\ MarkSession(cookie[t])
    /\ request' = [request EXCEPT ![t] = "none"]
    /\ IF store[cookie[t]] # None
       THEN /\ cached' = [cached EXCEPT ![t] = u]
            /\ GoTo(t, Home(u))
       ELSE UNCHANGED <<cached, nav, answer>>
    /\ UNCHANGED <<cookie, page, popup, refetch>>

\* It fails, or its answer is lost, or the process that was answering it is gone.
OnboardFailed(t) ==
    /\ request[t] = "onboard"
    /\ \/ FailOnboard(cookie[t]) \/ MarkSession(cookie[t])
       \/ post[cookie[t]] = None /\ UNCHANGED server
    /\ request' = [request EXCEPT ![t] = "none"]
    /\ UNCHANGED <<cookie, page, cached, nav, answer, popup, refetch>>

\* The pages with a button to sign out, the merchant's behind a dialog.
OffersSignOut == {"onboard", "settings"} \cup MerchantPages

\* handleSignOut: POST /auth/signout.  isSigningOut disables the form of the
\* onboarding page, and its button only looks busy: it can be tried again, as
\* the one in the dialog can, which stays.
AskSignOut(t) ==
    /\ page[t] \in OffersSignOut
    /\ request[t] \in {"none", "failed"}
    /\ request' = [request EXCEPT ![t] = "signout"]
    /\ UNCHANGED <<server, cookie, page, cached, nav, answer, popup, refetch>>

\* It succeeds.  The cookie stays: the answer removes one of another path.
SignedOut(t) ==
    /\ request[t] = "signout"
    /\ SignOut(cookie[t])
    /\ request' = [request EXCEPT ![t] = "none"]
    /\ GoTo(t, "landing")
    /\ UNCHANGED <<cookie, page, cached, popup, refetch>>

\* It does not: there is no such session, or no server.  isSigningOut stays.
SignOutFailed(t) ==
    /\ request[t] = "signout"
    /\ ~Serving \/ ~Live(cookie[t])
    /\ request' = [request EXCEPT ![t] = "failed"]
    /\ UNCHANGED <<server, cookie, page, cached, nav, answer, popup, refetch>>
-----------------------------------------------------------------------------
\* The server's own steps, the requests whose tab has let go of them, and a
\* sign-out in another tab with the same cookie.
Elsewhere ==
    /\ \/ Process
       \/ \E t \in Tabs : DropFlow(t)
       \/ \E i \in Ids : Expire(i) \/ GetExpired(i) \/ WriteOnboard(i) \/ SignOut(i)
       \/ \E i \in Ids :
             /\ \A t \in Tabs : request[t] = "onboard" => cookie[t] # i
             /\ FailOnboard(i) \/ MarkSession(i)
    /\ UNCHANGED browser

Loading(t) == ServeRedirect(t) \/ ServeProps(t) \/ ServeError(t)
              \/ Arrive(t)

WebNext ==
    \/ Elsewhere
    \/ \E t \in Tabs :
          \/ \E p \in Routes : Follow(t, p) \/ Visit(t, p)
          \/ Loading(t)
          \/ ClickSignIn(t) \/ OpenGoogle(t) \/ Message(t) \/ ClosePopup(t)
          \/ Refetched(t)
          \/ \E u \in Users : PickAccount(t, u)
          \/ \E i \in Ids : Accept(t, i)
          \/ SubmitOnboard(t) \/ Onboarded(t) \/ OnboardFailed(t)
          \/ AskSignOut(t) \/ SignedOut(t) \/ SignOutFailed(t)

\* Next.js answers, and the browser shows what it is sent.
WebSpec == WebInit /\ [][WebNext]_vars /\ \A t \in Tabs : WF_vars(Loading(t))
-----------------------------------------------------------------------------
UserData == [user : Users, onboarded : BOOLEAN] \cup {NoData, Nobody}

TypeOK ==
    /\ ServerTypeOK
    /\ cookie \in [Tabs -> Ids \cup {None}]
    /\ page   \in [Tabs -> Routes \cup {"500", "broken", "blank"}]
    /\ cached \in [Tabs -> UserData]
    /\ nav    \in [Tabs -> Routes \cup {None}]
    /\ answer \in [Tabs -> UserData]
    /\ popup \in [Tabs -> {"closed", "open", "accepted"}]
    /\ refetch \in [Tabs -> BOOLEAN]
    /\ request \in [Tabs -> {"none", "onboard", "signout", "failed"}]

\* What a tab shows fits the user it shows: the client's pages have the record
\* of a client and the merchant's pages that of a merchant, until the tab moves
\* on after a sign-in or a merchant's session ends under a refetch.
RightPage ==
    \A t \in Tabs :
        /\ page[t] \in NeedsUser => cached[t].user # None
        /\ page[t] \in ClientPages /\ cached[t].user \in Merchants => nav[t] # None
        /\ page[t] \in MerchantPages /\ nav[t] = None =>
              cached[t].user \in Merchants \cup {None}

\* A move ends: the redirects of the pages never chase each other, for any
\* user in any state, whatever happens to their session on the way.
MovesEnd == \A t \in Tabs : []<>(nav[t] = None)
=============================================================================
