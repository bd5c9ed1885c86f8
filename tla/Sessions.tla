------------------------------ MODULE Sessions ------------------------------
(***************************************************************************)
(* The sessions of the server: common/src/auth/sessions.rs, the handlers   *)
(* of routes/auth.rs and POST /user/onboard of routes/user.rs, and the way *)
(* main.rs carries sessions over a restart.  Sessions live in memory.  A   *)
(* graceful shutdown writes them to a table while requests are still being *)
(* answered; the next start loads the table and then empties it.  A crash  *)
(* writes nothing.                                                         *)
(*                                                                         *)
(* Tokens are taken to be genuine (the HMAC of a session id verifies), and *)
(* the eight random bytes of an id never repeat.                           *)
(***************************************************************************)
EXTENDS Integers, FiniteSets

CONSTANTS Users, Merchants,   \* the users, and those the script made merchants
          MaxIds,             \* bound on the sessions ever issued
          Tabs,               \* the browser's tabs that sign in through Google
          Asked,              \* an oauth state is stored for the tab's window
          None,
          MaxRestarts,        \* bound on the ends of the server's process
          MaxEvents           \* bound on sessions and ends together

Ids     == 1..MaxIds
Session == [user : Users, onboarded : BOOLEAN]
Post    == [user : Users, written : BOOLEAN]

ASSUME SessionsAssumption ==
    /\ Merchants \subseteq Users
    /\ None \notin Users \cup Ids \cup Session \cup Post
    /\ Asked \notin Session \cup {None}
    /\ MaxIds \in Nat
    /\ {MaxRestarts, MaxEvents} \subseteq Nat

VARIABLES
    onboarded,   \* users whose row has is_onboarded
    store,       \* SessionStore::store
    expired,     \* ids whose expires_at has passed
    table,       \* the sessions table: the user of each row
    issued,      \* how many ids were given out so far
    flow,        \* per tab: nothing, a stored oauth state, or the user the
                 \* callback has read and is about to issue a session for
    post,        \* POST /user/onboard under way, per session
    phase,       \* of the process: up, draining after the commit of the
                 \* sessions, down, or loading before it listens
    restarts,    \* ends of the process that was up
    signedOut,   \* ids signed out while no shutdown had begun
    marked       \* sessions kept in store or table that ever said "onboarded"

server == <<onboarded, store, expired, table, issued, flow, post, phase,
            restarts, signedOut, marked>>

Serving  == phase \in {"up", "draining"}
WithinBounds ==
    issued + restarts + Cardinality({t \in Tabs : flow[t] # None}) < MaxEvents
MayIssue == issued < MaxIds /\ WithinBounds
MayEnd   == restarts < MaxRestarts /\ WithinBounds
Live(i)  == i \in Ids /\ store[i] # None /\ i \notin expired

\* Of the sessions that are kept after a step, those that ever said "onboarded".
Remember ==
    marked' = {i \in Ids : \/ store'[i] # None /\ store'[i].onboarded
                           \/ (store'[i] # None \/ table'[i] # None) /\ i \in marked}

ServerInit ==
    /\ onboarded = Merchants        \* add_merchant inserts them onboarded
    /\ store = [i \in Ids |-> None]
    /\ expired = {} /\ issued = 0
    /\ table = [i \in Ids |-> None]
    /\ flow  = [t \in Tabs |-> None]
    /\ post  = [i \in Ids |-> None]
    /\ phase = "up" /\ restarts = 0
    /\ signedOut = {}
    /\ marked = {}
-----------------------------------------------------------------------------
\* get_init_google_oauth: a state and a nonce are stored, the window goes on
\* to Google.
AskGoogle(t) ==
    /\ Serving /\ flow[t] = None
    /\ MayIssue
    /\ flow' = [flow EXCEPT ![t] = Asked]
    /\ UNCHANGED <<onboarded, store, expired, table, issued, post, phase,
                   restarts, signedOut, marked>>

\* The stored state goes: the cleaner drops it after five minutes, or the
\* callback takes it and fails (Google's answer, the domain of the address).
DropFlow(t) ==
    /\ Serving /\ flow[t] = Asked
    /\ flow' = [flow EXCEPT ![t] = None]
    /\ UNCHANGED <<onboarded, store, expired, table, issued, post, phase,
                   restarts, signedOut, marked>>

\* get_finish_google_oauth up to get_or_create_user_for_session: the state is
\* taken, the id token verified and the row of the user read or inserted.
ReadUser(t, u) ==
    /\ Serving /\ flow[t] = Asked
    /\ flow' = [flow EXCEPT ![t] = [user |-> u, onboarded |-> u \in onboarded]]
    /\ UNCHANGED <<onboarded, store, expired, table, issued, post, phase,
                   restarts, signedOut, marked>>

\* ... and SessionStore::issue, with the flag read before.
Issue(t, i) ==
    /\ Serving /\ flow[t] \in Session
    /\ i = issued + 1
    /\ store'  = [store EXCEPT ![i] = flow[t]]
    /\ issued' = i
    /\ flow'   = [flow EXCEPT ![t] = None]
    /\ UNCHANGED <<onboarded, expired, table, post, phase, restarts, signedOut>>
    /\ Remember

\* post_signout.
SignOut(i) ==
    /\ Serving /\ Live(i)
    /\ store' = [store EXCEPT ![i] = None]
    /\ signedOut' = IF phase = "up" THEN signedOut \cup {i} ELSE signedOut
    /\ UNCHANGED <<onboarded, expired, table, issued, flow, post, phase, restarts>>
    /\ Remember

\* SessionStore::get finds an expired session and removes it.
GetExpired(i) ==
    /\ Serving /\ store[i] # None /\ i \in expired
    /\ store' = [store EXCEPT ![i] = None]
    /\ UNCHANGED <<onboarded, expired, table, issued, flow, post, phase,
                   restarts, signedOut>>
    /\ Remember

MayOnboard(i) == Live(i) /\ ~store[i].onboarded /\ store[i].user \notin Merchants

\* Variant for a control run: the session is marked before the row is written.
CheckOnboardMarks(i) ==
    /\ Serving /\ MayOnboard(i) /\ post[i] = None
    /\ store' = [store EXCEPT ![i].onboarded = TRUE]
    /\ post' = [post EXCEPT ![i] = [user |-> store[i].user, written |-> FALSE]]
    /\ UNCHANGED <<onboarded, expired, table, issued, flow, phase,
                   restarts, signedOut>>
    /\ Remember

\* post_user_onboard, up to the check of the session's flag and role.
CheckOnboard(i) ==
    /\ Serving /\ MayOnboard(i) /\ post[i] = None
    /\ post' = [post EXCEPT ![i] = [user |-> store[i].user, written |-> FALSE]]
    /\ UNCHANGED <<onboarded, store, expired, table, issued, flow, phase,
                   restarts, signedOut, marked>>

\* The UPDATE of the user's row.
WriteOnboard(i) ==
    /\ Serving /\ post[i] # None /\ ~post[i].written
    /\ onboarded' = onboarded \cup {post[i].user}
    /\ post' = [post EXCEPT ![i].written = TRUE]
    /\ UNCHANGED <<store, expired, table, issued, flow, phase, restarts,
                   signedOut, marked>>

\* Variant for a control run: set_onboard inserts the session that has gone.
MarkSessionInserts(i) ==
    /\ Serving /\ post[i] # None /\ post[i].written
    /\ store' = [store EXCEPT ![i] = [user |-> post[i].user, onboarded |-> TRUE]]
    /\ post' = [post EXCEPT ![i] = None]
    /\ UNCHANGED <<onboarded, expired, table, issued, flow, phase, restarts,
                   signedOut>>
    /\ Remember

\* SessionStore::set_onboard, which fails if the session has gone.
MarkSession(i) ==
    /\ Serving /\ post[i] # None /\ post[i].written
    /\ store' = IF store[i] = None THEN store
                ELSE [store EXCEPT ![i].onboarded = TRUE]
    /\ post' = [post EXCEPT ![i] = None]
    /\ UNCHANGED <<onboarded, expired, table, issued, flow, phase, restarts,
                   signedOut>>
    /\ Remember

\* The handler ends before set_onboard: the row cannot be written, or it is
\* written and the answer of the UPDATE is lost, or the client has gone and the
\* handler is dropped at its next await.
FailOnboard(i) ==
    /\ Serving /\ post[i] # None
    /\ post' = [post EXCEPT ![i] = None]
    /\ UNCHANGED <<onboarded, store, expired, table, issued, flow, phase,
                   restarts, signedOut, marked>>
-----------------------------------------------------------------------------
\* Time passes expires_at of a session that is kept somewhere.
Expire(i) ==
    /\ i \notin expired
    /\ store[i] # None \/ table[i] # None
    /\ expired' = expired \cup {i}
    /\ UNCHANGED <<onboarded, store, table, issued, flow, post, phase,
                   restarts, signedOut, marked>>

\* shutdown_signal: SessionStore::commit drops what has expired and inserts
\* the rest.  Only when it is done does axum stop taking requests.
Commit ==
    /\ phase = "up" /\ MayEnd
    /\ store' = [i \in Ids |-> IF i \in expired THEN None ELSE store[i]]
    /\ table' = [i \in Ids |-> IF store'[i] = None THEN table[i] ELSE store'[i].user]
    /\ phase' = "draining" /\ restarts' = restarts + 1
    /\ UNCHANGED <<onboarded, expired, issued, flow, post, signedOut>>
    /\ Remember

Gone ==
    /\ phase' = "down"
    /\ store' = [i \in Ids |-> None]
    /\ flow'  = [t \in Tabs |-> None]
    /\ post'  = [i \in Ids |-> None]
    /\ UNCHANGED <<onboarded, expired, table, issued, signedOut>>
    /\ Remember

\* The requests that were being answered are done and the process ends.
Exit ==
    /\ phase = "draining"
    /\ \A i \in Ids : post[i] = None
    /\ \A t \in Tabs : flow[t] \notin Session
    /\ Gone
    /\ UNCHANGED restarts

\* A crash, also while requests drain or sessions are loaded.
Crash ==
    /\ phase # "down" /\ Gone
    /\ IF phase = "up" THEN MayEnd /\ restarts' = restarts + 1
                       ELSE UNCHANGED restarts

\* Variant for a control run: load takes the flag to be unset.
LoadFlagless ==
    /\ phase = "down"
    /\ store' = [i \in Ids |-> IF table[i] = None \/ i \in expired THEN None
                               ELSE [user |-> table[i], onboarded |-> FALSE]]
    /\ phase' = "loading"
    /\ UNCHANGED <<onboarded, expired, table, issued, flow, post, restarts,
                   signedOut>>
    /\ Remember

\* SessionStore::load: the unexpired rows, joined with the users' flags ...
Load ==
    /\ phase = "down"
    /\ store' = [i \in Ids |-> IF table[i] = None \/ i \in expired THEN None
                               ELSE [user      |-> table[i],
                                     onboarded |-> table[i] \in onboarded]]
    /\ phase' = "loading"
    /\ UNCHANGED <<onboarded, expired, table, issued, flow, post, restarts,
                   signedOut>>
    /\ Remember

\* ... and TRUNCATE; then the server listens.
Truncate ==
    /\ phase = "loading"
    /\ table' = [i \in Ids |-> None]
    /\ phase' = "up"
    /\ UNCHANGED <<onboarded, store, expired, issued, flow, post, restarts,
                   signedOut>>
    /\ Remember

Process == Commit \/ Exit \/ Crash \/ Load \/ Truncate

ServerNext ==
    \/ Process
    \/ \E t \in Tabs : \/ AskGoogle(t) \/ DropFlow(t)
                       \/ \E u \in Users : ReadUser(t, u)
                       \/ \E i \in Ids : Issue(t, i)
    \/ \E i \in Ids : \/ SignOut(i) \/ GetExpired(i) \/ Expire(i)
                      \/ CheckOnboard(i) \/ WriteOnboard(i)
                      \/ MarkSession(i) \/ FailOnboard(i)

ServerSpec == ServerInit /\ [][ServerNext]_server
-----------------------------------------------------------------------------
ServerTypeOK ==
    /\ onboarded \subseteq Users
    /\ store \in [Ids -> Session \cup {None}]
    /\ issued \in 0..MaxIds /\ expired \subseteq Ids
    /\ table \in [Ids -> Users \cup {None}]
    /\ flow  \in [Tabs -> Session \cup {None, Asked}]
    /\ post  \in [Ids -> Post \cup {None}]
    /\ phase \in {"up", "draining", "down", "loading"}
    /\ restarts \in 0..MaxRestarts
    /\ signedOut \subseteq Ids
    /\ marked \subseteq Ids

\* A session that lets its holder past requires_onboarding belongs to a user
\* whose row says so, across the two writes of post_user_onboard, sign-ins
\* that read the row before, crashes and restarts.
OnboardedIsRecorded ==
    \A i \in Ids : store[i] # None /\ store[i].onboarded =>
        store[i].user \in onboarded

\* requires_onboarding (middleware.rs) reads the flag of the session, not of the
\* row: whoever it has let past with a session is not turned away with that
\* session again, although a restart makes the flag anew from the row.
OnboardedForGood ==
    \A i \in marked : store[i] # None => store[i].onboarded

\* A session that was signed out works again only if the sign-out was
\* answered after the shutdown had committed the sessions (main.rs), whatever
\* is loaded and committed in later runs.
SignedOutStaysOut ==
    \A i \in signedOut : store[i] = None
=============================================================================
