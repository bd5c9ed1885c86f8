---------------------------- MODULE OrderHistory ----------------------------
(***************************************************************************)
(* A client's list of finished orders: the query behind it on the server   *)
(* (CompactOrdersQuery of common/src/database/orders.rs), which gives one  *)
(* page at a time and a key for the next, and the page /order/history,     *)
(* which collects the pages in an infinite query of react-query.  Orders   *)
(* finish while pages are read.                                            *)
(*                                                                         *)
(* The server's timestamps have microseconds, and a page key milliseconds. *)
(* A client makes one draft at a time, so no two of their orders were made *)
(* within a millisecond.                                                   *)
(***************************************************************************)
EXTENDS Integers, SequencesExt

CONSTANTS MaxOrders, \* bound on the orders of the client
          PageSize,  \* orders on a page, 5 in the code
          PerMilli,  \* instants that are told apart in a millisecond
          None

ASSUME HistoryAssumption ==
    /\ MaxOrders \in Nat /\ PageSize \in Nat \ {0} /\ PerMilli \in Nat \ {0}
    /\ None \notin Nat

Orders == 1..MaxOrders     \* older orders first

VARIABLES
    created,  \* orders.created_at
    done,     \* the orders that are completed, rejected or cancelled
    pages,    \* data.pages of the query "orderHistory"
    failed,   \* its status is "error"
    fetch,    \* its fetch under way
    props,    \* the first page, on its way from Next.js
    at        \* whether the tab shows the history

query == <<pages, failed, fetch>>
vars  == <<created, done, query, props, at>>

NoFetch == [goal |-> 0, pages |-> <<>>, rows |-> None]

Init ==
    /\ created \in [Orders -> 0..(PerMilli * (MaxOrders + 1))]
    /\ \A o \in Orders : created[o] \div PerMilli = o
    /\ done = {}
    /\ pages = <<>> /\ failed = FALSE
    /\ fetch = NoFetch
    /\ props = None
    /\ at = FALSE

\* An order that the client has placed comes to an end.
Finish(o) ==
    /\ o \notin done
    /\ done' = done \cup {o}
    /\ UNCHANGED <<created, query, props, at>>
-----------------------------------------------------------------------------
\* Variants for control runs: the key is rounded up, or cut to more than a
\* millisecond.
PageKeyUp(o) == created[o] - (created[o] % PerMilli) + PerMilli
PageKeyCoarse(o) == created[o] - (created[o] % (2 * PerMilli))

\* The key that a page with the last order o gives for the next one.
PageKey(o) == created[o] - (created[o] % PerMilli)

\* The orders older than a key, newest first, as many as a page holds.  The
\* first request has no key, and all orders are older than the present.
Older(key) == {o \in done : key = None \/ created[o] < key}

Rows(key) ==
    LET rank(o) == Cardinality({p \in Older(key) : created[p] >= created[o]})
        size    == Cardinality(Older(key))
    IN  [n \in 1..(IF size < PageSize THEN size ELSE PageSize) |->
            CHOOSE o \in Older(key) : rank(o) = n]

\* The answer to a request: the rows, then, in a second statement, the number
\* of all finished orders.  With a first page, `first` remembers what was
\* finished when its rows were read.
Page(rows) ==
    [rows |-> rows.orders, first |-> rows.first,
     next |-> IF Len(rows.orders) < Cardinality(done) /\ rows.orders # <<>>
              THEN PageKey(Last(rows.orders)) ELSE None]

Read(key) == [orders |-> Rows(key), first |-> IF key = None THEN done ELSE {}]
-----------------------------------------------------------------------------
\* The client goes to the page, and getServerSideProps asks for the first page
\* of orders ...
Visit ==
    /\ ~at /\ props = None
    /\ props' = [rows |-> Read(None), pages |-> None]
    /\ UNCHANGED <<created, done, query, at>>

\* ... gets it, or goes on without it when the request fails.
ServeProps ==
    /\ props # None /\ props.pages = None
    /\ \E ps \in {<<Page(props.rows)>>, <<>>} : props' = [props EXCEPT !.pages = ps]
    /\ UNCHANGED <<created, done, query, at>>

\* The props arrive.  HydrationBoundary puts the first page in the place of the
\* pages there are, unless these are the newer ones by the clocks of Next.js and
\* the browser.  A fetch that is under way goes on.
Arrive ==
    /\ props # None /\ props.pages # None
    /\ \/ props.pages # <<>> /\ pages' = props.pages /\ failed' = FALSE
       \/ /\ props.pages = <<>> \/ pages # <<>>
          /\ UNCHANGED <<pages, failed>>
    /\ props' = None
    /\ at' = TRUE
    /\ UNCHANGED <<created, done, fetch>>

\* The client goes elsewhere.  The query and its fetch live on.
Leave ==
    /\ at
    /\ at' = FALSE
    /\ UNCHANGED <<created, done, query, props>>

HasNext == pages # <<>> /\ Last(pages).next # None

\* The button "Load More": the next page is fetched for the pages there are.
LoadMore ==
    /\ at /\ ~failed
    /\ HasNext /\ fetch = NoFetch
    /\ fetch' = [NoFetch EXCEPT !.goal = Len(pages) + 1, !.pages = pages]
    /\ UNCHANGED <<created, done, pages, failed, props, at>>

\* The window gets the focus and the pages are stale, or the history is shown
\* and there are none: all are fetched anew.
Refetch ==
    /\ at /\ fetch = NoFetch
    /\ fetch' = [NoFetch EXCEPT !.goal = IF pages = <<>> THEN 1 ELSE Len(pages)]
    /\ UNCHANGED <<created, done, pages, failed, props, at>>

\* The next page of a fetch is requested: the orders are read ...
FetchRows ==
    /\ fetch # NoFetch /\ fetch.rows = None
    /\ fetch' = [fetch EXCEPT !.rows =
                    Read(IF fetch.pages = <<>> THEN None ELSE Last(fetch.pages).next)]
    /\ UNCHANGED <<created, done, pages, failed, props, at>>

\* ... and counted.  The fetch ends with the page it was for, or when there is
\* no next one, and all its pages replace the old ones.
FetchPage ==
    /\ fetch.rows # None
    /\ LET got == Append(fetch.pages, Page(fetch.rows)) IN
       IF Len(got) = fetch.goal \/ Last(got).next = None
       THEN fetch' = NoFetch /\ pages' = got /\ failed' = FALSE
       ELSE /\ fetch' = [fetch EXCEPT !.pages = got, !.rows = None]
            /\ UNCHANGED <<pages, failed>>
    /\ UNCHANGED <<created, done, props, at>>

\* A request fails for good: the pages stay, behind a spinner.
FetchFails ==
    /\ fetch # NoFetch
    /\ fetch' = NoFetch
    /\ failed' = TRUE
    /\ UNCHANGED <<created, done, pages, props, at>>

Next ==
    \/ \E o \in Orders : Finish(o)
    \/ Visit \/ ServeProps \/ Arrive \/ Leave
    \/ LoadMore \/ Refetch \/ FetchRows \/ FetchPage \/ FetchFails

Spec == Init /\ [][Next]_vars
-----------------------------------------------------------------------------
\* The list is the rows of the pages, page by page (data.pages.flatMap).
Listed == UNION {ToSet(pages[i].rows) : i \in DOMAIN pages}

\* The list shows newer orders first and no order twice, whatever finishes
\* while its pages are read and whatever fetch the pages come from.
NewestFirst ==
    \A i, j \in DOMAIN pages :
       \A k \in DOMAIN pages[i].rows, l \in DOMAIN pages[j].rows :
          i < j \/ (i = j /\ k < l) =>
             created[pages[i].rows[k]] > created[pages[j].rows[l]]

\* The list has no holes: an order that was finished when the first page was
\* read is in the list, unless it is older than all that is listed and the page
\* offers to load more.
NothingSkipped ==
    pages # <<>> =>
       \A o \in pages[1].first :
          \/ o \in Listed
          \/ HasNext /\ \A x \in Listed : created[o] < created[x]
=============================================================================
