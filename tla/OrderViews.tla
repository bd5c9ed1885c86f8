----------------------------- MODULE OrderViews -----------------------------
(***************************************************************************)
(* A merchant's view of an order on the dashboard, and what the merchant   *)
(* asks the server to do with it.  Other merchants, the owner and the      *)
(* flusher change the order as well.                                       *)
(*                                                                         *)
(* The view reads through a react-query query per order, which has at most *)
(* one fetch under way: invalidating the query drops that fetch for a new  *)
(* one.  Whether a minute has passed since the last answer (staleTime) is  *)
(* left open.  The buttons go by the status on display, the server by the  *)
(* status there is.                                                        *)
(***************************************************************************)
EXTENDS OrderStatus

CONSTANTS Orders,     \* the orders that are followed
          Other,      \* any other order
          NoPrice, None,
          Slots       \* bound on the calls under way

ASSUME ViewsAssumption ==
    /\ NoPrice \notin Orders \cup {Other}
    /\ None \notin Orders \cup {Other}
    /\ Other \notin Orders

\* The price that is meant for an order goes by the name of the order.
Prices == Orders \cup {Other}

VARIABLES
    status, price,   \* of the orders: module OrderBook, without the log
    chosen,    \* currentOrderId of the dashboard
    detail,    \* data of the query "detailedOrder", "none" without
    fetch,     \* the fetch of a detail: "no", "asked", or the status it read
    typed,     \* state "price" of the header of the order on display
    dialog,    \* what the dialog was opened with
    calls,     \* the mutations under way
    told       \* the furthest status that a mutation has reported about the
               \* order on display, since it was chosen

book == <<status, price>>
tab  == <<chosen, detail, fetch, typed, dialog, calls, told>>
vars == <<book, tab>>

Init ==
    /\ status = [o \in Orders |-> "unplaced"]
    /\ price  = [o \in Orders |-> NoPrice]
    /\ chosen = None
    /\ detail = [o \in Orders |-> "none"]
    /\ fetch  = [o \in Orders |-> "no"]
    /\ typed  = NoPrice
    /\ dialog = None
    /\ calls  = [s \in Slots |-> None]
    /\ told   = "none"
-----------------------------------------------------------------------------
\* post_orders_id_status, with the price p if one was sent.
Advance(o, p) ==
    /\ status[o] \in Advanceable
    /\ status' = [status EXCEPT ![o] = NextStatus[status[o]]]
    /\ price'  = [price EXCEPT ![o] =
                    IF p # NoPrice /\ status[o] = "reviewing" THEN p ELSE @]

\* The order is placed, or moved on by another merchant, or the owner cancels
\* it, or the flusher rejects it.
Elsewhere ==
    /\ \E o \in Orders :
          \/ Advance(o, NoPrice)
          \/ /\ \/ status[o] = "unplaced" /\ status' = [status EXCEPT ![o] = "reviewing"]
                \/ /\ status[o] # "unplaced"
                   /\ \E s \in {"cancelled", "rejected"} : status' = [status EXCEPT ![o] = s]
             /\ UNCHANGED price
    /\ UNCHANGED tab
-----------------------------------------------------------------------------
\* Variant for a control run: the view has no key, so the next order's header
\* is the same component.
ChooseKeyless(o) ==
    /\ dialog = None /\ chosen # o
    /\ o \in Orders => status[o] # "unplaced"
    /\ chosen' = o /\ told' = "none"
    /\ \E f \in {"no", "asked"} :
          fetch' = [x \in Orders |-> IF x = o /\ fetch[x] = "no"
                                     THEN IF detail[x] = "none" THEN "asked" ELSE f
                                     ELSE fetch[x]]
    /\ UNCHANGED <<book, detail, typed, dialog, calls>>

\* A click on the card of an order that has been placed: its view is mounted
\* (the key is the order), and a detail that is not there is asked for, or one
\* that is stale.
Choose(o) ==
    /\ dialog = None /\ chosen # o
    /\ o \in Orders => status[o] # "unplaced"
    /\ chosen' = o /\ told' = "none" /\ typed' = NoPrice
    /\ \E f \in {"no", "asked"} :
          fetch' = [x \in Orders |-> IF x = o /\ fetch[x] = "no"
                                     THEN IF detail[x] = "none" THEN "asked" ELSE f
                                     ELSE fetch[x]]
    /\ UNCHANGED <<book, detail, dialog, calls>>

\* The window gets the focus: a stale detail on display is asked for.
Focus(o) ==
    /\ chosen = o /\ fetch[o] = "no"
    /\ fetch' = [fetch EXCEPT ![o] = "asked"]
    /\ UNCHANGED <<book, chosen, detail, typed, dialog, calls, told>>

\* get_orders_id reads the order.
ReadDetail(o) ==
    /\ fetch[o] = "asked"
    /\ fetch' = [fetch EXCEPT ![o] = status[o]]
    /\ UNCHANGED <<book, chosen, detail, typed, dialog, calls, told>>

\* The answer reaches the cache.
ShowDetail(o) ==
    /\ fetch[o] \in Statuses
    /\ detail' = [detail EXCEPT ![o] = fetch[o]]
    /\ fetch'  = [fetch EXCEPT ![o] = "no"]
    /\ UNCHANGED <<book, chosen, typed, dialog, calls, told>>

\* The fetch fails for good: the view is a spinner until the next one, and the
\* header is gone with what was typed.
FailDetail(o) ==
    /\ fetch[o] # "no"
    /\ detail' = [detail EXCEPT ![o] = "none"]
    /\ fetch'  = [fetch EXCEPT ![o] = "no"]
    /\ typed'  = IF chosen = o THEN NoPrice ELSE typed
    /\ UNCHANGED <<book, chosen, dialog, calls, told>>
-----------------------------------------------------------------------------
\* The statuses whose header has a button for a dialog of this kind.
Offers(kind) == IF kind = "step" THEN {"processing", "ready"} ELSE {"reviewing"}

\* A button of the header.  The content of a dialog is made when it opens and
\* is not rendered again: the price it would send is the one typed before, and
\* its buttons never look busy.
OpenDialog(kind) ==
    /\ dialog = None /\ chosen # None
    /\ chosen # Other => detail[chosen] \in Offers(kind)
    /\ dialog' = [kind |-> kind, price |-> IF kind = "accept" THEN typed ELSE NoPrice]
    /\ UNCHANGED <<book, chosen, detail, fetch, typed, calls, told>>

\* A price is typed into the dialog of an acceptance.
TypePrice ==
    /\ dialog # None /\ dialog.kind = "accept"
    /\ chosen # Other => detail[chosen] # "none"
    /\ typed' = chosen
    /\ UNCHANGED <<book, chosen, detail, fetch, dialog, calls, told>>

\* "Nevermind".
CloseDialog ==
    /\ dialog # None
    /\ dialog' = None
    /\ UNCHANGED <<book, chosen, detail, fetch, typed, calls, told>>

\* The button that confirms: a mutation.  The dialog stays until the mutation
\* succeeds, so the button can be pressed again.
Confirm(s) ==
    /\ dialog # None /\ dialog.kind # "reject" /\ chosen \in Orders
    /\ calls[s] = None
    /\ calls' = [calls EXCEPT ![s] =
                    [order |-> chosen, price |-> dialog.price, answer |-> "none"]]
    /\ UNCHANGED <<book, chosen, detail, fetch, typed, dialog, told>>

\* The same in the dialog of a rejection: a DELETE, which client_only refuses.
Reject(s) ==
    /\ dialog # None /\ dialog.kind = "reject" /\ chosen \in Orders
    /\ calls[s] = None
    /\ calls' = [calls EXCEPT ![s] =
                    [order |-> chosen, price |-> NoPrice, answer |-> "refused"]]
    /\ UNCHANGED <<book, chosen, detail, fetch, typed, dialog, told>>

\* The server moves the order on, from wherever it is by now ...
Serve(s) ==
    /\ calls[s] # None /\ calls[s].answer = "none"
    /\ Advance(calls[s].order, calls[s].price)
    /\ calls' = [calls EXCEPT ![s].answer = status'[calls[s].order]]
    /\ UNCHANGED <<chosen, detail, fetch, typed, dialog, told>>

\* ... or refuses, or the call or its answer is lost: the mutation throws, and
\* the dialog stays as it is.
Fail(s) ==
    /\ calls[s] # None
    /\ calls' = [calls EXCEPT ![s] = None]
    /\ UNCHANGED <<book, chosen, detail, fetch, typed, dialog, told>>

\* Variant for a control run: a fetch that is under way is good enough.
InvalidateJoins(o) ==
    fetch' = [fetch EXCEPT ![o] = IF chosen = o /\ @ = "no" THEN "asked" ELSE @]

\* invalidateQueries: the order on display is fetched anew.
Invalidate(o) ==
    fetch' = [fetch EXCEPT ![o] = IF chosen = o THEN "asked" ELSE @]

\* The later of two statuses on the way to pickup.
Further(a, b) == IF a = "none" \/ Rank[a] < Rank[b] THEN b ELSE a

\* Variant for a control run: the answer itself is put into the cache.
AnsweredWrites(s) ==
    LET c == calls[s] IN
    /\ c # None /\ c.answer \in Statuses
    /\ dialog' = None
    /\ typed' \in (IF chosen = c.order THEN {NoPrice, typed} ELSE {typed})
    /\ detail' = [detail EXCEPT ![c.order] = c.answer]
    /\ calls' = [calls EXCEPT ![s] = None]
    /\ told'  = IF chosen = c.order THEN Further(told, c.answer) ELSE told
    /\ UNCHANGED <<book, chosen, fetch>>

\* The mutation succeeds: whatever dialog is open closes, and the header that
\* asked forgets the price, if it is still the one on display.
Answered(s) ==
    LET c == calls[s] IN
    /\ c # None /\ c.answer \in Statuses
    /\ dialog' = None
    /\ typed' \in (IF chosen = c.order THEN {NoPrice, typed} ELSE {typed})
    /\ Invalidate(c.order)
    /\ calls' = [calls EXCEPT ![s] = None]
    /\ told'  = IF chosen = c.order THEN Further(told, c.answer) ELSE told
    /\ UNCHANGED <<book, chosen, detail>>

Next ==
    \/ Elsewhere
    \/ \E o \in Orders \cup {Other} : Choose(o)
    \/ \E o \in Orders : Focus(o) \/ ReadDetail(o) \/ ShowDetail(o) \/ FailDetail(o)
    \/ \E kind \in {"accept", "step", "reject"} : OpenDialog(kind)
    \/ TypePrice \/ CloseDialog
    \/ \E s \in Slots : Confirm(s) \/ Reject(s) \/ Serve(s) \/ Fail(s) \/ Answered(s)

Spec == Init /\ [][Next]_vars
-----------------------------------------------------------------------------
Calls == [order  : Orders,
          price  : Prices \cup {NoPrice},
          answer : Statuses \cup {"none", "refused"}]

TypeOK ==
    /\ status \in [Orders -> Statuses \cup {"unplaced"}]
    /\ price  \in [Orders -> Prices \cup {NoPrice}]
    /\ chosen \in Orders \cup {Other, None}
    /\ detail \in [Orders -> Statuses \cup {"none"}]
    /\ fetch  \in [Orders -> Statuses \cup {"no", "asked"}]
    /\ typed  \in Prices \cup {NoPrice}
    /\ dialog \in [kind  : {"accept", "step", "reject"},
                   price : Prices \cup {NoPrice}] \cup {None}
    /\ calls  \in [Slots -> Calls \cup {None}]
    /\ told   \in DOMAIN Rank \cup {"none"}

\* After a step of its own the view of an order, once it has stopped fetching,
\* is not behind what the server has reported, in whatever order the answers
\* to steps and fetches come (invalidateQueries).
OwnStepSeen ==
    chosen \in Orders /\ told # "none"
    /\ fetch[chosen] = "no" /\ detail[chosen] \in DOMAIN Rank =>
        Rank[told] <= Rank[detail[chosen]]

\* A price reaches the order it was typed for and no other, though a closed
\* dialog leaves it behind (the key of MerchantDetailedOrderView).
PriceOfItsOrder == \A o \in Orders : price[o] \in {NoPrice, o}

\* What the view shows of an order never moves backwards.
SeenInOrder ==
    [][\A o \in Orders :
          {detail[o], detail'[o]} \subseteq DOMAIN Rank =>
              Rank[detail[o]] <= Rank[detail'[o]]]_vars
=============================================================================
