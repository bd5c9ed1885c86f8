----------------------------- MODULE OrderBook -----------------------------
(***************************************************************************)
(* What the orders table promises to everyone who reads it: each order has *)
(* a status, a price and a log, and changes only in whole, atomic          *)
(* operations.  The one exception is part of the promise the code makes: a *)
(* cancellation shows in the status first and in the log later, or never.  *)
(*                                                                         *)
(* Module Orders, where transactions of several merchants, clients and the *)
(* nightly flusher interleave statement by statement, implements it.       *)
(***************************************************************************)
EXTENDS OrderStatus

CONSTANTS Orders,    \* identities of the orders that may ever be placed
          Prices,    \* the prices a merchant may set
          NoPrice    \* orders.price IS NULL

VARIABLES status,    \* orders.status, "unplaced" before the row exists
          history,   \* rows of order_status_updates in insertion order
          price      \* orders.price

bookVars == <<status, history, price>>

Placed == {o \in Orders : status[o] # "unplaced"}

Init ==
    /\ status  = [o \in Orders |-> "unplaced"]
    /\ history = [o \in Orders |-> <<>>]
    /\ price   = [o \in Orders |-> NoPrice]

\* create_new: the row and its first log entry, in one transaction.
PlaceOrder(o) ==
    /\ status[o] = "unplaced"
    /\ status'  = [status EXCEPT ![o] = "reviewing"]
    /\ history' = [history EXCEPT ![o] = <<"reviewing">>]
    /\ UNCHANGED price

\* A merchant moves an order one step on; p is the price that came with it,
\* which counts only when the step is the acceptance.
Advance(o, p) ==
    /\ status[o] \in Advanceable
    /\ status'  = [status EXCEPT ![o] = NextStatus[status[o]]]
    /\ history' = [history EXCEPT ![o] = Append(@, NextStatus[status[o]])]
    /\ price'   = [price EXCEPT ![o] =
                     IF p # NoPrice /\ status[o] = "reviewing" THEN p ELSE @]

\* The owner cancels, whatever the status is ...
Cancel(o) ==
    /\ o \in Placed
    /\ status' = [status EXCEPT ![o] = "cancelled"]
    /\ UNCHANGED <<history, price>>

\* ... and the cancellation is logged.
LogCancel(o) ==
    /\ o \in Placed
    /\ history' = [history EXCEPT ![o] = Append(@, "cancelled")]
    /\ UNCHANGED <<status, price>>

\* The flusher rejects a set of orders at once.
Reject(S) ==
    /\ S \subseteq Placed
    /\ status'  = [o \in Orders |-> IF o \in S THEN "rejected" ELSE status[o]]
    /\ history' = [o \in Orders |-> IF o \in S
                                    THEN Append(history[o], "rejected")
                                    ELSE history[o]]
    /\ UNCHANGED price

Next ==
    \/ \E o \in Orders : \/ PlaceOrder(o) \/ Cancel(o) \/ LogCancel(o)
                         \/ \E p \in Prices \cup {NoPrice} : Advance(o, p)
    \/ \E S \in SUBSET Orders : Reject(S)

Spec == Init /\ [][Next]_bookVars
-----------------------------------------------------------------------------
BookTypeOK ==
    /\ status  \in [Orders -> Statuses \cup {"unplaced"}]
    /\ history \in [Orders -> Seq(Statuses)]
    /\ price   \in [Orders -> Prices \cup {NoPrice}]

\* Of two log entries on the way to pickup, the later one is strictly further
\* along: no order is accepted, made ready or completed twice or backwards,
\* however many merchants press the button at once (post_orders_id_status).
LogAdvances ==
    \A o \in Orders : \A i, j \in 1..Len(history[o]) :
        /\ i < j
        /\ history[o][i] \in DOMAIN Rank
        /\ history[o][j] \in DOMAIN Rank
        => Rank[history[o][i]] < Rank[history[o][j]]

\* The status a reader sees is in the log, except for a cancellation whose
\* second statement has not run (update_status outside a transaction).
StatusIsLogged ==
    \A o \in Placed : status[o] # "cancelled" =>
        \E i \in 1..Len(history[o]) : history[o][i] = status[o]

\* A price, once set by the acceptance, is never replaced or removed
\* (update_price is guarded by next_status = Processing, which happens once).
PriceIsFinal ==
    [][\A o \in Orders : price[o] # NoPrice => price'[o] = price[o]]_bookVars

\* An order that left the way to pickup never returns to it: what was
\* completed, rejected or cancelled is at most cancelled or rejected again.
NoRevival ==
    [][\A o \in Orders : status[o] \in Terminal =>
          status'[o] \in {status[o], "cancelled", "rejected"}]_bookVars
=============================================================================
