-------------------------- MODULE OrderViewsProofs --------------------------
(***************************************************************************)
(* Proofs about module OrderViews, for any number of orders and of calls   *)
(* under way.                                                              *)
(*                                                                         *)
(* Everything the tab has learnt about an order is behind the order: what  *)
(* it shows, what a fetch has read, what a step has answered.  The view    *)
(* does not fall back because there is one fetch at a time and it reads    *)
(* after the one before it has been shown or dropped.                      *)
(***************************************************************************)
EXTENDS OrderViews, TLAPS

\* Statuses on the way to pickup come in order; any other is not compared.
Behind(a, b) == a \in DOMAIN Rank /\ b \in DOMAIN Rank => Rank[a] <= Rank[b]

\* A price goes with the order it was typed for, wherever it is.
PricesMatch ==
    /\ PriceOfItsOrder
    /\ typed \in {NoPrice, chosen}
    /\ dialog # None => chosen # None /\ dialog.price \in {NoPrice, chosen}
    /\ \A s \in Slots : calls[s] # None => calls[s].price \in {NoPrice, calls[s].order}

\* Of an order that has not been placed the tab knows nothing.
Unheard(o) == chosen # o /\ fetch[o] = "no" /\ detail[o] = "none"

NothingUnplaced ==
    /\ \A o \in Orders : status[o] = "unplaced" => Unheard(o)
    /\ \A s \in Slots : calls[s] # None => status[calls[s].order] # "unplaced"

\* What is shown is behind what was fetched, and that behind the order.
ViewBehind ==
    \A o \in Orders : /\ Behind(detail[o], status[o])
                      /\ Behind(fetch[o], status[o])
                      /\ Behind(detail[o], fetch[o])

\* Steps that were answered have been taken.
AnswersBehind ==
    \A s \in Slots : calls[s] # None /\ calls[s].answer \in Statuses =>
        /\ calls[s].answer \in DOMAIN Rank
        /\ Behind(calls[s].answer, status[calls[s].order])

\* What was reported is behind the order, and behind the fetch made since.
ToldBehind ==
    told # "none" =>
        /\ chosen \in Orders
        /\ Behind(told, status[chosen])
        /\ Behind(told, fetch[chosen])
        /\ fetch[chosen] = "no" => Behind(told, detail[chosen])

Inv == /\ TypeOK /\ PricesMatch /\ NothingUnplaced
       /\ ViewBehind /\ AnswersBehind /\ ToldBehind
-----------------------------------------------------------------------------
\* The ranks are numbers, only statuses have one, and a step raises it.
LEMMA Ranks ==
    /\ DOMAIN Rank \subseteq Statuses
    /\ \A s \in DOMAIN Rank : Rank[s] \in Int
    /\ \A s \in Advanceable :
          /\ s \in DOMAIN Rank /\ NextStatus[s] \in DOMAIN Rank
          /\ Rank[s] <= Rank[NextStatus[s]]
    /\ \A s \in {"no", "asked", "none", "refused", "unplaced", "cancelled", "rejected"} :
          s \notin DOMAIN Rank
    /\ \A s \in {"no", "asked", "none", "refused", "unplaced"} : s \notin Statuses
    /\ {"reviewing", "cancelled", "rejected"} \subseteq Statuses
    /\ Advanceable \subseteq Statuses
BY DEF Rank, Statuses, Advanceable, NextStatus

\* The first state has shown, read and told nothing.
LEMMA InitInv == Init => Inv
BY ViewsAssumption, Ranks DEF ViewsAssumption, Init, Inv, TypeOK, PricesMatch,
   PriceOfItsOrder, NothingUnplaced, Unheard, ViewBehind, AnswersBehind, ToldBehind,
   Behind, Prices

\* An order moves on, is turned away, or is placed.
Onward ==
    \A o \in Orders :
       \/ status'[o] = status[o]
       \/ status[o] = "unplaced"
       \/ status'[o] \in {"cancelled", "rejected"}
       \/ /\ status[o] \in DOMAIN Rank /\ status'[o] \in DOMAIN Rank
          /\ Rank[status[o]] <= Rank[status'[o]]

\* A step of an order keeps the types of the book and goes onward.
LEMMA AdvanceIsOnward ==
    ASSUME Inv, NEW o \in Orders, NEW p \in Prices \cup {NoPrice}, Advance(o, p)
    PROVE  /\ status' \in [Orders -> Statuses \cup {"unplaced"}]
           /\ price'  \in [Orders -> Prices \cup {NoPrice}]
           /\ Onward
           /\ \A x \in Orders : status'[x] = "unplaced" => status[x] = "unplaced"
           /\ \A x \in Orders : price'[x] # price[x] => x = o /\ price'[x] = p
           /\ status'[o] \in DOMAIN Rank
BY Ranks DEF Inv, TypeOK, Advance, Onward

\* What is behind an order stays behind it when the order goes onward.
LEMMA BehindOnward ==
    ASSUME Inv, Onward, NEW o \in Orders, NEW a, Behind(a, status[o]),
           status[o] # "unplaced"
    PROVE  Behind(a, status'[o])
BY Ranks DEF Onward, Behind

\* The tab's knowledge survives a step of the orders.
LEMMA OnwardKeeps ==
    ASSUME Inv, Onward, UNCHANGED <<chosen, detail, fetch, told>>,
           \A x \in Orders : status'[x] = "unplaced" => status[x] = "unplaced"
    PROVE  /\ \A o \in Orders : status'[o] = "unplaced" => Unheard(o)'
           /\ ViewBehind' /\ ToldBehind'
<1>1. \A o \in Orders : status'[o] = "unplaced" => Unheard(o)'
  BY DEF Inv, NothingUnplaced, Unheard
<1>2. ViewBehind'
  <2> SUFFICES ASSUME NEW o \in Orders
               PROVE  /\ Behind(detail[o], status'[o])
                      /\ Behind(fetch[o], status'[o])
                      /\ Behind(detail[o], fetch[o])
    BY DEF ViewBehind, Behind
  <2>1. CASE status[o] = "unplaced"
    BY <2>1, Ranks DEF Inv, NothingUnplaced, Unheard, Behind
  <2>2. CASE status[o] # "unplaced"
    BY <2>2, BehindOnward DEF Inv, ViewBehind
  <2> QED BY <2>1, <2>2
<1>3. ToldBehind'
  <2> SUFFICES ASSUME told # "none" PROVE ToldBehind'
    BY DEF ToldBehind
  <2>1. chosen \in Orders /\ status[chosen] # "unplaced" /\ Behind(told, status[chosen])
    BY DEF Inv, ToldBehind, NothingUnplaced, Unheard
  <2>2. Behind(told, status'[chosen])
    BY <2>1, BehindOnward
  <2> QED BY <2>1, <2>2 DEF Inv, ToldBehind, Behind
<1> QED BY <1>1, <1>2, <1>3

\* Steps of others.
LEMMA ElsewhereKeeps == ASSUME Inv, Elsewhere PROVE Inv'
<1>1. PICK o \in Orders :
          \/ Advance(o, NoPrice)
          \/ /\ \/ status[o] = "unplaced" /\ status' = [status EXCEPT ![o] = "reviewing"]
                \/ /\ status[o] # "unplaced"
                   /\ \E s \in {"cancelled", "rejected"} : status' = [status EXCEPT ![o] = s]
             /\ UNCHANGED price
  BY DEF Elsewhere
<1>2. /\ status' \in [Orders -> Statuses \cup {"unplaced"}]
      /\ price' \in [Orders -> Prices \cup {NoPrice}]
      /\ Onward
      /\ \A x \in Orders : status'[x] = "unplaced" => status[x] = "unplaced"
      /\ \A x \in Orders : price'[x] # price[x] => price'[x] = NoPrice
  BY <1>1, AdvanceIsOnward, Ranks DEF Inv, TypeOK, Onward
<1>3. UNCHANGED tab
  BY DEF Elsewhere
<1>4. TypeOK'
  BY <1>2, <1>3 DEF Inv, TypeOK, tab
<1>5. PricesMatch'
  BY <1>2, <1>3 DEF Inv, PricesMatch, PriceOfItsOrder, tab
<1>6. /\ \A x \in Orders : status'[x] = "unplaced" => Unheard(x)'
      /\ ViewBehind' /\ ToldBehind'
  BY <1>2, <1>3, OnwardKeeps DEF tab
<1>7. \A s \in Slots : calls[s] # None => calls[s] \in Calls
  BY DEF Inv, TypeOK
<1>8. NothingUnplaced'
  BY <1>2, <1>3, <1>6, <1>7 DEF Inv, NothingUnplaced, tab, Calls
<1>9. AnswersBehind'
  <2> SUFFICES ASSUME NEW s \in Slots, calls[s] # None, calls[s].answer \in Statuses
               PROVE  /\ calls[s].answer \in DOMAIN Rank
                      /\ Behind(calls[s].answer, status'[calls[s].order])
    BY <1>3 DEF AnswersBehind, tab, Behind
  <2> QED BY <1>2, <1>7, BehindOnward DEF Inv, AnswersBehind, NothingUnplaced, Calls
<1> QED BY <1>4, <1>5, <1>6, <1>8, <1>9 DEF Inv
-----------------------------------------------------------------------------
\* The steps of fetches.
LEMMA FetchKeeps ==
    ASSUME Inv, NEW o \in Orders,
           Focus(o) \/ ReadDetail(o) \/ ShowDetail(o) \/ FailDetail(o)
    PROVE  Inv'
<1>1. UNCHANGED <<status, price, chosen, dialog, calls, told>>
  BY DEF Focus, ReadDetail, ShowDetail, FailDetail, book
<1>2. fetch[o] # "no" \/ chosen = o
  BY Ranks DEF Focus, ReadDetail, ShowDetail, FailDetail
<1>3. status[o] \in Statuses
  BY <1>2 DEF Inv, TypeOK, NothingUnplaced, Unheard
<1>4. TypeOK'
  BY <1>1, <1>3 DEF Inv, TypeOK, Focus, ReadDetail, ShowDetail, FailDetail
<1>5. PricesMatch'
  BY <1>1 DEF Inv, PricesMatch, PriceOfItsOrder, Focus, ReadDetail, ShowDetail, FailDetail
<1>6. NothingUnplaced'
  <2>1. \A x \in Orders \ {o} : fetch'[x] = fetch[x] /\ detail'[x] = detail[x]
    BY DEF Inv, TypeOK, Focus, ReadDetail, ShowDetail, FailDetail
  <2> QED BY <1>1, <1>3, <2>1, Ranks DEF Inv, NothingUnplaced, Unheard
<1>7. AnswersBehind'
  BY <1>1 DEF Inv, AnswersBehind, Behind
<1>8. ViewBehind' /\ ToldBehind'
  <2>1. CASE Focus(o)
    BY <1>1, <2>1, Ranks DEF Inv, TypeOK, ViewBehind, ToldBehind, Behind, Focus
  <2>2. CASE ReadDetail(o)
    BY <1>1, <1>3, <2>2, Ranks DEF Inv, TypeOK, ViewBehind, ToldBehind, Behind, ReadDetail
  <2>3. CASE ShowDetail(o)
    BY <1>1, <2>3, Ranks DEF Inv, TypeOK, ViewBehind, ToldBehind, Behind, ShowDetail
  <2>4. CASE FailDetail(o)
    BY <1>1, <2>4, Ranks DEF Inv, TypeOK, ViewBehind, ToldBehind, Behind, FailDetail
  <2> QED BY <2>1, <2>2, <2>3, <2>4
<1> QED BY <1>4, <1>5, <1>6, <1>7, <1>8 DEF Inv

\* Another order is chosen.
LEMMA ChooseKeeps == ASSUME Inv, NEW o \in Orders \cup {Other}, Choose(o) PROVE Inv'
<1>1. UNCHANGED <<status, price, detail, dialog, calls>> /\ chosen' = o /\ told' = "none"
      /\ typed' = NoPrice /\ dialog = None
  BY DEF Choose, book
<1>2. /\ fetch' \in [Orders -> Statuses \cup {"no", "asked"}]
      /\ \A x \in Orders : fetch'[x] # fetch[x] => x = o /\ fetch'[x] \in {"no", "asked"}
  BY DEF Inv, TypeOK, Choose
<1>3. o \in Orders => status[o] # "unplaced"
  BY DEF Choose
<1>4. TypeOK'
  BY <1>1, <1>2 DEF Inv, TypeOK
<1>5. PricesMatch'
  BY <1>1 DEF Inv, PricesMatch, PriceOfItsOrder
<1>6. NothingUnplaced' /\ AnswersBehind' /\ ToldBehind'
  BY <1>1, <1>2, <1>3 DEF Inv, NothingUnplaced, Unheard, AnswersBehind, ToldBehind, Behind
<1>7. ViewBehind'
  BY <1>1, <1>2, Ranks DEF Inv, ViewBehind, Behind
<1> QED BY <1>4, <1>5, <1>6, <1>7 DEF Inv

\* Dialogs, what is typed into them, and the calls they make.
LEMMA DialogKeeps ==
    ASSUME Inv,
           \/ \E kind \in {"accept", "step", "reject"} : OpenDialog(kind)
           \/ TypePrice \/ CloseDialog
           \/ \E s \in Slots : Confirm(s) \/ Reject(s) \/ Fail(s)
    PROVE  Inv'
<1>1. UNCHANGED <<status, price, chosen, detail, fetch, told>>
  BY DEF OpenDialog, TypePrice, CloseDialog, Confirm, Reject, Fail, book
<1>2. ViewBehind' /\ ToldBehind'
  BY <1>1 DEF Inv, ViewBehind, ToldBehind, Behind
<1>3. ASSUME UNCHANGED calls PROVE NothingUnplaced' /\ AnswersBehind'
  BY <1>1, <1>3 DEF Inv, NothingUnplaced, Unheard, AnswersBehind, Behind
<1>4. ASSUME NEW kind \in {"accept", "step", "reject"}, OpenDialog(kind) PROVE Inv'
  <2>1. TypeOK'
    BY <1>1, <1>4 DEF Inv, TypeOK, OpenDialog, Prices
  <2>2. PricesMatch'
    BY <1>1, <1>4, ViewsAssumption
       DEF Inv, TypeOK, PricesMatch, PriceOfItsOrder, OpenDialog, ViewsAssumption
  <2> QED BY <1>2, <1>3, <1>4, <2>1, <2>2 DEF Inv, OpenDialog
<1>5. CASE TypePrice
  <2>1. TypeOK'
    BY <1>1, <1>5 DEF Inv, TypeOK, PricesMatch, TypePrice, Prices
  <2>2. PricesMatch'
    BY <1>1, <1>5 DEF Inv, PricesMatch, PriceOfItsOrder, TypePrice
  <2> QED BY <1>2, <1>3, <1>5, <2>1, <2>2 DEF Inv, TypePrice
<1>6. CASE CloseDialog
  BY <1>1, <1>2, <1>3, <1>6 DEF Inv, TypeOK, PricesMatch, PriceOfItsOrder, CloseDialog
<1>7. ASSUME NEW s \in Slots, Confirm(s) \/ Reject(s) PROVE Inv'
  <2>1. PICK c \in Calls :
            /\ calls' = [calls EXCEPT ![s] = c]
            /\ c.order = chosen /\ c.price \in {NoPrice, chosen}
            /\ c.answer \in {"none", "refused"}
    BY <1>7 DEF Inv, TypeOK, PricesMatch, Confirm, Reject, Calls, Prices
  <2>2. chosen \in Orders /\ status[chosen] # "unplaced"
    BY <1>7 DEF Inv, Confirm, Reject, NothingUnplaced, Unheard
  <2>3. UNCHANGED <<typed, dialog>>
    BY <1>7 DEF Confirm, Reject
  <2>4. TypeOK'
    BY <1>1, <2>1, <2>3 DEF Inv, TypeOK
  <2>5. PricesMatch'
    BY <1>1, <2>1, <2>3 DEF Inv, TypeOK, PricesMatch, PriceOfItsOrder
  <2>6. NothingUnplaced' /\ AnswersBehind'
    BY <1>1, <2>1, <2>2, Ranks
       DEF Inv, TypeOK, NothingUnplaced, Unheard, AnswersBehind, Behind
  <2> QED BY <1>2, <2>4, <2>5, <2>6 DEF Inv
<1>8. ASSUME NEW s \in Slots, Fail(s) PROVE Inv'
  <2>1. calls' = [calls EXCEPT ![s] = None] /\ UNCHANGED <<typed, dialog>>
    BY <1>8 DEF Fail
  <2>2. TypeOK'
    BY <1>1, <2>1 DEF Inv, TypeOK
  <2>3. PricesMatch' /\ NothingUnplaced' /\ AnswersBehind'
    BY <1>1, <2>1
       DEF Inv, TypeOK, PricesMatch, PriceOfItsOrder, NothingUnplaced, Unheard,
           AnswersBehind, Behind
  <2> QED BY <1>2, <2>2, <2>3 DEF Inv
<1> QED BY <1>4, <1>5, <1>6, <1>7, <1>8

\* The server takes a step that was asked for.
LEMMA ServeKeeps == ASSUME Inv, NEW s \in Slots, Serve(s) PROVE Inv'
<1> DEFINE o == calls[s].order
<1>1. calls[s] \in Calls /\ calls[s].price \in {NoPrice, o}
  BY DEF Inv, TypeOK, PricesMatch, Serve
<1>2. /\ o \in Orders /\ Advance(o, calls[s].price)
      /\ calls' = [calls EXCEPT ![s].answer = status'[o]]
      /\ UNCHANGED <<chosen, detail, fetch, typed, dialog, told>>
  BY <1>1 DEF Serve, Calls
<1>3. /\ status' \in [Orders -> Statuses \cup {"unplaced"}]
      /\ price' \in [Orders -> Prices \cup {NoPrice}]
      /\ Onward
      /\ \A x \in Orders : status'[x] = "unplaced" => status[x] = "unplaced"
      /\ \A x \in Orders : price'[x] # price[x] => x = o /\ price'[x] = calls[s].price
      /\ status'[o] \in DOMAIN Rank
  BY <1>1, <1>2, AdvanceIsOnward DEF Calls
<1>4. /\ calls[s] # None
      /\ calls'[s] \in Calls /\ calls'[s].order = o /\ calls'[s].price = calls[s].price
      /\ calls'[s].answer = status'[o]
      /\ calls' = [calls EXCEPT ![s] = calls'[s]]
  <2>1. calls'[s] = [calls[s] EXCEPT !.answer = status'[o]]
    BY <1>2 DEF Inv, TypeOK
  <2>2. calls'[s] \in Calls /\ calls'[s].order = o /\ calls'[s].price = calls[s].price
        /\ calls'[s].answer = status'[o]
    BY <1>1, <1>2, <1>3, <2>1, Ranks DEF Calls
  <2> QED BY <1>2, <2>1, <2>2 DEF Serve
<1>5. TypeOK'
  BY <1>2, <1>3, <1>4 DEF Inv, TypeOK
<1>6. PricesMatch'
  BY <1>1, <1>2, <1>3, <1>4 DEF Inv, TypeOK, PricesMatch, PriceOfItsOrder
<1>7. /\ \A x \in Orders : status'[x] = "unplaced" => Unheard(x)'
      /\ ViewBehind' /\ ToldBehind'
  BY <1>2, <1>3, OnwardKeeps
<1>8. \A x \in Slots : calls[x] # None => calls[x] \in Calls
  BY DEF Inv, TypeOK
<1>9. NothingUnplaced'
  BY <1>1, <1>3, <1>4, <1>7, <1>8 DEF Inv, TypeOK, NothingUnplaced, Calls
<1>10. AnswersBehind'
  <2> SUFFICES ASSUME NEW x \in Slots, calls'[x] # None, calls'[x].answer \in Statuses
               PROVE  /\ calls'[x].answer \in DOMAIN Rank
                      /\ Behind(calls'[x].answer, status'[calls'[x].order])
    BY DEF AnswersBehind, Behind
  <2>1. CASE x = s
    BY <1>3, <1>4, <2>1, Ranks DEF Behind
  <2>2. CASE x # s
    BY <1>3, <1>4, <1>8, <2>2, BehindOnward DEF Inv, TypeOK, AnswersBehind, NothingUnplaced, Calls
  <2> QED BY <2>1, <2>2
<1> QED BY <1>5, <1>6, <1>7, <1>9, <1>10 DEF Inv

\* A step that was asked for is reported.
LEMMA AnsweredKeeps == ASSUME Inv, NEW s \in Slots, Answered(s) PROVE Inv'
<1> DEFINE o == calls[s].order
           a == calls[s].answer
<1>1. /\ calls[s] # None /\ calls[s] \in Calls /\ o \in Orders
      /\ a \in DOMAIN Rank /\ Behind(a, status[o])
  BY DEF Inv, TypeOK, Answered, Calls, AnswersBehind
<1>2. /\ UNCHANGED <<status, price, chosen, detail>>
      /\ dialog' = None /\ typed' \in {NoPrice, typed}
      /\ calls' = [calls EXCEPT ![s] = None]
      /\ fetch' = [fetch EXCEPT ![o] = IF chosen = o THEN "asked" ELSE @]
      /\ told' = IF chosen = o THEN Further(told, a) ELSE told
  BY DEF Answered, Invalidate, book
<1>3. told' \in {told, a} /\ (told' # told => chosen = o)
  BY <1>2 DEF Further
<1>4. TypeOK'
  BY <1>1, <1>2, <1>3 DEF Inv, TypeOK
<1>5. PricesMatch'
  BY <1>2 DEF Inv, TypeOK, PricesMatch, PriceOfItsOrder
<1>6. AnswersBehind'
  BY <1>2 DEF Inv, TypeOK, AnswersBehind, Behind
<1>7. NothingUnplaced'
  BY <1>1, <1>2 DEF Inv, TypeOK, NothingUnplaced, Unheard
<1>8. ViewBehind'
  BY <1>1, <1>2, Ranks DEF Inv, TypeOK, ViewBehind, Behind
<1>9. ToldBehind'
  <2>1. CASE chosen = o
    BY <1>1, <1>2, <1>3, <2>1, Ranks DEF Inv, TypeOK, ToldBehind, Behind
  <2>2. CASE chosen # o
    BY <1>1, <1>2, <1>3, <2>2 DEF Inv, TypeOK, ToldBehind, Behind
  <2> QED BY <2>1, <2>2
<1> QED BY <1>4, <1>5, <1>6, <1>7, <1>8, <1>9 DEF Inv

\* Every step keeps the invariant.
LEMMA NextKeeps == Inv /\ [Next]_vars => Inv'
<1> SUFFICES ASSUME Inv, [Next]_vars PROVE Inv'
  OBVIOUS
<1>1. CASE UNCHANGED vars
  BY <1>1 DEF vars, book, tab, Inv, TypeOK, PricesMatch, PriceOfItsOrder, NothingUnplaced,
     Unheard, ViewBehind, AnswersBehind, ToldBehind, Behind
<1> QED BY <1>1, ElsewhereKeeps, FetchKeeps, ChooseKeeps, DialogKeeps, ServeKeeps,
           AnsweredKeeps DEF Next

\* What the tab knows of orders is behind them, always.
THEOREM Invariance == Spec => []Inv
BY InitInv, NextKeeps, PTL DEF Spec

\* The price a merchant types reaches the order it was typed for, however many
\* dialogs and calls there are (changeOrderStatusMutation).
THEOREM PricesReachTheirOrder == Spec => []PriceOfItsOrder
BY Invariance, PTL DEF Inv, PricesMatch

\* A view that has stopped fetching is not behind the merchant's own steps
\* (invalidateQueries in onSuccess).
THEOREM OwnStepsAreSeen == Spec => []OwnStepSeen
<1>1. Inv => OwnStepSeen
  BY Ranks DEF Inv, TypeOK, ToldBehind, OwnStepSeen, Behind
<1> QED BY <1>1, Invariance, PTL

\* Whatever the order of answers, a view does not fall back.
THEOREM ViewsMoveForward == Spec => SeenInOrder
<1>1. Inv /\ [Next]_vars =>
        [\A o \in Orders :
            {detail[o], detail'[o]} \subseteq DOMAIN Rank =>
                Rank[detail[o]] <= Rank[detail'[o]]]_vars
  <2> SUFFICES ASSUME Inv, Next, NEW o \in Orders,
                      {detail[o], detail'[o]} \subseteq DOMAIN Rank
               PROVE  Rank[detail[o]] <= Rank[detail'[o]]
    OBVIOUS
  <2>1. detail'[o] \in {detail[o], fetch[o], "none"}
    BY DEF Inv, TypeOK, Next, Elsewhere, tab, Choose, Focus, ReadDetail, ShowDetail,
       FailDetail, OpenDialog, TypePrice, CloseDialog, Confirm, Reject, Serve, Fail, Answered
  <2> QED BY <2>1, Ranks DEF Inv, ViewBehind, Behind
<1> QED BY <1>1, Invariance, PTL DEF Spec, SeenInOrder
=============================================================================
