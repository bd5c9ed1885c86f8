-------------------------- MODULE OrderBookProofs --------------------------
(***************************************************************************)
(* The promises of the order book hold for any orders, prices and numbers  *)
(* of operations.                                                          *)
(***************************************************************************)
EXTENDS OrderBook, TLAPS

\* The type invariant needs one fact about the unplaced: their log is empty.
TypeInv ==
    /\ BookTypeOK
    /\ \A o \in Orders : status[o] = "unplaced" => history[o] = <<>>

\* While an order is on its way to pickup, its log has got no further than its
\* status.  With it LogAdvances is inductive: an advance appends a status of
\* higher rank than anything in the log.
LogBehindStatus ==
    \A o \in Orders : status[o] \in DOMAIN Rank =>
        \A i \in 1..Len(history[o]) :
            history[o][i] \in DOMAIN Rank => Rank[history[o][i]] <= Rank[status[o]]

LogInv == TypeInv /\ LogBehindStatus /\ LogAdvances /\ StatusIsLogged

\* A price is the mark of an order that was accepted.
PricedIsAccepted ==
    \A o \in Orders : price[o] # NoPrice => status[o] \notin {"unplaced", "reviewing"}

\* The status that follows an advanceable one is one rank up.
LEMMA NextStatusRank ==
    ASSUME NEW s \in Advanceable
    PROVE  /\ s \in Statuses /\ NextStatus[s] \in Statuses
           /\ s \in DOMAIN Rank /\ NextStatus[s] \in DOMAIN Rank
           /\ Rank[NextStatus[s]] = Rank[s] + 1
           /\ Rank[s] \in Nat
           /\ (s = "reviewing") <=> (NextStatus[s] = "processing")
           /\ NextStatus[s] \notin {"unplaced", "reviewing"}
BY DEF Advanceable, NextStatus, Rank, Statuses

\* The ranks are numbers, and the two ways out have none.
LEMMA RankDomain ==
    /\ \A s \in DOMAIN Rank : Rank[s] \in Nat
    /\ "rejected" \notin DOMAIN Rank
    /\ "cancelled" \notin DOMAIN Rank
    /\ "unplaced" \notin DOMAIN Rank
    /\ Rank["reviewing"] = 0
    /\ {"reviewing", "rejected", "cancelled"} \subseteq Statuses
    /\ "unplaced" \notin Statuses
BY DEF Rank, Statuses

LEMMA TypeInvStep == TypeInv /\ [Next]_bookVars => TypeInv'
<1> SUFFICES ASSUME TypeInv, [Next]_bookVars PROVE TypeInv'
  OBVIOUS
<1> USE DEF TypeInv, BookTypeOK
<1>1. ASSUME NEW o \in Orders, PlaceOrder(o) PROVE TypeInv'
  BY <1>1, RankDomain DEF PlaceOrder
<1>2. ASSUME NEW o \in Orders, Cancel(o) PROVE TypeInv'
  BY <1>2, RankDomain DEF Cancel, Placed
<1>3. ASSUME NEW o \in Orders, LogCancel(o) PROVE TypeInv'
  BY <1>3, RankDomain DEF LogCancel, Placed
<1>4. ASSUME NEW o \in Orders, NEW p \in Prices \cup {NoPrice}, Advance(o, p)
      PROVE  TypeInv'
  <2>1. NextStatus[status[o]] \in Statuses
    BY <1>4, NextStatusRank DEF Advance
  <2>2. "unplaced" # NextStatus[status[o]]
    BY <1>4, NextStatusRank DEF Advance
  <2>3. QED
    BY <1>4, <2>1, <2>2 DEF Advance
<1>5. ASSUME NEW S \in SUBSET Orders, Reject(S) PROVE TypeInv'
  BY <1>5, RankDomain DEF Reject, Placed
<1>6. CASE UNCHANGED bookVars
  BY <1>6 DEF bookVars
<1>7. QED
  BY <1>1, <1>2, <1>3, <1>4, <1>5, <1>6 DEF Next

\* Every column of the book keeps its type.
THEOREM BookIsTyped == Spec => []BookTypeOK
<1>1. Init => TypeInv
  BY DEF Init, TypeInv, BookTypeOK
<1>2. TypeInv => BookTypeOK
  BY DEF TypeInv
<1>3. QED
  BY <1>1, <1>2, TypeInvStep, PTL DEF Spec
-----------------------------------------------------------------------------
\* Appending to a log: the old entries stay where they were.
LEMMA AppendedLog ==
    ASSUME NEW h \in Seq(Statuses), NEW s \in Statuses
    PROVE  /\ Append(h, s) \in Seq(Statuses)
           /\ Len(Append(h, s)) = Len(h) + 1
           /\ Len(h) \in Nat
           /\ Append(h, s)[Len(h) + 1] = s
           /\ \A i \in 1..Len(h) : Append(h, s)[i] = h[i]
OBVIOUS

\* What a step can do to the log and the status of one order: nothing, a
\* cancellation that is not logged, the first entry, an entry without rank, or
\* the status one rank up.
Untouched(o)   == history'[o] = history[o] /\ status'[o] \in {status[o], "cancelled"}
Started(o)     == history'[o] = <<"reviewing">> /\ status'[o] = "reviewing"
LeftTheWay(o)  == \E s \in {"cancelled", "rejected"} :
                     /\ history'[o] = Append(history[o], s)
                     /\ \/ status'[o] = s
                        \/ status'[o] = status[o] /\ status[o] # "unplaced"
AdvancedOne(o) == /\ status[o] \in Advanceable
                  /\ status'[o] = NextStatus[status[o]]
                  /\ history'[o] = Append(history[o], NextStatus[status[o]])

LEMMA LogStep ==
    ASSUME TypeInv, [Next]_bookVars, NEW o \in Orders
    PROVE  Untouched(o) \/ Started(o) \/ LeftTheWay(o) \/ AdvancedOne(o)
<1> USE DEF TypeInv, BookTypeOK, Untouched, Started, LeftTheWay, AdvancedOne
<1>1. ASSUME NEW q \in Orders, PlaceOrder(q) PROVE Untouched(o) \/ Started(o)
  BY <1>1 DEF PlaceOrder
<1>2. ASSUME NEW q \in Orders, Cancel(q) PROVE Untouched(o)
  BY <1>2 DEF Cancel
<1>3. ASSUME NEW q \in Orders, LogCancel(q) PROVE Untouched(o) \/ LeftTheWay(o)
  BY <1>3 DEF LogCancel, Placed
<1>4. ASSUME NEW q \in Orders, NEW p \in Prices \cup {NoPrice}, Advance(q, p)
      PROVE  Untouched(o) \/ AdvancedOne(o)
  BY <1>4 DEF Advance
<1>5. ASSUME NEW S \in SUBSET Orders, Reject(S) PROVE Untouched(o) \/ LeftTheWay(o)
  BY <1>5 DEF Reject
<1>6. CASE UNCHANGED bookVars
  BY <1>6 DEF bookVars
<1>7. QED
  BY <1>1, <1>2, <1>3, <1>4, <1>5, <1>6 DEF Next

LEMMA LogInvStep == LogInv /\ [Next]_bookVars => LogInv'
<1> SUFFICES ASSUME LogInv, [Next]_bookVars PROVE LogInv'
  OBVIOUS
<1>0. TypeInv'
  BY TypeInvStep DEF LogInv
<1> USE DEF LogInv, TypeInv, BookTypeOK
<1> DEFINE Behind(s, h) == s \in DOMAIN Rank => \A i \in 1..Len(h) :
                              h[i] \in DOMAIN Rank => Rank[h[i]] <= Rank[s]
           Upward(h) == \A i, j \in 1..Len(h) :
                           i < j /\ h[i] \in DOMAIN Rank /\ h[j] \in DOMAIN Rank
                           => Rank[h[i]] < Rank[h[j]]
           Logged(s, h) == s \notin {"cancelled", "unplaced"} =>
                              \E i \in 1..Len(h) : h[i] = s
           Good(s, h) == Behind(s, h) /\ Upward(h) /\ Logged(s, h)
<1>1. ASSUME NEW o \in Orders PROVE Good(status[o], history[o])
  BY <1>1 DEF LogBehindStatus, LogAdvances, StatusIsLogged, Placed
<1>2. ASSUME NEW o \in Orders PROVE Good(status'[o], history'[o])
  <2> DEFINE h == history[o]
             k == Len(h) + 1
  <2>0. h \in Seq(Statuses)
    BY <1>2
  <2>1. CASE Untouched(o)
    BY <2>1, <1>1, RankDomain DEF Untouched
  <2>2. CASE Started(o)
    BY <2>2, RankDomain DEF Started
  <2>3. CASE LeftTheWay(o)
    <3>1. PICK s \in {"cancelled", "rejected"} :
                 /\ history'[o] = Append(h, s)
                 /\ \/ status'[o] = s
                    \/ status'[o] = status[o] /\ status[o] # "unplaced"
      BY <2>3 DEF LeftTheWay
    <3>2. s \in Statuses /\ s \notin DOMAIN Rank
      BY RankDomain
    <3>3. /\ Len(Append(h, s)) = k /\ k \in Nat /\ Append(h, s)[k] = s
          /\ \A i \in 1..Len(h) : Append(h, s)[i] = h[i]
      BY <2>0, <3>2, AppendedLog
    <3>4. Upward(Append(h, s))
      BY <3>2, <3>3, <1>1
    <3>5. Behind(status'[o], Append(h, s))
      BY <3>1, <3>2, <3>3, <1>1
    <3>6. Logged(status'[o], Append(h, s))
      <4>1. CASE status'[o] = s
        BY <4>1, <3>3
      <4>2. CASE status'[o] = status[o]
        <5>1. Logged(status[o], h)
          BY <1>1
        <5>2. QED
          BY <5>1, <4>2, <3>3
      <4>3. QED
        BY <3>1, <4>1, <4>2
    <3>7. QED
      BY <3>1, <3>4, <3>5, <3>6
  <2>4. CASE AdvancedOne(o)
    <3> DEFINE t == NextStatus[status[o]]
    <3>1. /\ t \in Statuses /\ t \in DOMAIN Rank /\ status[o] \in DOMAIN Rank
          /\ Rank[t] = Rank[status[o]] + 1 /\ Rank[status[o]] \in Nat
      BY <2>4, NextStatusRank DEF AdvancedOne
    <3>2. /\ Len(Append(h, t)) = k /\ k \in Nat /\ Append(h, t)[k] = t
          /\ \A i \in 1..Len(h) : Append(h, t)[i] = h[i]
      BY <2>0, <3>1, AppendedLog
    <3>3. \A i \in 1..Len(h) : h[i] \in DOMAIN Rank => Rank[h[i]] < Rank[t]
      BY <3>1, <1>1, RankDomain
    <3>4. Upward(Append(h, t))
      BY <3>2, <3>3, <1>1
    <3>5. Behind(t, Append(h, t))
      BY <3>1, <3>2, <3>3, RankDomain
    <3>6. Logged(t, Append(h, t))
      BY <3>2
    <3>7. QED
      BY <2>4, <3>4, <3>5, <3>6 DEF AdvancedOne
  <2>5. QED
    BY <2>1, <2>2, <2>3, <2>4, LogStep
<1>3. QED
  BY <1>0, <1>2 DEF LogBehindStatus, LogAdvances, StatusIsLogged, Placed

\* No order is ever accepted, made ready or completed twice or backwards.
THEOREM BookLogAdvances == Spec => []LogAdvances
<1>1. Init => LogInv
  BY RankDomain DEF Init, LogInv, TypeInv, BookTypeOK, LogBehindStatus, LogAdvances,
                    StatusIsLogged, Placed
<1>2. LogInv => LogAdvances
  BY DEF LogInv
<1>3. QED
  BY <1>1, <1>2, LogInvStep, PTL DEF Spec

\* Every status but an unlogged cancellation is in the log.
THEOREM BookStatusIsLogged == Spec => []StatusIsLogged
<1>1. Init => LogInv
  BY RankDomain DEF Init, LogInv, TypeInv, BookTypeOK, LogBehindStatus, LogAdvances,
                    StatusIsLogged, Placed
<1>2. LogInv => StatusIsLogged
  BY DEF LogInv
<1>3. QED
  BY <1>1, <1>2, LogInvStep, PTL DEF Spec
-----------------------------------------------------------------------------
\* Only the acceptance sets a price, and no order is accepted twice.
LEMMA PricedStep ==
    TypeInv /\ PricedIsAccepted /\ [Next]_bookVars =>
        /\ PricedIsAccepted'
        /\ \A o \in Orders : price[o] # NoPrice => price'[o] = price[o]
<1> SUFFICES ASSUME TypeInv, PricedIsAccepted, [Next]_bookVars, NEW o \in Orders
             PROVE  /\ price'[o] # NoPrice => status'[o] \notin {"unplaced", "reviewing"}
                    /\ price[o] # NoPrice => price'[o] = price[o]
  BY DEF PricedIsAccepted
<1> USE DEF TypeInv, BookTypeOK, PricedIsAccepted
<1>1. ASSUME NEW q \in Orders, PlaceOrder(q) \/ Cancel(q) \/ LogCancel(q)
      PROVE  /\ price'[o] # NoPrice => status'[o] \notin {"unplaced", "reviewing"}
             /\ price'[o] = price[o]
  BY <1>1 DEF PlaceOrder, Cancel, LogCancel
<1>2. ASSUME NEW q \in Orders, NEW p \in Prices \cup {NoPrice}, Advance(q, p)
      PROVE  /\ price'[o] # NoPrice => status'[o] \notin {"unplaced", "reviewing"}
             /\ price[o] # NoPrice => price'[o] = price[o]
  <2>1. NextStatus[status[q]] \notin {"unplaced", "reviewing"}
    BY <1>2, NextStatusRank DEF Advance
  <2>2. QED
    BY <1>2, <2>1 DEF Advance
<1>3. ASSUME NEW S \in SUBSET Orders, Reject(S)
      PROVE  /\ price'[o] # NoPrice => status'[o] \notin {"unplaced", "reviewing"}
             /\ price'[o] = price[o]
  BY <1>3 DEF Reject
<1>4. CASE UNCHANGED bookVars
  BY <1>4 DEF bookVars
<1>5. QED
  BY <1>1, <1>2, <1>3, <1>4 DEF Next

\* A price, once set, stays.
THEOREM BookPriceIsFinal == Spec => PriceIsFinal
<1>1. Init => TypeInv /\ PricedIsAccepted
  BY DEF Init, TypeInv, BookTypeOK, PricedIsAccepted
<1>2. TypeInv /\ PricedIsAccepted /\ [Next]_bookVars
        => [\A o \in Orders : price[o] # NoPrice => price'[o] = price[o]]_bookVars
  BY PricedStep
<1>3. QED
  BY <1>1, <1>2, TypeInvStep, PricedStep, PTL DEF Spec, PriceIsFinal

\* No order comes back from completed, rejected or cancelled.
THEOREM BookNoRevival == Spec => NoRevival
<1> DEFINE Stays == \A o \in Orders : status[o] \in Terminal =>
                       status'[o] \in {status[o], "cancelled", "rejected"}
<1>1. Init => TypeInv
  BY DEF Init, TypeInv, BookTypeOK
<1>2. TypeInv /\ [Next]_bookVars => [Stays]_bookVars
  <2> SUFFICES ASSUME TypeInv, Next, NEW o \in Orders, status[o] \in Terminal
               PROVE  status'[o] \in {status[o], "cancelled", "rejected"}
    OBVIOUS
  <2>1. status[o] \notin Advanceable /\ status[o] # "unplaced"
    BY RankDomain DEF Terminal
  <2>2. QED
    BY <2>1 DEF Next, TypeInv, BookTypeOK, PlaceOrder, Cancel, LogCancel, Advance, Reject
<1>3. QED
  BY <1>1, <1>2, TypeInvStep, PTL DEF Spec, NoRevival
=============================================================================
