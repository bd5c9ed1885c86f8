-------------------------- MODULE OrderHistoryProofs --------------------------
(***************************************************************************)
(* Proofs about module OrderHistory, for any number of orders, any size of *)
(* a page and any fineness of the server's clock.                          *)
(*                                                                         *)
(* Each page begins where the key before it cut, so the list of a client   *)
(* is sorted and has no holes, if the pages of one list come from one      *)
(* fetch.  The inductive invariant says so of the three lists there are:   *)
(* the one that is shown, the one that a fetch collects, and the first     *)
(* page that Next.js sends along.                                          *)
(***************************************************************************)
EXTENDS OrderHistory, SequenceTheorems, FiniteSetTheorems, TLAPS

-----------------------------------------------------------------------------
(* Times and keys.                                                         *)

\* The key of an order is its time, cut to milliseconds.
KeyOf(c, o) == c[o] - (c[o] % PerMilli)

\* Older orders were made before a newer one was, and before its key.
Times(c) ==
    /\ c \in [Orders -> Nat]
    /\ \A o \in Orders : KeyOf(c, o) \in Nat /\ KeyOf(c, o) <= c[o]
    /\ \A o, p \in Orders : o < p => c[o] < KeyOf(c, p)

LEMMA Division ==
    ASSUME NEW a \in Nat, NEW d \in Nat, d > 0
    PROVE  /\ a \div d \in Nat /\ a % d \in Nat
           /\ a % d < d
           /\ a = d * (a \div d) + (a % d)
  OBVIOUS

LEMMA Monotonic ==
    ASSUME NEW a \in Nat, NEW b \in Nat, NEW d \in Nat, a < b
    PROVE  d * a + d <= d * b
<1>1. PICK k \in Nat : b = a + 1 + k
  <2>1. b - a - 1 \in Nat /\ b = a + 1 + (b - a - 1)
    OBVIOUS
  <2> QED BY <2>1
<1>2. d * b = d * a + d + d * k
  BY <1>1
<1>3. d * k \in Nat /\ d * a \in Nat /\ d * b \in Nat
  BY <1>1
<1> QED BY <1>2, <1>3

\* No two orders of a client were made within a millisecond.
LEMMA KeysSeparate == Init => Times(created)
<1> SUFFICES ASSUME Init PROVE Times(created)
  OBVIOUS
<1>1. PerMilli \in Nat /\ PerMilli > 0 /\ MaxOrders \in Nat
  BY HistoryAssumption
<1>2. created \in [Orders -> Nat]
  BY <1>1 DEF Init
<1>3. ASSUME NEW o \in Orders
      PROVE  /\ KeyOf(created, o) = PerMilli * o
             /\ KeyOf(created, o) \in Nat /\ KeyOf(created, o) <= created[o]
             /\ created[o] < PerMilli * o + PerMilli
  <2>1. created[o] \in Nat /\ created[o] \div PerMilli = o /\ o \in Nat
    BY <1>2 DEF Init, Orders
  <2>2. /\ created[o] % PerMilli \in Nat /\ created[o] % PerMilli < PerMilli
        /\ created[o] = PerMilli * o + (created[o] % PerMilli)
    BY <1>1, <2>1, Division
  <2>3. PerMilli * o \in Nat
    BY <1>1, <2>1
  <2> QED BY <1>1, <2>1, <2>2, <2>3 DEF KeyOf
<1>4. ASSUME NEW o \in Orders, NEW p \in Orders, o < p
      PROVE  created[o] < KeyOf(created, p)
  <2>1. o \in Nat /\ p \in Nat
    BY DEF Orders
  <2>2. PerMilli * o + PerMilli <= PerMilli * p
    BY <1>1, <1>4, <2>1, Monotonic
  <2>3. PerMilli * o \in Nat /\ PerMilli * p \in Nat /\ created[o] \in Nat
    BY <1>1, <1>2, <2>1
  <2> QED BY <1>1, <1>3, <2>2, <2>3
<1> QED BY <1>2, <1>3, <1>4 DEF Times

\* The order of times is the order of orders.
LEMMA TimesOrder ==
    ASSUME NEW c, Times(c), NEW o \in Orders, NEW p \in Orders
    PROVE  /\ c[o] \in Nat /\ o \in Nat /\ KeyOf(c, o) \in Nat /\ KeyOf(c, o) <= c[o]
           /\ o < p <=> c[o] < c[p]
           /\ o < p <=> c[o] < KeyOf(c, p)
<1>1. /\ c[o] \in Nat /\ c[p] \in Nat /\ o \in Nat /\ p \in Nat
      /\ KeyOf(c, o) \in Nat /\ KeyOf(c, o) <= c[o]
      /\ KeyOf(c, p) \in Nat /\ KeyOf(c, p) <= c[p]
      /\ o < p => c[o] < KeyOf(c, p)
      /\ p < o => c[p] < KeyOf(c, o)
  BY DEF Times, Orders
<1>2. o = p => c[o] = c[p] /\ KeyOf(c, o) = KeyOf(c, p)
  OBVIOUS
<1> QED BY <1>1, <1>2
-----------------------------------------------------------------------------
(* The rows of an answer.                                                  *)

\* Counting from one.
LEMMA CountTo ==
    ASSUME NEW n \in Nat
    PROVE  IsFiniteSet(1..n) /\ Cardinality(1..n) = n
<1>1. 1 \in Int /\ n \in Int /\ (1 > n => n = 0) /\ n - 1 + 1 = n
  OBVIOUS
<1>2. IsFiniteSet(1..n) /\ Cardinality(1..n) = IF 1 > n THEN 0 ELSE n - 1 + 1
  BY <1>1, FS_Interval
<1> QED BY <1>1, <1>2

LEMMA OrdersFinite ==
    ASSUME NEW S \in SUBSET Orders
    PROVE  IsFiniteSet(S) /\ Cardinality(S) \in Nat
<1>1. IsFiniteSet(Orders)
  BY CountTo, HistoryAssumption DEF Orders
<1> QED BY <1>1, FS_Subset, FS_CardinalityType

Newer(c, S, o) == {p \in S : c[p] >= c[o]}

LEMMA NewerFinite ==
    ASSUME NEW c, Times(c), NEW S \in SUBSET Orders, NEW o \in S
    PROVE  /\ IsFiniteSet(Newer(c, S, o))
           /\ Cardinality(Newer(c, S, o)) \in 1..Cardinality(S)
<1>1. o \in Orders /\ c[o] \in Nat
  BY DEF Times
<1>2. Newer(c, S, o) \in SUBSET S /\ o \in Newer(c, S, o)
  BY <1>1 DEF Newer
<1>3. IsFiniteSet(S) /\ Cardinality(S) \in Nat
  BY OrdersFinite
<1>4. /\ IsFiniteSet(Newer(c, S, o))
      /\ Cardinality(Newer(c, S, o)) <= Cardinality(S)
      /\ Cardinality(Newer(c, S, o)) \in Nat
  BY <1>2, <1>3, FS_Subset, FS_CardinalityType
<1>5. Cardinality(Newer(c, S, o)) # 0
  BY <1>2, <1>4, FS_EmptySet
<1> QED BY <1>3, <1>4, <1>5

LEMMA NewerShrinks ==
    ASSUME NEW c, Times(c), NEW S \in SUBSET Orders, NEW o \in S, NEW p \in S, o < p
    PROVE  Cardinality(Newer(c, S, p)) < Cardinality(Newer(c, S, o))
<1>1. /\ o \in Orders /\ p \in Orders /\ c[o] < c[p]
      /\ c[o] \in Nat /\ c[p] \in Nat
  BY TimesOrder
<1>2. \A q \in S : c[q] \in Nat
  BY DEF Times
<1>3. Newer(c, S, p) \in SUBSET Newer(c, S, o)
  BY <1>1, <1>2 DEF Newer
<1>4. o \in Newer(c, S, o) /\ o \notin Newer(c, S, p)
  BY <1>1 DEF Newer
<1>5. /\ Cardinality(Newer(c, S, p)) <= Cardinality(Newer(c, S, o))
      /\ Cardinality(Newer(c, S, p)) # Cardinality(Newer(c, S, o))
  BY <1>3, <1>4, NewerFinite, FS_Subset
<1>6. Cardinality(Newer(c, S, p)) \in Nat /\ Cardinality(Newer(c, S, o)) \in Nat
  BY NewerFinite
<1> QED BY <1>5, <1>6

\* Each place of the sorted orders is taken.
LEMMA NewerTakesAll ==
    ASSUME NEW c, Times(c), NEW S \in SUBSET Orders, NEW n \in 1..Cardinality(S)
    PROVE  \E o \in S : Cardinality(Newer(c, S, o)) = n
<1> DEFINE rank == [o \in S |-> Cardinality(Newer(c, S, o))]
<1>1. IsFiniteSet(S) /\ Cardinality(S) \in Nat
  BY OrdersFinite
<1>2. rank \in [S -> 1..Cardinality(S)]
  BY NewerFinite
<1>3. ASSUME NEW o \in S, NEW p \in S, rank[o] = rank[p] PROVE o = p
  <2>1. o \in Nat /\ p \in Nat /\ rank[o] \in Nat /\ rank[p] \in Nat
    BY <1>1, <1>2 DEF Orders
  <2>2. ~(o < p) /\ ~(p < o)
    BY <1>3, <2>1, NewerShrinks
  <2> QED BY <2>1, <2>2
<1>4. rank \in Injection(S, 1..Cardinality(S))
  BY <1>2, <1>3 DEF Injection, IsInjective
<1>5. IsFiniteSet(1..Cardinality(S)) /\ Cardinality(1..Cardinality(S)) = Cardinality(S)
  BY <1>1, CountTo
<1>6. rank \in Surjection(S, 1..Cardinality(S))
  BY <1>4, <1>5, FS_Injection
<1> QED BY <1>6 DEF Surjection

NewFirst(rows) == \A k, l \in DOMAIN rows : k < l => rows[l] < rows[k]

\* The rows of an answer are of the orders older than the key, newest first,
\* and those that are left out are older than all of them.
LEMMA RowsProperties ==
    ASSUME Times(created), done \in SUBSET Orders, NEW key
    PROVE  /\ Rows(key) \in Seq(Orders) /\ NewFirst(Rows(key))
           /\ ToSet(Rows(key)) \subseteq Older(key)
           /\ \A o \in Older(key) \ ToSet(Rows(key)) :
                 /\ Rows(key) # <<>> /\ Len(Rows(key)) < Cardinality(done)
                 /\ \A x \in ToSet(Rows(key)) : o < x
<1> DEFINE S      == Older(key)
           N      == IF Cardinality(S) < PageSize THEN Cardinality(S) ELSE PageSize
           nth(n) == CHOOSE o \in S : Cardinality(Newer(created, S, o)) = n
           rows   == [n \in 1..N |-> nth(n)]
<1>1. Rows(key) = rows
  BY DEF Rows, Newer
<1>2. S \in SUBSET Orders /\ S \in SUBSET done
  BY DEF Older
<1>n. \A o \in S : o \in Nat
  <2>1. \A o \in Orders : o \in Nat
    BY DEF Orders
  <2> QED BY <1>2, <2>1
<1>3. /\ IsFiniteSet(S) /\ Cardinality(S) \in Nat /\ N \in Nat
      /\ N <= Cardinality(S) /\ PageSize \in Nat /\ PageSize > 0
      /\ Cardinality(done) \in Nat /\ Cardinality(S) <= Cardinality(done)
  BY <1>2, OrdersFinite, FS_Subset, HistoryAssumption
<1>4. ASSUME NEW n \in 1..N
      PROVE  nth(n) \in S /\ Cardinality(Newer(created, S, nth(n))) = n
  <2>1. n \in 1..Cardinality(S)
    BY <1>3
  <2>2. \E o \in S : Cardinality(Newer(created, S, o)) = n
    BY <1>2, <2>1, NewerTakesAll
  <2> QED BY <2>2
<1> HIDE DEF S, nth
<1>5. rows \in Seq(Orders) /\ DOMAIN rows = 1..N /\ Len(rows) = N
  <2>1. rows \in [1..N -> Orders]
    BY <1>2, <1>4
  <2>2. rows \in Seq(Orders)
    BY <1>3, <2>1, SeqDef
  <2>3. DOMAIN rows = 1..Len(rows) /\ Len(rows) \in Nat
    BY <2>2, LenProperties
  <2> QED BY <1>3, <2>2, <2>3
<1>6. \A n \in 1..N : rows[n] = nth(n)
  OBVIOUS
<1> HIDE DEF rows, N
<1>7. NewFirst(rows)
  <2>1. SUFFICES ASSUME NEW k \in 1..N, NEW l \in 1..N, k < l
                 PROVE  nth(l) < nth(k)
    BY <1>5, <1>6 DEF NewFirst
  <2>2. nth(k) \in Nat /\ nth(l) \in Nat
    BY <1>n, <1>4
  <2>3. nth(k) # nth(l)
    BY <1>4, <2>1
  <2>4. ~(nth(k) < nth(l))
    BY <1>2, <1>3, <1>4, <2>1, NewerShrinks
  <2> QED BY <2>2, <2>3, <2>4
<1>8. ToSet(rows) \subseteq S
  BY <1>4, <1>5, <1>6 DEF ToSet
<1>9. ASSUME NEW o \in S, o \notin ToSet(rows)
      PROVE  /\ rows # <<>> /\ Len(rows) < Cardinality(done)
             /\ \A x \in ToSet(rows) : o < x
  <2> DEFINE m == Cardinality(Newer(created, S, o))
  <2>1. m \in 1..Cardinality(S)
    BY <1>2, NewerFinite
  <2>2. m \notin 1..N
    <3>1. SUFFICES ASSUME m \in 1..N PROVE FALSE
      OBVIOUS
    <3>2. nth(m) \in S /\ nth(m) \in ToSet(rows)
      BY <1>4, <1>5, <1>6, <3>1 DEF ToSet
    <3>3. /\ o \in Nat /\ nth(m) \in Nat
          /\ Cardinality(Newer(created, S, nth(m))) = m
      BY <1>n, <1>4, <3>1
    <3>4. ~(o < nth(m)) /\ ~(nth(m) < o)
      BY <1>2, <1>3, <2>1, <3>2, <3>3, NewerShrinks
    <3> QED BY <1>9, <3>2, <3>3, <3>4
  <2>3. m \in Nat /\ m > N /\ N = PageSize /\ N < Cardinality(S)
    BY <1>3, <2>1, <2>2 DEF N
  <2> HIDE DEF m
  <2>4. rows # <<>> /\ Len(rows) < Cardinality(done)
    BY <1>3, <1>5, <2>3
  <2>5. ASSUME NEW n \in 1..N PROVE o < nth(n)
    <3>1. nth(n) \in S /\ Cardinality(Newer(created, S, nth(n))) = n /\ n < m
      BY <1>3, <1>4, <2>3
    <3>2. o \in Nat /\ nth(n) \in Nat /\ n \in Nat
      BY <1>n, <3>1
    <3>3. ~(nth(n) < o) /\ nth(n) # o
      BY <1>2, <2>3, <3>1, <3>2, NewerShrinks DEF m
    <3> QED BY <3>2, <3>3
  <2> QED BY <1>5, <1>6, <2>4, <2>5 DEF ToSet
<1> QED BY <1>1, <1>5, <1>7, <1>8, <1>9 DEF S
-----------------------------------------------------------------------------
(* Pages that follow on each other.                                        *)

PageType == [rows : Seq(Orders), first : SUBSET Orders, next : Nat \cup {None}]

In(ps, o) == \E i \in DOMAIN ps : o \in ToSet(ps[i].rows)

\* The rows of a page are not older than its key.
Whole(c, p) ==
    /\ NewFirst(p.rows)
    /\ p.next # None => \A o \in ToSet(p.rows) : p.next <= c[o]

\* A later page begins where the key of the page p cuts.
Cuts(c, p, later) ==
    /\ p.next # None
    /\ \A o \in ToSet(later.rows) : c[o] < p.next
    /\ later.next # None => later.next <= p.next

\* What was finished with the first page is there, or still to come.
Covered(c, d, ps) ==
    /\ ps[1].first \subseteq d
    /\ \A o \in ps[1].first : In(ps, o) \/ (Last(ps).next # None /\ c[o] < Last(ps).next)

Chain(c, d, ps) ==
    /\ ps \in Seq(PageType)
    /\ \A i \in DOMAIN ps : Whole(c, ps[i])
    /\ \A i, j \in DOMAIN ps : i < j => Cuts(c, ps[i], ps[j])
    /\ ps # <<>> => Covered(c, d, ps)

\* Rows that were read to follow on the pages ps.  What they leave out is
\* older, and there are enough finished orders for the key of a next page.
FirstOf(ps, r) == IF ps = <<>> THEN r.first ELSE ps[1].first

Continues(c, d, ps, r) ==
    /\ r.orders \in Seq(Orders) /\ NewFirst(r.orders)
    /\ r.first \subseteq d
    /\ ps # <<>> => \A o \in ToSet(r.orders) : c[o] < Last(ps).next
    /\ \A o \in FirstOf(ps, r) :
          \/ In(ps, o) \/ o \in ToSet(r.orders)
          \/ /\ r.orders # <<>> /\ Len(r.orders) < Cardinality(d)
             /\ \A x \in ToSet(r.orders) : o < x

\* Both stay when more orders finish.
LEMMA MoreFinish ==
    ASSUME NEW c, NEW d, NEW e \in SUBSET Orders, d \subseteq e, NEW ps, NEW r
    PROVE  /\ Chain(c, d, ps) => Chain(c, e, ps)
           /\ Continues(c, d, ps, r) => Continues(c, e, ps, r)
<1>1. /\ Cardinality(d) \in Nat /\ Cardinality(e) \in Nat
      /\ Cardinality(d) <= Cardinality(e)
  BY OrdersFinite, FS_Subset
<1>2. ASSUME Chain(c, d, ps) PROVE Chain(c, e, ps)
  BY <1>2 DEF Chain, Covered
<1>3. ASSUME Continues(c, d, ps, r) PROVE Continues(c, e, ps, r)
  <2>1. Len(r.orders) \in Nat
    BY <1>3, LenProperties DEF Continues
  <2> QED BY <1>1, <1>3, <2>1 DEF Continues
<1> QED BY <1>2, <1>3

LEMMA NoPages == \A c, d : Chain(c, d, <<>>)
<1>1. <<>> \in Seq(PageType) /\ DOMAIN <<>> = {}
  BY EmptySeq
<1> QED BY <1>1 DEF Chain

\* The page that rows become.
LEMMA PageProperties ==
    ASSUME Times(created), done \in SUBSET Orders, NEW r,
           r.orders \in Seq(Orders), NewFirst(r.orders), r.first \subseteq done
    PROVE  /\ Page(r) \in PageType
           /\ Page(r).rows = r.orders /\ Page(r).first = r.first
           /\ Whole(created, Page(r))
           /\ r.orders # <<>> /\ Len(r.orders) < Cardinality(done) => Page(r).next # None
           /\ Page(r).next # None =>
                 /\ Last(r.orders) \in ToSet(r.orders) /\ Last(r.orders) \in Orders
                 /\ Page(r).next = KeyOf(created, Last(r.orders))
<1> DEFINE L == Len(r.orders)
<1>1. /\ L \in Nat /\ DOMAIN r.orders = 1..L
      /\ \A k \in 1..L : r.orders[k] \in Orders
      /\ r.orders # <<>> => L \in 1..L
      /\ Last(r.orders) = r.orders[L]
  <2>1. L \in Nat /\ DOMAIN r.orders = 1..L /\ \A k \in 1..L : r.orders[k] \in Orders
    BY LenProperties, ElementOfSeq
  <2>2. r.orders # <<>> => L # 0
    BY EmptySeq
  <2> QED BY <2>1, <2>2 DEF Last
<1>2. /\ Page(r).rows = r.orders /\ Page(r).first = r.first
      /\ Page(r).next = IF L < Cardinality(done) /\ r.orders # <<>>
                        THEN KeyOf(created, Last(r.orders)) ELSE None
      /\ Page(r) = [rows |-> Page(r).rows, first |-> Page(r).first, next |-> Page(r).next]
  BY DEF Page, PageKey, KeyOf
<1>3. ASSUME r.orders # <<>>
      PROVE  /\ Last(r.orders) \in ToSet(r.orders) /\ Last(r.orders) \in Orders
             /\ KeyOf(created, Last(r.orders)) \in Nat
             /\ KeyOf(created, Last(r.orders)) # None
  <2>1. Last(r.orders) \in ToSet(r.orders) /\ Last(r.orders) \in Orders
    BY <1>1, <1>3 DEF ToSet
  <2>2. KeyOf(created, Last(r.orders)) \in Nat
    BY <2>1 DEF Times
  <2> QED BY <2>1, <2>2, HistoryAssumption
<1>4. Page(r).next \in Nat \cup {None}
  BY <1>2, <1>3
<1>5. Page(r) \in PageType
  BY <1>2, <1>4 DEF PageType
<1>6. ASSUME Page(r).next # None, NEW o \in ToSet(r.orders)
      PROVE  Page(r).next <= created[o]
  <2>1. r.orders # <<>> /\ Page(r).next = KeyOf(created, Last(r.orders))
    BY <1>2, <1>6
  <2>2. PICK k \in 1..L : o = r.orders[k]
    BY <1>1 DEF ToSet
  <2>3. PICK x \in Orders : x = Last(r.orders) /\ x = r.orders[L]
    BY <1>1, <1>3, <2>1
  <2>4. o \in Orders /\ o \in Nat /\ x \in Nat
    BY <1>1, <2>2, <2>3 DEF Orders
  <2>5. x <= o
    <3>1. CASE k = L
      BY <2>2, <2>3, <2>4, <3>1
    <3>2. CASE k # L
      <4>1. k < L /\ k \in DOMAIN r.orders /\ L \in DOMAIN r.orders
        BY <1>1, <2>1, <3>2
      <4>2. x < o
        BY <2>2, <2>3, <4>1 DEF NewFirst
      <4> QED BY <2>4, <4>2
    <3> QED BY <3>1, <3>2
  <2>6. /\ KeyOf(created, x) \in Nat /\ created[x] \in Nat /\ created[o] \in Nat
        /\ KeyOf(created, x) <= created[x]
        /\ x < o => created[x] < created[o]
    BY <2>4, TimesOrder
  <2>7. x = o => created[x] = created[o]
    OBVIOUS
  <2>8. created[x] <= created[o]
    BY <2>4, <2>5, <2>6, <2>7
  <2> QED BY <2>1, <2>3, <2>6, <2>8
<1>7. Whole(created, Page(r))
  BY <1>2, <1>6 DEF Whole
<1> QED BY <1>2, <1>3, <1>5, <1>7

\* Rows that continue pages, which do not end the list, make a longer chain.
LEMMA ChainGrows ==
    ASSUME Times(created), done \in SUBSET Orders, NEW ps, NEW r,
           Chain(created, done, ps), Continues(created, done, ps, r),
           ps # <<>> => Last(ps).next # None
    PROVE  /\ Chain(created, done, Append(ps, Page(r)))
           /\ Append(ps, Page(r)) # <<>>
<1> DEFINE n   == Len(ps)
           p   == Page(r)
           got == Append(ps, p)
<1>1. /\ r.orders \in Seq(Orders) /\ NewFirst(r.orders) /\ r.first \subseteq done
      /\ ps \in Seq(PageType)
  BY DEF Chain, Continues
<1>2. /\ p \in PageType /\ p.rows = r.orders /\ p.first = r.first /\ Whole(created, p)
      /\ r.orders # <<>> /\ Len(r.orders) < Cardinality(done) => p.next # None
      /\ p.next # None =>
            /\ Last(r.orders) \in ToSet(r.orders) /\ Last(r.orders) \in Orders
            /\ p.next = KeyOf(created, Last(r.orders))
  BY <1>1, PageProperties
<1> HIDE DEF p
<1>3. /\ n \in Nat /\ DOMAIN ps = 1..n /\ \A i \in 1..n : ps[i] \in PageType
      /\ ps # <<>> => n \in 1..n
      /\ ps = <<>> => n = 0
      /\ Last(ps) = ps[n]
  <2>1. n \in Nat /\ DOMAIN ps = 1..n /\ \A i \in 1..n : ps[i] \in PageType
    BY <1>1, LenProperties, ElementOfSeq
  <2>2. ps = <<>> <=> n = 0
    BY <1>1, EmptySeq
  <2> QED BY <2>1, <2>2 DEF Last
<1>4. /\ got \in Seq(PageType) /\ got # <<>> /\ Len(got) = n + 1
      /\ \A i \in 1..n : got[i] = ps[i]
      /\ got[n + 1] = p
  BY <1>1, <1>2, AppendProperties
<1>5. DOMAIN got = 1..(n + 1) /\ Last(got) = p
  BY <1>3, <1>4, LenProperties DEF Last
<1> HIDE DEF n, got
<1>6. \A i \in DOMAIN got : Whole(created, got[i])
  <2>1. \A i \in 1..n : Whole(created, ps[i])
    BY <1>3 DEF Chain
  <2>2. \A i \in 1..(n + 1) : i \in 1..n \/ i = n + 1
    BY <1>3
  <2> QED BY <1>2, <1>4, <1>5, <2>1, <2>2
<1>7. ASSUME NEW i \in 1..n PROVE Cuts(created, ps[i], p)
  <2>1. ps # <<>> /\ n \in 1..n /\ Last(ps) = ps[n]
    BY <1>3, <1>7
  <2>2. ps[n].next # None /\ ps[n].next \in Nat
    BY <1>3, <2>1 DEF PageType
  <2>3. /\ ps[i].next # None /\ ps[i].next \in Nat
        /\ ps[n].next <= ps[i].next
    <3>1. CASE i = n
      BY <2>2, <3>1
    <3>2. CASE i # n
      <4>1. i < n /\ i \in DOMAIN ps /\ n \in DOMAIN ps
        BY <1>3, <2>1, <3>2
      <4>2. Cuts(created, ps[i], ps[n])
        BY <4>1 DEF Chain
      <4>3. ps[i].next # None /\ ps[n].next <= ps[i].next
        BY <2>2, <4>2 DEF Cuts
      <4>4. ps[i].next \in Nat
        BY <1>3, <4>3 DEF PageType
      <4> QED BY <4>3, <4>4
    <3> QED BY <3>1, <3>2
  <2>4. ASSUME NEW o \in ToSet(r.orders)
        PROVE  o \in Orders /\ created[o] \in Nat /\ created[o] < ps[n].next
               /\ created[o] < ps[i].next
    <3>1. o \in Orders
      BY <1>1, LenProperties, ElementOfSeq DEF ToSet
    <3>2. created[o] \in Nat
      BY <3>1 DEF Times
    <3>3. created[o] < ps[n].next
      BY <2>1 DEF Continues
    <3> QED BY <2>2, <2>3, <3>1, <3>2, <3>3
  <2>5. ASSUME p.next # None PROVE p.next <= ps[i].next
    <3>1. PICK x \in Orders : x \in ToSet(r.orders) /\ p.next = KeyOf(created, x)
      BY <1>2, <2>5
    <3>2. KeyOf(created, x) \in Nat /\ KeyOf(created, x) <= created[x]
      BY TimesOrder
    <3>3. created[x] \in Nat /\ created[x] < ps[i].next
      BY <2>4, <3>1
    <3> QED BY <2>3, <3>1, <3>2, <3>3
  <2> QED BY <1>2, <2>3, <2>4, <2>5 DEF Cuts
<1>8. \A i, j \in DOMAIN got : i < j => Cuts(created, got[i], got[j])
  <2>1. SUFFICES ASSUME NEW i \in 1..(n + 1), NEW j \in 1..(n + 1), i < j
                 PROVE  Cuts(created, got[i], got[j])
    BY <1>5
  <2>2. i \in 1..n /\ (j \in 1..n \/ j = n + 1)
    BY <1>3, <2>1
  <2>3. CASE j \in 1..n
    <3>1. Cuts(created, ps[i], ps[j])
      BY <1>3, <2>1, <2>2, <2>3 DEF Chain
    <3> QED BY <1>4, <2>2, <2>3, <3>1
  <2>4. CASE j = n + 1
    BY <1>4, <1>7, <2>2, <2>4
  <2> QED BY <2>2, <2>3, <2>4
<1>9. Covered(created, done, got)
  <2>1. got[1].first = FirstOf(ps, r)
    <3>1. CASE ps = <<>>
      BY <1>2, <1>3, <1>4, <3>1 DEF FirstOf
    <3>2. CASE ps # <<>>
      <4>1. 1 \in 1..n
        BY <1>3, <3>2
      <4> QED BY <1>4, <3>2, <4>1 DEF FirstOf
    <3> QED BY <3>1, <3>2
  <2>2. FirstOf(ps, r) \subseteq done
    BY <1>1 DEF FirstOf, Chain, Covered
  <2>3. ASSUME NEW o, In(ps, o) \/ o \in ToSet(r.orders) PROVE In(got, o)
    <3>1. CASE In(ps, o)
      <4>1. PICK i \in 1..n : o \in ToSet(ps[i].rows)
        BY <1>3, <3>1 DEF In
      <4>2. i \in DOMAIN got /\ got[i] = ps[i]
        BY <1>3, <1>4, <1>5
      <4> QED BY <4>1, <4>2 DEF In
    <3>2. CASE o \in ToSet(r.orders)
      <4>1. n + 1 \in DOMAIN got /\ got[n + 1].rows = r.orders
        BY <1>2, <1>3, <1>4, <1>5
      <4> QED BY <3>2, <4>1 DEF In
    <3> QED BY <2>3, <3>1, <3>2
  <2>4. ASSUME NEW o \in FirstOf(ps, r), ~In(got, o)
        PROVE  p.next # None /\ created[o] < p.next
    <3>1. /\ r.orders # <<>> /\ Len(r.orders) < Cardinality(done)
          /\ \A x \in ToSet(r.orders) : o < x
      BY <2>3, <2>4 DEF Continues
    <3>2. PICK x \in Orders : x \in ToSet(r.orders) /\ p.next = KeyOf(created, x)
      BY <1>2, <3>1
    <3>3. o \in Orders /\ o < x
      BY <2>2, <3>1, <3>2
    <3>4. created[o] < KeyOf(created, x)
      BY <3>3, TimesOrder
    <3> QED BY <1>2, <3>1, <3>2, <3>4
  <2> QED BY <1>5, <2>1, <2>2, <2>4 DEF Covered
<1> QED BY <1>4, <1>6, <1>8, <1>9 DEF Chain, got, p

\* The first page, alone.
LEMMA FirstPage ==
    ASSUME Times(created), done \in SUBSET Orders, NEW r, Continues(created, done, <<>>, r)
    PROVE  Chain(created, done, <<Page(r)>>)
<1>1. /\ r.orders \in Seq(Orders) /\ NewFirst(r.orders) /\ r.first \subseteq done
  BY DEF Continues
<1>2. Chain(created, done, Append(<<>>, Page(r)))
  BY NoPages, ChainGrows
<1>3. Append(<<>>, Page(r)) = <<Page(r)>>
  OBVIOUS
<1> QED BY <1>2, <1>3

\* What is read for the key of the last page continues the pages.
LEMMA ReadContinues ==
    ASSUME Times(created), done \in SUBSET Orders, NEW ps, Chain(created, done, ps)
    PROVE  Continues(created, done, ps,
                     Read(IF ps = <<>> THEN None ELSE Last(ps).next))
           \/ (ps # <<>> /\ Last(ps).next = None)
<1> SUFFICES ASSUME ps # <<>> => Last(ps).next # None
             PROVE  Continues(created, done, ps,
                              Read(IF ps = <<>> THEN None ELSE Last(ps).next))
  OBVIOUS
<1> DEFINE key == IF ps = <<>> THEN None ELSE Last(ps).next
           r   == Read(key)
<1>1. r.orders = Rows(key) /\ r.first = IF key = None THEN done ELSE {}
  BY DEF Read
<1>2. /\ Rows(key) \in Seq(Orders) /\ NewFirst(Rows(key))
      /\ ToSet(Rows(key)) \subseteq Older(key)
      /\ \A o \in Older(key) \ ToSet(Rows(key)) :
            /\ Rows(key) # <<>> /\ Len(Rows(key)) < Cardinality(done)
            /\ \A x \in ToSet(Rows(key)) : o < x
  BY RowsProperties
<1>3. ps # <<>> => \A o \in ToSet(r.orders) : created[o] < Last(ps).next
  BY <1>1, <1>2 DEF Older
<1>4. \A o \in FirstOf(ps, r) : In(ps, o) \/ o \in Older(key)
  <2>1. CASE ps = <<>>
    BY <1>1, <2>1 DEF FirstOf, Older
  <2>2. CASE ps # <<>>
    BY <2>2 DEF FirstOf, Chain, Covered, Older
  <2> QED BY <2>1, <2>2
<1> HIDE DEF r, key
<1>5. Continues(created, done, ps, r)
  BY <1>1, <1>2, <1>3, <1>4 DEF Continues
<1> QED BY <1>5 DEF r, key
-----------------------------------------------------------------------------
(* The inductive invariant.                                                *)

FetchInv ==
    /\ fetch = [goal |-> fetch.goal, pages |-> fetch.pages, rows |-> fetch.rows]
    /\ Chain(created, done, fetch.pages)
    /\ fetch.pages # <<>> => Last(fetch.pages).next # None
    /\ fetch.rows # None => Continues(created, done, fetch.pages, fetch.rows)

PropsInv ==
    props # None =>
       /\ props = [rows |-> props.rows, pages |-> props.pages]
       /\ Continues(created, done, <<>>, props.rows)
       /\ props.pages # None => Chain(created, done, props.pages)

HistoryInv ==
    /\ Times(created)
    /\ done \in SUBSET Orders
    /\ Chain(created, done, pages)
    /\ FetchInv
    /\ PropsInv

LEMMA InitHistory == Init => HistoryInv
<1> SUFFICES ASSUME Init PROVE HistoryInv
  OBVIOUS
<1>1. Times(created) /\ done \in SUBSET Orders
  BY KeysSeparate DEF Init
<1>2. Chain(created, done, pages) /\ Chain(created, done, <<>>)
  BY NoPages DEF Init
<1>3. FetchInv
  BY <1>2 DEF Init, NoFetch, FetchInv
<1>4. PropsInv
  BY DEF Init, PropsInv
<1> QED BY <1>1, <1>2, <1>3, <1>4 DEF HistoryInv

\* What a step leaves alone stays true.
LEMMA FetchStays ==
    ASSUME FetchInv, UNCHANGED <<created, done, fetch>>
    PROVE  FetchInv'
BY DEF FetchInv

LEMMA PropsStay ==
    ASSUME PropsInv, UNCHANGED <<created, done, props>>
    PROVE  PropsInv'
BY DEF PropsInv

LEMMA FinishKeeps ==
    ASSUME HistoryInv, NEW o \in Orders, Finish(o)
    PROVE  HistoryInv'
<1>1. /\ done \subseteq done' /\ done' \in SUBSET Orders
      /\ created' = created /\ pages' = pages /\ fetch' = fetch /\ props' = props
  BY DEF Finish, HistoryInv, query
<1>2. Times(created') /\ Chain(created', done', pages')
  BY <1>1, MoreFinish DEF HistoryInv
<1>3. FetchInv'
  BY <1>1, MoreFinish DEF HistoryInv, FetchInv
<1>4. PropsInv'
  BY <1>1, MoreFinish DEF HistoryInv, PropsInv
<1> QED BY <1>1, <1>2, <1>3, <1>4 DEF HistoryInv

LEMMA VisitKeeps ==
    ASSUME HistoryInv, Visit
    PROVE  HistoryInv'
<1>1. /\ props' = [rows |-> Read(None), pages |-> None]
      /\ UNCHANGED <<created, done, pages, failed, fetch>>
  BY DEF Visit, query
<1>2. Continues(created, done, <<>>, Read(None))
  BY NoPages, ReadContinues DEF HistoryInv
<1>3. PropsInv'
  BY <1>1, <1>2 DEF PropsInv
<1> QED BY <1>1, <1>3, FetchStays DEF HistoryInv

LEMMA ServeKeeps ==
    ASSUME HistoryInv, ServeProps
    PROVE  HistoryInv'
<1>1. PICK ps \in {<<Page(props.rows)>>, <<>>} : props' = [props EXCEPT !.pages = ps]
  BY DEF ServeProps
<1>2. props # None /\ UNCHANGED <<created, done, pages, failed, fetch>>
  BY DEF ServeProps, query
<1>3. Continues(created, done, <<>>, props.rows)
  BY <1>2 DEF HistoryInv, PropsInv
<1>4. Chain(created, done, ps)
  BY <1>3, FirstPage, NoPages DEF HistoryInv
<1>5. props' = [rows |-> props.rows, pages |-> ps]
  BY <1>1, <1>2 DEF HistoryInv, PropsInv
<1>6. PropsInv'
  BY <1>2, <1>3, <1>4, <1>5 DEF PropsInv
<1> QED BY <1>2, <1>6, FetchStays DEF HistoryInv

LEMMA ArriveKeeps ==
    ASSUME HistoryInv, Arrive
    PROVE  HistoryInv'
<1>1. /\ pages' = pages \/ (pages' = props.pages /\ props # None /\ props.pages # None)
      /\ props' = None /\ UNCHANGED <<created, done, fetch>>
  BY DEF Arrive
<1>2. Chain(created, done, pages')
  BY <1>1 DEF HistoryInv, PropsInv
<1>3. PropsInv'
  BY <1>1 DEF PropsInv
<1> QED BY <1>1, <1>2, <1>3, FetchStays DEF HistoryInv

\* A fetch begins with the pages there are, or with none.
LEMMA FetchBegins ==
    ASSUME HistoryInv, NEW n, NEW ps, fetch' = [goal |-> n, pages |-> ps, rows |-> None],
           Chain(created, done, ps), ps # <<>> => Last(ps).next # None,
           UNCHANGED <<created, done, pages, props>>
    PROVE  HistoryInv'
<1>1. FetchInv'
  BY DEF FetchInv
<1> QED BY <1>1, PropsStay DEF HistoryInv

LEMMA LoadMoreKeeps ==
    ASSUME HistoryInv, LoadMore
    PROVE  HistoryInv'
<1>1. PICK n, ps : n = Len(pages) + 1 /\ ps = pages
  OBVIOUS
<1>2. fetch' = [goal |-> n, pages |-> ps, rows |-> None]
  BY <1>1 DEF LoadMore, NoFetch
<1> QED BY <1>1, <1>2, FetchBegins DEF LoadMore, HasNext, HistoryInv

LEMMA RefetchKeeps ==
    ASSUME HistoryInv, Refetch
    PROVE  HistoryInv'
<1>1. PICK n : n = IF pages = <<>> THEN 1 ELSE Len(pages)
  OBVIOUS
<1>2. fetch' = [goal |-> n, pages |-> <<>>, rows |-> None]
  BY <1>1 DEF Refetch, NoFetch
<1> QED BY <1>2, FetchBegins, NoPages DEF Refetch

LEMMA FetchRowsKeeps ==
    ASSUME HistoryInv, FetchRows
    PROVE  HistoryInv'
<1>1. PICK ps : ps = fetch.pages
  OBVIOUS
<1>2. PICK r : r = Read(IF ps = <<>> THEN None ELSE Last(ps).next)
  OBVIOUS
<1>3. Chain(created, done, ps) /\ (ps # <<>> => Last(ps).next # None)
  BY <1>1 DEF HistoryInv, FetchInv
<1>4. Continues(created, done, ps, r)
  BY <1>2, <1>3, ReadContinues DEF HistoryInv
<1>5. /\ fetch' = [goal |-> fetch.goal, pages |-> ps, rows |-> r]
      /\ UNCHANGED <<created, done, pages, props>>
  BY <1>1, <1>2 DEF FetchRows, HistoryInv, FetchInv
<1>6. FetchInv'
  BY <1>3, <1>4, <1>5 DEF FetchInv
<1> QED BY <1>5, <1>6, PropsStay DEF HistoryInv

LEMMA FetchPageKeeps ==
    ASSUME HistoryInv, FetchPage
    PROVE  HistoryInv'
<1>1. PICK got : got = Append(fetch.pages, Page(fetch.rows))
  OBVIOUS
<1>2. Chain(created, done, got) /\ got # <<>>
  BY <1>1, ChainGrows DEF HistoryInv, FetchInv, FetchPage
<1>3. UNCHANGED <<created, done, props>>
  BY DEF FetchPage
<1>4. CASE fetch' = NoFetch /\ pages' = got
  <2>1. FetchInv'
    BY <1>3, <1>4, NoPages DEF FetchInv, NoFetch
  <2> QED BY <1>2, <1>3, <1>4, <2>1, PropsStay DEF HistoryInv
<1>5. CASE /\ fetch' = [fetch EXCEPT !.pages = got, !.rows = None]
           /\ Last(got).next # None /\ pages' = pages
  <2>1. PICK q : q = [fetch EXCEPT !.pages = got]
    OBVIOUS
  <2>2. q = [goal |-> fetch.goal, pages |-> got, rows |-> fetch.rows]
    BY <2>1 DEF HistoryInv, FetchInv
  <2>3. fetch' = [q EXCEPT !.rows = None]
    BY <1>5, <2>1, <2>2
  <2>4. fetch' = [goal |-> fetch.goal, pages |-> got, rows |-> None]
    BY <2>2, <2>3
  <2>5. PICK n : n = fetch.goal
    OBVIOUS
  <2> QED BY <1>2, <1>3, <1>5, <2>4, <2>5, FetchBegins
<1> QED BY <1>1, <1>4, <1>5 DEF FetchPage

LEMMA FetchFailsKeeps ==
    ASSUME HistoryInv, FetchFails
    PROVE  HistoryInv'
<1>1. fetch' = [goal |-> 0, pages |-> <<>>, rows |-> None]
  BY DEF FetchFails, NoFetch
<1> QED BY <1>1, FetchBegins, NoPages DEF FetchFails

LEMMA StepKeeps == HistoryInv /\ [Next]_vars => HistoryInv'
<1> SUFFICES ASSUME HistoryInv, [Next]_vars PROVE HistoryInv'
  OBVIOUS
<1>1. CASE UNCHANGED vars
  BY <1>1, FetchStays, PropsStay DEF vars, query, HistoryInv
<1>2. CASE \E o \in Orders : Finish(o)
  BY <1>2, FinishKeeps
<1>3. CASE Visit
  BY <1>3, VisitKeeps
<1>4. CASE ServeProps
  BY <1>4, ServeKeeps
<1>5. CASE Arrive
  BY <1>5, ArriveKeeps
<1>6. CASE Leave
  BY <1>6, FetchStays, PropsStay DEF Leave, query, HistoryInv
<1>7. CASE LoadMore
  BY <1>7, LoadMoreKeeps
<1>8. CASE Refetch
  BY <1>8, RefetchKeeps
<1>9. CASE FetchRows
  BY <1>9, FetchRowsKeeps
<1>10. CASE FetchPage
  BY <1>10, FetchPageKeeps
<1>11. CASE FetchFails
  BY <1>11, FetchFailsKeeps
<1> QED BY <1>1, <1>2, <1>3, <1>4, <1>5, <1>6, <1>7, <1>8, <1>9, <1>10, <1>11 DEF Next

\* However fetches, props and finished orders interleave, every list of pages
\* follows the keys from page to page.
THEOREM ListsAreChains == Spec => []HistoryInv
<1> QED BY InitHistory, StepKeeps, PTL DEF Spec
-----------------------------------------------------------------------------
(* What the client sees.                                                   *)

\* The list shows newer orders first and no order twice.
THEOREM ListIsSorted == Spec => []NewestFirst
<1>1. HistoryInv => NewestFirst
  <2> SUFFICES ASSUME HistoryInv, NEW i \in DOMAIN pages, NEW j \in DOMAIN pages,
                      NEW k \in DOMAIN pages[i].rows, NEW l \in DOMAIN pages[j].rows,
                      i < j \/ (i = j /\ k < l)
               PROVE  created[pages[i].rows[k]] > created[pages[j].rows[l]]
    BY DEF NewestFirst
  <2> DEFINE x == pages[i].rows[k]
             y == pages[j].rows[l]
  <2>1. /\ pages[i] \in PageType /\ pages[j] \in PageType
        /\ x \in ToSet(pages[i].rows) /\ y \in ToSet(pages[j].rows)
    <3>1. pages \in Seq(PageType)
      BY DEF HistoryInv, Chain
    <3> QED BY <3>1, LenProperties, ElementOfSeq DEF ToSet
  <2>2. x \in Orders /\ y \in Orders
    BY <2>1, LenProperties, ElementOfSeq DEF PageType
  <2>3. created[x] \in Nat /\ created[y] \in Nat
    BY <2>2 DEF HistoryInv, Times
  <2>4. CASE i < j
    <3>1. Cuts(created, pages[i], pages[j]) /\ Whole(created, pages[i])
      BY <2>4 DEF HistoryInv, Chain
    <3>2. pages[i].next # None /\ created[y] < pages[i].next /\ pages[i].next <= created[x]
      BY <2>1, <3>1 DEF Cuts, Whole
    <3>3. pages[i].next \in Nat
      BY <2>1, <3>2 DEF PageType
    <3> QED BY <2>3, <3>2, <3>3
  <2>5. CASE i = j /\ k < l
    <3>1. NewFirst(pages[i].rows)
      BY DEF HistoryInv, Chain, Whole
    <3>2. y < x
      BY <2>5, <3>1 DEF NewFirst
    <3>3. created[y] < created[x]
      BY <2>2, <3>2, TimesOrder DEF HistoryInv
    <3> QED BY <2>3, <3>3
  <2> QED BY <2>4, <2>5
<1> QED BY <1>1, ListsAreChains, PTL

\* The list has no holes.
THEOREM ListHasNoHoles == Spec => []NothingSkipped
<1>1. HistoryInv => NothingSkipped
  <2> SUFFICES ASSUME HistoryInv, pages # <<>>, NEW o \in pages[1].first, o \notin Listed
               PROVE  HasNext /\ \A x \in Listed : created[o] < created[x]
    BY DEF NothingSkipped
  <2> DEFINE n == Len(pages)
  <2>1. /\ n \in DOMAIN pages /\ Last(pages) = pages[n] /\ DOMAIN pages = 1..n /\ n \in Nat
        /\ \A i \in DOMAIN pages : pages[i] \in PageType
    <3>1. pages \in Seq(PageType)
      BY DEF HistoryInv, Chain
    <3>2. DOMAIN pages = 1..n /\ n \in Nat /\ \A i \in DOMAIN pages : pages[i] \in PageType
      BY <3>1, LenProperties, ElementOfSeq
    <3>3. n # 0
      BY <3>1, EmptySeq
    <3> QED BY <3>2, <3>3 DEF Last
  <2>2. ~In(pages, o)
    BY DEF In, Listed
  <2>3. /\ Last(pages).next # None /\ created[o] < Last(pages).next
        /\ o \in Orders
    BY <2>2 DEF HistoryInv, Chain, Covered
  <2>4. ASSUME NEW x \in Listed PROVE created[o] < created[x]
    <3>1. PICK i \in DOMAIN pages : x \in ToSet(pages[i].rows)
      BY <2>4 DEF Listed
    <3>2. x \in Orders
      BY <2>1, <3>1, LenProperties, ElementOfSeq DEF PageType, ToSet
    <3>3. pages[n].next \in Nat
      BY <2>1, <2>3 DEF PageType
    <3>4. pages[i].next # None /\ pages[i].next \in Nat /\ pages[n].next <= pages[i].next
      <4>1. CASE i = n
        BY <2>1, <2>3, <3>3, <4>1
      <4>2. CASE i # n
        <5>1. i < n
          BY <2>1, <4>2
        <5>2. Cuts(created, pages[i], pages[n])
          BY <2>1, <5>1 DEF HistoryInv, Chain
        <5>3. pages[i].next # None /\ pages[n].next <= pages[i].next
          BY <2>1, <2>3, <5>2 DEF Cuts
        <5>4. pages[i].next \in Nat
          BY <2>1, <5>3 DEF PageType
        <5> QED BY <5>3, <5>4
      <4> QED BY <4>1, <4>2
    <3>5. pages[i].next <= created[x]
      BY <3>1, <3>4 DEF HistoryInv, Chain, Whole
    <3>6. created[o] \in Nat /\ created[x] \in Nat
      BY <2>3, <3>2 DEF HistoryInv, Times
    <3>7. created[o] < pages[n].next
      BY <2>1, <2>3
    <3> QED BY <3>3, <3>4, <3>5, <3>6, <3>7
  <2> QED BY <2>3, <2>4 DEF HasNext
<1> QED BY <1>1, ListsAreChains, PTL
=============================================================================
