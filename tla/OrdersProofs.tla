---------------------------- MODULE OrdersProofs ----------------------------
(***************************************************************************)
(* Orders implements OrderBook for any number of orders, of requests in    *)
(* flight and of restarts, and so inherits what OrderBookProofs shows.     *)
(***************************************************************************)
EXTENDS Orders, TLAPS

BP == INSTANCE OrderBookProofs

\* A request between its steps: it has an order, an advance past its SELECT
\* holds the row and knows its status, a cancellation is of a placed order.
RequestInv ==
    \A w \in Workers :
        /\ pc[w] # "idle" => target[w] \in Orders
        /\ pc[w] = "write" => /\ rowLock[target[w]] = w
                              /\ seen[w] = status[target[w]]
                              /\ seen[w] \in Advanceable
        /\ pc[w] \in {"update", "record"} => target[w] \in Placed

\* The flusher between its steps: it selects placed orders, and holds the rows
\* of all of them from the moment it purges the bucket.
FlusherInv ==
    /\ victims \subseteq Placed
    /\ flush = "purged" => \A o \in victims : rowLock[o] = Flusher
    /\ flush \notin {"locking", "purged"} => victims = {}

\* Who holds a row is in the middle of a transaction on it.
HolderInv ==
    \A o \in Orders :
        /\ rowLock[o] \in Workers =>
              pc[rowLock[o]] = "write" /\ target[rowLock[o]] = o
        /\ rowLock[o] = Flusher => flush \in {"locking", "purged"} /\ o \in victims

\* Files go only with a round that began after their transaction.
FilesInv == Placed \ cut \subseteq stored

IInv == TypeOK /\ RequestInv /\ FlusherInv /\ HolderInv /\ FilesInv

LEMMA InitIInv == Init => IInv
BY OrdersAssumption
   DEF Init, IInv, TypeOK, RequestInv, FlusherInv, HolderInv, FilesInv, Placed,
       Statuses, Book!Init, Book!BookTypeOK, Book!Placed, Book!Statuses
-----------------------------------------------------------------------------
USE DEF Placed, Book!Placed, Locked, tables, request, flusher, vars, Book!bookVars,
        Statuses, Book!Statuses, Advanceable, Book!Advanceable,
        NextStatus, Book!NextStatus

LEMMA TypeStep == IInv /\ [Next]_vars => TypeOK'
<1> SUFFICES ASSUME IInv, [Next]_vars PROVE TypeOK'
  OBVIOUS
<1> USE OrdersAssumption DEF IInv, TypeOK, Book!BookTypeOK
<1>1. ASSUME NEW o \in Orders, Place(o) PROVE TypeOK'
  <2>1. <<"reviewing">> \in Seq(Statuses) /\ "reviewing" \in Statuses
    OBVIOUS
  <2>2. Book!BookTypeOK'
    BY <1>1, <2>1 DEF Place, Book!PlaceOrder
  <2>3. QED
    BY <1>1, <2>2 DEF Place
<1>2. ASSUME NEW w \in Workers, BeginAdvance(w) \/ BeginCancel(w) \/ LockRow(w)
      PROVE  TypeOK'
  <2>1. CASE BeginAdvance(w)
    BY <2>1 DEF BeginAdvance
  <2>2. CASE BeginCancel(w)
    BY <2>2 DEF BeginCancel
  <2>3. CASE LockRow(w)
    BY <2>3 DEF LockRow, RequestInv
  <2>4. QED
    BY <1>2, <2>1, <2>2, <2>3
<1>3. ASSUME NEW w \in Workers, Refuse(w) \/ Abort(w) PROVE TypeOK'
  <2>1. Finish(w) /\ UNCHANGED <<tables, today, stored, flusher, restarts>>
    BY <1>3 DEF Refuse, Abort
  <2>2. QED
    BY <2>1 DEF Finish
<1>4. ASSUME NEW w \in Workers, CommitAdvance(w) PROVE TypeOK'
  <2> DEFINE next == NextStatus[seen[w]]
  <2>1. target[w] \in Orders /\ next \in Statuses
    BY <1>4 DEF CommitAdvance, RequestInv
  <2>2. Append(history[target[w]], next) \in Seq(Statuses)
    BY <2>1
  <2>3. Book!BookTypeOK'
    BY <1>4, <2>1, <2>2 DEF CommitAdvance
  <2>4. UNCHANGED <<today, stored, flusher, restarts>> /\ Finish(w)
    BY <1>4 DEF CommitAdvance
  <2>5. QED
    BY <2>3, <2>4 DEF Finish
<1>5. ASSUME NEW w \in Workers, UpdateCancelled(w) \/ RecordCancel(w) PROVE TypeOK'
  <2>1. CASE UpdateCancelled(w)
    BY <2>1 DEF UpdateCancelled, RequestInv
  <2>2. CASE RecordCancel(w)
    <3>1. target[w] \in Orders /\ "cancelled" \in Statuses
      BY <2>2 DEF RecordCancel, RequestInv
    <3>2. Append(history[target[w]], "cancelled") \in Seq(Statuses)
      BY <3>1
    <3>3. Book!BookTypeOK'
      BY <2>2, <3>1, <3>2 DEF RecordCancel
    <3>4. QED
      BY <2>2, <3>3 DEF RecordCancel, Finish
  <2>3. QED
    BY <1>5, <2>1, <2>2
<1>6. CASE FlushLoop \/ FlushSelect \/ FlushPurge \/ FlushFail \/ Midnight
  BY <1>6 DEF FlushLoop, FlushSelect, FlushPurge, FlushFail, FlushUnlocked, Midnight
<1>7. ASSUME NEW o \in Orders, FlushLockRow(o) PROVE TypeOK'
  BY <1>7 DEF FlushLockRow
<1>8. CASE FlushCommit
  BY <1>8 DEF FlushCommit, FlushUnlocked, Book!Reject
<1>9. CASE Restart
  BY <1>9 DEF Restart
<1>10. CASE UNCHANGED vars
  BY <1>10
<1>11. QED
  BY <1>1, <1>2, <1>3, <1>4, <1>5, <1>6, <1>7, <1>8, <1>9, <1>10
     DEF Next, Request, Answer, FlushStep

\* The statuses of rows held by others do not change under a request.
LEMMA RequestStep == IInv /\ [Next]_vars => RequestInv'
<1> SUFFICES ASSUME IInv, [Next]_vars PROVE RequestInv'
  OBVIOUS
<1> USE OrdersAssumption DEF IInv, TypeOK, Book!BookTypeOK, RequestInv
<1>1. ASSUME NEW o \in Orders, Place(o) PROVE RequestInv'
  BY <1>1 DEF Place, Book!PlaceOrder
<1>2. ASSUME NEW w \in Workers, BeginAdvance(w) \/ BeginCancel(w) \/ LockRow(w)
      PROVE  RequestInv'
  BY <1>2 DEF BeginAdvance, BeginCancel, LockRow
<1>3. ASSUME NEW w \in Workers, Refuse(w) \/ Abort(w) PROVE RequestInv'
  <2>1. Finish(w) /\ UNCHANGED <<tables, today, stored, flusher, restarts>>
    BY <1>3 DEF Refuse, Abort
  <2>2. QED
    BY <2>1 DEF Finish
<1>4. ASSUME NEW w \in Workers, CommitAdvance(w) PROVE RequestInv'
  <2>1. target[w] \in Orders /\ rowLock[target[w]] = w
    BY <1>4 DEF CommitAdvance
  <2>2. NextStatus[seen[w]] # "unplaced"
    BY <1>4 DEF CommitAdvance
  <2>3. ASSUME NEW v \in Workers, pc'[v] # "idle"
        PROVE  /\ v # w
               /\ pc'[v] = pc[v] /\ target'[v] = target[v] /\ seen'[v] = seen[v]
               /\ pc[v] = "write" =>
                     /\ target[v] # target[w]
                     /\ status'[target[v]] = status[target[v]]
                     /\ rowLock'[target[v]] = v
               /\ target[v] \in Placed => target[v] \in Placed'
    BY <1>4, <2>1, <2>2, <2>3 DEF CommitAdvance, Finish
  <2>4. ASSUME NEW v \in Workers
        PROVE  /\ pc'[v] # "idle" => target'[v] \in Orders
               /\ pc'[v] = "write" => /\ rowLock'[target'[v]] = v
                                      /\ seen'[v] = status'[target'[v]]
                                      /\ seen'[v] \in Advanceable
               /\ pc'[v] \in {"update", "record"} => target'[v] \in Placed'
    <3>1. CASE pc'[v] = "idle"
      BY <3>1
    <3>2. CASE pc'[v] # "idle"
      BY <3>2, <2>3
    <3>3. QED
      BY <3>1, <3>2
  <2>5. QED
    BY <2>4
<1>5. ASSUME NEW w \in Workers, UpdateCancelled(w) \/ RecordCancel(w) PROVE RequestInv'
  <2>1. CASE UpdateCancelled(w)
    <3>1. target[w] \in Orders /\ rowLock[target[w]] = None
      BY <2>1 DEF UpdateCancelled
    <3>2. \A v \in Workers : pc[v] = "write" => target[v] # target[w]
      BY <3>1
    <3>3. \A v \in Workers : pc[v] \in {"write", "record"} =>
             /\ pc'[v] = pc[v]
             /\ target[v] \in Orders
      BY <2>1 DEF UpdateCancelled
    <3>4. QED
      BY <2>1, <3>1, <3>2, <3>3 DEF UpdateCancelled
  <2>2. CASE RecordCancel(w)
    <3>1. Finish(w) /\ UNCHANGED <<status, flusher>>
      BY <2>2 DEF RecordCancel
    <3>2. QED
      BY <3>1 DEF Finish
  <2>3. QED
    BY <1>5, <2>1, <2>2
<1>6. CASE FlushLoop \/ FlushSelect \/ FlushPurge \/ FlushFail \/ Midnight
  BY <1>6 DEF FlushLoop, FlushSelect, FlushPurge, FlushFail, FlushUnlocked, Midnight
<1>7. ASSUME NEW o \in Orders, FlushLockRow(o) PROVE RequestInv'
  BY <1>7 DEF FlushLockRow
<1>8. CASE FlushCommit
  BY <1>8 DEF FlushCommit, FlushUnlocked, FlusherInv, Book!Reject
<1>9. CASE Restart
  BY <1>9 DEF Restart
<1>10. CASE UNCHANGED vars
  BY <1>10
<1>11. QED
  BY <1>1, <1>2, <1>3, <1>4, <1>5, <1>6, <1>7, <1>8, <1>9, <1>10
     DEF Next, Request, Answer, FlushStep

LEMMA FlusherStep == IInv /\ [Next]_vars => FlusherInv'
<1> SUFFICES ASSUME IInv, [Next]_vars PROVE FlusherInv'
  OBVIOUS
<1> USE OrdersAssumption DEF IInv, TypeOK, Book!BookTypeOK, FlusherInv
<1>1. ASSUME NEW o \in Orders, Place(o) PROVE FlusherInv'
  BY <1>1 DEF Place, Book!PlaceOrder
<1>2. ASSUME NEW w \in Workers, BeginAdvance(w) \/ BeginCancel(w) \/ LockRow(w)
      PROVE  FlusherInv'
  BY <1>2 DEF BeginAdvance, BeginCancel, LockRow
<1>3. ASSUME NEW w \in Workers, Refuse(w) \/ Abort(w) PROVE FlusherInv'
  BY <1>3 DEF Refuse, Abort, Finish
<1>4. ASSUME NEW w \in Workers, CommitAdvance(w) PROVE FlusherInv'
  BY <1>4 DEF CommitAdvance, Finish, RequestInv
<1>5. ASSUME NEW w \in Workers, UpdateCancelled(w) \/ RecordCancel(w) PROVE FlusherInv'
  BY <1>5 DEF UpdateCancelled, RecordCancel, Finish
<1>6. CASE FlushLoop \/ FlushSelect \/ FlushPurge \/ FlushFail \/ Midnight
  BY <1>6 DEF FlushLoop, FlushSelect, FlushPurge, FlushFail, FlushUnlocked, Midnight
<1>7. ASSUME NEW o \in Orders, FlushLockRow(o) PROVE FlusherInv'
  BY <1>7 DEF FlushLockRow
<1>8. CASE FlushCommit \/ Restart
  BY <1>8 DEF FlushCommit, Restart
<1>9. CASE UNCHANGED vars
  BY <1>9
<1>10. QED
  BY <1>1, <1>2, <1>3, <1>4, <1>5, <1>6, <1>7, <1>8, <1>9
     DEF Next, Request, Answer, FlushStep

LEMMA HolderStep == IInv /\ [Next]_vars => HolderInv'
<1> SUFFICES ASSUME IInv, [Next]_vars PROVE HolderInv'
  OBVIOUS
<1> USE OrdersAssumption DEF IInv, TypeOK, HolderInv
<1>1. ASSUME NEW o \in Orders, Place(o) PROVE HolderInv'
  BY <1>1 DEF Place
<1>2. ASSUME NEW w \in Workers, BeginAdvance(w) \/ BeginCancel(w) \/ LockRow(w)
      PROVE  HolderInv'
  BY <1>2 DEF BeginAdvance, BeginCancel, LockRow, RequestInv
<1>3. ASSUME NEW w \in Workers, Finish(w),
             UNCHANGED <<flush, victims>>
      PROVE  HolderInv'
  BY <1>3 DEF Finish
<1>4. ASSUME NEW w \in Workers, UpdateCancelled(w) PROVE HolderInv'
  BY <1>4 DEF UpdateCancelled
<1>5. CASE FlushLoop \/ FlushSelect \/ FlushPurge \/ FlushCommit \/ FlushFail \/ Midnight
  BY <1>5 DEF FlushLoop, FlushSelect, FlushPurge, FlushCommit, FlushFail,
              FlushUnlocked, Midnight
<1>6. ASSUME NEW o \in Orders, FlushLockRow(o) PROVE HolderInv'
  BY <1>6 DEF FlushLockRow
<1>7. CASE Restart
  BY <1>7 DEF Restart
<1>8. CASE UNCHANGED vars
  BY <1>8
<1>9. ASSUME NEW w \in Workers, Refuse(w) \/ Abort(w) \/ CommitAdvance(w) \/ RecordCancel(w)
      PROVE  HolderInv'
  BY <1>3, <1>9 DEF Refuse, Abort, CommitAdvance, RecordCancel
<1>10. QED
  BY <1>1, <1>2, <1>4, <1>5, <1>6, <1>7, <1>8, <1>9
     DEF Next, Request, Answer, FlushStep

LEMMA FilesStep == IInv /\ [Next]_vars => FilesInv'
<1> SUFFICES ASSUME IInv, [Next]_vars PROVE FilesInv'
  OBVIOUS
<1> USE OrdersAssumption DEF IInv, TypeOK, Book!BookTypeOK, FilesInv
<1>1. ASSUME NEW o \in Orders, Place(o) PROVE FilesInv'
  BY <1>1 DEF Place, Book!PlaceOrder
<1>2. ASSUME NEW w \in Workers, CommitAdvance(w) \/ UpdateCancelled(w)
      PROVE  FilesInv'
  BY <1>2 DEF CommitAdvance, UpdateCancelled, RequestInv
<1>3. ASSUME NEW w \in Workers,
             \/ BeginAdvance(w) \/ BeginCancel(w) \/ LockRow(w)
             \/ Refuse(w) \/ Abort(w) \/ RecordCancel(w)
      PROVE  FilesInv'
  BY <1>3 DEF BeginAdvance, BeginCancel, LockRow, Refuse, Abort, RecordCancel
<1>4. CASE FlushLoop \/ FlushSelect \/ FlushPurge \/ FlushFail \/ Midnight \/ Restart
  BY <1>4 DEF FlushLoop, FlushSelect, FlushPurge, FlushFail, Midnight, Restart
<1>5. ASSUME NEW o \in Orders, FlushLockRow(o) PROVE FilesInv'
  BY <1>5 DEF FlushLockRow
<1>6. CASE FlushCommit
  BY <1>6 DEF FlushCommit, Book!Reject, FlusherInv
<1>7. CASE UNCHANGED vars
  BY <1>7
<1>8. QED
  BY <1>1, <1>2, <1>3, <1>4, <1>5, <1>6, <1>7
     DEF Next, Request, Answer, FlushStep

LEMMA IInvStep == IInv /\ [Next]_vars => IInv'
BY TypeStep, RequestStep, FlusherStep, HolderStep, FilesStep DEF IInv

LEMMA Inductive == Spec => []IInv
BY InitIInv, IInvStep, PTL DEF Spec
-----------------------------------------------------------------------------
\* The variables keep their types for any number of workers and orders.
THEOREM OrdersTyped == Spec => []TypeOK
BY Inductive, PTL DEF IInv

\* What an advance read under the lock is current until it commits.
THEOREM AdvanceReadsCurrent == Spec => []SeenIsCurrent
<1>1. IInv => SeenIsCurrent
  BY DEF IInv, RequestInv, SeenIsCurrent
<1>2. QED
  BY <1>1, Inductive, PTL

\* No lock outlives its transaction.
THEOREM NoLeakedLock == Spec => []LocksHaveOwners
<1>1. IInv => LocksHaveOwners
  BY DEF IInv, HolderInv, LocksHaveOwners
<1>2. QED
  BY <1>1, Inductive, PTL

\* The flusher never removes a file that is younger than its round.
THEOREM FilesSurvive == Spec => []FilesOutliveRound
<1>1. IInv => FilesOutliveRound
  BY DEF IInv, FilesInv, FilesOutliveRound
<1>2. QED
  BY <1>1, Inductive, PTL
-----------------------------------------------------------------------------
\* Whom x waits for: a request for who holds its row, an INSERT only for a
\* FOR UPDATE, the flusher's UPDATE for all who hold rows it is still to lock.
WaitsFor(x) ==
    IF x = Flusher
    THEN IF flush = "locking" THEN {rowLock[o] : o \in victims} \ {None, Flusher} ELSE {}
    ELSE IF pc[x] \in {"lock", "update"} THEN {rowLock[target[x]]} \ {None}
    ELSE IF pc[x] = "record" THEN {rowLock[target[x]]} \ {None, Flusher}
    ELSE {}

\* Waiting goes in no circle: whoever waits waits for somebody who does not, or for
\* the flusher, and then those whom the flusher waits for do not.
WaitsAreShort ==
    \A x \in Workers \cup {Flusher} : \A y \in WaitsFor(x) : \A z \in WaitsFor(y) :
        y = Flusher /\ z # x /\ WaitsFor(z) = {}

\* However merchants, owners and the flusher take rows in whatever order, there is no
\* deadlock for PostgreSQL to break (post_orders_id_status, delete_orders_id,
\* flush_unfinished_orders).
THEOREM NoCircleOfWaits == Spec => []WaitsAreShort
<1>1. ASSUME IInv PROVE WaitsAreShort
  <2>1. None # Flusher /\ None \notin Workers /\ Flusher \notin Workers
    BY OrdersAssumption DEF OrdersAssumption
  <2>2. ASSUME NEW o \in Orders, rowLock[o] \in Workers
        PROVE  WaitsFor(rowLock[o]) = {}
    BY <1>1, <2>1, <2>2 DEF IInv, HolderInv, WaitsFor
  <2>3. ASSUME NEW x \in Workers \cup {Flusher}, NEW y \in WaitsFor(x)
        PROVE  y \in Workers \cup {Flusher} /\ (y = Flusher => x # Flusher)
               /\ \E o \in Orders : y = rowLock[o]
    BY <1>1, <2>1, <2>3 DEF IInv, TypeOK, RequestInv, WaitsFor
  <2>4. ASSUME NEW x \in Workers \cup {Flusher}, NEW y \in WaitsFor(x), NEW z \in WaitsFor(y)
        PROVE  y = Flusher /\ z # x /\ WaitsFor(z) = {}
    <3>1. y = Flusher /\ x # Flusher
      BY <2>2, <2>3, <2>4
    <3>2. z \in Workers /\ WaitsFor(z) = {}
      BY <2>1, <2>2, <2>3, <2>4, <3>1
    <3> QED BY <2>4, <3>1, <3>2
  <2> QED BY <2>4 DEF WaitsAreShort
<1> QED BY <1>1, Inductive, PTL
-----------------------------------------------------------------------------
\* Each step is one operation of the book or leaves the book alone.
LEMMA BookStep == IInv /\ [Next]_vars => [Book!Next]_(Book!bookVars)
<1> SUFFICES ASSUME IInv, Next PROVE Book!Next \/ UNCHANGED Book!bookVars
  BY DEF vars
<1> USE DEF IInv, Book!Next
<1>1. ASSUME NEW o \in Orders, Place(o) PROVE Book!Next
  BY <1>1 DEF Place
<1>2. ASSUME NEW w \in Workers, CommitAdvance(w) PROVE Book!Next
  <2> DEFINE o == target[w]
  <2>1. /\ o \in Orders /\ offer[w] \in Prices \cup {NoPrice}
        /\ seen[w] = status[o] /\ seen[w] \in Advanceable
    BY <1>2 DEF CommitAdvance, RequestInv, TypeOK
  <2>2. NextStatus[seen[w]] = "processing" <=> status[o] = "reviewing"
    BY <2>1
  <2>3. Book!Advance(o, offer[w])
    BY <1>2, <2>1, <2>2 DEF CommitAdvance, Book!Advance
  <2>4. QED
    BY <2>1, <2>3
<1>3. ASSUME NEW w \in Workers, UpdateCancelled(w) PROVE Book!Next
  <2>1. target[w] \in Orders /\ Book!Cancel(target[w])
    BY <1>3 DEF UpdateCancelled, RequestInv, Book!Cancel
  <2>2. QED
    BY <2>1
<1>4. ASSUME NEW w \in Workers, RecordCancel(w) PROVE Book!Next
  <2>1. target[w] \in Orders /\ Book!LogCancel(target[w])
    BY <1>4 DEF RecordCancel, RequestInv, Book!LogCancel
  <2>2. QED
    BY <2>1
<1>5. ASSUME NEW w \in Workers,
             BeginAdvance(w) \/ BeginCancel(w) \/ LockRow(w) \/ Refuse(w) \/ Abort(w)
      PROVE  UNCHANGED Book!bookVars
  BY <1>5 DEF BeginAdvance, BeginCancel, LockRow, Refuse, Abort
<1>6. CASE FlushCommit
  BY <1>6 DEF FlushCommit, FlusherInv
<1>7. CASE FlushLoop \/ FlushSelect \/ FlushPurge \/ FlushFail \/ Midnight \/ Restart
  BY <1>7 DEF FlushLoop, FlushSelect, FlushPurge, FlushFail, Midnight, Restart
<1>8. ASSUME NEW o \in Orders, FlushLockRow(o) PROVE UNCHANGED Book!bookVars
  BY <1>8 DEF FlushLockRow
<1>9. QED
  BY <1>1, <1>2, <1>3, <1>4, <1>5, <1>6, <1>7, <1>8 DEF Next, Request, Answer, FlushStep

\* The interleaved transactions behave like atomic operations on the book.
THEOREM OrdersImplementBook == Spec => ImplementsBook
<1>1. Init => Book!Init
  BY DEF Init
<1>2. QED
  BY <1>1, Inductive, BookStep, PTL DEF Spec, ImplementsBook, Book!Spec

\* The book of the proofs is the book that Orders implements.
LEMMA SameBook == Book!Spec => BP!Spec
<1>1. Book!Init => BP!Init
  BY DEF Book!Init, BP!Init
<1>2. [Book!Next]_(Book!bookVars) => [BP!Next]_(BP!bookVars)
  BY DEF Book!Next, BP!Next, Book!bookVars, BP!bookVars,
         Book!PlaceOrder, BP!PlaceOrder, Book!Cancel, BP!Cancel,
         Book!LogCancel, BP!LogCancel, Book!Advance, BP!Advance,
         Book!Reject, BP!Reject, Book!Placed, BP!Placed,
         BP!Advanceable, BP!NextStatus
<1>3. QED
  BY <1>1, <1>2, PTL DEF Book!Spec, BP!Spec

\* Under any interleaving of merchants, clients and flusher, no order is
\* accepted, made ready or completed twice or backwards.
THEOREM OrdersLogAdvances == Spec => []LogAdvances
<1>1. BP!LogAdvances => LogAdvances
  BY DEF LogAdvances, BP!LogAdvances, Book!LogAdvances, BP!Rank, Book!Rank
<1>2. QED
  BY <1>1, OrdersImplementBook, SameBook, BP!BookLogAdvances, PTL DEF ImplementsBook

\* Every status but an unlogged cancellation is in the log.
THEOREM OrdersStatusIsLogged == Spec => []StatusIsLogged
<1>1. BP!StatusIsLogged => StatusIsLogged
  BY DEF StatusIsLogged, BP!StatusIsLogged, Book!StatusIsLogged, BP!Placed
<1>2. QED
  BY <1>1, OrdersImplementBook, SameBook, BP!BookStatusIsLogged, PTL DEF ImplementsBook

\* A price set by one of several concurrent acceptances stays.
THEOREM OrdersPriceIsFinal == Spec => PriceIsFinal
<1>1. BP!PriceIsFinal => PriceIsFinal
  BY DEF PriceIsFinal, BP!PriceIsFinal, Book!PriceIsFinal, BP!bookVars
<1>2. QED
  BY <1>1, OrdersImplementBook, SameBook, BP!BookPriceIsFinal, PTL DEF ImplementsBook

\* No order comes back from completed, rejected or cancelled.
THEOREM OrdersNoRevival == Spec => NoRevival
<1>1. BP!NoRevival => NoRevival
  BY DEF NoRevival, BP!NoRevival, Book!NoRevival, BP!bookVars, BP!Terminal,
         Book!Terminal, BP!Statuses, BP!Advanceable, BP!NextStatus
<1>2. QED
  BY <1>1, OrdersImplementBook, SameBook, BP!BookNoRevival, PTL DEF ImplementsBook
=============================================================================
