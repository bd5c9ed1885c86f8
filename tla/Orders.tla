------------------------------- MODULE Orders -------------------------------
(***************************************************************************)
(* Placed orders: the handlers of app/src/routes/orders.rs that change a   *)
(* row of the orders table, and the "Daily Orders Flusher" of daemons.rs,  *)
(* as they interleave in PostgreSQL at READ COMMITTED.  One action is the  *)
(* work between two points at which another transaction can run: waiting   *)
(* for a row lock, or the end of a transaction.  Statements of a           *)
(* transaction that nobody else can see are folded into its commit.        *)
(***************************************************************************)
EXTENDS OrderStatus, FiniteSets

CONSTANTS Orders,      \* identities of the orders that may ever be placed
          Prices,      \* the prices a merchant may set
          NoPrice,     \* orders.price IS NULL
          Workers,     \* tasks that each run one request at a time
          Flusher,     \* the flusher, as the holder of a row lock
          None,        \* no holder, no order
          MaxHistory,  \* bound: no cancellation of an order with a longer log
          MaxRestarts  \* bound on restarts of the server

ASSUME OrdersAssumption ==
    /\ NoPrice \notin Prices
    /\ None \notin Orders
    /\ None \notin Workers
    /\ Flusher \notin Workers \cup {None}
    /\ MaxHistory \in Nat
    /\ MaxRestarts \in Nat

VARIABLES
    status, history, price,   \* the tables, see OrderBook
    rowLock,                  \* who holds the row of an order
    pc, target, seen, offer,  \* a request: its progress, its order, the status
                              \* it read under the lock, the price it carries
    today,                    \* orders whose drafts were created since midnight
    stored,                   \* orders whose files are in the bucket
    flush, cut, victims,      \* the flusher: its progress, the orders whose
                              \* files predate its round, the orders it selected
    lastFlush,                \* settings.latest_orders_flushed_at
    restarts

tables  == <<status, history, price>>
request == <<pc, target, seen, offer>>
flusher == <<flush, cut, victims, lastFlush>>
vars == <<tables, rowLock, request, today, stored, flusher, restarts>>

Book == INSTANCE OrderBook WITH Orders <- Orders, Prices <- Prices, NoPrice <- NoPrice,
                                status <- status, history <- history, price <- price

Placed == Book!Placed
Locked(o) == rowLock[o] # None

Init ==
    /\ Book!Init
    /\ rowLock = [o \in Orders |-> None]
    /\ pc      = [w \in Workers |-> "idle"]
    /\ target  = [w \in Workers |-> None]
    /\ seen    = [w \in Workers |-> "unplaced"]
    /\ offer   = [w \in Workers |-> NoPrice]
    /\ today = {} /\ stored = {}
    /\ flush = "looping" /\ cut = {} /\ victims = {}
    /\ lastFlush = "never"
    /\ restarts = 0
-----------------------------------------------------------------------------
\* The end of post_orders_id_build: create_new commits.  The row has the time
\* of the draft, which may be before midnight.
Place(o) ==
    /\ Book!PlaceOrder(o)
    /\ today'  \in {today, today \cup {o}}
    /\ stored' = stored \cup {o}
    /\ UNCHANGED <<rowLock, request, flusher, restarts>>

\* The request of worker w is over, its locals are gone and so is its lock.
Finish(w) ==
    /\ pc'     = [pc EXCEPT ![w] = "idle"]
    /\ target' = [target EXCEPT ![w] = None]
    /\ seen'   = [seen EXCEPT ![w] = "unplaced"]
    /\ offer'  = [offer EXCEPT ![w] = NoPrice]
    /\ rowLock' = [o \in Orders |-> IF rowLock[o] = w THEN None ELSE rowLock[o]]

\* post_orders_id_status: a merchant's request, up to the SELECT ... FOR UPDATE.
BeginAdvance(w) ==
    /\ pc[w] = "idle"
    /\ \E o \in Orders, p \in Prices \cup {NoPrice} :
          /\ target' = [target EXCEPT ![w] = o]
          /\ offer'  = [offer EXCEPT ![w] = p]
    /\ pc' = [pc EXCEPT ![w] = "lock"]
    /\ UNCHANGED <<tables, rowLock, seen, today, stored, flusher, restarts>>

\* Variant for a control run: SELECT without FOR UPDATE.
SelectPlainly(w) ==
    /\ pc[w] = "lock"
    /\ status[target[w]] \in Advanceable
    /\ seen' = [seen EXCEPT ![w] = status[target[w]]]
    /\ pc'   = [pc EXCEPT ![w] = "write"]
    /\ UNCHANGED <<tables, rowLock, target, offer, today, stored, flusher, restarts>>

\* fetch_status_for_update returns a status that can be advanced.
LockRow(w) ==
    /\ pc[w] = "lock"
    /\ ~Locked(target[w])
    /\ status[target[w]] \in Advanceable
    /\ rowLock' = [rowLock EXCEPT ![target[w]] = w]
    /\ seen' = [seen EXCEPT ![w] = status[target[w]]]
    /\ pc'   = [pc EXCEPT ![w] = "write"]
    /\ UNCHANGED <<tables, target, offer, today, stored, flusher, restarts>>

\* It returns no row, or a status that cannot be: the request is refused.
Refuse(w) ==
    /\ pc[w] = "lock"
    /\ ~Locked(target[w])
    /\ status[target[w]] \notin Advanceable
    /\ Finish(w)
    /\ UNCHANGED <<tables, today, stored, flusher, restarts>>

\* Variant for a control run: update_status logs the status that was left.
CommitLogsSeen(w) ==
    /\ pc[w] = "write"
    /\ status'  = [status EXCEPT ![target[w]] = NextStatus[seen[w]]]
    /\ history' = [history EXCEPT ![target[w]] = Append(@, seen[w])]
    /\ Finish(w)
    /\ UNCHANGED <<price, today, stored, flusher, restarts>>

\* update_status and update_price become visible, and the lock is released.
CommitAdvance(w) ==
    LET o    == target[w]
        next == NextStatus[seen[w]]
    IN  /\ pc[w] = "write"
        /\ status'  = [status EXCEPT ![o] = next]
        /\ history' = [history EXCEPT ![o] = Append(@, next)]
        /\ price'   = [price EXCEPT ![o] =
                         IF next = "processing" /\ offer[w] # NoPrice
                         THEN offer[w] ELSE @]
        /\ Finish(w)
        /\ UNCHANGED <<today, stored, flusher, restarts>>

\* delete_orders_id: the owner has no draft and owns the order.
BeginCancel(w) ==
    /\ pc[w] = "idle"
    /\ \E o \in Placed :
          /\ Len(history[o]) < MaxHistory
          /\ target' = [target EXCEPT ![w] = o]
    /\ pc' = [pc EXCEPT ![w] = "update"]
    /\ UNCHANGED <<tables, rowLock, seen, offer, today, stored, flusher, restarts>>

\* The UPDATE of update_status, committed on its own, on whatever is there.
UpdateCancelled(w) ==
    /\ pc[w] = "update"
    /\ ~Locked(target[w])
    /\ status' = [status EXCEPT ![target[w]] = "cancelled"]
    /\ pc' = [pc EXCEPT ![w] = "record"]
    /\ UNCHANGED <<history, price, rowLock, target, seen, offer, today, stored,
                   flusher, restarts>>

\* The INSERT of update_status.  Its foreign key waits for a FOR UPDATE lock
\* of an advance, not for the lock of the flusher's UPDATE.
RecordCancel(w) ==
    /\ pc[w] = "record"
    /\ rowLock[target[w]] \in {None, Flusher}
    /\ history' = [history EXCEPT ![target[w]] = Append(@, "cancelled")]
    /\ Finish(w)
    /\ UNCHANGED <<status, price, today, stored, flusher, restarts>>

\* A statement fails or the client goes away (the handler is dropped at its
\* await): the open transaction is rolled back, what was committed stays.
Abort(w) ==
    /\ pc[w] # "idle"
    /\ Finish(w)
    /\ UNCHANGED <<tables, today, stored, flusher, restarts>>
-----------------------------------------------------------------------------
FlushUnlocked == [o \in Orders |-> IF rowLock[o] = Flusher THEN None ELSE rowLock[o]]

\* The top of the loop of flush_unfinished_orders: note the time, sleep until
\* midnight, or not at all when a day was missed.  Files have the time at which
\* their transaction began, so some that are not committed yet predate it, too.
FlushLoop ==
    /\ flush = "looping"
    /\ \E begun \in SUBSET (Orders \ Placed) : cut' = Placed \cup begun
    /\ flush' = IF lastFlush = "earlier" THEN "due" ELSE "asleep"
    /\ UNCHANGED <<tables, rowLock, request, today, stored, victims, lastFlush, restarts>>

\* Midnight: a day begins without orders, and the sleeper wakes.
Midnight ==
    /\ today' = {}
    /\ lastFlush' = IF lastFlush = "today" THEN "earlier" ELSE lastFlush
    /\ flush' = IF flush = "asleep" THEN "due" ELSE flush
    /\ UNCHANGED <<tables, rowLock, request, stored, cut, victims, restarts>>

\* Variant for a control run: the flusher selects the accepted orders.
FlushSelectAccepted ==
    /\ flush = "due"
    /\ \E kept \in SUBSET today :
          victims' = {o \in Orders : status[o] = "processing"} \ kept
    /\ flush' = "locking"
    /\ UNCHANGED <<tables, rowLock, request, today, stored, cut, lastFlush, restarts>>

\* The SELECT of the orders to reject.  It locks nothing.  Of today's orders it
\* spares those created since the opening time, which merchants may move.
FlushSelect ==
    /\ flush = "due"
    /\ \E kept \in SUBSET today :
          victims' = {o \in Orders : status[o] = "reviewing"} \ kept
    /\ flush' = "locking"
    /\ UNCHANGED <<tables, rowLock, request, today, stored, cut, lastFlush, restarts>>

\* The UPDATE of update_statuses reaches one of their rows.
FlushLockRow(o) ==
    /\ flush = "locking"
    /\ o \in victims
    /\ ~Locked(o)
    /\ rowLock' = [rowLock EXCEPT ![o] = Flusher]
    /\ UNCHANGED <<tables, request, today, stored, flusher, restarts>>

\* Variants for control runs: the files are cut off when they are deleted, and
\* the UPDATE does not wait for the rows that others hold.
FlushPurgeAll ==
    /\ flush = "locking"
    /\ \A o \in victims : rowLock[o] = Flusher
    /\ \E gone \in SUBSET stored : stored' = stored \ gone
    /\ flush' = "purged"
    /\ UNCHANGED <<tables, rowLock, request, today, cut, victims, lastFlush, restarts>>

FlushPurgeEarly ==
    /\ flush = "locking"
    /\ \E gone \in SUBSET (cut \cap stored) : stored' = stored \ gone
    /\ flush' = "purged"
    /\ UNCHANGED <<tables, rowLock, request, today, cut, victims, lastFlush, restarts>>

\* delete_files on every file older than the round; the bucket removes some.
FlushPurge ==
    /\ flush = "locking"
    /\ \A o \in victims : rowLock[o] = Flusher
    /\ \E gone \in SUBSET (cut \cap stored) : stored' = stored \ gone
    /\ flush' = "purged"
    /\ UNCHANGED <<tables, rowLock, request, today, cut, victims, lastFlush, restarts>>

\* The time of the flush is taken just before the commit.
FlushCommit ==
    /\ flush = "purged"
    /\ Book!Reject(victims)
    /\ lastFlush' \in {"today", "earlier"}
    /\ rowLock' = FlushUnlocked
    /\ victims' = {}
    /\ flush' = "looping"
    /\ UNCHANGED <<request, today, stored, cut, restarts>>

\* Variant for a control run: the transaction is leaked, not rolled back.
FlushFailKeepsLocks ==
    /\ flush \in {"looping", "due", "locking", "purged"}
    /\ flush' = "dead"
    /\ victims' = {}
    /\ UNCHANGED <<tables, rowLock, request, today, stored, cut, lastFlush, restarts>>

\* Any error, of the database or of the bucket, ends the task for good.
FlushFail ==
    /\ flush \in {"looping", "due", "locking", "purged"}
    /\ flush' = "dead"
    /\ victims' = {}
    /\ rowLock' = FlushUnlocked
    /\ UNCHANGED <<tables, request, today, stored, cut, lastFlush, restarts>>

\* The server stops, gracefully or not, and starts again: what was in flight
\* is rolled back and main spawns the daemons afresh.
Restart ==
    /\ restarts < MaxRestarts
    /\ restarts' = restarts + 1
    /\ rowLock' = [o \in Orders |-> None]
    /\ pc'     = [w \in Workers |-> "idle"]
    /\ target' = [w \in Workers |-> None]
    /\ seen'   = [w \in Workers |-> "unplaced"]
    /\ offer'  = [w \in Workers |-> NoPrice]
    /\ flush' = "looping"
    /\ victims' = {}
    /\ UNCHANGED <<tables, today, stored, cut, lastFlush>>
-----------------------------------------------------------------------------
\* What a request does by itself, without its client or a failure.
Answer(w) ==
    \/ LockRow(w) \/ Refuse(w) \/ CommitAdvance(w)
    \/ UpdateCancelled(w) \/ RecordCancel(w)

Request(w) == BeginAdvance(w) \/ BeginCancel(w) \/ Answer(w) \/ Abort(w)

FlushStep ==
    \/ FlushLoop \/ FlushSelect \/ FlushPurge \/ FlushCommit
    \/ \E o \in Orders : FlushLockRow(o)

Next ==
    \/ \E o \in Orders : Place(o)
    \/ \E w \in Workers : Request(w)
    \/ FlushStep \/ FlushFail
    \/ Midnight \/ Restart

Spec == Init /\ [][Next]_vars

\* PostgreSQL grants row locks in the order of arrival and tokio runs every
\* ready task, so a step that is possible again and again is taken; days pass.
\* Clients owe nothing, and nothing need fail.
FairSpec ==
    /\ Spec
    /\ \A w \in Workers : SF_vars(Answer(w))
    /\ SF_vars(FlushStep)
    /\ WF_vars(Midnight)
-----------------------------------------------------------------------------
TypeOK ==
    /\ Book!BookTypeOK
    /\ rowLock \in [Orders -> Workers \cup {Flusher, None}]
    /\ pc      \in [Workers -> {"idle", "lock", "write", "update", "record"}]
    /\ target  \in [Workers -> Orders \cup {None}]
    /\ seen    \in [Workers -> Statuses \cup {"unplaced"}]
    /\ offer   \in [Workers -> Prices \cup {NoPrice}]
    /\ today \subseteq Orders /\ stored \subseteq Orders
    /\ flush \in {"looping", "asleep", "due", "locking", "purged", "dead"}
    /\ cut \subseteq Orders /\ victims \subseteq Orders
    /\ lastFlush \in {"never", "today", "earlier"}
    /\ restarts \in 0..MaxRestarts

\* Every step of the interleaved code is one atomic operation on the book.
ImplementsBook == Book!Spec

LogAdvances == Book!LogAdvances
StatusIsLogged == Book!StatusIsLogged
PriceIsFinal == Book!PriceIsFinal
NoRevival == Book!NoRevival

\* What an advance read is still true when it writes: nobody, neither another
\* merchant, nor a cancellation, nor the flusher, changes a status between
\* fetch_status_for_update and the commit.
SeenIsCurrent ==
    \A w \in Workers : pc[w] = "write" =>
        /\ rowLock[target[w]] = w
        /\ seen[w] = status[target[w]]

\* A row is held only by a transaction that is still going to end: no lock
\* survives an abort, the death of the flusher or a restart.
LocksHaveOwners ==
    \A o \in Orders :
        /\ rowLock[o] \in Workers =>
              pc[rowLock[o]] = "write" /\ target[rowLock[o]] = o
        /\ rowLock[o] = Flusher => flush \in {"locking", "purged"} /\ o \in victims

\* The flusher's cut-off is the start of its round and not the moment it
\* deletes: the files of an order that began to be placed later, for instance
\* while it slept or waited for a row, are still in the bucket.
FilesOutliveRound == Placed \ cut \subseteq stored

\* A request that waits for a row gets it, whoever holds it: no cycle of
\* waiting between merchants, clients and the flusher's many-row UPDATE.
RequestsEnd == \A w \in Workers : pc[w] # "idle" ~> pc[w] = "idle"

\* An order that nobody reviewed does not stay in review past midnight as
\* long as the flusher lives.
StaleReviewsEnd ==
    \A o \in Orders :
        status[o] = "reviewing" /\ o \notin today ~>
            status[o] # "reviewing" \/ flush = "dead"

\* Error 4005 (error.rs): "Cannot process status updates for this order any
\* further."  The handlers that change a status would have to agree on it.
FinalIsFinal ==
    [][\A o \in Orders : status[o] \in Terminal => status'[o] = status[o]]_vars
=============================================================================
