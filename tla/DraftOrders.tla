----------------------------- MODULE DraftOrders -----------------------------
(***************************************************************************)
(* The draft store of common/src/state/drafts.rs and the handlers of       *)
(* app/src/routes/orders.rs that work on it, up to the insertion of a sent *)
(* order: creating a draft, binding, uploading and removing its files,     *)
(* discarding it, building the order, and the cleaner that drops drafts    *)
(* past their 15 minutes.                                                  *)
(*                                                                         *)
(* The store is a concurrent map.  A handler that keeps the entry of a     *)
(* user across an await holds lock[u]; everybody else who touches the      *)
(* entry waits.  One action is the work between two awaits.                *)
(***************************************************************************)
EXTENDS OrderNumber, SequencesExt

CONSTANTS Users, Tasks,
          None,          \* no task, no user
          MaxFileLimit,  \* MAX_FILE_LIMIT: files in a draft
          Lifetime,      \* minutes an upload may last and a draft is kept
          MaxDrafts,     \* bound on the drafts ever created
          MaxFiles,      \* bound on the files ever bound
          MaxNow,        \* bound on the clock, in minutes
          MaxRestarts    \* bound on the restarts of the server

ASSUME DraftAssumption ==
    /\ None \notin Users /\ None \notin Tasks
    /\ {MaxFileLimit, Lifetime} \subseteq Nat \ {0}
    /\ {MaxDrafts, MaxFiles, MaxNow, MaxRestarts} \subseteq Nat

DraftIds == 1..MaxDrafts
FileIds  == 1..MaxFiles
NoDraft  == [id |-> 0, createdAt |-> 0, files |-> <<>>]
NoOrder  == [id |-> 0, owner |-> None, files |-> <<>>, createdAt |-> 0, seq |-> 0]
Idle     == [pc |-> "idle", user |-> None, order |-> 0, file |-> 0, req |-> <<>>,
             seq |-> 0, made |-> NoOrder]

VARIABLES
    drafts,      \* DraftOrderStore.orders: a draft, or NoDraft, for each user
    lock,        \* the task that holds the entry of a user
    queue,       \* DraftOrderStore.queue
    task,        \* the handler a task runs, where it stands and its locals
    knownDrafts, \* order ids that were returned to a user
    knownFiles,  \* file ids that were returned to a user
    lastDraft,   \* the draft ids up to this one have been generated
    lastFile,    \* the file ids up to this one have been generated
    url,         \* when the upload URL of a file expires, 0 if there is none
    bucket,      \* the files whose object is in the bucket
    orders,      \* rows of the orders table, as create_new writes them
    cleaner,     \* clear_expired: where it stands and its locals
    now,         \* the clock
    restarts

vars == <<drafts, lock, queue, task, knownDrafts, knownFiles, lastDraft, lastFile,
          url, bucket, orders, cleaner, now, restarts>>

client == <<knownDrafts, knownFiles>>
ids    == <<lastDraft, lastFile>>
outer  == <<url, bucket, orders, now>>

Asleep == [pc |-> "asleep", cutoff |-> 0, todo |-> {}, keys |-> {}]

Init ==
    /\ drafts = [u \in Users |-> NoDraft]
    /\ lock = [u \in Users |-> None]
    /\ queue = 0
    /\ task = [t \in Tasks |-> Idle]
    /\ knownDrafts = [u \in Users |-> {}] /\ knownFiles = [u \in Users |-> {}]
    /\ lastDraft = 0 /\ lastFile = 0
    /\ url = [f \in FileIds |-> 0]
    /\ bucket = {}
    /\ orders = {}
    /\ cleaner = Asleep
    /\ now = 0
    /\ restarts = 0
-----------------------------------------------------------------------------
At(t, pc) == task[t].pc = pc
Draft(t) == drafts[task[t].user]
Free(u) == lock[u] = None
Bound(t, f) == f \in ToSet(Draft(t).files)

\* Task t takes up a request.
Begin(t, locals) == At(t, "idle") /\ task' = [task EXCEPT ![t] = locals]

\* The locals of a request for a new draft, on a file, and to build.
Creating(u, id, at) ==
    [Idle EXCEPT !.pc = "insert", !.user = u,
                 !.made = [NoOrder EXCEPT !.id = id, !.createdAt = at]]
OnFile(pc, u, o, f) == [Idle EXCEPT !.pc = pc, !.user = u, !.order = o, !.file = f]
Building(u, o, req) == [Idle EXCEPT !.pc = "validate", !.user = u, !.order = o, !.req = req]

GoTo(t, pc) == task' = [task EXCEPT ![t].pc = pc]

\* Variant for a control run: the entry is leaked when the handler ends.
FinishKeepsEntry(t) == task' = [task EXCEPT ![t] = Idle] /\ UNCHANGED lock

\* The handler returns, or is dropped: its locals and its lock are gone.
Finish(t) ==
    /\ task' = [task EXCEPT ![t] = Idle]
    /\ lock' = [u \in Users |-> IF lock[u] = t THEN None ELSE lock[u]]

\* DraftOrderStore::exists, the first thing most handlers do.
Exists(u, o) == Free(u) /\ drafts[u].id = o

\* A request that fails without having changed anything.
Refused(t) ==
    /\ Finish(t)
    /\ UNCHANGED <<drafts, queue, client, ids, outer, cleaner, restarts>>
-----------------------------------------------------------------------------
(* post_orders: DraftOrderStore::insert reads, then inserts.               *)

\* The user has no draft: a new one gets its id and its time.
CreateRead(t, u) ==
    /\ Free(u) /\ drafts[u] = NoDraft
    /\ lastDraft < MaxDrafts
    /\ lastDraft' = lastDraft + 1
    /\ Begin(t, Creating(u, lastDraft', now))
    /\ UNCHANGED <<drafts, lock, queue, client, lastFile, outer, cleaner, restarts>>

\* The id is returned even when the entry was taken in the meantime and the
\* insertion failed.
CreateInsert(t) ==
    LET u   == task[t].user
        new == task[t].made
    IN  /\ At(t, "insert")
        /\ Free(u)
        /\ drafts' = IF drafts[u] = NoDraft
                     THEN [drafts EXCEPT ![u] = [id |-> new.id, createdAt |-> new.createdAt,
                                                 files |-> <<>>]]
                     ELSE drafts
        /\ knownDrafts' = [knownDrafts EXCEPT ![u] = @ \cup {new.id}]
        /\ Finish(t)
        /\ UNCHANGED <<queue, knownFiles, ids, outer, cleaner, restarts>>
-----------------------------------------------------------------------------
(* post_orders_id_files: exists, add_file, get_created_at, presign_put.    *)

\* The id of the file is reserved here; being new, it may be drawn at any time.
AddBegin(t, u) ==
    /\ lastFile < MaxFiles
    /\ lastFile' = lastFile + 1
    /\ \E o \in knownDrafts[u] :
          /\ Exists(u, o)
          /\ Begin(t, OnFile("add", u, o, lastFile'))
    /\ UNCHANGED <<drafts, lock, queue, client, lastDraft, outer, cleaner, restarts>>

\* Variant for a control run: the draft is edited without its entry.
AddFileUnlocked(t) ==
    /\ At(t, "add")
    /\ Draft(t) # NoDraft /\ Len(Draft(t).files) # MaxFileLimit
    /\ drafts' = [drafts EXCEPT ![task[t].user].files = Append(@, task[t].file)]
    /\ GoTo(t, "presign")
    /\ UNCHANGED <<lock, queue, client, ids, outer, cleaner, restarts>>

AddFile(t) ==
    /\ At(t, "add")
    /\ Free(task[t].user)
    /\ Draft(t) # NoDraft
    /\ Len(Draft(t).files) # MaxFileLimit
    /\ drafts' = [drafts EXCEPT ![task[t].user].files = Append(@, task[t].file)]
    /\ GoTo(t, "presign")
    /\ UNCHANGED <<lock, queue, client, ids, outer, cleaner, restarts>>

AddRefused(t) ==
    /\ At(t, "add")
    /\ Free(task[t].user)
    /\ Draft(t) = NoDraft \/ Len(Draft(t).files) = MaxFileLimit
    /\ Refused(t)

\* Variant for a control run: every URL lives for the whole lifetime.
PresignWhole(t) ==
    LET u == task[t].user
        f == task[t].file
    IN  /\ At(t, "presign") /\ Free(u) /\ Draft(t) # NoDraft
        /\ url' = [url EXCEPT ![f] = now + Lifetime]
        /\ knownFiles' = [knownFiles EXCEPT ![u] = @ \cup {f}]
        /\ Finish(t)
        /\ UNCHANGED <<drafts, queue, knownDrafts, ids, bucket, orders, now, cleaner, restarts>>

\* The URL lives for what is left of the draft's lifetime.
Presign(t) ==
    LET u == task[t].user
        f == task[t].file
        age == now - Draft(t).createdAt
    IN  /\ At(t, "presign")
        /\ Free(u)
        /\ Draft(t) # NoDraft
        /\ age < Lifetime
        /\ url' = [url EXCEPT ![f] = now + (Lifetime - age)]
        /\ knownFiles' = [knownFiles EXCEPT ![u] = @ \cup {f}]
        /\ Finish(t)
        /\ UNCHANGED <<drafts, queue, knownDrafts, ids, bucket, orders, now, cleaner, restarts>>

\* The draft is gone, the file is too large, or no lifetime is left and
\* to_std().unwrap() panics: the file stays bound and nobody can upload it.
PresignFails(t) ==
    /\ At(t, "presign")
    /\ Free(task[t].user)
    /\ Refused(t)

\* The client uploads to the bucket.
Upload(f) ==
    /\ now < url[f]
    /\ bucket' = bucket \cup {f}
    /\ UNCHANGED <<drafts, lock, queue, task, client, ids, url, orders, cleaner, now, restarts>>
-----------------------------------------------------------------------------
(* delete_orders_id_files_id: exists, get_order, delete_file under the     *)
(* lock of the entry, drop, remove_file.                                   *)

RemoveBegin(t, u) ==
    /\ \E o \in knownDrafts[u], f \in knownFiles[u] :
          /\ Exists(u, o)
          /\ Begin(t, OnFile("find", u, o, f))
    /\ UNCHANGED <<drafts, lock, queue, client, ids, outer, cleaner, restarts>>

FindFile(t) ==
    /\ At(t, "find")
    /\ Free(task[t].user)
    /\ Bound(t, task[t].file)
    /\ lock' = [lock EXCEPT ![task[t].user] = t]
    /\ GoTo(t, "delete")
    /\ UNCHANGED <<drafts, queue, client, ids, outer, cleaner, restarts>>

FindRefused(t) ==
    /\ At(t, "find")
    /\ Free(task[t].user)
    /\ ~Bound(t, task[t].file)
    /\ Refused(t)

\* The bucket may or may not have deleted the object, whatever it answers;
\* after an error the handler returns and the file stays in the draft.
DeleteObject(t) ==
    /\ At(t, "delete")
    /\ bucket' \in {bucket, bucket \ {task[t].file}}
    /\ \/ GoTo(t, "remove") /\ lock' = [lock EXCEPT ![task[t].user] = None]
       \/ Finish(t)
    /\ UNCHANGED <<drafts, queue, client, ids, url, orders, now, cleaner, restarts>>

\* No two files of a draft have the same id, so retain drops at most one.
RemoveFile(t) ==
    LET u == task[t].user IN
    /\ At(t, "remove")
    /\ Free(u)
    /\ \/ \E i \in DOMAIN Draft(t).files :
             /\ Draft(t).files[i] = task[t].file
             /\ drafts' = [drafts EXCEPT ![u].files = RemoveAt(@, i)]
       \/ ~Bound(t, task[t].file) /\ UNCHANGED drafts
    /\ Finish(t)
    /\ UNCHANGED <<queue, client, ids, outer, cleaner, restarts>>
-----------------------------------------------------------------------------
\* delete_orders_id, its first line: whatever order the path names, a draft of
\* the user goes.  Its objects stay in the bucket.
Discard(u) ==
    /\ Free(u)
    /\ drafts[u] # NoDraft
    /\ drafts' = [drafts EXCEPT ![u] = NoDraft]
    /\ UNCHANGED <<lock, queue, task, client, ids, outer, cleaner, restarts>>
-----------------------------------------------------------------------------
(* post_orders_id_build: exists, DraftOrderStore::build under the lock of  *)
(* the entry, create_new in a transaction.                                 *)

\* The request lists files, each once or more often, in any order.
BuildBegin(t, u) ==
    /\ \E o \in knownDrafts[u], req \in SeqOf(knownFiles[u], MaxFileLimit) \ {<<>>} :
          /\ Exists(u, o)
          /\ Begin(t, Building(u, o, req))
    /\ UNCHANGED <<drafts, lock, queue, client, ids, outer, cleaner, restarts>>

\* Variant for a control run: the files of the request are not looked up.
ValidAny(t) == Draft(t).files # <<>>

\* Every file of the request must be bound; the draft may have more.
Valid(t) == Draft(t).files # <<>> /\ \A f \in ToSet(task[t].req) : Bound(t, f)

Validate(t) ==
    /\ At(t, "validate")
    /\ Free(task[t].user)
    /\ Valid(t)
    /\ lock' = [lock EXCEPT ![task[t].user] = t]
    /\ GoTo(t, "check")
    /\ UNCHANGED <<drafts, queue, client, ids, outer, cleaner, restarts>>

\* No draft, no files, unbound files, or too few or too many page ranges.
BuildRefused(t) ==
    /\ At(t, "validate")
    /\ Free(task[t].user)
    /\ Refused(t)

Uploaded(files) == ToSet(files) \subseteq bucket

\* An object is missing, or the bucket does not answer.
CheckRefused(t) == At(t, "check") /\ Refused(t)

\* Variant for a control run: the loop looks a file up and leaves it there.
LookedUp(files, req, n) == \A i \in 1..n : req[i] \in ToSet(files)

\* The loop over the request pops n files off the reversed draft: each of the
\* first n files of the request is on top in turn.
OnTop(files, req, n) == \A i \in 1..n : i <= Len(files) /\ files[i] = req[i]

\* All files of the request were on top in turn; next_queue loads the counter.
MatchFiles(t) ==
    /\ At(t, "check")
    /\ Uploaded(Draft(t).files)
    /\ OnTop(Draft(t).files, task[t].req, Len(task[t].req))
    /\ task' = [task EXCEPT ![t].pc = "number", ![t].seq = queue]
    /\ UNCHANGED <<drafts, lock, queue, client, ids, outer, cleaner, restarts>>

\* pop_if returns None after n files and unwrap() panics: the entry is released
\* as the reversal and the pops have left it.
PanicUnmatched(t) ==
    LET files == Draft(t).files
        req   == task[t].req
    IN  /\ At(t, "check")
        /\ Uploaded(files)
        /\ \E n \in 0..(Len(req) - 1) :
              /\ OnTop(files, req, n) /\ ~OnTop(files, req, n + 1)
              /\ drafts' = [drafts EXCEPT ![task[t].user].files =
                              Reverse(SubSeq(files, n + 1, Len(files)))]
        /\ Finish(t)
        /\ UNCHANGED <<queue, client, ids, outer, cleaner, restarts>>

\* Variant for a control run: the entry stays when the order leaves.
TakeNumberKeepsDraft(t) ==
    LET u == task[t].user IN
    /\ At(t, "number")
    /\ queue' = NextSeq(task[t].seq)
    /\ task' = [task EXCEPT ![t].pc = "persist", ![t].made =
                  [id |-> Draft(t).id, owner |-> u, files |-> task[t].req,
                   createdAt |-> Draft(t).createdAt, seq |-> queue']]
    /\ lock' = [lock EXCEPT ![u] = None]
    /\ UNCHANGED <<drafts, client, ids, outer, cleaner, restarts>>

\* next_queue stores; the entry is removed, and what it had beyond the request
\* is forgotten.
TakeNumber(t) ==
    LET u == task[t].user IN
    /\ At(t, "number")
    /\ queue' = NextSeq(task[t].seq)
    /\ task' = [task EXCEPT ![t].pc = "persist", ![t].made =
                  [id |-> Draft(t).id, owner |-> u, files |-> task[t].req,
                   createdAt |-> Draft(t).createdAt, seq |-> queue']]
    /\ drafts' = [drafts EXCEPT ![u] = NoDraft]
    /\ lock' = [lock EXCEPT ![u] = None]
    /\ UNCHANGED <<client, ids, outer, cleaner, restarts>>

Persist(t) ==
    /\ At(t, "persist")
    /\ orders' = orders \cup {task[t].made}
    /\ Finish(t)
    /\ UNCHANGED <<drafts, queue, client, ids, url, bucket, now, cleaner, restarts>>
-----------------------------------------------------------------------------
\* The client goes away or a call fails: the handler ends at the await where
\* it stands.  A built order that is not yet in the database is lost.
Disconnect(t) ==
    /\ ~At(t, "idle") /\ ~At(t, "number")
    /\ Refused(t)

(* clear_expired, once a minute: notes the time, visits each entry, then   *)
(* asks the bucket to delete the objects of the drafts it dropped.         *)

CleanStart ==
    /\ cleaner.pc = "asleep"
    /\ cleaner' = [pc |-> "visit", cutoff |-> now, todo |-> Users, keys |-> {}]
    /\ UNCHANGED <<drafts, lock, queue, task, client, ids, outer, restarts>>

\* Variant for a control run: drafts go a minute before their URLs.
ExpiredEarly(draft, at) == draft # NoDraft /\ at - draft.createdAt >= Lifetime - 1

Expired(draft, at) == draft # NoDraft /\ at - draft.createdAt > Lifetime

\* Variant for a control run: the cleaner does not wait for an entry.
CleanVisitHeld(u) ==
    /\ cleaner.pc = "visit"
    /\ u \in cleaner.todo
    /\ IF Expired(drafts[u], cleaner.cutoff)
       THEN /\ drafts' = [drafts EXCEPT ![u] = NoDraft]
            /\ cleaner' = [cleaner EXCEPT !.todo = @ \ {u},
                                          !.keys = @ \cup ToSet(drafts[u].files)]
       ELSE /\ cleaner' = [cleaner EXCEPT !.todo = @ \ {u}]
            /\ UNCHANGED drafts
    /\ UNCHANGED <<lock, queue, task, client, ids, outer, restarts>>

CleanVisit(u) ==
    /\ cleaner.pc = "visit"
    /\ u \in cleaner.todo
    /\ Free(u)
    /\ IF Expired(drafts[u], cleaner.cutoff)
       THEN /\ drafts' = [drafts EXCEPT ![u] = NoDraft]
            /\ cleaner' = [cleaner EXCEPT !.todo = @ \ {u},
                                          !.keys = @ \cup ToSet(drafts[u].files)]
       ELSE /\ cleaner' = [cleaner EXCEPT !.todo = @ \ {u}]
            /\ UNCHANGED drafts
    /\ UNCHANGED <<lock, queue, task, client, ids, outer, restarts>>

\* Variant for a control run: the task ends after its first round, as it would
\* if an answer of the bucket could end it.
CleanPurgeEnds ==
    /\ cleaner.pc = "visit" /\ cleaner.todo = {}
    /\ cleaner' = [Asleep EXCEPT !.pc = "ended"]
    /\ UNCHANGED <<drafts, lock, queue, task, client, ids, outer, restarts>>

\* The answer of the bucket is ignored, so any part may stay.
CleanPurge ==
    /\ cleaner.pc = "visit" /\ cleaner.todo = {}
    /\ \E gone \in SUBSET cleaner.keys : bucket' = bucket \ gone
    /\ cleaner' = Asleep
    /\ UNCHANGED <<drafts, lock, queue, task, client, ids, url, orders, now, restarts>>

Tick ==
    /\ now < MaxNow
    /\ now' = now + 1
    /\ UNCHANGED <<drafts, lock, queue, task, client, ids, url, bucket, orders, cleaner, restarts>>

\* The server starts again with an empty store, and counts from 0:
\* load_queue_from_db is not called.
Restart ==
    /\ restarts < MaxRestarts
    /\ restarts' = restarts + 1
    /\ drafts' = [u \in Users |-> NoDraft]
    /\ lock' = [u \in Users |-> None]
    /\ queue' = 0
    /\ task' = [t \in Tasks |-> Idle]
    /\ cleaner' = Asleep
    /\ UNCHANGED <<client, ids, outer>>
-----------------------------------------------------------------------------
Add(t)    == AddFile(t) \/ AddRefused(t) \/ Presign(t) \/ PresignFails(t)
RemoveStep(t) == FindFile(t) \/ FindRefused(t) \/ DeleteObject(t) \/ RemoveFile(t)
Build(t)  == \/ Validate(t) \/ BuildRefused(t) \/ CheckRefused(t)
             \/ MatchFiles(t) \/ PanicUnmatched(t) \/ TakeNumber(t) \/ Persist(t)

\* What a request does by itself, without its client or a failure.
Handle(t) == CreateInsert(t) \/ Add(t) \/ RemoveStep(t) \/ Build(t)

Clean == CleanStart \/ CleanPurge \/ \E u \in Users : CleanVisit(u)

Next ==
    \/ \E t \in Tasks :
          \/ Handle(t) \/ Disconnect(t)
          \/ \E u \in Users : \/ CreateRead(t, u) \/ AddBegin(t, u)
                              \/ RemoveBegin(t, u) \/ BuildBegin(t, u)
    \/ \E u \in Users : Discard(u)
    \/ \E f \in FileIds : Upload(f)
    \/ Clean \/ Tick \/ Restart

Spec == Init /\ [][Next]_vars

\* The map queues those who wait for an entry and the bucket's client has no
\* step that waits for a client, so whatever a handler or the cleaner can do
\* again and again is done.  Time passes; clients owe nothing.
FairSpec ==
    /\ Spec
    /\ \A t \in Tasks : SF_vars(Handle(t))
    /\ SF_vars(Clean)
    /\ WF_vars(Tick)
-----------------------------------------------------------------------------
Drafts == {drafts[u] : u \in Users} \ {NoDraft}

\* The orders that have left the draft store: rows, and builds on their way.
Sent == orders \cup {task[t].made : t \in {r \in Tasks : At(r, "persist")}}

\* File ids that are not generated yet, or are with a handler that has yet to bind them.
NewFiles ==
    {f \in FileIds : f > lastFile} \cup {task[t].file : t \in {r \in Tasks : At(r, "add")}}

\* Draft ids that are not generated yet, or are with a handler that has yet to insert
\* the draft.
NewDrafts ==
    {i \in DraftIds : i > lastDraft}
        \cup {task[t].made.id : t \in {r \in Tasks : At(r, "insert")}}

\* The book that the store keeps, seen without handlers: an id is spent when it can
\* open no draft any more, and an order is built while its handler has it.
Entry(d, owner) == [id |-> d.id, owner |-> owner, files |-> ToSet(d.files)]

SpentIds     == DraftIds \ NewDrafts
FiledFiles   == FileIds \ NewFiles
OpenDrafts   == {Entry(drafts[u], u) : u \in {v \in Users : drafts[v] # NoDraft}}
BuiltOrders  == {Entry(task[t].made, task[t].made.owner) : t \in {r \in Tasks : At(r, "persist")}}
PlacedOrders == {Entry(ord, ord.owner) : ord \in orders}

Book == INSTANCE DraftBook WITH
    spent <- SpentIds, filed <- FiledFiles,
    open <- OpenDrafts, built <- BuiltOrders, placed <- PlacedOrders

DraftType == [id : Nat, createdAt : Nat, files : Seq(FileIds)]
OrderType == [id : Nat, owner : Users \cup {None}, files : Seq(FileIds), createdAt : Nat,
              seq : Counter]
Waiting   == {"idle", "insert", "add", "presign", "find", "remove", "validate", "persist"}
Holding   == {"delete", "check", "number"}
TaskType  == [pc : Waiting \cup Holding, user : Users \cup {None}, order : 0..MaxDrafts,
              file : 0..MaxFiles, req : Seq(FileIds), seq : Counter, made : OrderType]

\* Every variable has its type; whatever runs at once, a draft never has more
\* files than add_file allows, and the counter stays in the range that
\* next_queue wraps it into.
TypeOK ==
    /\ drafts \in [Users -> DraftType]
    /\ \A u \in Users : Len(drafts[u].files) <= MaxFileLimit
    /\ lock \in [Users -> Tasks \cup {None}]
    /\ queue \in Counter
    /\ task \in [Tasks -> TaskType]
    /\ knownDrafts \in [Users -> SUBSET DraftIds]
    /\ knownFiles \in [Users -> SUBSET FileIds]
    /\ lastDraft \in 0..MaxDrafts /\ lastFile \in 0..MaxFiles
    /\ url \in [FileIds -> Nat] /\ bucket \subseteq FileIds
    /\ orders \subseteq OrderType
    /\ cleaner \in [pc : {"asleep", "visit"}, cutoff : Nat, todo : SUBSET Users,
                    keys : SUBSET FileIds]
    /\ now \in 0..MaxNow /\ restarts \in 0..MaxRestarts

\* The entry of a user is held exactly by a handler of that user which is
\* between its get_async and its drop or return, however it ends.
LocksHeldByTasks ==
    \A t \in Tasks : \A u \in Users :
        (lock[u] = t) <=> (task[t].user = u /\ task[t].pc \in Holding)

\* A file of an order that was sent has its object in the bucket: neither the
\* removal of a file nor the cleaner deletes it once build has looked for it.
SentFilesUploaded ==
    \A ord \in Sent : Uploaded(ord.files)

\* A file belongs to one draft or one sent order, and is there once: no
\* sequence of builds, removals and panics sends a file twice.
NoFileShared ==
    LET holders == Drafts \cup Sent IN
    /\ \A h \in holders : IsInjective(h.files)
    /\ \A g, h \in holders : g # h => ToSet(g.files) \cap ToSet(h.files) = {}

\* The handler checks the order id of the path in exists and then works on
\* whatever draft the user has by then.  All the same, what it builds is the
\* order that the path named.
BuildPlacesNamed ==
    \A t \in Tasks :
        /\ task[t].pc \in {"check", "number"} => Draft(t).id = task[t].order
        /\ At(t, "persist") => task[t].made.id = task[t].order

\* An order id is settled once: no draft has the id of an order that was sent,
\* and two orders never share one.
SettledOnce ==
    /\ \A d \in Drafts, ord \in Sent : d.id # ord.id
    /\ \A a, b \in Sent : a.id = b.id => a = b
    /\ \A r, t \in Tasks : At(r, "persist") /\ At(t, "persist") /\ r # t
          => task[r].made.id # task[t].made.id

\* Whatever the handlers do between their awaits, what users and the database see
\* of drafts is one whole operation of DraftBook at a time: a draft is not built and
\* still there, a file is not bound twice, and no id is used again after a restart.
ImplementsBook == Book!Spec

\* However late get_created_at runs, the upload URL of a file ends when the
\* lifetime of the draft that has the file ends.
UrlWithinDraft ==
    \A d \in Drafts : \A f \in ToSet(d.files) : url[f] <= d.createdAt + Lifetime

\* When the cleaner drops a draft nobody can upload its files any more: it
\* keeps drafts a minute longer than their URLs.
ClearedUrlsExpired ==
    [][\A f \in cleaner'.keys \ cleaner.keys : url[f] <= now]_vars

\* A handler that holds the entry across its calls to the bucket finds it as
\* it left it: nobody edits, replaces or clears the draft in between.
NoEditWhileHeld ==
    [][\A u \in Users : lock[u] # None /\ lock'[u] = lock[u] => drafts'[u] = drafts[u]]_vars

\* Every request ends, whoever else waits for the same entry.
RequestsEnd == \A t \in Tasks : ~At(t, "idle") ~> At(t, "idle")

\* A draft past its lifetime is cleared, sent or discarded, also when handlers
\* keep holding its entry while the cleaner passes.
ExpiredDraftsGo ==
    \A u \in Users : \A d \in DraftIds :
        (drafts[u].id = d /\ Expired(drafts[u], now)) ~> drafts[u].id # d
-----------------------------------------------------------------------------
(* What the repository says of the program, and the program does not do.   *)

\* drafts.rs:249, "// Infallible": when build gets as far as the loop over the
\* request, each file of the request is on top of the reversed draft in turn.
InfalliblePop ==
    \A t \in Tasks : At(t, "check") /\ Uploaded(Draft(t).files) =>
        OnTop(Draft(t).files, task[t].req, Len(task[t].req))

\* web/components/orders/OrderCard.tsx:34, "The unique number identifying the
\* order": two orders of the same day do not show the same number.
OrderNumbersDistinct ==
    \A a, b \in orders : a # b => OrderNumberOf(a.seq) # OrderNumberOf(b.seq)
=============================================================================
