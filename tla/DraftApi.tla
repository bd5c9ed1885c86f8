------------------------------ MODULE DraftApi ------------------------------
(***************************************************************************)
(* What the server promises to one user who is ordering: the handlers of   *)
(* app/src/routes/orders.rs on drafts, the bucket that takes the uploads,  *)
(* the cleaner and the clock.  DraftOrders models the same handlers await  *)
(* by await; this is the side of them the page meets.                      *)
(*                                                                         *)
(* A handler is one step, an operator of a request and its answer: "ok",   *)
(* "no", or "none" when it panics.  The order of a draft is built in two,  *)
(* since the draft is gone before the order is there: the first ends with  *)
(* "built", which is no answer yet.                                        *)
(***************************************************************************)
EXTENDS SequencesExt

CONSTANTS
    None,          \* null, undefined
    Keys,          \* files the user may pick
    MaxFileLimit,  \* MAX_FILE_LIMIT
    Lifetime,      \* the 15 minutes of a draft, in units of the clock
    MaxDrafts,     \* bound on the drafts ever created
    MaxNow         \* bound on the clock

ASSUME ApiAssumption ==
    /\ None \notin Keys
    /\ {MaxFileLimit, Lifetime, MaxDrafts, MaxNow} \subseteq Nat \ {0}

DraftIds == 1..MaxDrafts
Answers  == {"ok", "no", "built", "none"}
NoDraft  == [id |-> 0, born |-> 0, bound |-> <<>>]

VARIABLES
    now,        \* the clock
    draft,      \* the entry of the user in DraftOrderStore.orders, or NoDraft
    lastDraft,  \* drafts up to this one have been created
    stored,     \* files whose object is in the bucket
    orders      \* the drafts from which an order in the database was built

server == <<now, draft, lastDraft, stored, orders>>

ApiInit ==
    /\ now = 0
    /\ draft = NoDraft
    /\ lastDraft = 0
    /\ stored = {}
    /\ orders = {}

Refused(a) == a = "no" /\ UNCHANGED server
-----------------------------------------------------------------------------
\* post_orders: the draft of the user if there is one, a new one otherwise.
Create(r, a) ==
    /\ r.op = "create" /\ a = "ok"
    /\ IF draft = NoDraft
       THEN /\ lastDraft < MaxDrafts
            /\ lastDraft' = lastDraft + 1
            /\ draft' = [id |-> lastDraft', born |-> now, bound |-> <<>>]
       ELSE UNCHANGED <<lastDraft, draft>>
    /\ UNCHANGED <<now, stored, orders>>

\* post_orders_id_files.
Bind(r, a) ==
    /\ r.op = "bind"
    /\ IF draft.id = r.id /\ Len(draft.bound) < MaxFileLimit
       THEN /\ a = "ok"
            /\ draft' = [draft EXCEPT !.bound = Append(@, r.key)]
            /\ UNCHANGED <<now, lastDraft, stored, orders>>
       ELSE Refused(a)

\* The bucket takes the object while the URL lasts.
Put(r, a) ==
    /\ r.op = "put"
    /\ IF now <= r.until
       THEN /\ a = "ok"
            /\ stored' = stored \cup {r.key}
            /\ UNCHANGED <<now, draft, lastDraft, orders>>
       ELSE Refused(a)

\* delete_orders_id_files_id.
Unbind(r, a) ==
    /\ r.op = "remove"
    /\ IF draft.id = r.id /\ r.key \in ToSet(draft.bound)
       THEN /\ a = "ok"
            /\ draft' = [draft EXCEPT !.bound = SelectSeq(@, LAMBDA k : k # r.key)]
            /\ stored' = stored \ {r.key}
            /\ UNCHANGED <<now, lastDraft, orders>>
       ELSE Refused(a)

\* delete_orders_id: whatever draft the user has goes; else the order named,
\* if there is one, is cancelled, a status that nothing here reads (Orders has it).
Discard(r, a) ==
    /\ r.op = "discard"
    /\ \/ /\ draft # NoDraft /\ a = "ok"
          /\ draft' = NoDraft
          /\ UNCHANGED <<now, lastDraft, stored, orders>>
       \/ draft = NoDraft /\ r.id \in orders /\ a = "ok" /\ UNCHANGED server
       \/ draft = NoDraft /\ r.id \notin orders /\ Refused(a)

\* The checks build makes before it takes the files out of the draft.
Acceptable(r) ==
    /\ draft.id = r.id
    /\ r.files # <<>>
    /\ \A i \in DOMAIN r.files :
          r.files[i].key \in ToSet(draft.bound) /\ r.files[i].cfg # "none"
    /\ ToSet(draft.bound) \subseteq stored

\* How many files build pops before it meets one that is not named next.
Popped(bound, listed) ==
    LET agree == {n \in 0..Len(listed) :
                     /\ n <= Len(bound)
                     /\ \A i \in 1..n : bound[i] = listed[i].key}
    IN  CHOOSE n \in agree : \A m \in agree : m <= n

\* post_orders_id_build up to DraftOrderStore::build: the draft is taken out of
\* the store; or the files are not popped in the order the page lists them and
\* the handler panics: there is no answer, and the draft keeps what was not
\* popped, reversed.
Build(r, a) ==
    /\ r.op = "send"
    /\ IF Acceptable(r)
       THEN LET n == Popped(draft.bound, r.files) IN
            IF n = Len(r.files)
            THEN /\ a = "built"
                 /\ draft' = NoDraft
                 /\ UNCHANGED <<now, lastDraft, stored, orders>>
            ELSE /\ a = "none"
                 /\ draft' = [draft EXCEPT !.bound =
                                 Reverse(SubSeq(@, n + 1, Len(@)))]
                 /\ UNCHANGED <<now, lastDraft, stored, orders>>
       ELSE Refused(a)

\* ... and after it: the transaction that inserts the order, or its failure.
Place(r, a) ==
    /\ r.op = "send"
    /\ \/ a = "ok" /\ orders' = orders \cup {r.id}
       \/ a = "no" /\ UNCHANGED orders
    /\ UNCHANGED <<now, draft, lastDraft, stored>>

\* The server, or the bucket, handles a request.
Handle(r, a) ==
    \/ Create(r, a) \/ Bind(r, a) \/ Put(r, a)
    \/ Unbind(r, a) \/ Discard(r, a) \/ Build(r, a)

\* The request with its answer a: the draft and when its 15 minutes end.  A file
\* that is bound is answered with a URL and when that ends; the page uploads to
\* it at once and does nothing else (fileUploadMutation), so the answer is the
\* upload.
Reply(r, a) ==
    CASE a = "ok" /\ r.op = "create" ->
            [r EXCEPT !.answer = a, !.id = draft'.id, !.until = now + Lifetime]
      [] a = "ok" /\ r.op = "bind" ->
            [r EXCEPT !.op = "put", !.until = draft.born + Lifetime]
      [] OTHER -> [r EXCEPT !.answer = a, !.files = <<>>]

\* DraftOrderStore::clear_expired, once a minute.
Expired == draft # NoDraft /\ now > draft.born + Lifetime

ClearExpired ==
    /\ Expired
    /\ draft' = NoDraft
    /\ stored' = stored \ ToSet(draft.bound)
    /\ UNCHANGED <<now, lastDraft, orders>>
=============================================================================
