--------------------------- MODULE OrderPageProofs ---------------------------
(***************************************************************************)
(* Proofs about module OrderPage, for any files, any bounds on them, on    *)
(* the drafts, the clock and the requests under way.                       *)
(*                                                                         *)
(* Four properties of what the page shows hold together only: the page     *)
(* shows what it saved, so that a reload finds it again; what it saved is  *)
(* uploaded, so that a reload may go on at any stage; and the guards and   *)
(* the button look at the same files.  The inductive invariant also says   *)
(* which requests find the page when they are answered.  What the page     *)
(* forgets rests on a second one, about the names of drafts.               *)
(***************************************************************************)
EXTENDS OrderPage, SequenceTheorems, FiniteSetTheorems, TLAPS

-----------------------------------------------------------------------------
(* Filter and Uploaded.                                                    *)

\* A function on 1..n is a sequence.
LEMMA FunctionIsSeq ==
    ASSUME NEW S, NEW n \in Nat, NEW f \in [1..n -> S]
    PROVE  f \in Seq(S) /\ Len(f) = n /\ DOMAIN f = 1..n
<1>1. f \in Seq(S)
  BY SeqDef
<1>2. DOMAIN f = 1..n /\ DOMAIN f = 1..Len(f) /\ Len(f) \in Nat
  BY <1>1, LenProperties
<1> QED BY <1>1, <1>2

\* Counting from one.
LEMMA CountTo ==
    ASSUME NEW n \in Nat
    PROVE  IsFiniteSet(1..n) /\ Cardinality(1..n) = n
<1>1. 1 \in Int /\ n \in Int /\ (1 > n => n = 0) /\ n - 1 + 1 = n
  OBVIOUS
<1>2. IsFiniteSet(1..n) /\ Cardinality(1..n) = IF 1 > n THEN 0 ELSE n - 1 + 1
  BY <1>1, FS_Interval
<1> QED BY <1>1, <1>2

\* The places of a sequence are finitely many.
LEMMA PlacesFinite ==
    ASSUME NEW S, NEW fs \in Seq(S), NEW places \in SUBSET DOMAIN fs
    PROVE  /\ IsFiniteSet(places)
           /\ Cardinality(places) \in 0..Len(fs)
<1>1. DOMAIN fs = 1..Len(fs) /\ Len(fs) \in Nat
  BY LenProperties
<1>2. IsFiniteSet(1..Len(fs)) /\ Cardinality(1..Len(fs)) = Len(fs)
  BY <1>1, CountTo
<1>3. IsFiniteSet(places) /\ Cardinality(places) <= Len(fs)
  BY <1>1, <1>2, FS_Subset
<1> QED BY <1>3, FS_CardinalityType

\* The n-th of a finite set of numbers is one of them.
LEMMA NthExists ==
    ASSUME NEW P \in SUBSET Int, IsFiniteSet(P), NEW n \in 1..Cardinality(P)
    PROVE  \E i \in P : Cardinality({j \in P : j <= i}) = n
<1> DEFINE upTo(i) == {j \in P : j <= i}
           rank    == [i \in P |-> Cardinality(upTo(i))]
<1>1. \A i \in P : IsFiniteSet(upTo(i)) /\ Cardinality(upTo(i)) \in 1..Cardinality(P)
  <2> TAKE i \in P
  <2>1. upTo(i) \in SUBSET P /\ upTo(i) # {}
    OBVIOUS
  <2>2. IsFiniteSet(upTo(i)) /\ Cardinality(upTo(i)) <= Cardinality(P)
    BY <2>1, FS_Subset
  <2>3. Cardinality(upTo(i)) \in Nat /\ Cardinality(upTo(i)) # 0
    BY <2>1, <2>2, FS_CardinalityType, FS_EmptySet
  <2>4. Cardinality(P) \in Nat
    BY FS_CardinalityType
  <2> QED BY <2>2, <2>3, <2>4
<1>2. \A i, k \in P : i < k => Cardinality(upTo(i)) < Cardinality(upTo(k))
  <2> TAKE i, k \in P
  <2> HAVE i < k
  <2>0. i \in Int /\ k \in Int /\ i < k
    OBVIOUS
  <2>a. ASSUME NEW j \in upTo(i) PROVE j \in upTo(k)
    <3>1. j \in P /\ j \in Int /\ j <= i
      OBVIOUS
    <3>2. j <= k
      BY <2>0, <3>1
    <3> QED BY <3>1, <3>2
  <2>b. k \in upTo(k) /\ k \notin upTo(i)
    BY <2>0
  <2>1. upTo(i) \in SUBSET upTo(k) /\ k \in upTo(k) /\ k \notin upTo(i)
    BY <2>a, <2>b
  <2>2. Cardinality(upTo(i)) <= Cardinality(upTo(k))
        /\ Cardinality(upTo(k)) # Cardinality(upTo(i))
    BY <1>1, <2>1, FS_Subset
  <2> QED BY <1>1, <2>2
<1> HIDE DEF upTo
<1>3. rank \in Injection(P, 1..Cardinality(P))
  BY <1>1, <1>2 DEF Injection, IsInjective
<1>4. Cardinality(P) \in Nat
  BY FS_CardinalityType
<1>5. IsFiniteSet(1..Cardinality(P)) /\ Cardinality(1..Cardinality(P)) = Cardinality(P)
  BY <1>4, CountTo
<1>6. rank \in Surjection(P, 1..Cardinality(P))
  BY <1>3, <1>5, FS_Injection
<1> QED BY <1>6 DEF Surjection, upTo

\* Filter returns a sequence no longer than the files, and each of its files
\* stands at one of the places.
LEMMA FilterProperties ==
    ASSUME NEW S, NEW fs \in Seq(S), NEW places \in SUBSET DOMAIN fs
    PROVE  /\ Filter(fs, places) \in Seq(S)
           /\ Len(Filter(fs, places)) <= Len(fs)
           /\ \A n \in DOMAIN Filter(fs, places) :
                 \E i \in places : Filter(fs, places)[n] = fs[i]
<1> DEFINE N == Cardinality(places)
           nth(n) == CHOOSE i \in places : Cardinality({j \in places : j <= i}) = n
           kept == [n \in 1..N |-> fs[nth(n)]]
<1>1. IsFiniteSet(places) /\ N \in 0..Len(fs) /\ DOMAIN fs = 1..Len(fs) /\ Len(fs) \in Nat
  BY PlacesFinite, LenProperties
<1>2. ASSUME NEW n \in 1..N PROVE nth(n) \in places
  <2>1. places \in SUBSET Int
    BY <1>1
  <2>2. \E i \in places : Cardinality({j \in places : j <= i}) = n
    BY <1>1, <2>1, NthExists
  <2> QED BY <2>2
<1> HIDE DEF nth, N
<1>3. \A n \in 1..N : fs[nth(n)] \in S
  BY <1>1, <1>2, ElementOfSeq
<1>4. kept \in [1..N -> S] /\ N \in Nat
  BY <1>1, <1>3
<1>5. kept \in Seq(S) /\ Len(kept) = N /\ DOMAIN kept = 1..N
  BY <1>4, FunctionIsSeq
<1>6. Filter(fs, places) = kept
  BY DEF Filter, N, nth
<1> QED BY <1>1, <1>2, <1>5, <1>6

\* A filter that keeps everything changes nothing.
LEMMA FilterAll ==
    ASSUME NEW S, NEW fs \in Seq(S)
    PROVE  Filter(fs, DOMAIN fs) = fs
<1>1. DOMAIN fs = 1..Len(fs) /\ Len(fs) \in Nat
  BY LenProperties
<1>2. \A i \in 1..Len(fs) : Cardinality({j \in 1..Len(fs) : j <= i}) = i
  <2> TAKE i \in 1..Len(fs)
  <2>1. {j \in 1..Len(fs) : j <= i} = 1..i
    BY <1>1
  <2>2. i \in Nat
    BY <1>1
  <2> QED BY <2>1, <2>2, CountTo
<1>3. Cardinality(1..Len(fs)) = Len(fs)
  BY <1>1, CountTo
<1> DEFINE nth(n) == CHOOSE i \in 1..Len(fs) : Cardinality({j \in 1..Len(fs) : j <= i}) = n
<1>4. \A n \in 1..Len(fs) : nth(n) = n
  BY <1>2
<1>5. Filter(fs, 1..Len(fs)) = [n \in 1..Cardinality(1..Len(fs)) |-> fs[nth(n)]]
  BY DEF Filter
<1> HIDE DEF nth
<1>6. [n \in 1..Len(fs) |-> fs[nth(n)]] = [n \in 1..Len(fs) |-> fs[n]]
  BY <1>4
<1>7. [n \in 1..Len(fs) |-> fs[n]] = fs
  BY <1>1
<1> QED BY <1>1, <1>3, <1>5, <1>6, <1>7

\* What is saved of the files is uploaded; when all are, they all are saved.
LEMMA UploadedProperties ==
    ASSUME NEW fs \in Seq(DraftFile)
    PROVE  /\ Uploaded(fs) \in Seq(DraftFile)
           /\ Len(Uploaded(fs)) <= Len(fs)
           /\ All(Uploaded(fs), LAMBDA f : f.up)
           /\ All(fs, LAMBDA f : f.up) => Uploaded(fs) = fs
<1>1. {i \in DOMAIN fs : fs[i].up} \in SUBSET DOMAIN fs
  OBVIOUS
<1>2. All(Uploaded(fs), LAMBDA f : f.up)
  BY <1>1, FilterProperties DEF Uploaded, All
<1>3. ASSUME All(fs, LAMBDA f : f.up) PROVE Uploaded(fs) = fs
  <2>1. {i \in DOMAIN fs : fs[i].up} = DOMAIN fs
    BY <1>3 DEF All
  <2> QED BY <2>1, FilterAll DEF Uploaded
<1> QED BY <1>1, <1>2, <1>3, FilterProperties DEF Uploaded
-----------------------------------------------------------------------------
(* The inductive invariant.                                                *)

Past  == {"configure", "review"}
Files == {fs \in Seq(DraftFile) : Len(fs) <= MaxFileLimit}

AllUp(fs)   == \A i \in DOMAIN fs : fs[i].up
AllSet(fs)  == \A i \in DOMAIN fs : fs[i].cfg # "none"
AllGood(fs) == \A i \in DOMAIN fs : fs[i].cfg = "good"

Dialogs == {None, "send", "discard", "timeout", "limit"}

Storage == [stage : Stages \cup {None}, id : DraftIds \cup {None},
            expiry : 0..(MaxNow + Lifetime), data : Files \cup {None}]

\* The drafts of the server have the ids that were given out.
ServerInv ==
    /\ now \in 0..MaxNow
    /\ lastDraft \in 0..MaxDrafts
    /\ draft = NoDraft \/ draft.id \in DraftIds
    /\ draft = [id |-> draft.id, born |-> draft.born, bound |-> draft.bound]

PageTypes ==
    /\ at \in Stages \cup {"away"}
    /\ nav \in {None, "away", "upload", "configure"}
    /\ files \in Files \cup {None}
    /\ ready \in BOOLEAN
    /\ dialog \in Dialogs
    /\ storage \in Storage

\* What is stored is of the stage that is shown, names a draft past the upload,
\* and is uploaded.
StorageInv ==
    /\ ~Mounted => files = None
    /\ Mounted /\ storage.stage # None => storage.stage = at
    /\ storage.stage \in Past => storage.id # None
    /\ storage.data # None => AllUp(storage.data)

\* What is shown is what is stored, and fits the stage.
ShownInv ==
    files # None =>
        /\ storage.stage \in Past => AllUp(files)
        /\ storage.stage = "review" /\ nav = None => files # <<>> /\ AllSet(files)
        /\ storage.stage = "configure" /\ ready => AllGood(files)
        /\ storage.data # None => storage.data = Uploaded(files)

PageInv == PageTypes /\ StorageInv /\ ShownInv

\* A request whose answer the page still takes was made by the page that is
\* there, and if it removes a file, that page has files.  One for a draft is
\* answered with a draft and its end.
IsRequest(r) == r = [op |-> r.op, id |-> r.id, key |-> r.key, files |-> r.files,
                     by |-> r.by, until |-> r.until, answer |-> r.answer]

RequestOK(r) ==
    /\ IsRequest(r)
    /\ r.op # "create" => r.id \in DraftIds
    /\ r.op = "create" => \/ r.answer = None
                          \/ r.answer = "ok" /\ r.id \in DraftIds
                                            /\ r.until \in 0..(MaxNow + Lifetime)
    /\ r.by = "page" /\ r.op \in {"create", "remove"} => Mounted
    /\ r.by = "page" /\ r.op = "remove" => files # None

RequestInv ==
    /\ IsFiniteSet(requests) /\ Cardinality(requests) <= MaxRequests
    /\ \A r \in requests : RequestOK(r)

Inv == ServerInv /\ PageInv /\ RequestInv

-----------------------------------------------------------------------------
(* Facts about constants and files.                                        *)

LEMMA NoneIsNothing ==
    /\ None \notin Stages \cup {"away"} /\ None \notin DraftIds /\ None \notin Files
    /\ None \notin Answers
    /\ MaxFileLimit \in Nat /\ MaxDrafts \in Nat /\ MaxNow \in Nat /\ Lifetime \in Nat
    /\ MaxRequests \in Nat
BY ApiAssumption, PageAssumption DEF ApiAssumption, PageAssumption, Files

\* What is saved of files is files, all uploaded, and all of them if all are.
LEMMA UploadedFiles ==
    ASSUME NEW fs \in Files
    PROVE  /\ Uploaded(fs) \in Files
           /\ AllUp(Uploaded(fs))
           /\ AllUp(fs) => Uploaded(fs) = fs
<1>1. fs \in Seq(DraftFile) /\ Len(fs) <= MaxFileLimit /\ Len(fs) \in Nat
  BY LenProperties DEF Files
<1>2. /\ Uploaded(fs) \in Seq(DraftFile)
      /\ Len(Uploaded(fs)) <= Len(fs)
      /\ AllUp(Uploaded(fs))
      /\ AllUp(fs) => Uploaded(fs) = fs
  BY <1>1, UploadedProperties DEF AllUp, All
<1>3. Len(Uploaded(fs)) \in Nat
  BY <1>2, LenProperties
<1> QED BY <1>1, <1>2, <1>3, NoneIsNothing DEF Files

LEMMA NoFiles == <<>> \in Files /\ AllUp(<<>>)
<1>1. <<>> \in Seq(DraftFile) /\ Len(<<>>) = 0
  BY EmptySeq
<1>2. DOMAIN <<>> = {}
  OBVIOUS
<1> QED BY <1>1, <1>2, NoneIsNothing DEF Files, AllUp

\* Where the guard sends the user, and what it lets through.
LEMMA GuardProperties ==
    ASSUME NEW stage, NEW fs
    PROVE  /\ Guard(stage, fs) \in {None, "upload", "configure"}
           /\ stage \in Past /\ Guard(stage, fs) = None => fs # <<>> /\ AllUp(fs)
           /\ stage = "review" /\ Guard(stage, fs) = None => AllSet(fs)
BY NoneIsNothing DEF Guard, All, AllUp, AllSet, Past, Stages

\* What makes the button lead on.
LEMMA ReadyProperties ==
    ASSUME NEW stage, NEW fs \in Files, NEW was \in BOOLEAN
    PROVE  /\ Ready(stage, fs, was) \in BOOLEAN
           /\ stage = "configure" /\ AllUp(fs) /\ Ready(stage, fs, was) => AllGood(fs)
<1>1. Ready(stage, fs, was) \in BOOLEAN
  BY DEF Ready, All
<1>2. ASSUME stage = "configure", AllUp(fs), Ready(stage, fs, was) PROVE AllGood(fs)
  <2>1. All(Uploaded(fs), LAMBDA f : f.cfg = "good")
    BY <1>2 DEF Ready
  <2>2. Uploaded(fs) = fs
    BY <1>2, UploadedFiles
  <2> QED BY <2>1, <2>2 DEF All, AllGood
<1> QED BY <1>1, <1>2

LEMMA InitInv == Init => Inv
<1> SUFFICES ASSUME Init PROVE Inv
  OBVIOUS
<1>1. ServerInv
  BY NoneIsNothing DEF Init, ApiInit, ServerInv, NoDraft
<1>2. storage \in Storage /\ storage.stage = None /\ storage.data = None
  BY NoneIsNothing DEF Init, Empty, Storage
<1>3. PageInv
  BY <1>2, NoneIsNothing DEF Init, PageInv, PageTypes, Dialogs, StorageInv, ShownInv, Mounted, Past, Stages
<1>4. RequestInv
  BY FS_EmptySet, NoneIsNothing DEF Init, RequestInv
<1> QED BY <1>1, <1>3, <1>4 DEF Inv
-----------------------------------------------------------------------------
(* The server.                                                             *)

\* A handler that changes the files of a draft found the draft it was asked for.
LEMMA BoundKeeps ==
    ASSUME ServerInv, NEW r, r.id \in DraftIds, draft.id = r.id,
           NEW b, draft' = [draft EXCEPT !.bound = b], UNCHANGED <<now, lastDraft>>
    PROVE  ServerInv'
<1>1. draft' = [id |-> draft.id, born |-> draft.born, bound |-> b]
  BY DEF ServerInv
<1> QED BY <1>1 DEF ServerInv

LEMMA HandleKeeps ==
    ASSUME ServerInv, NEW r, NEW a, Handle(r, a) \/ Place(r, a),
           r.op # "create" => r.id \in DraftIds
    PROVE  ServerInv'
<1>0. ASSUME UNCHANGED <<now, lastDraft>>, UNCHANGED draft \/ draft' = NoDraft
      PROVE  ServerInv'
  BY <1>0 DEF ServerInv, NoDraft
<1>1. CASE Create(r, a)
  BY <1>1, NoneIsNothing DEF ServerInv, Create, DraftIds
<1>2. CASE Bind(r, a)
  BY <1>0, <1>2, BoundKeeps DEF Bind, Refused, server
<1>3. CASE Put(r, a)
  BY <1>0, <1>3 DEF Put, Refused, server
<1>4. CASE Unbind(r, a)
  BY <1>0, <1>4, BoundKeeps DEF Unbind, Refused, server
<1>5. CASE Discard(r, a)
  BY <1>0, <1>5 DEF Discard, Refused, server
<1>6. CASE Build(r, a)
  <2>1. \/ UNCHANGED draft \/ draft' = NoDraft
        \/ draft.id = r.id /\ \E b : draft' = [draft EXCEPT !.bound = b]
    BY <1>6 DEF Build, Acceptable, Refused, server
  <2>2. UNCHANGED <<now, lastDraft>>
    BY <1>6 DEF Build, Refused, server
  <2> QED BY <1>0, <1>6, <2>1, <2>2, BoundKeeps DEF Build
<1>7. CASE Place(r, a)
  BY <1>0, <1>7 DEF Place
<1> QED BY <1>1, <1>2, <1>3, <1>4, <1>5, <1>6, <1>7 DEF Handle

LEMMA ClearKeeps == ServerInv /\ ClearExpired => ServerInv'
BY DEF ServerInv, ClearExpired, NoDraft

\* A request for a draft is answered, and with a draft.
LEMMA CreateAnswers ==
    ASSUME ServerInv, NEW r, NEW a, Handle(r, a), r.op = "create"
    PROVE  a = "ok" /\ draft'.id \in DraftIds
<1>1. Create(r, a)
  BY DEF Handle, Create, Bind, Put, Unbind, Discard, Build
<1>2. CASE draft = NoDraft
  BY <1>1, <1>2, NoneIsNothing DEF ServerInv, Create, DraftIds
<1>3. CASE draft # NoDraft
  BY <1>1, <1>3 DEF Create, ServerInv
<1> QED BY <1>1, <1>2, <1>3 DEF Create

\* What an answer says of its request.
LEMMA ReplyProperties ==
    ASSUME NEW r, IsRequest(r), NEW a
    PROVE  LET q == Reply(r, a) IN
           /\ IsRequest(q) /\ q.by = r.by
           /\ IF r.op = "bind" /\ a = "ok"
              THEN q.op = "put" /\ q.answer = r.answer
              ELSE q.op = r.op /\ q.answer = a
           /\ IF r.op = "create" /\ a = "ok"
              THEN q.id = draft'.id /\ q.until = now + Lifetime
              ELSE q.id = r.id
<1>1. PICK o, i, k, f, b, t, w :
         r = [op |-> o, id |-> i, key |-> k, files |-> f, by |-> b, until |-> t,
              answer |-> w]
  BY Zenon DEF IsRequest
<1>2. PICK id, born, end : id = draft'.id /\ born = draft.born + Lifetime /\ end = now + Lifetime
  OBVIOUS
<1>3. CASE r.op = "create" /\ a = "ok"
  <2>1. Reply(r, a) = [r EXCEPT !.answer = a, !.id = id, !.until = end]
    BY <1>2, <1>3 DEF Reply
  <2>2. Reply(r, a) = [op |-> o, id |-> id, key |-> k, files |-> f, by |-> b, until |-> end,
                       answer |-> a]
    BY <1>1, <2>1
  <2> QED BY <1>1, <1>2, <1>3, <2>2 DEF IsRequest
<1>4. CASE r.op = "bind" /\ a = "ok"
  <2>1. Reply(r, a) = [r EXCEPT !.op = "put", !.until = born]
    BY <1>2, <1>4 DEF Reply
  <2>2. Reply(r, a) = [op |-> "put", id |-> i, key |-> k, files |-> f, by |-> b,
                       until |-> born, answer |-> w]
    BY <1>1, <2>1
  <2> QED BY <1>1, <1>4, <2>2 DEF IsRequest
<1>5. CASE ~(a = "ok" /\ r.op = "create") /\ ~(a = "ok" /\ r.op = "bind")
  <2>1. Reply(r, a) = [r EXCEPT !.answer = a, !.files = <<>>]
    BY <1>5 DEF Reply
  <2>2. Reply(r, a) = [op |-> o, id |-> i, key |-> k, files |-> <<>>, by |-> b, until |-> t,
                       answer |-> a]
    BY <1>1, <2>1
  <2> QED BY <1>1, <1>5, <2>2 DEF IsRequest
<1> QED BY <1>3, <1>4, <1>5
-----------------------------------------------------------------------------
(* The page.                                                               *)

\* New files on the page that is there.
LEMMA SetFilesKeeps ==
    ASSUME PageInv, Mounted, UNCHANGED at, dialog' \in Dialogs,
           NEW fs \in Files, NEW was \in BOOLEAN, NEW store \in Storage,
           SetFiles(fs, was, store),
           store.stage = storage.stage,
           store.stage \in Past => store.id # None /\ AllUp(fs)
    PROVE  PageInv'
<1> DEFINE back == IF store.id = None THEN None ELSE Guard(store.stage, fs)
<1>1. /\ files' = fs
      /\ ready' = Ready(store.stage, fs, was)
      /\ storage' = [store EXCEPT !.data = Uploaded(fs)]
      /\ nav' = IF back = None THEN nav ELSE back
  BY DEF SetFiles
<1>2. /\ storage' \in Storage
      /\ storage'.stage = store.stage /\ storage'.id = store.id
      /\ storage'.data = Uploaded(fs)
  <2>1. Uploaded(fs) \in Files
    BY UploadedFiles
  <2> QED BY <1>1, <2>1 DEF Storage
<1>3. /\ nav' \in {None, "away", "upload", "configure"}
      /\ store.stage \in Past /\ nav' = None => Guard(store.stage, fs) = None
  BY <1>1, GuardProperties DEF PageInv, PageTypes
<1>4. /\ ready' \in BOOLEAN
      /\ store.stage = "configure" /\ AllUp(fs) /\ ready' => AllGood(fs)
  BY <1>1, ReadyProperties
<1>5. PageTypes'
  BY <1>1, <1>2, <1>3, <1>4 DEF PageInv, PageTypes
<1>6. StorageInv'
  BY <1>2, UploadedFiles DEF PageInv, StorageInv, Mounted
<1>7. ShownInv'
  BY <1>1, <1>2, <1>3, <1>4, GuardProperties DEF ShownInv, Past
<1> QED BY <1>5, <1>6, <1>7 DEF PageInv

\* A request that is made finds the page when it is answered.
LEMMA AskKeeps ==
    ASSUME NEW reqs, IsFiniteSet(reqs), \A r \in reqs : RequestOK(r)',
           NEW op, NEW id, NEW key, NEW body, Ask(reqs, op, id, key, body),
           op # "create" => id \in DraftIds,
           op \in {"create", "remove"} => Mounted',
           op = "remove" => files' # None
    PROVE  RequestInv'
<1> DEFINE new == [op |-> op, id |-> id, key |-> key, files |-> body,
                   by |-> "page", until |-> 0, answer |-> None]
<1>1. requests' = reqs \cup {new} /\ Cardinality(reqs) < MaxRequests
  BY DEF Ask
<1>2. RequestOK(new)'
  BY DEF RequestOK, IsRequest
<1> HIDE DEF new
<1>3. Cardinality(reqs) \in Nat
  BY FS_CardinalityType
<1>4. /\ IsFiniteSet(reqs \cup {new})
      /\ Cardinality(reqs \cup {new}) = IF new \in reqs THEN Cardinality(reqs)
                                        ELSE Cardinality(reqs) + 1
  BY FS_AddElement
<1>5. IsFiniteSet(requests)' /\ (Cardinality(requests) <= MaxRequests)'
  BY <1>1, <1>3, <1>4, NoneIsNothing
<1> QED BY <1>1, <1>2, <1>5 DEF RequestInv

\* A request stays in order while the page stays.
LEMMA RequestsStay ==
    ASSUME NEW r, RequestOK(r), Mounted => Mounted', files # None => files' # None
    PROVE  RequestOK(r)'
BY DEF RequestOK, IsRequest

\* Fewer requests, the page being there as before.
LEMMA FewerRequests ==
    ASSUME RequestInv, requests' \subseteq requests,
           Mounted => Mounted', files # None => files' # None
    PROVE  RequestInv'
<1>1. IsFiniteSet(requests) /\ Cardinality(requests) \in Nat
  BY FS_CardinalityType DEF RequestInv
<1>2. IsFiniteSet(requests') /\ Cardinality(requests') <= Cardinality(requests)
  BY <1>1, FS_Subset
<1>3. Cardinality(requests') \in Nat
  BY <1>2, FS_CardinalityType
<1>4. \A r \in requests' : RequestOK(r)'
  BY RequestsStay DEF RequestInv
<1> QED BY <1>1, <1>2, <1>3, <1>4, NoneIsNothing DEF RequestInv

\* The draft in the local storage, or an empty page.
LEMMA EnterKeeps ==
    ASSUME PageInv, RequestInv, NEW stage \in Stages, at' = stage, dialog' \in Dialogs,
           NEW fs \in Files \cup {None}, NEW was \in BOOLEAN, NEW reqs,
           (fs = files /\ reqs = requests) \/ reqs = {},
           Enter(stage, fs, was, reqs)
    PROVE  PageInv' /\ RequestInv'
<1>1. Mounted' /\ stage \in {"upload"} \cup Past
  BY DEF Stages, Mounted, Past
<1>2. IsFiniteSet(reqs) /\ reqs \subseteq requests
  BY FS_EmptySet DEF RequestInv
<1>3. CASE Building /\ files' = storage.data
  <2>1. /\ ready' = Ready(stage, storage.data, was)
        /\ storage' = [storage EXCEPT !.stage = stage]
        /\ nav' = Guard(stage, storage.data)
        /\ requests' = reqs
    BY <1>3 DEF Enter, Building
  <2>2. storage.data \in Files /\ AllUp(storage.data) /\ storage.id # None
    BY <1>3 DEF Building, PageInv, PageTypes, StorageInv, Storage
  <2>3. /\ storage' \in Storage /\ storage'.stage = stage
        /\ storage'.id = storage.id /\ storage'.data = storage.data
    BY <2>1 DEF PageInv, PageTypes, Storage
  <2>4. PageTypes'
    BY <1>3, <2>1, <2>2, <2>3, GuardProperties, ReadyProperties DEF PageTypes
  <2>5. StorageInv'
    BY <1>1, <2>2, <2>3 DEF StorageInv
  <2>6. ShownInv'
    BY <1>3, <2>1, <2>2, <2>3, GuardProperties, ReadyProperties, UploadedFiles
       DEF ShownInv, Past
  <2>7. RequestInv'
    BY <1>1, <1>2, <1>3, <2>1, <2>2, FewerRequests, NoneIsNothing
  <2> QED BY <2>4, <2>5, <2>6, <2>7 DEF PageInv
<1>4. CASE ~Building /\ stage = "upload"
  <2>1. /\ storage' = [Empty EXCEPT !.stage = stage]
        /\ Ask(reqs, "create", None, None, <<>>)
        /\ nav' = None /\ files' = fs /\ ready' = was
    BY <1>4 DEF Enter
  <2>2. storage' \in Storage /\ storage'.stage = "upload" /\ storage'.data = None
    BY <1>4, <2>1, NoneIsNothing DEF Storage, Empty, Stages
  <2>3. PageInv'
    BY <1>1, <2>1, <2>2 DEF PageInv, PageTypes, StorageInv, ShownInv, Past
  <2>4. \A r \in reqs : RequestOK(r)'
    BY <1>1, <1>2, <2>1, RequestsStay DEF RequestInv
  <2>5. RequestInv'
    BY <1>1, <1>2, <2>1, <2>4, AskKeeps
  <2> QED BY <2>3, <2>5
<1>5. CASE ~Building /\ stage # "upload"
  <2>1. storage' = Empty /\ nav' = "away" /\ files' = fs /\ ready' = was /\ requests' = reqs
    BY <1>5 DEF Enter
  <2>2. storage' \in Storage /\ storage'.stage = None /\ storage'.data = None
    BY <2>1, NoneIsNothing DEF Storage, Empty
  <2>3. PageInv'
    BY <1>1, <2>1, <2>2, NoneIsNothing
       DEF PageInv, PageTypes, StorageInv, ShownInv, Past, Stages
  <2>4. RequestInv'
    BY <1>1, <1>2, <2>1, FewerRequests, FS_EmptySet, NoneIsNothing DEF RequestInv
  <2> QED BY <2>3, <2>4
<1> QED BY <1>3, <1>4, <1>5 DEF Enter

\* The page goes, and what its answers would have set with it.
LEMMA LeaveKeeps ==
    ASSUME PageInv, RequestInv, at' = "away", UNCHANGED dialog, Leave
    PROVE  PageInv' /\ RequestInv'
<1> DEFINE left(r) == IF r.op \in {"bind", "put", "discard"} THEN r
                      ELSE [r EXCEPT !.by = "left"]
           marked  == {left(r) : r \in requests}
           lefts   == [r \in requests |-> left(r)]
<1>1. /\ files' = None /\ ready' = FALSE /\ nav' = None
      /\ storage' = storage \/ storage' = Empty
      /\ requests' \subseteq marked
  BY DEF Leave, Heeded
<1>2. storage' \in Storage
  BY <1>1, NoneIsNothing DEF PageInv, PageTypes, Storage, Empty
<1>3. PageInv'
  <2>1. PageTypes'
    BY <1>1, <1>2 DEF PageInv, PageTypes
  <2>2. StorageInv'
    BY <1>1, NoneIsNothing DEF PageInv, StorageInv, Mounted, Empty, Past, Stages
  <2> QED BY <1>1, <2>1, <2>2 DEF PageInv, ShownInv
<1>4. \A r \in requests : RequestOK(left(r))'
  BY DEF RequestInv, RequestOK, IsRequest
<1>5. lefts \in Surjection(requests, marked)
  BY DEF Surjection
<1>a. IsFiniteSet(marked) /\ Cardinality(marked) <= Cardinality(requests)
  BY <1>5, FS_Surjection DEF RequestInv
<1> HIDE DEF marked
<1>6. IsFiniteSet(requests') /\ Cardinality(requests') <= Cardinality(marked)
  BY <1>1, <1>a, FS_Subset
<1>7. /\ Cardinality(requests') \in Nat /\ Cardinality(requests) \in Nat
      /\ Cardinality(requests') <= Cardinality(requests)
  BY <1>a, <1>6, FS_CardinalityType DEF RequestInv
<1> USE DEF marked
<1> HIDE DEF left
<1>8. RequestInv'
  BY <1>1, <1>4, <1>6, <1>7, NoneIsNothing DEF RequestInv
<1> QED BY <1>3, <1>8

\* Going to s; a push to the stage that is shown was one that the code made.
LEMMA GoKeeps ==
    ASSUME PageInv, RequestInv, NEW s \in Stages \cup {"away"}, Go(s),
           s # at \/ s = nav
    PROVE  PageInv' /\ RequestInv' /\ UNCHANGED server
<1>0. UNCHANGED server /\ at' = s
  BY DEF Go
<1>1. CASE s = at
  <2>1. nav' = None /\ UNCHANGED <<at, files, ready, dialog, storage, requests>>
    BY <1>0, <1>1 DEF Go
  <2>2. files # None /\ storage.stage # None => storage.stage = nav
    BY <1>1 DEF PageInv, StorageInv
  <2>3. PageInv'
    BY <2>1, <2>2, NoneIsNothing
       DEF PageInv, PageTypes, StorageInv, ShownInv, Mounted, Stages
  <2>4. RequestInv'
    BY <2>1, FewerRequests DEF Mounted
  <2> QED BY <1>0, <2>3, <2>4
<1>2. CASE s # at /\ s # "away"
  <2>1. Enter(s, files, ready, requests) /\ UNCHANGED dialog
    BY <1>2 DEF Go
  <2>2. /\ s \in Stages /\ dialog' \in Dialogs
        /\ files \in Files \cup {None} /\ ready \in BOOLEAN
    BY <1>2, <2>1 DEF PageInv, PageTypes
  <2> QED BY <1>0, <2>1, <2>2, EnterKeeps
<1>3. CASE s # at /\ s = "away"
  BY <1>0, <1>3, LeaveKeeps DEF Go
<1> QED BY <1>1, <1>2, <1>3

LEMMA RoutingKeeps ==
    ASSUME PageInv, RequestInv, OpenFromGlance \/ NextStage \/ Browse \/ Reload \/ Arrive
    PROVE  PageInv' /\ RequestInv' /\ UNCHANGED server
<1>1. CASE OpenFromGlance
  BY <1>1, GoKeeps DEF OpenFromGlance, Stages
<1>2. CASE NextStage
  BY <1>2, GoKeeps, NoneIsNothing
     DEF NextStage, Showing, Idle, PageInv, StorageInv, Stages
<1>3. CASE Browse
  <2>1. PICK s \in (Stages \cup {"away"}) \ {at} : Go(s)
    BY <1>3 DEF Browse
  <2> QED BY <2>1, GoKeeps
<1>4. CASE Reload
  <2>1. PICK s \in Stages : at' = s /\ Enter(s, None, FALSE, {})
    BY <1>4 DEF Reload, Mounted, PageInv, PageTypes
  <2>2. dialog' \in Dialogs /\ UNCHANGED server
    BY <1>4 DEF Reload, Dialogs
  <2> QED BY <2>1, <2>2, EnterKeeps
<1>5. CASE Arrive
  <2>1. nav \in Stages \cup {"away"} /\ Go(nav)
    BY <1>5 DEF Arrive, PageInv, PageTypes, Stages
  <2> QED BY <2>1, GoKeeps
<1> QED BY <1>1, <1>2, <1>3, <1>4, <1>5
-----------------------------------------------------------------------------
(* The stages and the dialogs.                                             *)

\* What holds when a stage is shown.
LEMMA AtStage ==
    ASSUME PageInv, NEW stage \in Stages, Showing(stage)
    PROVE  /\ Mounted /\ at = stage
           /\ files \in Files /\ files # None
           /\ storage \in Storage /\ storage.id \in DraftIds
           /\ ready \in BOOLEAN /\ dialog \in Dialogs
BY DEF Showing, Idle, Loading, PageInv, PageTypes, StorageInv, Storage

LEMMA DropKeeps ==
    ASSUME PageInv, RequestInv, NEW k \in Keys, Drop(k)
    PROVE  PageInv' /\ RequestInv' /\ UNCHANGED server
<1> DEFINE f  == [key |-> k, up |-> FALSE, cfg |-> "none"]
           fs == Append(files, f)
<1>1. /\ Showing("upload") /\ Len(files) < MaxFileLimit
      /\ SetFiles(fs, FALSE, storage)
      /\ Ask(requests, "bind", storage.id, k, <<>>)
      /\ UNCHANGED server /\ UNCHANGED <<at, dialog>>
  BY DEF Drop, Edit
<1>2. /\ Mounted /\ files \in Files /\ files # None /\ storage \in Storage
      /\ storage.id \in DraftIds /\ dialog \in Dialogs
  BY <1>1, AtStage DEF Stages
<1>3. f \in DraftFile
  BY PageAssumption DEF PageAssumption, DraftFile
<1>4. fs \in Files
  <2>1. files \in Seq(DraftFile) /\ Len(files) \in Nat
    BY <1>2, LenProperties DEF Files
  <2> HIDE DEF f
  <2>2. fs \in Seq(DraftFile) /\ Len(fs) = Len(files) + 1
    BY <1>3, <2>1
  <2> QED BY <1>1, <2>1, <2>2, NoneIsNothing DEF Files
<1>5. storage.stage \notin Past
  BY <1>1 DEF Showing, Past
<1> HIDE DEF fs
<1>6. PageInv'
  BY <1>1, <1>2, <1>4, <1>5, SetFilesKeeps
<1>7. files' # None /\ Mounted'
  BY <1>1, <1>2, <1>4, NoneIsNothing DEF SetFiles, Mounted
<1>8. RequestInv'
  BY <1>1, <1>2, <1>7, AskKeeps, RequestsStay DEF RequestInv
<1> QED BY <1>1, <1>6, <1>8

LEMMA DeleteKeeps ==
    ASSUME PageInv, RequestInv, NEW k \in Keys, Delete(k)
    PROVE  PageInv' /\ RequestInv' /\ UNCHANGED server
<1>1. /\ Showing("upload") /\ ready' = FALSE
      /\ Ask(requests, "remove", storage.id, k, <<>>)
      /\ UNCHANGED server /\ UNCHANGED <<at, dialog, nav, files, storage>>
  BY DEF Delete, Edit
<1>2. Mounted /\ files # None /\ storage.id \in DraftIds
  BY <1>1, AtStage DEF Stages
<1>3. PageInv'
  BY <1>1 DEF PageInv, PageTypes, StorageInv, ShownInv, Mounted
<1>4. RequestInv'
  BY <1>1, <1>2, AskKeeps, RequestsStay DEF RequestInv, Mounted
<1> QED BY <1>1, <1>3, <1>4

LEMMA ConfigureKeeps ==
    ASSUME PageInv, RequestInv, NEW i, NEW c \in Configs, Configure(i, c)
    PROVE  PageInv' /\ RequestInv' /\ UNCHANGED server
<1> DEFINE fs == [files EXCEPT ![i].cfg = c]
<1>1. /\ Showing("configure") /\ i \in DOMAIN files
      /\ SetFiles(fs, ready, storage)
      /\ UNCHANGED requests /\ UNCHANGED server /\ UNCHANGED <<at, dialog>>
  BY DEF Configure, Edit
<1>2. /\ Mounted /\ files \in Files /\ files # None /\ storage \in Storage
      /\ storage.id \in DraftIds /\ dialog \in Dialogs /\ ready \in BOOLEAN
      /\ AllUp(files)
  BY <1>1, AtStage DEF Stages, Past, PageInv, ShownInv, Showing
<1>3. files \in Seq(DraftFile) /\ Len(files) \in Nat /\ DOMAIN files = 1..Len(files)
  BY <1>2, LenProperties DEF Files
<1>4. [files[i] EXCEPT !.cfg = c] \in DraftFile /\ [files[i] EXCEPT !.cfg = c].up
  <2>1. files[i] \in DraftFile
    BY <1>1, <1>3, ElementOfSeq
  <2>2. files[i].up
    BY <1>1, <1>2 DEF AllUp
  <2> QED BY <2>1, <2>2 DEF DraftFile
<1>5. fs = [files EXCEPT ![i] = [files[i] EXCEPT !.cfg = c]]
  BY <1>1, <1>3
<1>6. fs \in Seq(DraftFile) /\ Len(fs) = Len(files)
  BY <1>1, <1>3, <1>4, <1>5, ExceptSeq
<1>7. fs \in Files /\ AllUp(fs)
  BY <1>1, <1>2, <1>3, <1>4, <1>5, <1>6 DEF Files, AllUp
<1> HIDE DEF fs
<1>8. PageInv'
  BY <1>1, <1>2, <1>7, SetFilesKeeps, NoneIsNothing
<1>9. RequestInv'
  BY <1>1, <1>2, <1>7, FewerRequests, NoneIsNothing DEF SetFiles, Mounted
<1> QED BY <1>1, <1>8, <1>9

\* Dialogs come and go without touching the page or the requests.
LEMMA DialogKeeps ==
    ASSUME PageInv, RequestInv,
           DropTooMany \/ OpenSend \/ OpenDiscard \/ Nevermind \/ Timeout
    PROVE  PageInv' /\ RequestInv' /\ UNCHANGED server
<1>1. /\ dialog' \in Dialogs
      /\ UNCHANGED <<at, nav, files, ready, storage>> /\ UNCHANGED <<server, requests>>
  BY DEF DropTooMany, OpenSend, OpenDiscard, Nevermind, Timeout, SetDialog, Dialogs
<1>2. PageInv'
  BY <1>1 DEF PageInv, PageTypes, StorageInv, ShownInv, Mounted
<1>3. RequestInv'
  BY <1>1, FewerRequests DEF Mounted
<1> QED BY <1>1, <1>2, <1>3

LEMMA ConfirmKeeps ==
    ASSUME PageInv, RequestInv, ConfirmSend \/ ConfirmDiscard
    PROVE  PageInv' /\ RequestInv' /\ UNCHANGED server
<1>0. PICK kind \in {"send", "discard"} : \E body : Confirm(kind, body)
  BY DEF ConfirmSend, ConfirmDiscard
<1>1. PICK body : Confirm(kind, body)
  BY <1>0
<1>2. /\ storage.id \in DraftIds /\ Ask(requests, kind, storage.id, None, body)
      /\ UNCHANGED server /\ UNCHANGED <<at, nav, files, ready, dialog, storage>>
  BY <1>1 DEF Confirm, page, PageInv, PageTypes, Storage
<1>3. PageInv'
  BY <1>2 DEF PageInv, PageTypes, StorageInv, ShownInv, Mounted
<1>4. RequestInv'
  BY <1>1, <1>2, AskKeeps, RequestsStay DEF RequestInv, Mounted
<1> QED BY <1>2, <1>3, <1>4

\* The draft is forgotten and the files stay on the page that is left.
LEMMA ForgetKeeps ==
    ASSUME PageInv, storage' = Empty, nav' \in {"away", "upload"}, dialog' \in Dialogs,
           UNCHANGED <<at, files, ready>>
    PROVE  PageInv'
<1>1. storage' \in Storage /\ storage'.stage = None /\ storage'.data = None
  BY NoneIsNothing DEF Storage, Empty
<1> QED BY <1>1, NoneIsNothing
        DEF PageInv, PageTypes, StorageInv, ShownInv, Mounted, Past, Stages

LEMMA EndTimeoutKeeps ==
    ASSUME PageInv, RequestInv, BackToGlance \/ StartOver
    PROVE  PageInv' /\ RequestInv' /\ UNCHANGED server
<1>1. PICK to \in {"away", "upload"} : EndTimeout(to)
  BY DEF BackToGlance, StartOver
<1>2. PageInv'
  BY <1>1, ForgetKeeps DEF EndTimeout, Dialogs
<1>3. RequestInv'
  BY <1>1, FewerRequests DEF EndTimeout, Mounted
<1> QED BY <1>1, <1>2, <1>3 DEF EndTimeout
-----------------------------------------------------------------------------
(* Answers.                                                                *)

\* What the page takes of an answer changes no request and not whether the
\* page is there.
PageTakes == PageInv' /\ UNCHANGED at /\ (files # None => files' # None)

LEMMA NothingKeeps == PageInv /\ Nothing /\ UNCHANGED at => PageTakes
BY DEF PageInv, PageTypes, StorageInv, ShownInv, Mounted, Nothing, PageTakes

LEMMA TakeCreateKeeps ==
    ASSUME PageInv, NEW r, RequestOK(r), r.answer \in Answers, TakeCreate(r), UNCHANGED at
    PROVE  PageTakes
<1> DEFINE store == [storage EXCEPT !.id = r.id, !.expiry = r.until]
<1>1. r.id \in DraftIds /\ r.until \in 0..(MaxNow + Lifetime)
  BY NoneIsNothing DEF RequestOK, TakeCreate
<1>2. /\ store \in Storage /\ store.stage = storage.stage /\ store.data = storage.data
      /\ store.id = r.id
  BY <1>1 DEF PageInv, PageTypes, Storage
<1>3. CASE r.by = "page"
  <2>1. SetFiles(<<>>, ready, store) /\ UNCHANGED dialog /\ Mounted
    BY <1>3 DEF TakeCreate, RequestOK
  <2> HIDE DEF store
  <2>2. ready \in BOOLEAN /\ dialog' \in Dialogs
    BY <2>1 DEF PageInv, PageTypes
  <2>3. <<>> \in Files /\ AllUp(<<>>) /\ store.id # None
    BY <1>1, <1>2, NoFiles, NoneIsNothing
  <2>4. PageInv'
    BY <1>2, <2>1, <2>2, <2>3, SetFilesKeeps
  <2>5. files' = <<>>
    BY <2>1 DEF SetFiles
  <2> QED BY <2>3, <2>4, <2>5, NoneIsNothing DEF PageTakes
<1>4. CASE r.by # "page"
  <2>1. storage' = store /\ UNCHANGED <<nav, files, ready, dialog>>
    BY <1>4 DEF TakeCreate
  <2> HIDE DEF store
  <2> QED BY <1>1, <1>2, <2>1, NoneIsNothing
          DEF PageInv, PageTypes, StorageInv, ShownInv, Mounted, PageTakes
<1> QED BY <1>3, <1>4

LEMMA TakePutKeeps ==
    ASSUME PageInv, NEW r, TakePut(r), UNCHANGED at
    PROVE  PageTakes
<1> DEFINE fs == [i \in DOMAIN files |->
                     IF files[i].key = r.key THEN [files[i] EXCEPT !.up = TRUE]
                                             ELSE files[i]]
<1>1. CASE r.answer = "ok" /\ files # None /\ r.key \in KeysOf(files)
  <2>1. SetFiles(fs, ready, storage) /\ UNCHANGED dialog
    BY <1>1 DEF TakePut
  <2>2. /\ Mounted /\ files \in Files /\ ready \in BOOLEAN
        /\ storage \in Storage /\ dialog \in Dialogs
    BY <1>1 DEF PageInv, PageTypes, StorageInv
  <2>3. files \in Seq(DraftFile) /\ Len(files) \in Nat /\ DOMAIN files = 1..Len(files)
        /\ Len(files) <= MaxFileLimit
    BY <2>2, LenProperties DEF Files
  <2>4. ASSUME NEW i \in 1..Len(files)
        PROVE  fs[i] \in DraftFile /\ (files[i].up => fs[i].up)
    <3>1. files[i] \in DraftFile
      BY <2>3, ElementOfSeq
    <3> QED BY <2>3, <3>1 DEF DraftFile
  <2>5. fs \in [1..Len(files) -> DraftFile]
    BY <2>3, <2>4
  <2>6. fs \in Files /\ DOMAIN fs = DOMAIN files
    BY <2>3, <2>5, FunctionIsSeq DEF Files
  <2>7. AllUp(files) => AllUp(fs)
    BY <2>3, <2>4, <2>6 DEF AllUp
  <2> HIDE DEF fs
  <2>8. storage.stage \in Past => storage.id # None /\ AllUp(fs)
    BY <1>1, <2>7 DEF PageInv, StorageInv, ShownInv
  <2>9. PageInv'
    BY <2>1, <2>2, <2>6, <2>8, SetFilesKeeps
  <2> QED BY <2>1, <2>6, <2>9, NoneIsNothing DEF PageTakes, SetFiles
<1>2. CASE ~(r.answer = "ok" /\ files # None /\ r.key \in KeysOf(files))
  BY <1>2, NothingKeeps DEF TakePut
<1> QED BY <1>1, <1>2

LEMMA TakeRemoveKeeps ==
    ASSUME PageInv, NEW r, RequestOK(r), TakeRemove(r), UNCHANGED at
    PROVE  PageTakes
<1> DEFINE places == {i \in DOMAIN files : files[i].key # r.key}
           fs     == Filter(files, places)
<1>1. CASE r.answer = "ok" /\ r.by = "page"
  <2>1. SetFiles(fs, ready, storage) /\ UNCHANGED dialog
    BY <1>1 DEF TakeRemove
  <2>2. /\ Mounted /\ files # None /\ files \in Files /\ ready \in BOOLEAN
        /\ storage \in Storage /\ dialog \in Dialogs
    BY <1>1 DEF PageInv, PageTypes, RequestOK, TakeRemove
  <2>3. files \in Seq(DraftFile) /\ Len(files) \in Nat /\ Len(files) <= MaxFileLimit
    BY <2>2, LenProperties DEF Files
  <2>4. places \in SUBSET DOMAIN files
    OBVIOUS
  <2> HIDE DEF places
  <2>5. /\ fs \in Seq(DraftFile) /\ Len(fs) <= Len(files)
        /\ \A n \in DOMAIN fs : \E i \in places : fs[n] = files[i]
    BY <2>3, <2>4, FilterProperties
  <2>6. Len(fs) \in Nat
    BY <2>5, LenProperties
  <2>7. fs \in Files
    BY <2>3, <2>5, <2>6, NoneIsNothing DEF Files
  <2>8. AllUp(files) => AllUp(fs)
    BY <2>4, <2>5 DEF AllUp
  <2> HIDE DEF fs
  <2>9. storage.stage \in Past => storage.id # None /\ AllUp(fs)
    BY <2>2, <2>8 DEF PageInv, StorageInv, ShownInv
  <2>10. PageInv'
    BY <2>1, <2>2, <2>7, <2>9, SetFilesKeeps
  <2> QED BY <2>1, <2>7, <2>10, NoneIsNothing DEF PageTakes, SetFiles
<1>2. CASE ~(r.answer = "ok" /\ r.by = "page")
  BY <1>2, NothingKeeps DEF TakeRemove
<1> QED BY <1>1, <1>2

\* The draft was discarded or sent, or the answer was no.
LEMMA TakeEndKeeps ==
    ASSUME PageInv, NEW r, TakeDiscard(r) \/ TakeSend(r), UNCHANGED at
    PROVE  PageTakes
<1>0. UNCHANGED files /\ UNCHANGED ready /\ dialog' \in Dialogs
  BY DEF TakeDiscard, TakeSend, PageInv, PageTypes, Dialogs
<1>1. CASE storage' = Empty /\ nav' = "away"
  BY <1>0, <1>1, ForgetKeeps DEF PageTakes
<1>2. CASE UNCHANGED <<storage, nav>>
  BY <1>0, <1>2 DEF PageInv, PageTypes, StorageInv, ShownInv, Mounted, PageTakes
<1> QED BY <1>1, <1>2 DEF TakeDiscard, TakeSend

LEMMA TakeKeeps ==
    ASSUME Inv, NEW r \in requests, Take(r)
    PROVE  Inv'
<1>0. RequestOK(r) /\ ServerInv /\ PageInv /\ RequestInv
  BY DEF Inv, RequestInv
<1>1. /\ r.answer \in Answers /\ UNCHANGED server /\ UNCHANGED at
      /\ requests' \subseteq requests
      /\ TakeCreate(r) \/ TakePut(r) \/ TakeRemove(r) \/ TakeDiscard(r) \/ TakeSend(r)
  BY DEF Take, Answers
<1>2. PageTakes
  BY <1>0, <1>1, TakeCreateKeeps, TakePutKeeps, TakeRemoveKeeps, TakeEndKeeps
<1>3. ServerInv'
  BY <1>0, <1>1 DEF ServerInv, server
<1>4. RequestInv'
  BY <1>0, <1>1, <1>2, FewerRequests DEF PageTakes, Mounted
<1> QED BY <1>2, <1>3, <1>4 DEF Inv, PageTakes

\* The server goes on; its answer, if there is one, replaces the request.
LEMMA RespondKeeps ==
    ASSUME Inv, NEW r \in requests, Respond(r)
    PROVE  Inv'
<1>0. RequestOK(r) /\ IsRequest(r) /\ ServerInv /\ PageInv /\ RequestInv
  BY DEF Inv, RequestInv, RequestOK
<1>1. PICK a \in Answers :
         /\ \/ r.answer = None /\ Handle(r, a)
            \/ r.answer = "built" /\ Place(r, a)
         /\ requests' \subseteq (requests \ {r}) \cup {Reply(r, a)}
         /\ UNCHANGED page
  <2>1. PICK a \in Answers :
           /\ \/ r.answer = None /\ Handle(r, a)
              \/ r.answer = "built" /\ Place(r, a)
           /\ requests' = (requests \ {r})
                             \cup (IF a = "none" THEN {} ELSE Heeded({Reply(r, a)}))
           /\ UNCHANGED page
    BY DEF Respond
  <2>2. Heeded({Reply(r, a)}) \subseteq {Reply(r, a)}
    BY DEF Heeded
  <2> QED BY <2>1, <2>2
<1>2. ServerInv'
  BY <1>0, <1>1, HandleKeeps DEF RequestOK
<1>3. PageInv' /\ UNCHANGED <<at, files>>
  BY <1>0, <1>1 DEF PageInv, PageTypes, StorageInv, ShownInv, Mounted, page
<1>r. PICK answered : answered = Reply(r, a)
  OBVIOUS
<1>4. RequestOK(answered)'
  <2>1. /\ IsRequest(answered) /\ answered.by = r.by
        /\ answered.op = r.op \/ (r.op = "bind" /\ answered.op = "put")
        /\ r.op # "create" => answered.id = r.id
    BY <1>0, <1>r, ReplyProperties
  <2>2. ASSUME r.op = "create"
        PROVE  /\ answered.answer = "ok" /\ answered.id \in DraftIds
               /\ answered.until \in 0..(MaxNow + Lifetime)
    <3>1. a = "ok" /\ draft'.id \in DraftIds
      BY <1>0, <1>1, <2>2, CreateAnswers DEF Place
    <3>2. now + Lifetime \in 0..(MaxNow + Lifetime)
      BY <1>0, NoneIsNothing DEF ServerInv
    <3> QED BY <1>0, <1>r, <2>2, <3>1, <3>2, ReplyProperties
  <2> QED BY <1>0, <1>3, <2>1, <2>2 DEF RequestOK, IsRequest, Mounted
<1>5. \A x \in requests : RequestOK(x)'
  BY <1>0, <1>3, RequestsStay DEF RequestInv, Mounted
<1>6. RequestInv'
  <2> DEFINE those == (requests \ {r}) \cup {answered}
  <2>1. /\ IsFiniteSet(requests \ {r})
        /\ Cardinality(requests \ {r}) = Cardinality(requests) - 1
        /\ Cardinality(requests) \in Nat
    BY <1>0, FS_RemoveElement, FS_CardinalityType DEF RequestInv
  <2>2. /\ IsFiniteSet(those)
        /\ Cardinality(those) \in {Cardinality(requests) - 1, Cardinality(requests)}
    BY <2>1, FS_AddElement
  <2>3. requests' \subseteq those
    BY <1>1, <1>r
  <2>4. IsFiniteSet(requests') /\ Cardinality(requests') <= Cardinality(those)
    BY <2>2, <2>3, FS_Subset
  <2>5. Cardinality(requests') \in Nat /\ Cardinality(requests') <= MaxRequests
    BY <1>0, <2>1, <2>2, <2>4, FS_CardinalityType, NoneIsNothing DEF RequestInv
  <2>6. \A x \in requests' : RequestOK(x)'
    BY <1>4, <1>5, <2>3
  <2> QED BY <2>4, <2>5, <2>6 DEF RequestInv
<1> QED BY <1>2, <1>3, <1>6 DEF Inv

\* The inductive step.
LEMMA StepInv == Inv /\ [Next]_vars => Inv'
<1> SUFFICES ASSUME Inv, [Next]_vars PROVE Inv'
  OBVIOUS
<1>0. ServerInv /\ PageInv /\ RequestInv
  BY DEF Inv
<1>1. ASSUME UNCHANGED server PROVE ServerInv'
  BY <1>0, <1>1 DEF ServerInv, server
<1>2. ASSUME UNCHANGED page PROVE PageInv' /\ UNCHANGED <<at, files>>
  BY <1>0, <1>2 DEF PageInv, PageTypes, StorageInv, ShownInv, Mounted, page
<1>3. ASSUME UNCHANGED page, requests' \subseteq requests PROVE RequestInv'
  BY <1>0, <1>2, <1>3, FewerRequests DEF Mounted
<1>4. CASE OpenFromGlance \/ NextStage \/ Browse \/ Reload \/ Arrive
  BY <1>0, <1>1, <1>4, RoutingKeeps DEF Inv
<1>5. ASSUME NEW k \in Keys, Drop(k) \/ Delete(k) PROVE Inv'
  BY <1>0, <1>1, <1>5, DropKeeps, DeleteKeeps DEF Inv
<1>6. ASSUME NEW i \in 1..MaxFileLimit, NEW c \in Configs, Configure(i, c) PROVE Inv'
  BY <1>0, <1>1, <1>6, ConfigureKeeps DEF Inv
<1>7. CASE DropTooMany \/ OpenSend \/ OpenDiscard \/ Nevermind \/ Timeout
  BY <1>0, <1>1, <1>7, DialogKeeps DEF Inv
<1>8. CASE ConfirmSend \/ ConfirmDiscard \/ BackToGlance \/ StartOver
  BY <1>0, <1>1, <1>8, ConfirmKeeps, EndTimeoutKeeps DEF Inv
<1>9. CASE Tick
  <2>1. ServerInv'
    BY <1>0, <1>9, NoneIsNothing DEF Tick, ServerInv
  <2> QED BY <1>2, <1>3, <1>9, <2>1 DEF Tick, Inv
<1>10. ASSUME NEW r \in requests, Respond(r) \/ Take(r) PROVE Inv'
  BY <1>10, RespondKeeps, TakeKeeps
<1>11. ASSUME NEW r \in requests, Lose(r) PROVE Inv'
  BY <1>1, <1>2, <1>3, <1>11 DEF Lose, Inv
<1>12. CASE ClearExpired /\ UNCHANGED <<page, requests>>
  BY <1>0, <1>2, <1>3, <1>12, ClearKeeps DEF Inv
<1>13. CASE UNCHANGED vars
  BY <1>1, <1>2, <1>3, <1>13 DEF vars, server, Inv
<1> QED BY <1>4, <1>5, <1>6, <1>7, <1>8, <1>9, <1>10, <1>11, <1>12, <1>13 DEF Next, User

\* In every state of every run: what is stored is uploaded and is what is shown,
\* and what is shown fits the stage.
THEOREM InvHolds == Spec => []Inv
BY InitInv, StepInv, PTL DEF Spec
-----------------------------------------------------------------------------
(* What follows.                                                           *)

\* The page and the local storage hold what the code declares, and no more
\* files than MAX_FILE_LIMIT.
THEOREM TypeCorrect == Spec => []TypeOK
<1>1. Inv => TypeOK
  <2> SUFFICES ASSUME Inv PROVE TypeOK
    OBVIOUS
  <2>1. ASSUME NEW fs \in {files, storage.data} \ {None}
        PROVE  Len(fs) <= MaxFileLimit /\ All(fs, LAMBDA f : f \in DraftFile)
    <3>1. fs \in Seq(DraftFile) /\ Len(fs) <= MaxFileLimit
      BY <2>1 DEF Inv, PageInv, PageTypes, Storage, Files
    <3>2. \A i \in DOMAIN fs : fs[i] \in DraftFile
      BY <3>1, LenProperties, ElementOfSeq
    <3> QED BY <3>1, <3>2 DEF All
  <2> QED BY <2>1
          DEF Inv, PageInv, PageTypes, RequestInv, TypeOK, Storage, Dialogs
<1> QED BY <1>1, InvHolds, PTL

\* Past the upload the page reads the draft of every file it shows
\* (ConfigOrder, Review): each has one, whatever way the user came there, a
\* reload, the browser's history and a typed address included.
THEOREM OnlyUploadsPastUpload == Spec => []NoUploadPastUpload
<1>1. Inv => NoUploadPastUpload
  BY DEF Inv, PageInv, PageTypes, StorageInv, ShownInv, NoUploadPastUpload, Loading, All,
         AllUp, Storage, Stages, Past
<1> QED BY <1>1, InvHolds, PTL

\* A review that stays is of at least one file, all uploaded and with ranges
\* (the effects of Review that send the user back).
THEOREM ReviewsAreComplete == Spec => []ReviewIsComplete
<1>1. Inv => ReviewIsComplete
  BY DEF Inv, PageInv, PageTypes, StorageInv, ShownInv, ReviewIsComplete, Showing, Idle,
         Loading, All, AllUp, AllSet, Past
<1> QED BY <1>1, InvHolds, PTL

\* readyForNextStage at the configure stage means valid ranges, although drops,
\* removals and the effect on the files set it at other stages too.
THEOREM ReadyMeansValid == Spec => []ReadyToReview
<1>1. Inv => ReadyToReview
  BY DEF Inv, PageInv, ShownInv, ReadyToReview, Showing, Idle, Loading, All, AllGood
<1> QED BY <1>1, InvHolds, PTL

\* The save effect keeps up: what a reload would find is what the page shows
\* of the uploaded files, late answers included.
THEOREM SavedIsWhatIsShown == Spec => []SavedIsShown
<1>1. Inv => SavedIsShown
  BY DEF Inv, PageInv, ShownInv, SavedIsShown, Loading
<1> QED BY <1>1, InvHolds, PTL
-----------------------------------------------------------------------------
(* The names of drafts.                                                    *)

\* The page has taken the draft of the request for done, or will.
Over(r) == \/ r.op = "discard" /\ r.answer = "ok"
           \/ r.op = "send" /\ r.answer \in {"built", "ok"}

\* Names are given out once: the local storage and the requests name drafts up
\* to the last one, and the server does not get back one that is over.
NamesInv ==
    /\ draft = NoDraft \/ draft.id <= lastDraft
    /\ storage.id # None => storage.id <= lastDraft
    /\ \A r \in requests :
          /\ r.op # "create" \/ r.answer = "ok" => r.id <= lastDraft
          /\ Over(r) => draft.id # r.id

LEMMA InitNames == Init => NamesInv
BY NoneIsNothing DEF Init, ApiInit, NamesInv, Empty

\* The next names are no smaller, and the server has the draft it had, none, or
\* one with a new name.
Renamed ==
    /\ lastDraft \in Nat /\ lastDraft' \in Nat /\ lastDraft <= lastDraft'
    /\ \/ draft'.id = draft.id
       \/ draft' = NoDraft
       \/ draft'.id = lastDraft' /\ lastDraft < lastDraft'
    /\ draft' = NoDraft \/ draft'.id <= lastDraft'

LEMMA HandleRenames ==
    ASSUME ServerInv, NamesInv, NEW r, NEW a, r.op # "create" => r.id \in DraftIds,
           Handle(r, a) \/ Place(r, a)
    PROVE  Renamed
<1>1. lastDraft \in Nat /\ (draft = NoDraft \/ draft.id <= lastDraft)
  BY NoneIsNothing DEF ServerInv, NamesInv
<1>2. ASSUME UNCHANGED lastDraft, draft' \in {draft, NoDraft} PROVE Renamed
  BY <1>1, <1>2 DEF Renamed
<1>3. ASSUME r.id \in DraftIds, draft.id = r.id, NEW b, draft' = [draft EXCEPT !.bound = b],
             UNCHANGED lastDraft
      PROVE  Renamed
  <2>1. draft'.id = draft.id /\ draft # NoDraft
    BY <1>3 DEF ServerInv, NoDraft, DraftIds
  <2> QED BY <1>1, <1>3, <2>1 DEF Renamed
<1>4. CASE Create(r, a)
  BY <1>1, <1>2, <1>4 DEF Create, Renamed
<1>5. CASE Bind(r, a)
  BY <1>2, <1>3, <1>5 DEF Bind, Refused, server
<1>6. CASE Put(r, a)
  BY <1>2, <1>6 DEF Put, Refused, server
<1>7. CASE Unbind(r, a)
  BY <1>2, <1>3, <1>7 DEF Unbind, Refused, server
<1>8. CASE Discard(r, a)
  BY <1>2, <1>8 DEF Discard, Refused, server
<1>9. CASE Build(r, a)
  <2>1. \/ UNCHANGED draft \/ draft' = NoDraft
        \/ draft.id = r.id /\ \E b : draft' = [draft EXCEPT !.bound = b]
    BY <1>9 DEF Build, Acceptable, Refused, server
  <2> QED BY <1>2, <1>3, <1>9, <2>1 DEF Build, Refused, server
<1>10. CASE Place(r, a)
  BY <1>2, <1>10 DEF Place
<1> QED BY <1>4, <1>5, <1>6, <1>7, <1>8, <1>9, <1>10 DEF Handle

\* What was in order with the old names is with the next.
LEMMA NamesStay ==
    ASSUME Renamed
    PROVE  /\ \A d \in Int : d <= lastDraft => d <= lastDraft'
           /\ \A d \in DraftIds : d <= lastDraft /\ draft.id # d => draft'.id # d
BY DEF Renamed, NoDraft, DraftIds

\* A request as it was, or one just made, about the draft in the local storage.
Carried(x) ==
    \/ \E y \in requests : x.op = y.op /\ x.id = y.id /\ x.answer = y.answer
    \/ /\ x.answer = None
       /\ x.op = "create" \/ (x.id = storage.id /\ storage.id # None)

LEMMA AskCarries ==
    ASSUME NEW reqs \in SUBSET requests, NEW op, NEW id, NEW key, NEW body,
           Ask(reqs, op, id, key, body),
           op = "create" \/ (id = storage.id /\ storage.id # None)
    PROVE  \A x \in requests' : Carried(x)
BY DEF Ask, Carried

LEMMA SetFilesNames ==
    ASSUME NEW fs, NEW was, NEW store \in Storage, SetFiles(fs, was, store)
    PROVE  storage'.id = store.id
BY DEF SetFiles, Storage

LEMMA RoutingCarries ==
    ASSUME PageInv, RequestInv,
           OpenFromGlance \/ NextStage \/ Browse \/ Reload \/ Arrive
    PROVE  /\ storage'.id \in {storage.id, None}
           /\ \A x \in requests' : Carried(x)
<1>1. ASSUME NEW stage, NEW fs, NEW was, NEW reqs \in SUBSET requests,
             Enter(stage, fs, was, reqs)
      PROVE  /\ storage'.id \in {storage.id, None}
             /\ \A x \in requests' : Carried(x)
  <2>1. storage'.id \in {storage.id, None}
    BY <1>1 DEF Enter, Empty, PageInv, PageTypes, Storage
  <2>2. CASE requests' = reqs
    BY <1>1, <2>1, <2>2 DEF Carried
  <2>3. CASE Ask(reqs, "create", None, None, <<>>)
    BY <1>1, <2>1, <2>3, AskCarries
  <2> QED BY <1>1, <2>2, <2>3 DEF Enter
<1>2. ASSUME Leave
      PROVE  /\ storage'.id \in {storage.id, None}
             /\ \A x \in requests' : Carried(x)
  <2>1. storage'.id \in {storage.id, None}
    BY <1>2 DEF Leave, Empty, PageInv, PageTypes, Storage
  <2>2. ASSUME NEW x \in requests' PROVE Carried(x)
    <3>1. PICK y \in requests :
             x = IF y.op \in {"bind", "put", "discard"} THEN y ELSE [y EXCEPT !.by = "left"]
      BY <1>2 DEF Leave, Heeded
    <3>2. IsRequest(y)
      BY DEF RequestInv, RequestOK
    <3>3. x.op = y.op /\ x.id = y.id /\ x.answer = y.answer
      BY <3>1, <3>2 DEF IsRequest
    <3> QED BY <3>3 DEF Carried
  <2> QED BY <2>1, <2>2
<1>3. CASE \E s : Go(s)
  <2>1. PICK s : Go(s)
    BY <1>3
  <2>2. CASE UNCHANGED <<storage, requests>>
    BY <2>2 DEF Carried
  <2> QED BY <1>1, <1>2, <2>1, <2>2 DEF Go
<1>4. CASE Reload
  <2>1. PICK s : Enter(s, None, FALSE, {})
    BY <1>4 DEF Reload
  <2>2. {} \in SUBSET requests
    OBVIOUS
  <2> QED BY <1>1, <2>1, <2>2
<1> QED BY <1>3, <1>4 DEF OpenFromGlance, NextStage, Browse, Arrive

LEMMA UserCarries ==
    ASSUME PageInv, RequestInv, User \/ Arrive \/ Timeout
    PROVE  /\ storage'.id \in {storage.id, None}
           /\ \A x \in requests' : Carried(x)
<1>0. storage \in Storage
  BY DEF PageInv, PageTypes
<1>1. CASE OpenFromGlance \/ NextStage \/ Browse \/ Reload \/ Arrive
  BY <1>1, RoutingCarries
<1>2. ASSUME NEW k \in Keys, Drop(k)
      PROVE  storage'.id = storage.id /\ \A x \in requests' : Carried(x)
  <2>1. storage.id # None /\ Ask(requests, "bind", storage.id, k, <<>>)
    BY <1>2 DEF Drop, Showing, Idle, Loading
  <2>2. storage'.id = storage.id
    BY <1>0, <1>2, SetFilesNames DEF Drop
  <2> QED BY <2>1, <2>2, AskCarries
<1>3. ASSUME NEW k \in Keys, Delete(k)
      PROVE  storage'.id = storage.id /\ \A x \in requests' : Carried(x)
  <2>1. storage.id # None /\ Ask(requests, "remove", storage.id, k, <<>>) /\ UNCHANGED storage
    BY <1>3 DEF Delete, Showing, Idle, Loading
  <2> QED BY <2>1, AskCarries
<1>4. ASSUME NEW i \in 1..MaxFileLimit, NEW c \in Configs, Configure(i, c)
      PROVE  storage'.id = storage.id /\ \A x \in requests' : Carried(x)
  BY <1>0, <1>4, SetFilesNames DEF Configure, Carried
<1>5. CASE DropTooMany \/ OpenSend \/ OpenDiscard \/ Nevermind \/ Timeout
  BY <1>5 DEF DropTooMany, OpenSend, OpenDiscard, Nevermind, Timeout, SetDialog, Carried
<1>6. CASE ConfirmSend \/ ConfirmDiscard
  <2>1. PICK kind, body : Confirm(kind, body)
    BY <1>6 DEF ConfirmSend, ConfirmDiscard
  <2>2. storage.id # None /\ Ask(requests, kind, storage.id, None, body) /\ UNCHANGED storage
    BY <2>1 DEF Confirm, page
  <2> QED BY <2>2, AskCarries
<1>7. CASE BackToGlance \/ StartOver
  BY <1>7 DEF BackToGlance, StartOver, EndTimeout, Empty, Carried
<1> QED BY <1>1, <1>2, <1>3, <1>4, <1>5, <1>6, <1>7 DEF User

\* The names stay in order when the requests are carried over.
LEMMA CarriedKeeps ==
    ASSUME ServerInv, PageInv, RequestInv, NamesInv, Renamed,
           storage'.id \in {storage.id, None}
              \cup {r.id : r \in {r \in requests : r.op = "create" /\ r.answer = "ok"}},
           \A x \in requests' : Carried(x)
    PROVE  NamesInv'
<1>1. storage'.id # None => storage'.id <= lastDraft'
  <2>1. CASE storage'.id = storage.id
    BY <2>1, NamesStay DEF NamesInv, PageInv, PageTypes, Storage, DraftIds
  <2>2. ASSUME NEW r \in requests, r.op = "create", r.answer = "ok", storage'.id = r.id
        PROVE  storage'.id <= lastDraft'
    BY <2>2, NamesStay, NoneIsNothing DEF NamesInv, RequestInv, RequestOK, DraftIds, Answers
  <2> QED BY <2>1, <2>2
<1>2. ASSUME NEW x \in requests'
      PROVE  /\ x.op # "create" \/ x.answer = "ok" => x.id <= lastDraft'
             /\ Over(x) => draft'.id # x.id
  <2>1. CASE x.answer = None /\ (x.op = "create" \/ (x.id = storage.id /\ storage.id # None))
    <3>1. ~Over(x) /\ x.answer # "ok"
      BY <2>1, NoneIsNothing DEF Over, Answers
    <3> QED BY <2>1, <3>1, NamesStay DEF NamesInv, PageInv, PageTypes, Storage, DraftIds
  <2>2. ASSUME NEW y \in requests, x.op = y.op, x.id = y.id, x.answer = y.answer
        PROVE  /\ x.op # "create" \/ x.answer = "ok" => x.id <= lastDraft'
               /\ Over(x) => draft'.id # x.id
    <3>1. /\ y.op # "create" \/ y.answer = "ok" => y.id <= lastDraft /\ y.id \in DraftIds
          /\ Over(y) => draft.id # y.id
      BY NoneIsNothing DEF NamesInv, RequestInv, RequestOK, Answers
    <3>2. Over(x) => Over(y) /\ y.op # "create"
      BY <2>2 DEF Over
    <3> QED BY <2>2, <3>1, <3>2, NamesStay DEF DraftIds
  <2> QED BY <2>1, <2>2 DEF Carried
<1> QED BY <1>1, <1>2 DEF NamesInv, Renamed, Over

\* An answer makes the local storage keep its name, forget it, or take the name
\* that the answer gives.
LEMMA TakeNames ==
    ASSUME PageInv, NEW r \in requests, RequestOK(r), Take(r)
    PROVE  /\ requests' \subseteq requests /\ UNCHANGED server
           /\ \/ storage'.id = storage.id
              \/ storage' = Empty /\ r.op \in {"discard", "send"} /\ r.answer = "ok"
              \/ storage'.id = r.id /\ r.op = "create" /\ r.answer = "ok"
<1>0. storage \in Storage /\ r.answer \in Answers /\ requests' \subseteq requests /\ UNCHANGED server
  BY DEF Take, Answers, PageInv, PageTypes
<1>1. CASE TakeCreate(r)
  <2> DEFINE store == [storage EXCEPT !.id = r.id, !.expiry = r.until]
  <2>1. SetFiles(<<>>, ready, store) \/ storage' = store
    BY <1>1 DEF TakeCreate
  <2>2. storage'.id = r.id
    BY <1>0, <2>1 DEF SetFiles, Storage
  <2> QED BY <1>0, <1>1, <2>2, NoneIsNothing DEF TakeCreate, RequestOK
<1>2. CASE TakePut(r) \/ TakeRemove(r)
  BY <1>0, <1>2, SetFilesNames DEF TakePut, TakeRemove, Nothing
<1>3. CASE TakeDiscard(r) \/ TakeSend(r)
  BY <1>0, <1>3 DEF TakeDiscard, TakeSend
<1> QED BY <1>0, <1>1, <1>2, <1>3 DEF Take

LEMMA RespondNames ==
    ASSUME Inv, NamesInv, NEW r \in requests, Respond(r)
    PROVE  NamesInv'
<1>0. RequestOK(r) /\ IsRequest(r) /\ ServerInv /\ PageInv /\ RequestInv
  BY DEF Inv, RequestInv, RequestOK
<1>1. PICK a \in Answers :
         /\ \/ r.answer = None /\ Handle(r, a)
            \/ r.answer = "built" /\ Place(r, a)
         /\ requests' = (requests \ {r})
                           \cup (IF a = "none" THEN {} ELSE Heeded({Reply(r, a)}))
         /\ UNCHANGED page
  BY DEF Respond
<1>2. Renamed
  BY <1>0, <1>1, HandleRenames DEF RequestOK
<1>r. PICK answered : answered = Reply(r, a)
  OBVIOUS
<1>3. \A x \in requests' : x \in requests \/ x = answered
  BY <1>1, <1>r DEF Heeded
<1>4. /\ IF r.op = "bind" /\ a = "ok" THEN answered.op = "put" /\ answered.answer = r.answer
                                      ELSE answered.op = r.op /\ answered.answer = a
      /\ IF r.op = "create" /\ a = "ok" THEN answered.id = draft'.id ELSE answered.id = r.id
  BY <1>0, <1>r, ReplyProperties
<1>5. answered.op # "create" \/ answered.answer = "ok" => answered.id <= lastDraft'
  <2>1. CASE r.op = "create" /\ a = "ok"
    BY <1>2, <1>4, <2>1 DEF Renamed, NoDraft
  <2>2. CASE r.op # "create"
    BY <1>0, <1>2, <1>4, <2>2, NamesStay DEF NamesInv, RequestOK, DraftIds
  <2> QED BY <1>4, <2>1, <2>2
<1>6. Over(answered) => draft'.id # answered.id
  <2> SUFFICES ASSUME Over(answered) PROVE draft'.id # r.id /\ answered.id = r.id
    BY <1>4
  <2>1. /\ answered.op = r.op /\ answered.answer = a /\ answered.id = r.id
        /\ r.id \in DraftIds
        /\ \/ r.op = "discard" /\ a = "ok"
           \/ r.op = "send" /\ a \in {"built", "ok"}
    BY <1>0, <1>4 DEF Over, RequestOK
  <2>2. CASE r.op = "discard"
    <3>1. Discard(r, a)
      BY <1>1, <2>2 DEF Handle, Create, Bind, Put, Unbind, Discard, Build, Place
    <3> QED BY <2>1, <2>2, <3>1 DEF Discard, NoDraft, Refused, server, DraftIds
  <2>3. CASE r.op = "send" /\ Handle(r, a)
    <3>1. Build(r, a)
      BY <2>3 DEF Handle, Create, Bind, Put, Unbind, Discard, Build
    <3> QED BY <2>1, <2>3, <3>1 DEF Build, NoDraft, Refused, DraftIds
  <2>4. CASE r.op = "send" /\ r.answer = "built" /\ Place(r, a)
    BY <2>1, <2>4 DEF Place, NamesInv, Over
  <2> QED BY <1>1, <2>1, <2>2, <2>3, <2>4
<1>7. ASSUME NEW x \in requests
      PROVE  /\ x.op # "create" \/ x.answer = "ok" => x.id <= lastDraft'
             /\ Over(x) => draft'.id # x.id
  <2>1. x.op # "create" \/ x.answer = "ok" => x.id \in DraftIds
    BY <1>0, NoneIsNothing DEF RequestInv, RequestOK, Answers
  <2>2. Over(x) => x.op # "create"
    BY DEF Over
  <2> QED BY <1>2, <2>1, <2>2, NamesStay DEF NamesInv, DraftIds
<1>8. storage'.id # None => storage'.id <= lastDraft'
  BY <1>0, <1>1, <1>2, NamesStay DEF NamesInv, PageInv, PageTypes, Storage, DraftIds, page
<1>9. \A x \in requests' : /\ x.op # "create" \/ x.answer = "ok" => x.id <= lastDraft'
                           /\ Over(x) => draft'.id # x.id
  BY <1>3, <1>5, <1>6, <1>7
<1> QED BY <1>2, <1>8, <1>9 DEF NamesInv, Renamed, Over

LEMMA StepNames == Inv /\ NamesInv /\ [Next]_vars => NamesInv'
<1> SUFFICES ASSUME Inv, NamesInv, [Next]_vars PROVE NamesInv'
  OBVIOUS
<1>0. ServerInv /\ PageInv /\ RequestInv
  BY DEF Inv
<1>1. UNCHANGED <<draft, lastDraft>> => Renamed
  BY <1>0 DEF Renamed, NamesInv, ServerInv, NoDraft
<1>2. ASSUME Renamed, requests' \subseteq requests, UNCHANGED storage PROVE NamesInv'
  BY <1>0, <1>2, CarriedKeeps DEF Carried
<1>3. CASE User \/ Arrive \/ Timeout
  <2>1. UNCHANGED server
    BY <1>0, <1>3, RoutingKeeps, DropKeeps, DeleteKeeps, ConfigureKeeps, DialogKeeps,
       ConfirmKeeps, EndTimeoutKeeps DEF User
  <2> QED BY <1>0, <1>1, <1>3, <2>1, UserCarries, CarriedKeeps DEF server
<1>4. ASSUME NEW r \in requests, Take(r) PROVE NamesInv'
  <2>1. Renamed
    BY <1>0, <1>1, <1>4, TakeNames DEF server, RequestInv
  <2>2. /\ requests' \subseteq requests
        /\ storage'.id \in {storage.id, None}
             \cup {x.id : x \in {x \in requests : x.op = "create" /\ x.answer = "ok"}}
    BY <1>0, <1>4, TakeNames DEF RequestInv, Empty
  <2> QED BY <1>0, <2>1, <2>2, CarriedKeeps DEF Carried
<1>5. CASE Tick \/ (\E r \in requests : Lose(r)) \/ UNCHANGED vars
  BY <1>1, <1>2, <1>5 DEF Tick, Lose, page, server, vars
<1>6. CASE ClearExpired /\ UNCHANGED <<page, requests>>
  <2>1. Renamed
    BY <1>0, <1>6 DEF ClearExpired, Renamed, NamesInv, ServerInv, NoDraft
  <2> QED BY <1>2, <1>6, <2>1 DEF page
<1> QED BY <1>3, <1>4, <1>5, <1>6, RespondNames DEF Next

LEMMA NamesHold == Spec => [](Inv /\ NamesInv)
BY InitInv, InitNames, StepInv, StepNames, PTL DEF Spec
-----------------------------------------------------------------------------
(* What a step may forget.                                                 *)

\* A step that forgets a draft the user could return to, and why it may.
Forgets == Building /\ storage'.id # storage.id
Excused ==
    \/ draft'.id # storage.id
    \/ dialog = "timeout"
    \/ \E r \in requests \ requests' :
          r.op \in {"create", "discard", "send"} /\ r.answer = "ok" /\ r.id # storage.id

\* Taking up the draft again, or leaving the page, keeps its name.
LEMMA EnterRemembers ==
    ASSUME PageInv, Building, NEW stage, NEW fs, NEW was, NEW reqs,
           Enter(stage, fs, was, reqs) \/ Leave
    PROVE  storage'.id = storage.id
BY DEF PageInv, PageTypes, Storage, Enter, Leave

LEMMA RoutingRemembers ==
    ASSUME PageInv, Building,
           OpenFromGlance \/ NextStage \/ Browse \/ Reload \/ Arrive
    PROVE  storage'.id = storage.id
<1>1. CASE \E s : Go(s)
  BY <1>1, EnterRemembers DEF Go
<1>2. CASE Reload
  BY <1>2, EnterRemembers DEF Reload
<1> QED BY <1>1, <1>2 DEF OpenFromGlance, NextStage, Browse, Arrive

\* An answer about the draft that is stored makes the page forget it only when
\* the draft is over, which the server then does not have.
LEMMA AnswersRemember ==
    ASSUME Inv, NamesInv, NEW r \in requests, Take(r)
    PROVE  storage'.id = storage.id \/ Excused
<1>0. /\ UNCHANGED server
      /\ \/ storage'.id = storage.id
         \/ r.op \in {"discard", "send"} /\ r.answer = "ok"
         \/ storage'.id = r.id /\ r.op = "create" /\ r.answer = "ok"
  BY TakeNames DEF Inv, RequestInv
<1>1. r \in requests \ requests'
  BY DEF Take
<1>2. ASSUME r.op \in {"discard", "send"}, r.answer = "ok", r.id = storage.id PROVE Excused
  BY <1>0, <1>2 DEF NamesInv, Over, Excused, server
<1> QED BY <1>0, <1>1, <1>2 DEF Excused

LEMMA StepRemembers == Inv /\ NamesInv /\ [Next]_vars => (Forgets => Excused)
<1> SUFFICES ASSUME Inv, NamesInv, [Next]_vars, Building
             PROVE  storage'.id = storage.id \/ Excused
  BY DEF Forgets
<1>0. PageInv /\ storage \in Storage
  BY DEF Inv, PageInv, PageTypes
<1>1. CASE OpenFromGlance \/ NextStage \/ Browse \/ Reload \/ Arrive
  BY <1>0, <1>1, RoutingRemembers
<1>2. ASSUME NEW k \in Keys, Drop(k) \/ Delete(k) PROVE storage'.id = storage.id
  BY <1>0, <1>2, SetFilesNames DEF Drop, Delete
<1>3. ASSUME NEW i \in 1..MaxFileLimit, NEW c \in Configs, Configure(i, c)
      PROVE  storage'.id = storage.id
  BY <1>0, <1>3, SetFilesNames DEF Configure
<1>4. CASE \/ DropTooMany \/ OpenSend \/ OpenDiscard \/ Nevermind \/ Timeout
           \/ ConfirmSend \/ ConfirmDiscard
  BY <1>4 DEF DropTooMany, OpenSend, OpenDiscard, Nevermind, Timeout, SetDialog,
              ConfirmSend, ConfirmDiscard, Confirm, page
<1>5. CASE BackToGlance \/ StartOver
  BY <1>5 DEF BackToGlance, StartOver, EndTimeout, Shown, Excused
<1>6. ASSUME NEW r \in requests, Respond(r) \/ Take(r) \/ Lose(r)
      PROVE  storage'.id = storage.id \/ Excused
  BY <1>6, AnswersRemember DEF Respond, Lose, page
<1>7. CASE Tick \/ (ClearExpired /\ UNCHANGED <<page, requests>>) \/ UNCHANGED vars
  BY <1>7 DEF Tick, page, vars
<1> QED BY <1>1, <1>2, <1>3, <1>4, <1>5, <1>6, <1>7 DEF Next, User

\* A draft the user can return to is given up by the page only when the server
\* has no draft of that name after the step, by the dialog of the timeout, or by
\* the success of a request about another draft: while the answers are about the
\* draft that is stored ([stage].tsx, onSuccess and the 204), the page forgets
\* it only when it is over.
THEOREM NothingElseForgets == Spec => ForgottenIsOver
<1>1. Inv /\ NamesInv /\ [Next]_vars
         => [storage'.id # storage.id /\ Building =>
                \/ draft'.id # storage.id
                \/ dialog = "timeout"
                \/ \E r \in requests \ requests' :
                      /\ r.op \in {"create", "discard", "send"}
                      /\ r.answer = "ok"
                      /\ r.id # storage.id]_vars
  BY StepRemembers DEF Forgets, Excused
<1> QED BY <1>1, NamesHold, PTL DEF Spec, ForgottenIsOver
=============================================================================
