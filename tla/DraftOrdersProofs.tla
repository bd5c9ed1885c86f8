------------------------- MODULE DraftOrdersProofs -------------------------
(***************************************************************************)
(* The draft store for any number of users, tasks, drafts and files.       *)
(*                                                                         *)
(* Three parts: the types; what the entry of a user protects while a       *)
(* handler holds it; and what the ids and the files of drafts and sent     *)
(* orders have to do with each other, which rests on one observation:      *)
(* an id or a file that nobody has used yet (NewDrafts, NewFiles) is       *)
(* nowhere, and nothing becomes new again.                                 *)
(***************************************************************************)
EXTENDS DraftOrders, SequenceTheorems, FiniteSetTheorems, TLAPS

\* r has nothing that s does not have, and nothing more often.
Within(r, s) ==
    /\ r \in Seq(FileIds)
    /\ Len(r) <= Len(s)
    /\ ToSet(r) \subseteq ToSet(s)
    /\ IsInjective(s) => IsInjective(r)

LEMMA Empty == <<>> \in Seq(FileIds) /\ Len(<<>>) = 0 /\ ToSet(<<>>) = {} /\ IsInjective(<<>>)
BY EmptySeq DEF ToSet, IsInjective

LEMMA Appended ==
    ASSUME NEW s \in Seq(FileIds), NEW f \in FileIds
    PROVE  /\ Append(s, f) \in Seq(FileIds)
           /\ Len(Append(s, f)) = Len(s) + 1
           /\ ToSet(Append(s, f)) = ToSet(s) \cup {f}
           /\ IsInjective(s) /\ f \notin ToSet(s) => IsInjective(Append(s, f))
BY AppendProperties DEF ToSet, IsInjective

\* It is so when the places of r are taken from different places of s.
LEMMA Selected ==
    ASSUME NEW r \in Seq(FileIds), NEW s \in Seq(FileIds), Len(r) <= Len(s),
           NEW h \in [1..Len(r) -> 1..Len(s)],
           \A i, j \in 1..Len(r) : h[i] = h[j] => i = j,
           \A i \in 1..Len(r) : r[i] = s[h[i]]
    PROVE  Within(r, s)
<1>1. DOMAIN r = 1..Len(r) /\ DOMAIN s = 1..Len(s)
  BY LenProperties
<1>2. ToSet(r) \subseteq ToSet(s)
  BY <1>1 DEF ToSet
<1>3. ASSUME IsInjective(s), NEW i \in 1..Len(r), NEW j \in 1..Len(r), r[i] = r[j]
      PROVE  i = j
  <2>1. s[h[i]] = s[h[j]] /\ h[i] \in DOMAIN s /\ h[j] \in DOMAIN s
    BY <1>1, <1>3
  <2>2. QED
    BY <2>1, <1>3 DEF IsInjective
<1>4. IsInjective(s) => IsInjective(r)
  BY <1>1, <1>3 DEF IsInjective
<1>5. QED
  BY <1>2, <1>4 DEF Within

LEMMA RemovedAt ==
    ASSUME NEW s \in Seq(FileIds), NEW i \in DOMAIN s
    PROVE  Within(RemoveAt(s, i), s)
<1> DEFINE a == SubSeq(s, 1, i - 1)
           b == SubSeq(s, i + 1, Len(s))
           h == [j \in 1..(Len(s) - 1) |-> IF j < i THEN j ELSE j + 1]
<1>1. i \in 1..Len(s) /\ Len(s) \in Nat /\ \A j \in 1..Len(s) : s[j] \in FileIds
  BY LenProperties
<1>2. /\ a \in Seq(FileIds) /\ Len(a) = i - 1
      /\ \A j \in 1..(i - 1) : a[j] = s[j]
  BY <1>1, SubSeqProperties
<1>3. /\ b \in Seq(FileIds) /\ Len(b) = Len(s) - i
      /\ \A j \in 1..(Len(s) - i) : b[j] = s[i + j]
  BY <1>1, SubSeqProperties
<1> HIDE DEF a, b
<1>4. PICK r : r = a \o b
  OBVIOUS
<1>5. /\ r \in Seq(FileIds)
      /\ Len(r) = Len(a) + Len(b)
      /\ \A j \in 1..(Len(a) + Len(b)) :
            r[j] = IF j <= Len(a) THEN a[j] ELSE b[j - Len(a)]
  BY <1>2, <1>3, <1>4, ConcatProperties
<1>6. Len(r) = Len(s) - 1
  BY <1>1, <1>2, <1>3, <1>5
<1>7. ASSUME NEW j \in 1..Len(r) PROVE r[j] = s[h[j]]
  <2>1. CASE j < i
    BY <1>1, <1>2, <1>3, <1>5, <1>6, <2>1
  <2>2. CASE ~(j < i)
    <3>1. r[j] = b[j - (i - 1)] /\ j - (i - 1) \in 1..(Len(s) - i)
      BY <1>1, <1>2, <1>3, <1>5, <1>6, <2>2
    <3>2. b[j - (i - 1)] = s[i + (j - (i - 1))] /\ i + (j - (i - 1)) = j + 1
      BY <1>1, <1>3, <3>1
    <3>3. QED
      BY <1>1, <1>6, <2>2, <3>1, <3>2
  <2>3. QED
    BY <2>1, <2>2
<1>8. h \in [1..Len(r) -> 1..Len(s)] /\ \A j, k \in 1..Len(r) : h[j] = h[k] => j = k
  BY <1>1, <1>6
<1>9. Len(r) <= Len(s)
  BY <1>1, <1>6
<1> HIDE DEF h
<1>10. Within(r, s)
  BY <1>5, <1>7, <1>8, <1>9, Selected
<1>11. QED
  BY <1>4, <1>10 DEF RemoveAt, a, b

LEMMA Reversed ==
    ASSUME NEW s \in Seq(FileIds), NEW n \in Nat, n <= Len(s)
    PROVE  Within(Reverse(SubSeq(s, n + 1, Len(s))), s)
<1> DEFINE b == SubSeq(s, n + 1, Len(s))
           m == Len(s) - n
           h == [j \in 1..m |-> (Len(s) - j) + 1]
<1>1. m \in Nat /\ Len(s) \in Nat /\ \A j \in 1..Len(s) : s[j] \in FileIds
  BY LenProperties
<1>2. /\ b \in Seq(FileIds) /\ Len(b) = m
      /\ \A j \in 1..m : b[j] = s[n + j]
  BY <1>1, SubSeqProperties
<1> HIDE DEF b
<1>3. PICK r : r = [j \in 1..m |-> b[(m - j) + 1]]
  OBVIOUS
<1>4. \A j \in 1..m : (m - j) + 1 \in 1..m /\ n + ((m - j) + 1) = (Len(s) - j) + 1
  BY <1>1
<1>5. r \in [1..m -> FileIds]
  BY <1>1, <1>2, <1>3, <1>4
<1>6. r \in Seq(FileIds) /\ Len(r) = m
  BY <1>1, <1>5
<1>7. \A j \in 1..m : r[j] = s[h[j]]
  BY <1>1, <1>2, <1>3, <1>4
<1>8. h \in [1..m -> 1..Len(s)] /\ \A j, k \in 1..m : h[j] = h[k] => j = k
  BY <1>1
<1>9. /\ Len(r) <= Len(s)
      /\ h \in [1..Len(r) -> 1..Len(s)]
      /\ \A j, k \in 1..Len(r) : h[j] = h[k] => j = k
      /\ \A j \in 1..Len(r) : r[j] = s[h[j]]
  BY <1>1, <1>6, <1>7, <1>8
<1> HIDE DEF h
<1>10. Within(r, s)
  BY <1>6, <1>9, Selected
<1>11. QED
  BY <1>2, <1>3, <1>10 DEF Reverse, b

LEMMA Popped ==
    ASSUME NEW s \in Seq(FileIds), NEW r, NEW n \in Nat, OnTop(s, r, n)
    PROVE  n <= Len(s)
<1>1. n # 0 => n \in 1..n
  OBVIOUS
<1>2. Len(s) \in Nat
  BY LenProperties
<1>3. QED
  BY <1>1, <1>2 DEF OnTop

\* A request whose files all come off the top names files of the draft, each once.
LEMMA Prefixed ==
    ASSUME NEW s \in Seq(FileIds), NEW r \in Seq(FileIds), OnTop(s, r, Len(r))
    PROVE  Within(r, s)
<1>1. /\ Len(s) \in Nat /\ DOMAIN s = 1..Len(s)
      /\ Len(r) \in Nat /\ DOMAIN r = 1..Len(r)
  BY LenProperties
<1>2. \A i \in 1..Len(r) : i \in 1..Len(s) /\ s[i] = r[i]
  BY <1>1 DEF OnTop
<1>3. Len(r) <= Len(s)
  <2>1. CASE Len(r) = 0
    BY <1>1, <2>1
  <2>2. CASE Len(r) # 0
    BY <1>1, <1>2, <2>2
  <2>3. QED
    BY <2>1, <2>2
<1>4. QED
  BY <1>1, <1>2, <1>3 DEF Within, ToSet, IsInjective
-----------------------------------------------------------------------------
(* Types.                                                                  *)

\* What TypeOK needs to be inductive: a handler at work has a user, and the
\* file or the id that its next step uses.
LocalsInv ==
    \A t \in Tasks :
        /\ ~At(t, "idle") => task[t].user \in Users
        /\ task[t].pc \in {"add", "presign", "find", "delete", "remove"} =>
              task[t].file \in FileIds
        /\ At(t, "insert") => task[t].made.id \in DraftIds

TypeInv == TypeOK /\ LocalsInv

LEMMA Constants ==
    /\ MaxFileLimit \in Nat /\ MaxFileLimit # 0 /\ Lifetime \in Nat /\ Lifetime # 0
    /\ MaxDrafts \in Nat /\ MaxFiles \in Nat /\ MaxNow \in Nat /\ MaxRestarts \in Nat
    /\ MaxQueueSeq \in Nat /\ 1 <= MaxQueueSeq
    /\ None \notin Users /\ None \notin Tasks
    /\ 0 \in Counter
    /\ \A n \in Counter : NextSeq(n) \in Counter /\ n \in Nat
<1>1. MaxQueueSeq \in Nat /\ 1 <= MaxQueueSeq
  BY QueueAssumption DEF Letters, PerLetter
<1>2. QED
  BY <1>1, DraftAssumption DEF Counter, NextSeq

LEMMA Requests ==
    ASSUME NEW S \in SUBSET FileIds, NEW n \in Nat, NEW r \in SeqOf(S, n)
    PROVE  r \in Seq(FileIds) /\ ToSet(r) \subseteq S
<1>1. PICK m \in 0..n : r \in [1..m -> S]
  BY DEF SeqOf
<1>2. r \in Seq(S)
  BY <1>1
<1>3. QED
  BY <1>1, <1>2, SeqMonotonic DEF ToSet

LEMMA Blank ==
    /\ NoDraft \in DraftType /\ NoOrder \in OrderType /\ Idle \in TaskType
    /\ Len(NoDraft.files) = 0 /\ NoDraft.id = 0 /\ NoDraft.files = <<>>
    /\ Idle.pc = "idle"
BY Constants, Empty
   DEF NoDraft, NoOrder, Idle, DraftType, OrderType, TaskType, Waiting, Holding

LEMMA InitTypes == Init => TypeInv
BY Constants, Blank
   DEF Init, TypeInv, TypeOK, LocalsInv, At, Asleep, Idle, Counter, DraftIds, FileIds

\* A handler that ends leaves the tasks and the locks as they should be.
LEMMA Finished ==
    ASSUME TypeInv, NEW t \in Tasks, Finish(t)
    PROVE  /\ task' \in [Tasks -> TaskType] /\ LocalsInv'
           /\ lock' \in [Users -> Tasks \cup {None}]
BY Blank DEF TypeInv, TypeOK, LocalsInv, Finish, At

LEMMA Went ==
    ASSUME TypeInv, NEW t \in Tasks, NEW pc \in Waiting \cup Holding, GoTo(t, pc),
           ~At(t, "idle"), pc # "insert",
           pc \in {"add", "presign", "find", "delete", "remove"} =>
              task[t].pc \in {"add", "presign", "find", "delete", "remove"}
    PROVE  task' \in [Tasks -> TaskType] /\ LocalsInv'
<1>1. task[t] \in TaskType /\ [task[t] EXCEPT !.pc = pc] \in TaskType
  BY DEF TypeInv, TypeOK, TaskType
<1>2. task' = [task EXCEPT ![t] = [task[t] EXCEPT !.pc = pc]]
  BY DEF GoTo
<1>3. task' \in [Tasks -> TaskType]
  BY <1>1, <1>2 DEF TypeInv, TypeOK
<1>4. QED
  BY <1>1, <1>2, <1>3 DEF TypeInv, TypeOK, LocalsInv, At, TaskType

\* The locals with which handlers begin.
LEMMA PathLocals ==
    ASSUME NEW pc \in Waiting, NEW u \in Users, NEW o \in 0..MaxDrafts, NEW f \in 0..MaxFiles
    PROVE  /\ OnFile(pc, u, o, f) \in TaskType
           /\ OnFile(pc, u, o, f).pc = pc
           /\ OnFile(pc, u, o, f).user = u
           /\ OnFile(pc, u, o, f).order = o
           /\ OnFile(pc, u, o, f).file = f
           /\ OnFile(pc, u, o, f).req = <<>>
BY Blank DEF OnFile, TaskType, Idle

LEMMA CreateLocals ==
    ASSUME NEW u \in Users, NEW i \in Nat, NEW c \in Nat
    PROVE  /\ Creating(u, i, c) \in TaskType
           /\ Creating(u, i, c).pc = "insert"
           /\ Creating(u, i, c).user = u
           /\ Creating(u, i, c).made.id = i
           /\ Creating(u, i, c).req = <<>>
<1>1. PICK made : made = [NoOrder EXCEPT !.id = i, !.createdAt = c]
  OBVIOUS
<1>2. made \in OrderType /\ made.id = i
  BY <1>1, Blank DEF OrderType
<1>3. Creating(u, i, c) = [Idle EXCEPT !.pc = "insert", !.user = u, !.made = made]
  BY <1>1 DEF Creating
<1>4. QED
  BY <1>2, <1>3, Blank DEF TaskType, Waiting, Idle

LEMMA BuildLocals ==
    ASSUME NEW u \in Users, NEW o \in 0..MaxDrafts, NEW r \in Seq(FileIds)
    PROVE  /\ Building(u, o, r) \in TaskType
           /\ Building(u, o, r).pc = "validate"
           /\ Building(u, o, r).user = u
           /\ Building(u, o, r).order = o
           /\ Building(u, o, r).req = r
BY Blank DEF Building, TaskType, Waiting

\* So does a handler that begins.
LEMMA Started ==
    ASSUME TypeInv, NEW t \in Tasks, NEW new \in TaskType, Begin(t, new),
           new.user \in Users,
           new.pc \in {"add", "presign", "find", "delete", "remove"} => new.file \in FileIds,
           new.pc = "insert" => new.made.id \in DraftIds
    PROVE  task' \in [Tasks -> TaskType] /\ LocalsInv'
<1>1. task \in [Tasks -> TaskType] /\ LocalsInv /\ task' = [task EXCEPT ![t] = new]
  BY DEF TypeInv, TypeOK, Begin
<1>2. QED
  BY <1>1 DEF LocalsInv, At

\* The handler that builds has matched its files and holds a number.
LEMMA Numbered ==
    ASSUME NEW r \in TaskType, NEW q \in Counter
    PROVE  /\ [r EXCEPT !.pc = "number", !.seq = q] \in TaskType
           /\ [r EXCEPT !.pc = "number", !.seq = q].pc = "number"
           /\ [r EXCEPT !.pc = "number", !.seq = q].user = r.user
BY DEF TaskType, Holding

LEMMA Filed ==
    ASSUME TypeInv, NEW u \in Users, NEW fs \in Seq(FileIds), Len(fs) <= MaxFileLimit,
           drafts' = [drafts EXCEPT ![u].files = fs]
    PROVE  /\ drafts' \in [Users -> DraftType]
           /\ \A v \in Users : Len(drafts'[v].files) <= MaxFileLimit
BY DEF TypeInv, TypeOK, DraftType

\* The files that remove and a panic of build leave are among those that were there.
LEMMA Removed ==
    ASSUME TypeInv, NEW t \in Tasks, NEW i \in DOMAIN Draft(t).files, task[t].user \in Users,
           drafts' = [drafts EXCEPT ![task[t].user].files = RemoveAt(@, i)]
    PROVE  \E fs : /\ Within(fs, Draft(t).files)
                   /\ drafts' = [drafts EXCEPT ![task[t].user].files = fs]
<1>1. Draft(t).files \in Seq(FileIds)
  BY DEF Draft, DraftType, TypeInv, TypeOK
<1>2. PICK fs : fs = RemoveAt(Draft(t).files, i)
  OBVIOUS
<1>3. Within(fs, Draft(t).files)
  BY <1>1, <1>2, RemovedAt
<1>4. drafts' = [drafts EXCEPT ![task[t].user].files = fs]
  BY <1>2 DEF Draft
<1>5. QED
  BY <1>3, <1>4

LEMMA Panicked ==
    ASSUME TypeInv, NEW t \in Tasks, PanicUnmatched(t)
    PROVE  \E fs : /\ Within(fs, Draft(t).files)
                   /\ drafts' = [drafts EXCEPT ![task[t].user].files = fs]
<1>1. task[t].user \in Users /\ task[t] \in TaskType
  BY DEF PanicUnmatched, LocalsInv, At, TypeInv, TypeOK
<1>2. Draft(t).files \in Seq(FileIds) /\ task[t].req \in Seq(FileIds)
  BY <1>1 DEF Draft, DraftType, TaskType, TypeInv, TypeOK
<1>3. PICK n \in 0..(Len(task[t].req) - 1) :
         /\ OnTop(Draft(t).files, task[t].req, n)
         /\ drafts' = [drafts EXCEPT ![task[t].user].files =
               Reverse(SubSeq(Draft(t).files, n + 1, Len(Draft(t).files)))]
  BY DEF PanicUnmatched
<1>4. n \in Nat /\ n <= Len(Draft(t).files)
  <2>1. n \in Nat
    BY <1>2, LenProperties
  <2>2. QED
    BY <1>2, <1>3, <2>1, Popped
<1>5. PICK fs : fs = Reverse(SubSeq(Draft(t).files, n + 1, Len(Draft(t).files)))
  OBVIOUS
<1>6. Within(fs, Draft(t).files)
  BY <1>2, <1>4, <1>5, Reversed
<1>7. QED
  BY <1>3, <1>5, <1>6

\* The types, handler by handler.
LEMMA CreateTypes ==
    ASSUME TypeInv, NEW t \in Tasks, NEW u \in Users, CreateRead(t, u) \/ CreateInsert(t)
    PROVE  TypeInv'
<1> USE Constants DEF TypeInv, TypeOK, outer, ids, client
<1>1. CASE CreateRead(t, u)
  <2>1. lastDraft' \in DraftIds /\ now \in Nat
    BY <1>1 DEF CreateRead, DraftIds
  <2> DEFINE new == Creating(u, lastDraft', now)
  <2>2. new \in TaskType /\ new.pc = "insert" /\ new.user = u /\ new.made.id = lastDraft'
    BY <2>1, CreateLocals DEF DraftIds
  <2>3. task' \in [Tasks -> TaskType] /\ LocalsInv'
    BY <1>1, <2>1, <2>2, Started DEF CreateRead
  <2>4. QED
    BY <1>1, <2>1, <2>3 DEF CreateRead, DraftIds
<1>2. CASE CreateInsert(t)
  <2> DEFINE v == task[t].user
             new == [id |-> task[t].made.id, createdAt |-> task[t].made.createdAt,
                     files |-> <<>>]
  <2>1. v \in Users /\ task[t].made.id \in DraftIds /\ task[t].made \in OrderType
    BY <1>2 DEF CreateInsert, LocalsInv, At, TaskType
  <2>2. new \in DraftType /\ Len(new.files) <= MaxFileLimit
    BY <2>1, Empty DEF DraftType, OrderType
  <2> HIDE DEF new
  <2>3. drafts' = IF drafts[v] = NoDraft THEN [drafts EXCEPT ![v] = new] ELSE drafts
    BY <1>2 DEF CreateInsert, new
  <2>4. /\ drafts' \in [Users -> DraftType]
        /\ \A w \in Users : Len(drafts'[w].files) <= MaxFileLimit
    BY <2>1, <2>2, <2>3
  <2>5. /\ knownDrafts' \in [Users -> SUBSET DraftIds]
        /\ Finish(t)
        /\ UNCHANGED <<queue, knownFiles, ids, outer, cleaner, restarts>>
    BY <1>2, <2>1 DEF CreateInsert
  <2>6. QED
    BY <2>4, <2>5, Finished
<1>3. QED
  BY <1>1, <1>2

LEMMA AddTypes ==
    ASSUME TypeInv, NEW t \in Tasks, NEW u \in Users, AddBegin(t, u) \/ Add(t)
    PROVE  TypeInv'
<1> USE Constants DEF TypeInv, TypeOK, outer, ids, client
<1>1. CASE AddBegin(t, u)
  <2>1. PICK o \in knownDrafts[u] :
           Begin(t, OnFile("add", u, o, lastFile'))
    BY <1>1 DEF AddBegin
  <2> DEFINE new == OnFile("add", u, o, lastFile')
  <2>2. lastFile' = lastFile + 1 /\ lastFile < MaxFiles
        /\ UNCHANGED <<drafts, lock, queue, client, lastDraft, outer, cleaner, restarts>>
    BY <1>1 DEF AddBegin
  <2>3. lastFile' \in FileIds
    BY <2>2 DEF FileIds
  <2>4. o \in 0..MaxDrafts /\ "add" \in Waiting
    BY DEF DraftIds, Waiting
  <2>5. new \in TaskType /\ new.pc = "add" /\ new.user = u /\ new.file = lastFile'
    BY <2>3, <2>4, PathLocals DEF FileIds
  <2>6. task' \in [Tasks -> TaskType] /\ LocalsInv'
    BY <2>1, <2>3, <2>5, Started
  <2>7. QED
    BY <2>2, <2>3, <2>6 DEF FileIds
<1>2. CASE AddFile(t)
  <2>1. task[t].user \in Users /\ task[t].file \in FileIds
    BY <1>2 DEF AddFile, LocalsInv, At
  <2> DEFINE fs == Append(Draft(t).files, task[t].file)
  <2>2. /\ Draft(t).files \in Seq(FileIds) /\ Len(Draft(t).files) \in Nat
        /\ Len(Draft(t).files) <= MaxFileLimit
    BY <2>1, LenProperties DEF Draft, DraftType
  <2>3. fs \in Seq(FileIds) /\ Len(fs) = Len(Draft(t).files) + 1
    BY <2>1, <2>2, Appended
  <2>4. drafts' = [drafts EXCEPT ![task[t].user].files = fs]
    BY <1>2 DEF AddFile, fs, Draft
  <2> HIDE DEF fs
  <2>5. Len(fs) <= MaxFileLimit
    BY <1>2, <2>2, <2>3 DEF AddFile
  <2>6. /\ drafts' \in [Users -> DraftType]
        /\ \A v \in Users : Len(drafts'[v].files) <= MaxFileLimit
    BY <2>1, <2>3, <2>4, <2>5, Filed
  <2>7. task' \in [Tasks -> TaskType] /\ LocalsInv'
    BY <1>2, Went DEF AddFile, At, Waiting
  <2>8. QED
    BY <1>2, <2>6, <2>7 DEF AddFile
<1>3. CASE AddRefused(t) \/ PresignFails(t)
  BY <1>3, Finished DEF AddRefused, PresignFails, Refused
<1>4. CASE Presign(t)
  <2>1. /\ task[t].user \in Users /\ task[t].file \in FileIds
        /\ Draft(t).createdAt \in Nat /\ now \in Nat
    BY <1>4 DEF Presign, LocalsInv, At, Draft, DraftType
  <2>2. now + (Lifetime - (now - Draft(t).createdAt)) \in Nat
    BY <1>4, <2>1 DEF Presign
  <2>3. url' \in [FileIds -> Nat] /\ knownFiles' \in [Users -> SUBSET FileIds]
    BY <1>4, <2>1, <2>2 DEF Presign
  <2>4. Finish(t) /\ UNCHANGED <<drafts, queue, knownDrafts, ids, bucket, orders, now,
                                 cleaner, restarts>>
    BY <1>4 DEF Presign
  <2>5. QED
    BY <2>3, <2>4, Finished
<1>5. QED
  BY <1>1, <1>2, <1>3, <1>4 DEF Add

LEMMA RemoveTypes ==
    ASSUME TypeInv, NEW t \in Tasks, NEW u \in Users, RemoveBegin(t, u) \/ RemoveStep(t)
    PROVE  TypeInv'
<1> USE Constants DEF TypeInv, TypeOK, outer, ids, client
<1>1. CASE RemoveBegin(t, u)
  <2>1. PICK o \in knownDrafts[u], f \in knownFiles[u] :
           Begin(t, OnFile("find", u, o, f))
    BY <1>1 DEF RemoveBegin
  <2> DEFINE new == OnFile("find", u, o, f)
  <2>2. o \in 0..MaxDrafts /\ "find" \in Waiting /\ f \in FileIds
    BY DEF DraftIds, Waiting
  <2>3. new \in TaskType /\ new.pc = "find" /\ new.user = u /\ new.file = f
    BY <2>2, PathLocals DEF FileIds
  <2>4. task' \in [Tasks -> TaskType] /\ LocalsInv'
    BY <2>1, <2>2, <2>3, Started
  <2>5. QED
    BY <1>1, <2>4 DEF RemoveBegin
<1>2. CASE FindFile(t)
  <2>1. task' \in [Tasks -> TaskType] /\ LocalsInv'
    BY <1>2, Went DEF FindFile, At, Holding
  <2>2. QED
    BY <1>2, <2>1 DEF FindFile
<1>3. CASE FindRefused(t)
  BY <1>3, Finished DEF FindRefused, Refused
<1>4. CASE DeleteObject(t)
  <2>1. /\ bucket' \subseteq FileIds
        /\ UNCHANGED <<drafts, queue, client, ids, url, orders, now, cleaner, restarts>>
    BY <1>4 DEF DeleteObject
  <2>2. CASE GoTo(t, "remove") /\ lock' = [lock EXCEPT ![task[t].user] = None]
    <3>1. task' \in [Tasks -> TaskType] /\ LocalsInv'
      BY <1>4, <2>2, Went DEF DeleteObject, At, Waiting
    <3>2. QED
      BY <2>1, <2>2, <3>1
  <2>3. CASE Finish(t)
    BY <2>1, <2>3, Finished
  <2>4. QED
    BY <1>4, <2>2, <2>3 DEF DeleteObject
<1>5. CASE RemoveFile(t)
  <2>1. task[t].user \in Users /\ Draft(t) \in DraftType
    BY <1>5 DEF RemoveFile, LocalsInv, At, Draft
  <2>2. Finish(t) /\ UNCHANGED <<queue, client, ids, outer, cleaner, restarts>>
    BY <1>5 DEF RemoveFile
  <2>3. CASE UNCHANGED drafts
    BY <2>2, <2>3, Finished
  <2>4. ASSUME NEW i \in DOMAIN Draft(t).files,
               drafts' = [drafts EXCEPT ![task[t].user].files = RemoveAt(@, i)]
        PROVE  TypeInv'
    <3>1. Draft(t).files \in Seq(FileIds) /\ Len(Draft(t).files) <= MaxFileLimit
          /\ Len(Draft(t).files) \in Nat
      BY <2>1, LenProperties DEF Draft, DraftType
    <3>2. PICK fs : /\ Within(fs, Draft(t).files)
                    /\ drafts' = [drafts EXCEPT ![task[t].user].files = fs]
      BY <2>1, <2>4, Removed
    <3>3. fs \in Seq(FileIds) /\ Len(fs) <= MaxFileLimit
      BY <3>1, <3>2, LenProperties DEF Within
    <3>4. /\ drafts' \in [Users -> DraftType]
          /\ \A v \in Users : Len(drafts'[v].files) <= MaxFileLimit
      BY <2>1, <3>2, <3>3, Filed
    <3>5. QED
      BY <2>2, <3>4, Finished
  <2>5. QED
    BY <1>5, <2>3, <2>4 DEF RemoveFile
<1>6. QED
  BY <1>1, <1>2, <1>3, <1>4, <1>5 DEF RemoveStep

LEMMA BuildTypes ==
    ASSUME TypeInv, NEW t \in Tasks, NEW u \in Users, BuildBegin(t, u) \/ Build(t)
    PROVE  TypeInv'
<1> USE Constants DEF TypeInv, TypeOK, outer, ids, client
<1>1. CASE BuildBegin(t, u)
  <2>1. PICK o \in knownDrafts[u], r \in SeqOf(knownFiles[u], MaxFileLimit) \ {<<>>} :
           Begin(t, Building(u, o, r))
    BY <1>1 DEF BuildBegin
  <2> DEFINE new == Building(u, o, r)
  <2>2. o \in 0..MaxDrafts
    BY DEF DraftIds
  <2>3. r \in Seq(FileIds)
    BY Requests
  <2>4. new \in TaskType /\ new.pc = "validate" /\ new.user = u
    BY <2>2, <2>3, BuildLocals
  <2>5. task' \in [Tasks -> TaskType] /\ LocalsInv'
    BY <2>1, <2>4, Started
  <2>6. QED
    BY <1>1, <2>5 DEF BuildBegin
<1>2. CASE Validate(t)
  <2>1. task' \in [Tasks -> TaskType] /\ LocalsInv'
    BY <1>2, Went DEF Validate, At, Holding
  <2>2. QED
    BY <1>2, <2>1 DEF Validate
<1>3. CASE BuildRefused(t) \/ CheckRefused(t)
  BY <1>3, Finished DEF BuildRefused, CheckRefused, Refused
<1>4. CASE MatchFiles(t)
  <2>1. task' = [task EXCEPT ![t] = [task[t] EXCEPT !.pc = "number", !.seq = queue]]
    BY <1>4 DEF MatchFiles
  <2>2. /\ [task[t] EXCEPT !.pc = "number", !.seq = queue] \in TaskType
        /\ [task[t] EXCEPT !.pc = "number", !.seq = queue].pc = "number"
        /\ [task[t] EXCEPT !.pc = "number", !.seq = queue].user = task[t].user
    <3>1. task[t] \in TaskType /\ queue \in Counter
      OBVIOUS
    <3>2. QED
      BY <3>1, Numbered
  <2>3. task[t].user \in Users
    BY <1>4 DEF MatchFiles, LocalsInv, At
  <2>4. task' \in [Tasks -> TaskType] /\ LocalsInv'
    BY <2>1, <2>2, <2>3 DEF LocalsInv, At
  <2>5. QED
    BY <1>4, <2>4 DEF MatchFiles
<1>5. CASE PanicUnmatched(t)
  <2>1. task[t].user \in Users /\ Draft(t) \in DraftType /\ Len(Draft(t).files) <= MaxFileLimit
    BY <1>5 DEF PanicUnmatched, LocalsInv, At, Draft
  <2>2. Finish(t) /\ UNCHANGED <<queue, client, ids, outer, cleaner, restarts>>
    BY <1>5 DEF PanicUnmatched
  <2>3. PICK fs : /\ Within(fs, Draft(t).files)
                  /\ drafts' = [drafts EXCEPT ![task[t].user].files = fs]
    BY <1>5, Panicked
  <2>4. Draft(t).files \in Seq(FileIds) /\ Len(Draft(t).files) \in Nat
    BY <2>1, LenProperties DEF DraftType
  <2>5. fs \in Seq(FileIds) /\ Len(fs) <= MaxFileLimit
    BY <2>1, <2>3, <2>4, LenProperties DEF Within
  <2>6. /\ drafts' \in [Users -> DraftType]
        /\ \A v \in Users : Len(drafts'[v].files) <= MaxFileLimit
    BY <2>1, <2>3, <2>5, Filed
  <2>7. QED
    BY <2>2, <2>6, Finished
<1>6. CASE TakeNumber(t)
  <2> DEFINE made == [id |-> Draft(t).id, owner |-> task[t].user, files |-> task[t].req,
                      createdAt |-> Draft(t).createdAt, seq |-> queue']
             new  == [task[t] EXCEPT !.pc = "persist", !.made = made]
  <2>1. task[t].user \in Users /\ task[t] \in TaskType
    BY <1>6 DEF TakeNumber, LocalsInv, At
  <2>2. Draft(t) \in DraftType
    BY <2>1 DEF Draft
  <2>3. queue' \in Counter
    BY <1>6, <2>1 DEF TakeNumber, TaskType
  <2>4. made \in OrderType
    BY <2>1, <2>2, <2>3 DEF OrderType, DraftType, TaskType
  <2>5. task' = [task EXCEPT ![t] = new]
    BY <1>6 DEF TakeNumber
  <2> HIDE DEF made
  <2>6. new \in TaskType /\ new.pc = "persist" /\ new.user = task[t].user
    BY <2>1, <2>4 DEF TaskType, Waiting
  <2> HIDE DEF new
  <2>7. task' \in [Tasks -> TaskType] /\ LocalsInv'
    BY <2>1, <2>5, <2>6 DEF LocalsInv, At
  <2>8. /\ drafts' = [drafts EXCEPT ![task[t].user] = NoDraft]
        /\ lock' = [lock EXCEPT ![task[t].user] = None]
        /\ UNCHANGED <<client, ids, outer, cleaner, restarts>>
    BY <1>6 DEF TakeNumber
  <2>9. QED
    BY <2>1, <2>3, <2>7, <2>8, Blank
<1>7. CASE Persist(t)
  <2>1. task[t].made \in OrderType
    BY DEF TaskType
  <2>2. QED
    BY <1>7, <2>1, Finished DEF Persist
<1>8. QED
  BY <1>1, <1>2, <1>3, <1>4, <1>5, <1>6, <1>7 DEF Build

\* The entry of a user is emptied.
LEMMA Emptied ==
    ASSUME TypeInv, NEW u \in Users, drafts' = [drafts EXCEPT ![u] = NoDraft]
    PROVE  /\ drafts' \in [Users -> DraftType]
           /\ \A v \in Users : Len(drafts'[v].files) <= MaxFileLimit
<1>1. /\ drafts \in [Users -> DraftType] /\ MaxFileLimit \in Nat
      /\ \A v \in Users : Len(drafts[v].files) <= MaxFileLimit
  BY Constants DEF TypeInv, TypeOK
<1>2. NoDraft \in DraftType /\ Len(NoDraft.files) = 0
  BY Blank
<1>3. QED
  BY <1>1, <1>2

LEMMA Visited ==
    ASSUME TypeInv, NEW u \in Users, CleanVisit(u)
    PROVE  cleaner' \in [pc : {"asleep", "visit"}, cutoff : Nat, todo : SUBSET Users,
                         keys : SUBSET FileIds]
<1>1. PICK S : S = ToSet(drafts[u].files)
  OBVIOUS
<1>2. S \subseteq FileIds
  BY <1>1 DEF TypeInv, TypeOK, DraftType, ToSet
<1>3. cleaner \in [pc : {"asleep", "visit"}, cutoff : Nat, todo : SUBSET Users,
                   keys : SUBSET FileIds]
  BY DEF TypeInv, TypeOK
<1>4. \/ cleaner' = [cleaner EXCEPT !.todo = @ \ {u}, !.keys = @ \cup S]
      \/ cleaner' = [cleaner EXCEPT !.todo = @ \ {u}]
  BY <1>1 DEF CleanVisit
<1>5. QED
  BY <1>2, <1>3, <1>4

LEMMA CleanTypes == TypeInv /\ Clean => TypeInv'
<1> USE Constants DEF TypeInv, TypeOK, outer, ids, client
<1> SUFFICES ASSUME TypeInv, Clean PROVE TypeInv'
  OBVIOUS
<1>1. UNCHANGED <<lock, queue, task, client, ids, restarts>> /\ LocalsInv'
  BY DEF Clean, CleanStart, CleanVisit, CleanPurge, LocalsInv, At
<1>2. CASE CleanStart
  BY <1>1, <1>2 DEF CleanStart
<1>3. ASSUME NEW u \in Users, CleanVisit(u) PROVE TypeInv'
  <2>1. drafts' = [drafts EXCEPT ![u] = NoDraft] \/ drafts' = drafts
    BY <1>3 DEF CleanVisit
  <2>2. /\ drafts' \in [Users -> DraftType]
        /\ \A v \in Users : Len(drafts'[v].files) <= MaxFileLimit
    BY <2>1, Emptied
  <2>3. QED
    BY <1>1, <1>3, <2>2, Visited DEF CleanVisit
<1>4. CASE CleanPurge
  BY <1>1, <1>4 DEF CleanPurge, Asleep
<1>5. QED
  BY <1>2, <1>3, <1>4 DEF Clean

LEMMA OtherTypes ==
    ASSUME TypeInv,
           \/ \E t \in Tasks : Disconnect(t)
           \/ \E u \in Users : Discard(u)
           \/ \E f \in FileIds : Upload(f)
           \/ Tick \/ Restart \/ UNCHANGED vars
    PROVE  TypeInv'
<1> USE Constants DEF TypeInv, TypeOK, outer, ids, client
<1>1. ASSUME NEW t \in Tasks, Disconnect(t) PROVE TypeInv'
  BY <1>1, Finished DEF Disconnect, Refused
<1>2. ASSUME NEW u \in Users, Discard(u) PROVE TypeInv'
  BY <1>2, Blank DEF Discard, LocalsInv, At
<1>3. ASSUME NEW f \in FileIds, Upload(f) PROVE TypeInv'
  BY <1>3 DEF Upload, LocalsInv, At
<1>4. CASE Tick
  BY <1>4 DEF Tick, LocalsInv, At
<1>5. CASE Restart
  BY <1>5, Blank DEF Restart, LocalsInv, At, Asleep
<1>6. CASE UNCHANGED vars
  BY <1>6 DEF vars, LocalsInv, At
<1>7. QED
  BY <1>1, <1>2, <1>3, <1>4, <1>5, <1>6

\* The next-state relation, by what causes a step.
LEMMA StepCases ==
    ASSUME [Next]_vars
    PROVE  \/ \E t \in Tasks, u \in Users : CreateRead(t, u)
           \/ \E t \in Tasks : CreateInsert(t)
           \/ \E t \in Tasks, u \in Users : AddBegin(t, u)
           \/ \E t \in Tasks : Add(t)
           \/ \E t \in Tasks, u \in Users : RemoveBegin(t, u)
           \/ \E t \in Tasks : RemoveStep(t)
           \/ \E t \in Tasks, u \in Users : BuildBegin(t, u)
           \/ \E t \in Tasks : Build(t)
           \/ Clean
           \/ \E t \in Tasks : Disconnect(t)
           \/ \E u \in Users : Discard(u)
           \/ \E f \in FileIds : Upload(f)
           \/ Tick \/ Restart \/ UNCHANGED vars
BY DEF Next, Handle

LEMMA TypeStep == TypeInv /\ [Next]_vars => TypeInv'
<1> SUFFICES ASSUME TypeInv, [Next]_vars PROVE TypeInv'
  OBVIOUS
<1>1. ASSUME NEW t \in Tasks, CreateInsert(t) \/ Add(t) \/ RemoveStep(t) \/ Build(t)
      PROVE  TypeInv'
  <2>1. task[t].pc # "idle"
    BY <1>1 DEF At, CreateInsert, Add, AddFile, AddRefused, Presign, PresignFails,
           RemoveStep, FindFile, FindRefused, DeleteObject, RemoveFile, Build, Validate,
           BuildRefused, CheckRefused, MatchFiles, PanicUnmatched, TakeNumber, Persist
  <2>2. task[t].user \in Users
    BY <2>1 DEF TypeInv, LocalsInv, At
  <2>3. QED
    BY <1>1, <2>2, CreateTypes, AddTypes, RemoveTypes, BuildTypes
<1>2. QED
  BY <1>1, StepCases, CreateTypes, AddTypes, RemoveTypes, BuildTypes, CleanTypes, OtherTypes

\* Every variable of the draft store keeps its type, no draft has more files than
\* the limit, and the counter stays in its range (state/drafts.rs).
THEOREM DraftsTyped == Spec => []TypeOK
<1>1. TypeInv => TypeOK
  BY DEF TypeInv
<1>2. QED
  BY <1>1, InitTypes, TypeStep, PTL DEF Spec
-----------------------------------------------------------------------------
(* What the entry of a user protects.                                      *)

\* How a step may change the handlers and the entries, to keep each entry with
\* the handler that holds it: a handler ends,
LEMMA HeldOnFinish ==
    ASSUME TypeInv, LocksHeldByTasks, NEW t \in Tasks, Finish(t)
    PROVE  LocksHeldByTasks'
<1>1. /\ task' = [task EXCEPT ![t] = Idle] /\ task \in [Tasks -> TaskType]
      /\ lock' = [u \in Users |-> IF lock[u] = t THEN None ELSE lock[u]]
  BY DEF Finish, TypeInv, TypeOK
<1>2. Idle.pc \notin Holding
  BY Blank DEF Holding
<1>3. QED
  BY <1>1, <1>2, DraftAssumption DEF LocksHeldByTasks

\* or begins,
LEMMA HeldOnBegin ==
    ASSUME TypeInv, LocksHeldByTasks, NEW t \in Tasks, NEW new, Begin(t, new),
           new.pc \notin Holding, UNCHANGED lock
    PROVE  LocksHeldByTasks'
<1>1. /\ task' = [task EXCEPT ![t] = new] /\ task \in [Tasks -> TaskType]
      /\ task[t].pc \notin Holding
  BY DEF Begin, At, TypeInv, TypeOK, Holding
<1>2. QED
  BY <1>1 DEF LocksHeldByTasks

\* or goes on and neither takes nor lets go of the entry,
LEMMA HeldOnGo ==
    ASSUME TypeInv, LocksHeldByTasks, NEW t \in Tasks, NEW new,
           task' = [task EXCEPT ![t] = new], new.user = task[t].user,
           new.pc \in Holding <=> task[t].pc \in Holding, UNCHANGED lock
    PROVE  LocksHeldByTasks'
<1>1. task \in [Tasks -> TaskType]
  BY DEF TypeInv, TypeOK
<1>2. QED
  BY <1>1 DEF LocksHeldByTasks

\* or takes it when it is free,
LEMMA HeldOnTake ==
    ASSUME TypeInv, LocksHeldByTasks, NEW t \in Tasks, NEW pc \in Holding, GoTo(t, pc),
           ~At(t, "idle"), task[t].pc \notin Holding, Free(task[t].user),
           lock' = [lock EXCEPT ![task[t].user] = t]
    PROVE  LocksHeldByTasks'
<1>1. /\ task' = [task EXCEPT ![t].pc = pc] /\ task \in [Tasks -> TaskType]
      /\ lock \in [Users -> Tasks \cup {None}] /\ task[t].user \in Users
      /\ lock[task[t].user] \notin Tasks
  BY DraftAssumption DEF GoTo, TypeInv, TypeOK, LocalsInv, Free
<1>2. task'[t].user = task[t].user /\ task'[t].pc = pc
  BY <1>1 DEF TaskType
<1>3. QED
  BY <1>1, <1>2 DEF LocksHeldByTasks

\* or lets go of it.
LEMMA HeldOnDrop ==
    ASSUME TypeInv, LocksHeldByTasks, NEW t \in Tasks, NEW new,
           task' = [task EXCEPT ![t] = new], new.pc \notin Holding,
           task[t].pc \in Holding, lock' = [lock EXCEPT ![task[t].user] = None]
    PROVE  LocksHeldByTasks'
<1>1. /\ task \in [Tasks -> TaskType] /\ lock \in [Users -> Tasks \cup {None}]
  BY DEF TypeInv, TypeOK
<1>2. lock[task[t].user] = t /\ task[t].user \in Users
  BY <1>1 DEF LocksHeldByTasks, TypeInv, LocalsInv, At, Holding
<1>3. QED
  BY <1>1, <1>2, DraftAssumption DEF LocksHeldByTasks

LEMMA HandlersHeld ==
    ASSUME TypeInv, LocksHeldByTasks, NEW t \in Tasks, Handle(t)
    PROVE  LocksHeldByTasks'
<1>1. CASE \/ CreateInsert(t) \/ AddRefused(t) \/ Presign(t) \/ PresignFails(t)
           \/ FindRefused(t) \/ RemoveFile(t) \/ BuildRefused(t) \/ CheckRefused(t)
           \/ PanicUnmatched(t) \/ Persist(t)
  BY <1>1, HeldOnFinish DEF CreateInsert, AddRefused, Presign, PresignFails, FindRefused,
     RemoveFile, BuildRefused, CheckRefused, PanicUnmatched, Persist, Refused
<1>2. CASE AddFile(t)
  <2> DEFINE new == [task[t] EXCEPT !.pc = "presign"]
  <2>1. /\ task' = [task EXCEPT ![t] = new] /\ UNCHANGED lock
        /\ new.user = task[t].user /\ new.pc = "presign" /\ task[t].pc = "add"
    BY <1>2 DEF AddFile, GoTo, At, TypeInv, TypeOK, TaskType
  <2> HIDE DEF new
  <2>2. QED
    BY <2>1, HeldOnGo DEF Holding
<1>3. CASE FindFile(t)
  BY <1>3, HeldOnTake DEF FindFile, At, Holding
<1>4. CASE Validate(t)
  BY <1>4, HeldOnTake DEF Validate, At, Holding
<1>5. CASE MatchFiles(t)
  <2> DEFINE new == [task[t] EXCEPT !.pc = "number", !.seq = queue]
  <2>1. /\ task' = [task EXCEPT ![t] = new] /\ UNCHANGED lock /\ task[t].pc = "check"
    BY <1>5 DEF MatchFiles, At
  <2>2. new.user = task[t].user /\ new.pc = "number"
    BY DEF TypeInv, TypeOK, TaskType
  <2> HIDE DEF new
  <2>3. QED
    BY <2>1, <2>2, HeldOnGo DEF Holding
<1>6. CASE DeleteObject(t)
  <2>1. CASE Finish(t)
    BY <2>1, HeldOnFinish
  <2>2. CASE GoTo(t, "remove") /\ lock' = [lock EXCEPT ![task[t].user] = None]
    <3> DEFINE new == [task[t] EXCEPT !.pc = "remove"]
    <3>1. task' = [task EXCEPT ![t] = new] /\ new.pc = "remove" /\ task[t].pc = "delete"
      BY <1>6, <2>2 DEF DeleteObject, GoTo, At, TypeInv, TypeOK, TaskType
    <3> HIDE DEF new
    <3>2. QED
      BY <2>2, <3>1, HeldOnDrop DEF Holding
  <2>3. QED
    BY <1>6, <2>1, <2>2 DEF DeleteObject
<1>7. CASE TakeNumber(t)
  <2>1. PICK made :
           /\ task' = [task EXCEPT ![t].pc = "persist", ![t].made = made]
           /\ lock' = [lock EXCEPT ![task[t].user] = None] /\ task[t].pc = "number"
    BY <1>7 DEF TakeNumber, At
  <2> DEFINE new == [task[t] EXCEPT !.pc = "persist", !.made = made]
  <2>2. task' = [task EXCEPT ![t] = new] /\ new.pc = "persist"
    BY <2>1 DEF TypeInv, TypeOK, TaskType
  <2> HIDE DEF new
  <2>3. QED
    BY <2>1, <2>2, HeldOnDrop DEF Holding
<1>8. QED
  BY <1>1, <1>2, <1>3, <1>4, <1>5, <1>6, <1>7 DEF Handle, Add, RemoveStep, Build

LEMMA RequestsHeld ==
    ASSUME TypeInv, LocksHeldByTasks, NEW t \in Tasks, NEW u \in Users,
           CreateRead(t, u) \/ AddBegin(t, u) \/ RemoveBegin(t, u) \/ BuildBegin(t, u)
    PROVE  LocksHeldByTasks'
<1>1. CASE CreateRead(t, u)
  <2>1. lastDraft' \in Nat /\ now \in Nat
    BY <1>1, Constants DEF CreateRead, TypeInv, TypeOK
  <2>2. Creating(u, lastDraft', now).pc \notin Holding
    BY <2>1, CreateLocals DEF Holding
  <2>3. QED
    BY <1>1, <2>2, HeldOnBegin DEF CreateRead
<1>2. CASE AddBegin(t, u)
  <2>1. lastFile' \in 0..MaxFiles /\ knownDrafts[u] \subseteq 0..MaxDrafts
    BY <1>2, Constants DEF AddBegin, TypeInv, TypeOK, DraftIds
  <2>2. PICK o \in knownDrafts[u] : Begin(t, OnFile("add", u, o, lastFile'))
    BY <1>2 DEF AddBegin
  <2>3. OnFile("add", u, o, lastFile').pc \notin Holding
    BY <2>1, PathLocals DEF Waiting, Holding
  <2>4. QED
    BY <1>2, <2>2, <2>3, HeldOnBegin DEF AddBegin
<1>3. CASE RemoveBegin(t, u)
  <2>1. knownFiles[u] \subseteq 0..MaxFiles /\ knownDrafts[u] \subseteq 0..MaxDrafts
    BY Constants DEF TypeInv, TypeOK, DraftIds, FileIds
  <2>2. PICK o \in knownDrafts[u], f \in knownFiles[u] : Begin(t, OnFile("find", u, o, f))
    BY <1>3 DEF RemoveBegin
  <2>3. OnFile("find", u, o, f).pc \notin Holding
    BY <2>1, PathLocals DEF Waiting, Holding
  <2>4. QED
    BY <1>3, <2>2, <2>3, HeldOnBegin DEF RemoveBegin
<1>4. CASE BuildBegin(t, u)
  <2>1. knownDrafts[u] \subseteq 0..MaxDrafts /\ knownFiles[u] \in SUBSET FileIds
        /\ MaxFileLimit \in Nat
    BY Constants DEF TypeInv, TypeOK, DraftIds
  <2>2. PICK o \in knownDrafts[u], r \in SeqOf(knownFiles[u], MaxFileLimit) \ {<<>>} :
           Begin(t, Building(u, o, r))
    BY <1>4 DEF BuildBegin
  <2>3. r \in Seq(FileIds)
    BY <2>1, Requests
  <2>4. Building(u, o, r).pc \notin Holding
    BY <2>1, <2>3, BuildLocals DEF Holding
  <2>5. QED
    BY <1>4, <2>2, <2>4, HeldOnBegin DEF BuildBegin
<1>5. QED
  BY <1>1, <1>2, <1>3, <1>4

LEMMA HeldStep ==
    ASSUME TypeInv, LocksHeldByTasks, [Next]_vars
    PROVE  LocksHeldByTasks'
<1>1. ASSUME NEW t \in Tasks, Disconnect(t) PROVE LocksHeldByTasks'
  BY <1>1, HeldOnFinish DEF Disconnect, Refused
<1>2. CASE UNCHANGED <<lock, task>>
  BY <1>2 DEF LocksHeldByTasks
<1>3. CASE Restart
  BY <1>3, Blank, DraftAssumption DEF Restart, LocksHeldByTasks, Holding
<1>4. ASSUME NEW u \in Users, Discard(u) \/ CleanVisit(u) PROVE LocksHeldByTasks'
  BY <1>2, <1>4 DEF Discard, CleanVisit
<1>5. ASSUME NEW f \in FileIds, Upload(f) PROVE LocksHeldByTasks'
  BY <1>2, <1>5 DEF Upload
<1>6. CASE CleanStart \/ CleanPurge \/ Tick \/ UNCHANGED vars
  BY <1>2, <1>6 DEF CleanStart, CleanPurge, Tick, vars
<1>7. QED
  BY <1>1, <1>3, <1>4, <1>5, <1>6, HandlersHeld, RequestsHeld DEF Next, Clean

\* Whatever ends a handler, an entry is held exactly by the handler that is between
\* its get_async and its drop or return (drafts.rs and the handlers of orders.rs).
THEOREM EntriesHeld == Spec => []LocksHeldByTasks
<1>1. Init => LocksHeldByTasks
  BY Blank, DraftAssumption DEF Init, LocksHeldByTasks, Holding
<1>2. TypeInv /\ LocksHeldByTasks /\ [Next]_vars => LocksHeldByTasks'
  BY HeldStep
<1>3. QED
  BY <1>1, <1>2, InitTypes, TypeStep, PTL DEF Spec

\* A draft is edited by a handler that lets go of the entry, or while the entry
\* is free.
LEMMA EditStep ==
    ASSUME TypeInv, LocksHeldByTasks, [Next]_vars, NEW v \in Users,
           lock[v] # None, lock'[v] = lock[v]
    PROVE  drafts'[v] = drafts[v]
<1>1. drafts \in [Users -> DraftType] /\ lock \in [Users -> Tasks \cup {None}]
  BY DEF TypeInv, TypeOK
<1>2. CASE UNCHANGED drafts
  BY <1>2
<1>3. ASSUME NEW u \in Users, Free(u), drafts'[v] = drafts[v] \/ v = u
      PROVE  drafts'[v] = drafts[v]
  BY <1>3 DEF Free
<1>4. ASSUME NEW t \in Tasks, Handle(t) PROVE drafts'[v] = drafts[v]
  <2>1. CASE CreateInsert(t) \/ AddFile(t) \/ RemoveFile(t)
    BY <1>1, <2>1 DEF CreateInsert, AddFile, RemoveFile, Free
  <2>2. CASE PanicUnmatched(t)
    <3>1. task[t].user \in Users /\ task[t].pc \in Holding
      BY <2>2 DEF PanicUnmatched, At, TypeInv, LocalsInv, Holding
    <3>2. lock[task[t].user] = t
      BY <3>1 DEF LocksHeldByTasks
    <3>3. v # task[t].user
      BY <2>2, <3>1, <3>2, DraftAssumption DEF PanicUnmatched, Finish
    <3>4. QED
      BY <1>1, <2>2, <3>3 DEF PanicUnmatched
  <2>3. CASE TakeNumber(t)
    BY <1>1, <2>3 DEF TakeNumber
  <2>4. CASE ~(CreateInsert(t) \/ AddFile(t) \/ RemoveFile(t) \/ PanicUnmatched(t)
               \/ TakeNumber(t))
    BY <1>4, <2>4 DEF Handle, Add, AddRefused, Presign, PresignFails, RemoveStep, FindFile,
       FindRefused, DeleteObject, Build, Validate, BuildRefused, CheckRefused, MatchFiles,
       Persist, Refused
  <2>5. QED
    BY <2>1, <2>2, <2>3, <2>4
<1>5. ASSUME NEW t \in Tasks, NEW u \in Users,
             CreateRead(t, u) \/ AddBegin(t, u) \/ RemoveBegin(t, u) \/ BuildBegin(t, u)
      PROVE  drafts'[v] = drafts[v]
  BY <1>5 DEF CreateRead, AddBegin, RemoveBegin, BuildBegin
<1>6. ASSUME NEW t \in Tasks, Disconnect(t) PROVE drafts'[v] = drafts[v]
  BY <1>6 DEF Disconnect, Refused
<1>7. ASSUME NEW u \in Users, Discard(u) \/ CleanVisit(u) PROVE drafts'[v] = drafts[v]
  BY <1>1, <1>7 DEF Discard, CleanVisit, Free
<1>8. ASSUME NEW f \in FileIds, Upload(f) PROVE drafts'[v] = drafts[v]
  BY <1>8 DEF Upload
<1>9. CASE Restart
  BY <1>9 DEF Restart
<1>10. CASE CleanStart \/ CleanPurge \/ Tick \/ UNCHANGED vars
  BY <1>10 DEF CleanStart, CleanPurge, Tick, vars
<1>11. QED
  BY <1>4, <1>5, <1>6, <1>7, <1>8, <1>9, <1>10 DEF Next, Clean

\* Nobody edits, replaces or clears a draft while a handler holds its entry across
\* calls to the bucket (orders.rs, delete_orders_id_files_id and post_orders_id_build).
THEOREM HeldDraftsStay == Spec => NoEditWhileHeld
<1>1. TypeInv /\ LocksHeldByTasks /\ [Next]_vars =>
         [\A u \in Users : lock[u] # None /\ lock'[u] = lock[u] => drafts'[u] = drafts[u]]_vars
  BY EditStep
<1>2. TypeInv /\ [Next]_vars => TypeInv'
  BY TypeStep
<1>3. QED
  BY <1>1, <1>2, InitTypes, EntriesHeld, PTL DEF Spec, NoEditWhileHeld
-----------------------------------------------------------------------------
(* Ids, files and times.                                                   *)

\* A new file is with one handler at most, and nowhere else.
FreshInv ==
    /\ \A t \in Tasks : At(t, "add") => task[t].file <= lastFile
    /\ \A r, t \in Tasks : At(r, "add") /\ At(t, "add") /\ r # t => task[r].file # task[t].file
    /\ \A t \in Tasks : At(t, "presign") => task[t].file \notin NewFiles
    /\ \A u \in Users : NewFiles \cap (ToSet(drafts[u].files) \cup knownFiles[u]) = {}
    /\ \A ord \in Sent : NewFiles \cap ToSet(ord.files) = {}
    /\ NewFiles \cap cleaner.keys = {}
    /\ \A f \in NewFiles : url[f] = 0

\* So is a new draft id; a used one is the id of one draft or of one sent order.
IdsInv ==
    /\ \A t \in Tasks : At(t, "insert") => task[t].made.id <= lastDraft
    /\ \A r, t \in Tasks : At(r, "insert") /\ At(t, "insert") /\ r # t
          => task[r].made.id # task[t].made.id
    /\ \A u \in Users : drafts[u] = NoDraft \/ drafts[u].id \in DraftIds \ NewDrafts
    /\ \A ord \in Sent : ord.id \in DraftIds \ NewDrafts
    /\ \A u, v \in Users : u # v /\ drafts[u] # NoDraft => drafts[u].id # drafts[v].id
    /\ SettledOnce

\* A file is in one place, the files of a handler that presigns are in no other
\* user's draft, and what the cleaner deletes is in no draft and no sent order.
FilesInv ==
    /\ \A u \in Users : IsInjective(drafts[u].files)
    /\ \A u, v \in Users : u # v => ToSet(drafts[u].files) \cap ToSet(drafts[v].files) = {}
    /\ \A u \in Users, ord \in Sent : ToSet(drafts[u].files) \cap ToSet(ord.files) = {}
    /\ \A ord \in Sent : IsInjective(ord.files)
    /\ \A a, b \in Sent : a # b => ToSet(a.files) \cap ToSet(b.files) = {}
    /\ \A t \in Tasks, v \in Users : At(t, "presign") /\ task[t].file \in ToSet(drafts[v].files)
          => v = task[t].user
    /\ \A u \in Users : cleaner.keys \cap ToSet(drafts[u].files) = {}
    /\ \A ord \in Sent : cleaner.keys \cap ToSet(ord.files) = {}

\* Why build places what the path names: the request lists files that were bound
\* before it began, and a draft that has one of them still is the draft of that time.
BuildInv ==
    \A t \in Tasks :
        /\ At(t, "validate") =>
              /\ task[t].req # <<>> /\ ToSet(task[t].req) \subseteq knownFiles[task[t].user]
              /\ \A f \in ToSet(task[t].req) : Bound(t, f) => Draft(t).id = task[t].order
        /\ task[t].pc \in {"check", "number"} =>
              Draft(t) # NoDraft /\ Draft(t).id = task[t].order /\ task[t].req # <<>>
        /\ At(t, "number") => Within(task[t].req, Draft(t).files)
        /\ At(t, "persist") => task[t].made.id = task[t].order

\* What build has looked up in the bucket stays there: who deletes an object holds
\* the draft that has the file.
ObjectsInv ==
    /\ SentFilesUploaded
    /\ \A t \in Tasks : At(t, "number") => Uploaded(Draft(t).files)
    /\ \A t \in Tasks : At(t, "delete") => Bound(t, task[t].file)

\* The cleaner noted its time in the past.
TimesInv == UrlWithinDraft /\ cleaner.cutoff <= now

(* What a step does, seen from one handler, from one user, and from the     *)
(* orders that were sent.                                                  *)

\* How handler r comes to stand where it stands.
TaskMove(r) ==
    \/ task'[r] = task[r]
    \/ task'[r].pc \in {"idle", "find", "remove"}
    \/ task'[r].pc = "insert" /\ \E u \in Users : CreateRead(r, u)
    \/ task'[r].pc = "add" /\ \E u \in Users : AddBegin(r, u)
    \/ task'[r].pc = "presign" /\ AddFile(r)
    \/ task'[r].pc = "delete" /\ FindFile(r)
    \/ task'[r].pc = "validate" /\ \E u \in Users : BuildBegin(r, u)
    \/ task'[r].pc = "check" /\ Validate(r)
    \/ task'[r].pc = "number" /\ MatchFiles(r)
    \/ task'[r].pc = "persist" /\ TakeNumber(r)

LEMMA TaskMoves ==
    ASSUME TypeInv, [Next]_vars, NEW r \in Tasks
    PROVE  TaskMove(r)
<1>1. task \in [Tasks -> TaskType] /\ Idle.pc = "idle"
  BY Blank DEF TypeInv, TypeOK
<1>2. ASSUME NEW t \in Tasks, Finish(t) PROVE TaskMove(r)
  BY <1>1, <1>2 DEF Finish, TaskMove
<1>3. ASSUME NEW t \in Tasks, NEW pc, GoTo(t, pc)
      PROVE  task'[r] = task[r] \/ (t = r /\ task'[r].pc = pc)
  BY <1>1, <1>3 DEF GoTo, TaskType
<1>4. ASSUME NEW t \in Tasks, NEW new, Begin(t, new)
      PROVE  task'[r] = task[r] \/ (t = r /\ task'[r] = new)
  BY <1>1, <1>4 DEF Begin
<1>5. CASE UNCHANGED task
  BY <1>5 DEF TaskMove
<1>6. ASSUME NEW t \in Tasks, Handle(t) PROVE TaskMove(r)
  <2>1. CASE \/ CreateInsert(t) \/ AddRefused(t) \/ Presign(t) \/ PresignFails(t)
             \/ FindRefused(t) \/ RemoveFile(t) \/ BuildRefused(t) \/ CheckRefused(t)
             \/ PanicUnmatched(t) \/ Persist(t)
    <3>1. Finish(t)
      BY <2>1 DEF CreateInsert, AddRefused, Presign, PresignFails, FindRefused,
         RemoveFile, BuildRefused, CheckRefused, PanicUnmatched, Persist, Refused
    <3>2. QED
      BY <1>2, <3>1
  <2>2. CASE AddFile(t)
    <3>1. GoTo(t, "presign")
      BY <2>2 DEF AddFile
    <3>2. QED
      BY <1>3, <2>2, <3>1 DEF TaskMove
  <2>3. CASE FindFile(t)
    <3>1. GoTo(t, "delete")
      BY <2>3 DEF FindFile
    <3>2. QED
      BY <1>3, <2>3, <3>1 DEF TaskMove
  <2>4. CASE DeleteObject(t)
    <3>1. GoTo(t, "remove") \/ Finish(t)
      BY <2>4 DEF DeleteObject
    <3>2. QED
      BY <1>2, <1>3, <3>1 DEF TaskMove
  <2>5. CASE Validate(t)
    <3>1. GoTo(t, "check")
      BY <2>5 DEF Validate
    <3>2. QED
      BY <1>3, <2>5, <3>1 DEF TaskMove
  <2>6. CASE MatchFiles(t)
    <3>1. task'[r] = task[r] \/ (t = r /\ task'[r].pc = "number")
      BY <1>1, <2>6 DEF MatchFiles, TaskType
    <3>2. QED
      BY <2>6, <3>1 DEF TaskMove
  <2>7. CASE TakeNumber(t)
    <3>1. PICK made : task' = [task EXCEPT ![t].pc = "persist", ![t].made = made]
      BY <2>7 DEF TakeNumber
    <3>2. task'[r] = task[r] \/ (t = r /\ task'[r].pc = "persist")
      BY <1>1, <3>1 DEF TaskType
    <3>3. QED
      BY <2>7, <3>2 DEF TaskMove
  <2>8. QED
    BY <1>6, <2>1, <2>2, <2>3, <2>4, <2>5, <2>6, <2>7 DEF Handle, Add, RemoveStep, Build
<1>7. ASSUME NEW t \in Tasks, NEW u \in Users,
             CreateRead(t, u) \/ AddBegin(t, u) \/ RemoveBegin(t, u) \/ BuildBegin(t, u)
      PROVE  TaskMove(r)
  <2>1. CASE CreateRead(t, u)
    <3>1. lastDraft' \in Nat /\ now \in Nat
      BY <2>1, Constants DEF CreateRead, TypeInv, TypeOK
    <3>2. Creating(u, lastDraft', now).pc = "insert"
      BY <3>1, CreateLocals
    <3>3. Begin(t, Creating(u, lastDraft', now))
      BY <2>1 DEF CreateRead
    <3>4. QED
      BY <1>4, <2>1, <3>2, <3>3 DEF TaskMove
  <2>2. CASE AddBegin(t, u)
    <3>1. lastFile' \in 0..MaxFiles /\ knownDrafts[u] \subseteq 0..MaxDrafts /\ "add" \in Waiting
      BY <2>2, Constants DEF AddBegin, TypeInv, TypeOK, DraftIds, Waiting
    <3>2. PICK o \in knownDrafts[u] : Begin(t, OnFile("add", u, o, lastFile'))
      BY <2>2 DEF AddBegin
    <3>3. OnFile("add", u, o, lastFile').pc = "add"
      BY <3>1, PathLocals
    <3>4. QED
      BY <1>4, <2>2, <3>2, <3>3 DEF TaskMove
  <2>3. CASE RemoveBegin(t, u)
    <3>1. knownFiles[u] \subseteq 0..MaxFiles /\ knownDrafts[u] \subseteq 0..MaxDrafts
          /\ "find" \in Waiting
      BY Constants DEF TypeInv, TypeOK, DraftIds, FileIds, Waiting
    <3>2. PICK o \in knownDrafts[u], f \in knownFiles[u] : Begin(t, OnFile("find", u, o, f))
      BY <2>3 DEF RemoveBegin
    <3>3. OnFile("find", u, o, f).pc = "find"
      BY <3>1, PathLocals
    <3>4. QED
      BY <1>4, <3>2, <3>3 DEF TaskMove
  <2>4. CASE BuildBegin(t, u)
    <3>1. knownDrafts[u] \subseteq 0..MaxDrafts /\ knownFiles[u] \in SUBSET FileIds
          /\ MaxFileLimit \in Nat
      BY Constants DEF TypeInv, TypeOK, DraftIds
    <3>2. PICK o \in knownDrafts[u], req \in SeqOf(knownFiles[u], MaxFileLimit) \ {<<>>} :
             Begin(t, Building(u, o, req))
      BY <2>4 DEF BuildBegin
    <3>3. req \in Seq(FileIds)
      BY <3>1, Requests
    <3>4. Building(u, o, req).pc = "validate"
      BY <3>1, <3>3, BuildLocals
    <3>5. QED
      BY <1>4, <2>4, <3>2, <3>4 DEF TaskMove
  <2>5. QED
    BY <1>7, <2>1, <2>2, <2>3, <2>4
<1>8. CASE Restart
  BY <1>1, <1>8 DEF Restart, TaskMove
<1>9. ASSUME NEW t \in Tasks, Disconnect(t) PROVE TaskMove(r)
  BY <1>2, <1>9 DEF Disconnect, Refused
<1>10. ASSUME NEW u \in Users, Discard(u) \/ CleanVisit(u) PROVE TaskMove(r)
  BY <1>5, <1>10 DEF Discard, CleanVisit
<1>11. ASSUME NEW f \in FileIds, Upload(f) PROVE TaskMove(r)
  BY <1>5, <1>11 DEF Upload
<1>12. CASE CleanStart \/ CleanPurge \/ Tick \/ UNCHANGED vars
  BY <1>5, <1>12 DEF CleanStart, CleanPurge, Tick, vars
<1>13. QED
  BY <1>6, <1>7, <1>8, <1>9, <1>10, <1>11, <1>12 DEF Next, Clean

\* The draft of u is as it was, gone, or has lost files or changed their order.
Lessened(u) ==
    \/ drafts'[u] = drafts[u] \/ drafts'[u] = NoDraft
    \/ /\ drafts[u] # NoDraft
       /\ drafts'[u].id = drafts[u].id /\ drafts'[u].createdAt = drafts[u].createdAt
       /\ Within(drafts'[u].files, drafts[u].files)

\* Handler t has inserted the draft of u,
Inserted(t, u) ==
    /\ CreateInsert(t) /\ task[t].user = u /\ drafts[u] = NoDraft
    /\ drafts'[u] = [id |-> task[t].made.id, createdAt |-> task[t].made.createdAt,
                     files |-> <<>>]

\* or bound a file to it.
Extended(t, u) ==
    /\ AddFile(t) /\ task[t].user = u /\ drafts[u] # NoDraft
    /\ drafts'[u].id = drafts[u].id /\ drafts'[u].createdAt = drafts[u].createdAt
    /\ drafts'[u].files = Append(drafts[u].files, task[t].file)

DraftMove(u) == Lessened(u) \/ \E t \in Tasks : Inserted(t, u) \/ Extended(t, u)

LEMMA DraftMoves ==
    ASSUME TypeInv, BuildInv, [Next]_vars, NEW u \in Users
    PROVE  DraftMove(u)
<1>1. drafts \in [Users -> DraftType]
  BY DEF TypeInv, TypeOK
<1>2. CASE UNCHANGED drafts
  BY <1>2 DEF DraftMove, Lessened
<1>3. ASSUME NEW v \in Users, drafts' = [drafts EXCEPT ![v] = NoDraft] PROVE DraftMove(u)
  BY <1>1, <1>3 DEF DraftMove, Lessened
<1>4. ASSUME NEW t \in Tasks, NEW fs, Within(fs, Draft(t).files), Draft(t) # NoDraft,
             drafts' = [drafts EXCEPT ![task[t].user].files = fs]
      PROVE  DraftMove(u)
  BY <1>1, <1>4 DEF DraftMove, Lessened, Draft, DraftType
<1>5. ASSUME NEW t \in Tasks, Handle(t) PROVE DraftMove(u)
  <2>1. CASE CreateInsert(t)
    <3>1. CASE UNCHANGED drafts
      BY <1>2, <3>1
    <3>2. CASE drafts[task[t].user] = NoDraft
      BY <1>1, <2>1, <3>2 DEF DraftMove, CreateInsert, Inserted, Lessened
    <3>3. QED
      BY <2>1, <3>1, <3>2 DEF CreateInsert
  <2>2. CASE AddFile(t)
    <3>1. PICK fs : fs = Append(Draft(t).files, task[t].file)
      OBVIOUS
    <3>2. drafts' = [drafts EXCEPT ![task[t].user].files = fs] /\ Draft(t) # NoDraft
      BY <2>2, <3>1 DEF AddFile, Draft
    <3>3. CASE task[t].user = u
      BY <1>1, <2>2, <3>1, <3>2, <3>3 DEF DraftMove, Extended, Draft, DraftType
    <3>4. CASE task[t].user # u
      BY <1>1, <3>2, <3>4 DEF DraftMove, Lessened
    <3>5. QED
      BY <3>3, <3>4
  <2>3. CASE RemoveFile(t)
    <3>1. task[t].user \in Users
      BY <2>3 DEF RemoveFile, At, TypeInv, LocalsInv
    <3>2. ASSUME NEW i \in DOMAIN Draft(t).files,
                 drafts' = [drafts EXCEPT ![task[t].user].files = RemoveAt(@, i)]
          PROVE  DraftMove(u)
      <4>1. PICK fs : /\ Within(fs, Draft(t).files)
                      /\ drafts' = [drafts EXCEPT ![task[t].user].files = fs]
        BY <3>1, <3>2, Removed
      <4>2. Draft(t) # NoDraft
        <5>1. DOMAIN <<>> = {}
          OBVIOUS
        <5>2. QED
          BY <5>1, Blank
      <4>3. QED
        BY <1>4, <4>1, <4>2
    <3>3. QED
      BY <1>2, <2>3, <3>2 DEF RemoveFile
  <2>4. CASE PanicUnmatched(t)
    <3>1. Draft(t) # NoDraft
      BY <2>4 DEF PanicUnmatched, At, BuildInv
    <3>2. QED
      BY <1>4, <2>4, <3>1, Panicked
  <2>5. CASE TakeNumber(t)
    <3>1. task[t].user \in Users
      BY <2>5 DEF TakeNumber, At, TypeInv, LocalsInv
    <3>2. QED
      BY <1>3, <2>5, <3>1 DEF TakeNumber
  <2>6. CASE ~(CreateInsert(t) \/ AddFile(t) \/ RemoveFile(t) \/ PanicUnmatched(t)
               \/ TakeNumber(t))
    <3>1. UNCHANGED drafts
      BY <1>5, <2>6 DEF Handle, Add, AddRefused, Presign, PresignFails, RemoveStep, FindFile,
         FindRefused, DeleteObject, Build, Validate, BuildRefused, CheckRefused, MatchFiles,
         Persist, Refused
    <3>2. QED
      BY <1>2, <3>1
  <2>7. QED
    BY <2>1, <2>2, <2>3, <2>4, <2>5, <2>6
<1>6. ASSUME NEW t \in Tasks, NEW v \in Users,
             CreateRead(t, v) \/ AddBegin(t, v) \/ RemoveBegin(t, v) \/ BuildBegin(t, v)
      PROVE  DraftMove(u)
  BY <1>2, <1>6 DEF CreateRead, AddBegin, RemoveBegin, BuildBegin
<1>7. ASSUME NEW t \in Tasks, Disconnect(t) PROVE DraftMove(u)
  BY <1>2, <1>7 DEF Disconnect, Refused
<1>8. ASSUME NEW v \in Users, Discard(v) \/ CleanVisit(v) PROVE DraftMove(u)
  <2>1. UNCHANGED drafts \/ drafts' = [drafts EXCEPT ![v] = NoDraft]
    BY <1>8 DEF Discard, CleanVisit
  <2>2. QED
    BY <1>2, <1>3, <2>1
<1>9. ASSUME NEW f \in FileIds, Upload(f) PROVE DraftMove(u)
  BY <1>2, <1>9 DEF Upload
<1>10. CASE Restart
  BY <1>10 DEF DraftMove, Restart, Lessened
<1>11. CASE CleanStart \/ CleanPurge \/ Tick \/ UNCHANGED vars
  BY <1>2, <1>11 DEF CleanStart, CleanPurge, Tick, vars
<1>12. QED
  BY <1>5, <1>6, <1>7, <1>8, <1>9, <1>10, <1>11 DEF Next, Clean

\* Which steps change what the handlers share.
LEMMA Causes ==
    ASSUME [Next]_vars
    PROVE  /\ UNCHANGED <<url, knownFiles>> \/ \E t \in Tasks : Presign(t)
           /\ UNCHANGED orders \/ \E t \in Tasks : Persist(t)
           /\ \/ UNCHANGED cleaner \/ CleanStart \/ CleanPurge \/ Restart
              \/ \E u \in Users : CleanVisit(u)
           /\ \/ UNCHANGED bucket \/ CleanPurge
              \/ \E f \in FileIds : Upload(f)
              \/ \E t \in Tasks : DeleteObject(t)
           /\ UNCHANGED now \/ Tick
           /\ UNCHANGED lastFile \/ \E t \in Tasks, u \in Users : AddBegin(t, u)
           /\ UNCHANGED lastDraft \/ \E t \in Tasks, u \in Users : CreateRead(t, u)
<1> USE DEF client, ids, outer
<1>1. ASSUME NEW t \in Tasks, Handle(t)
      PROVE  /\ UNCHANGED <<url, knownFiles>> \/ Presign(t)
             /\ UNCHANGED orders \/ Persist(t)
             /\ UNCHANGED bucket \/ DeleteObject(t)
             /\ UNCHANGED <<cleaner, now, lastFile, lastDraft>>
  <2>1. CASE CreateInsert(t) \/ AddFile(t) \/ RemoveFile(t) \/ PanicUnmatched(t)
    BY <2>1 DEF CreateInsert, AddFile, RemoveFile, PanicUnmatched
  <2>2. CASE Presign(t) \/ DeleteObject(t) \/ Persist(t)
    BY <2>2 DEF Presign, DeleteObject, Persist
  <2>3. CASE Validate(t) \/ MatchFiles(t) \/ TakeNumber(t) \/ FindFile(t)
    BY <2>3 DEF Validate, MatchFiles, TakeNumber, FindFile
  <2>4. CASE \/ AddRefused(t) \/ PresignFails(t) \/ FindRefused(t) \/ BuildRefused(t)
             \/ CheckRefused(t)
    BY <2>4 DEF AddRefused, PresignFails, FindRefused, BuildRefused, CheckRefused, Refused
  <2>5. QED
    BY <1>1, <2>1, <2>2, <2>3, <2>4 DEF Handle, Add, RemoveStep, Build
<1>2. ASSUME NEW t \in Tasks, NEW u \in Users,
             CreateRead(t, u) \/ AddBegin(t, u) \/ RemoveBegin(t, u) \/ BuildBegin(t, u)
      PROVE  /\ UNCHANGED <<url, knownFiles, orders, bucket, cleaner, now>>
             /\ UNCHANGED lastFile \/ AddBegin(t, u)
             /\ UNCHANGED lastDraft \/ CreateRead(t, u)
  BY <1>2 DEF CreateRead, AddBegin, RemoveBegin, BuildBegin
<1>3. ASSUME NEW t \in Tasks, Disconnect(t)
      PROVE  UNCHANGED <<url, knownFiles, orders, bucket, cleaner, now, lastFile, lastDraft>>
  BY <1>3 DEF Disconnect, Refused
<1>4. ASSUME NEW u \in Users, Discard(u)
      PROVE  UNCHANGED <<url, knownFiles, orders, bucket, cleaner, now, lastFile, lastDraft>>
  BY <1>4 DEF Discard
<1>5. ASSUME NEW f \in FileIds, Upload(f)
      PROVE  UNCHANGED <<url, knownFiles, orders, cleaner, now, lastFile, lastDraft>>
  BY <1>5 DEF Upload
<1>6. ASSUME NEW u \in Users, CleanVisit(u)
      PROVE  UNCHANGED <<url, knownFiles, orders, bucket, now, lastFile, lastDraft>>
  BY <1>6 DEF CleanVisit
<1>7. CASE CleanPurge
  BY <1>7 DEF CleanPurge
<1>8. CASE CleanStart \/ Restart
  BY <1>8 DEF CleanStart, Restart
<1>9. CASE Tick
  BY <1>9 DEF Tick
<1>10. CASE UNCHANGED vars
  BY <1>10 DEF vars
<1>11. CASE Clean
  BY <1>6, <1>7, <1>8, <1>11 DEF Clean
<1>12. CASE \E t \in Tasks : Handle(t)
  BY <1>1, <1>12
<1>13. CASE \E t \in Tasks, u \in Users :
              CreateRead(t, u) \/ AddBegin(t, u) \/ RemoveBegin(t, u) \/ BuildBegin(t, u)
  BY <1>2, <1>13
<1>14. CASE (\E t \in Tasks : Disconnect(t)) \/ (\E u \in Users : Discard(u))
  BY <1>3, <1>4, <1>14
<1>15. CASE \E f \in FileIds : Upload(f)
  BY <1>5, <1>15
<1>16. QED
  BY <1>8, <1>9, <1>10, <1>11, <1>12, <1>13, <1>14, <1>15 DEF Next

\* Sent orders come from build.
LEMMA SentMoves ==
    ASSUME TypeInv, [Next]_vars, NEW ord \in Sent'
    PROVE  ord \in Sent \/ \E t \in Tasks : TakeNumber(t) /\ ord = task'[t].made
<1>1. CASE ord \in orders'
  <2>1. ord \in orders \/ \E t \in Tasks : At(t, "persist") /\ ord = task[t].made
    BY <1>1, Causes DEF Persist
  <2>2. QED
    BY <2>1 DEF Sent
<1>2. ASSUME NEW t \in Tasks, task'[t].pc = "persist", ord = task'[t].made
      PROVE  ord \in Sent \/ TakeNumber(t)
  <2>1. task'[t] = task[t] \/ TakeNumber(t)
    BY <1>2, TaskMoves DEF TaskMove
  <2>2. QED
    BY <1>2, <2>1 DEF Sent, At
<1>3. QED
  BY <1>1, <1>2 DEF Sent, At

\* A client learns of a file when it is presigned, and never forgets it.
LEMMA KnownMoves ==
    ASSUME TypeInv, [Next]_vars, NEW u \in Users
    PROVE  /\ knownFiles[u] \subseteq knownFiles'[u]
           /\ \A f \in knownFiles'[u] :
                 f \in knownFiles[u] \/ \E t \in Tasks : At(t, "presign") /\ f = task[t].file
<1>1. knownFiles \in [Users -> SUBSET FileIds]
  BY DEF TypeInv, TypeOK
<1>2. ASSUME NEW t \in Tasks, Presign(t)
      PROVE  /\ At(t, "presign")
             /\ knownFiles' = [knownFiles EXCEPT ![task[t].user] = @ \cup {task[t].file}]
  BY <1>2 DEF Presign
<1>3. QED
  BY <1>1, <1>2, Causes

\* A URL that is given out ends when the draft the user has by then ends.
LEMMA UrlMoves ==
    ASSUME TypeInv, [Next]_vars, NEW f \in FileIds
    PROVE  \/ url'[f] = url[f]
           \/ \E t \in Tasks : /\ At(t, "presign") /\ f = task[t].file
                               /\ url'[f] = Draft(t).createdAt + Lifetime
                               /\ UNCHANGED drafts
<1>1. url \in [FileIds -> Nat]
  BY DEF TypeInv, TypeOK
<1>2. ASSUME NEW t \in Tasks, Presign(t), f = task[t].file, url'[f] # url[f]
      PROVE  /\ At(t, "presign") /\ UNCHANGED drafts
             /\ url'[f] = Draft(t).createdAt + Lifetime
  <2>1. url'[f] = now + (Lifetime - (now - Draft(t).createdAt)) /\ At(t, "presign")
        /\ UNCHANGED drafts
    BY <1>1, <1>2 DEF Presign
  <2>2. now \in Nat /\ Lifetime \in Nat /\ Draft(t).createdAt \in Nat
    BY <2>1, Constants DEF At, Draft, DraftType, TypeInv, TypeOK, LocalsInv
  <2>3. QED
    BY <2>1, <2>2
<1>3. ASSUME NEW t \in Tasks, Presign(t), f # task[t].file
      PROVE  url'[f] = url[f]
  BY <1>1, <1>3 DEF Presign
<1>4. QED
  BY <1>2, <1>3, Causes

\* The cleaner takes the files of a draft it drops.
LEMMA KeysMove ==
    ASSUME TypeInv, [Next]_vars, NEW f \in cleaner'.keys
    PROVE  \/ f \in cleaner.keys
           \/ \E u \in Users : /\ f \in ToSet(drafts[u].files) /\ drafts[u] # NoDraft
                               /\ drafts' = [drafts EXCEPT ![u] = NoDraft]
                               /\ Expired(drafts[u], cleaner.cutoff)
                               /\ UNCHANGED <<task, orders>>
<1>1. cleaner \in [pc : {"asleep", "visit"}, cutoff : Nat, todo : SUBSET Users,
                   keys : SUBSET FileIds]
  BY DEF TypeInv, TypeOK
<1>2. CASE CleanStart \/ CleanPurge \/ Restart
  BY <1>2 DEF CleanStart, CleanPurge, Restart, Asleep
<1>3. ASSUME NEW u \in Users, CleanVisit(u), f \notin cleaner.keys
      PROVE  /\ f \in ToSet(drafts[u].files) /\ drafts[u] # NoDraft
             /\ drafts' = [drafts EXCEPT ![u] = NoDraft]
             /\ Expired(drafts[u], cleaner.cutoff)
             /\ UNCHANGED <<task, orders>>
  <2>1. PICK S : S = ToSet(drafts[u].files)
    OBVIOUS
  <2>2. CASE Expired(drafts[u], cleaner.cutoff)
    <3>1. /\ drafts' = [drafts EXCEPT ![u] = NoDraft]
          /\ cleaner' = [cleaner EXCEPT !.todo = @ \ {u}, !.keys = @ \cup S]
          /\ UNCHANGED <<task, orders>>
      BY <1>3, <2>1, <2>2 DEF CleanVisit, outer
    <3>2. f \in S
      BY <1>1, <1>3, <3>1
    <3>3. QED
      BY <2>1, <2>2, <3>1, <3>2 DEF Expired
  <2>3. CASE ~Expired(drafts[u], cleaner.cutoff)
    <3>1. cleaner' = [cleaner EXCEPT !.todo = @ \ {u}]
      BY <1>3, <2>3 DEF CleanVisit
    <3>2. QED
      BY <1>1, <1>3, <3>1
  <2>4. QED
    BY <2>2, <2>3
<1>4. QED
  BY <1>2, <1>3, Causes

LEMMA IdsMove ==
    ASSUME TypeInv, [Next]_vars
    PROVE  /\ lastFile \in Nat /\ lastFile' \in Nat /\ lastFile <= lastFile'
           /\ lastDraft \in Nat /\ lastDraft' \in Nat /\ lastDraft <= lastDraft'
<1>1. lastFile \in Nat /\ lastDraft \in Nat
  BY DEF TypeInv, TypeOK
<1>2. QED
  BY <1>1, Causes DEF AddBegin, CreateRead

\* A handler that begins with a new file, or a new id.
LEMMA BeginsFile ==
    ASSUME TypeInv, NEW t \in Tasks, NEW u \in Users, AddBegin(t, u)
    PROVE  /\ task'[t].file = lastFile + 1 /\ lastFile' = lastFile + 1
           /\ lastFile + 1 \in FileIds
           /\ task'[t].user = u
           /\ \A r \in Tasks : r # t => task'[r] = task[r]
<1>1. task \in [Tasks -> TaskType] /\ lastFile \in Nat /\ lastFile' = lastFile + 1
      /\ lastFile < MaxFiles /\ MaxFiles \in Nat
  BY Constants DEF TypeInv, TypeOK, AddBegin
<1>2. knownDrafts[u] \subseteq 0..MaxDrafts /\ "add" \in Waiting /\ lastFile' \in 0..MaxFiles
  BY <1>1, Constants DEF AddBegin, TypeInv, TypeOK, DraftIds, Waiting
<1>3. PICK o \in knownDrafts[u] : Begin(t, OnFile("add", u, o, lastFile'))
  BY DEF AddBegin
<1>4. /\ OnFile("add", u, o, lastFile').file = lastFile'
      /\ OnFile("add", u, o, lastFile').user = u
  BY <1>2, PathLocals
<1>5. QED
  BY <1>1, <1>3, <1>4 DEF Begin, FileIds

LEMMA BeginsDraft ==
    ASSUME TypeInv, NEW t \in Tasks, NEW u \in Users, CreateRead(t, u)
    PROVE  /\ task'[t].made.id = lastDraft + 1 /\ lastDraft' = lastDraft + 1
           /\ lastDraft + 1 \in DraftIds
           /\ \A r \in Tasks : r # t => task'[r] = task[r]
<1>1. task \in [Tasks -> TaskType] /\ lastDraft \in Nat /\ lastDraft' = lastDraft + 1
      /\ lastDraft < MaxDrafts /\ MaxDrafts \in Nat /\ now \in Nat
  BY Constants DEF TypeInv, TypeOK, CreateRead
<1>2. Begin(t, Creating(u, lastDraft', now))
  BY DEF CreateRead
<1>3. Creating(u, lastDraft', now).made.id = lastDraft'
  BY <1>1, CreateLocals
<1>4. QED
  BY <1>1, <1>2, <1>3 DEF Begin, DraftIds

\* Nothing becomes new again.
LEMMA NewOnce ==
    ASSUME TypeInv, [Next]_vars
    PROVE  NewFiles' \subseteq NewFiles /\ NewDrafts' \subseteq NewDrafts
<1>1. ASSUME NEW t \in Tasks, task'[t].pc = "add"
      PROVE  task'[t].file \in NewFiles
  <2>1. task'[t] = task[t] \/ \E u \in Users : AddBegin(t, u)
    BY <1>1, TaskMoves DEF TaskMove
  <2>2. CASE task'[t] = task[t]
    BY <1>1, <2>2 DEF NewFiles, At
  <2>3. ASSUME NEW u \in Users, AddBegin(t, u) PROVE task'[t].file \in NewFiles
    <3>1. task'[t].file = lastFile + 1 /\ lastFile + 1 \in FileIds /\ lastFile \in Nat
      BY <2>3, BeginsFile, IdsMove
    <3>2. QED
      BY <3>1 DEF NewFiles
  <2>4. QED
    BY <2>1, <2>2, <2>3
<1>2. ASSUME NEW t \in Tasks, task'[t].pc = "insert"
      PROVE  task'[t].made.id \in NewDrafts
  <2>1. task'[t] = task[t] \/ \E u \in Users : CreateRead(t, u)
    BY <1>2, TaskMoves DEF TaskMove
  <2>2. CASE task'[t] = task[t]
    BY <1>2, <2>2 DEF NewDrafts, At
  <2>3. ASSUME NEW u \in Users, CreateRead(t, u) PROVE task'[t].made.id \in NewDrafts
    <3>1. task'[t].made.id = lastDraft + 1 /\ lastDraft + 1 \in DraftIds /\ lastDraft \in Nat
      BY <2>3, BeginsDraft, IdsMove
    <3>2. QED
      BY <3>1 DEF NewDrafts
  <2>4. QED
    BY <2>1, <2>2, <2>3
<1>3. /\ \A f \in FileIds : f > lastFile' => f > lastFile
      /\ \A i \in DraftIds : i > lastDraft' => i > lastDraft
  BY IdsMove DEF FileIds, DraftIds
<1>4. NewFiles' \subseteq NewFiles
  BY <1>1, <1>3 DEF NewFiles, At
<1>5. NewDrafts' \subseteq NewDrafts
  BY <1>2, <1>3 DEF NewDrafts, At
<1>6. QED
  BY <1>4, <1>5

\* A handler that binds its file has used it up.
LEMMA UsesFile ==
    ASSUME TypeInv, FreshInv, NEW t \in Tasks, AddFile(t)
    PROVE  /\ task[t].file \in NewFiles /\ task[t].file \notin NewFiles'
           /\ task'[t].file = task[t].file /\ task'[t].user = task[t].user
           /\ \A r \in Tasks : r # t => task'[r] = task[r]
<1>1. task' = [task EXCEPT ![t].pc = "presign"] /\ At(t, "add") /\ lastFile' = lastFile
  BY DEF AddFile, GoTo, ids
<1>2. /\ task'[t].file = task[t].file /\ task'[t].user = task[t].user
      /\ task'[t].pc = "presign"
      /\ \A r \in Tasks : r # t => task'[r] = task[r]
  BY <1>1 DEF TypeInv, TypeOK, TaskType
<1>3. task[t].file \in FileIds /\ task[t].file <= lastFile /\ lastFile \in Nat
  BY <1>1 DEF FreshInv, TypeInv, TypeOK, LocalsInv, At
<1>4. ~(task[t].file > lastFile')
  BY <1>1, <1>3 DEF FileIds
<1>5. ASSUME NEW r \in Tasks, task'[r].pc = "add" PROVE task'[r].file # task[t].file
  <2>1. r # t /\ task'[r] = task[r]
    BY <1>2, <1>5
  <2>2. QED
    BY <1>1, <1>5, <2>1 DEF FreshInv, At
<1>6. QED
  BY <1>1, <1>2, <1>4, <1>5 DEF NewFiles, At

\* So has one that inserts its draft, whether or not it finds the entry taken.
LEMMA UsesDraft ==
    ASSUME TypeInv, IdsInv, NEW t \in Tasks, CreateInsert(t)
    PROVE  /\ task[t].made.id \in NewDrafts /\ task[t].made.id \notin NewDrafts'
           /\ \A r \in Tasks : r # t => task'[r] = task[r]
<1>1. task' = [task EXCEPT ![t] = Idle] /\ At(t, "insert") /\ lastDraft' = lastDraft
  BY DEF CreateInsert, Finish, ids
<1>2. task'[t].pc = "idle" /\ \A r \in Tasks : r # t => task'[r] = task[r]
  BY <1>1, Blank DEF TypeInv, TypeOK
<1>3. task[t].made.id \in DraftIds /\ task[t].made.id <= lastDraft /\ lastDraft \in Nat
  BY <1>1 DEF IdsInv, TypeInv, TypeOK, LocalsInv
<1>4. ~(task[t].made.id > lastDraft')
  BY <1>1, <1>3 DEF DraftIds
<1>5. ASSUME NEW r \in Tasks, task'[r].pc = "insert" PROVE task'[r].made.id # task[t].made.id
  <2>1. r # t /\ task'[r] = task[r]
    BY <1>2, <1>5
  <2>2. QED
    BY <1>1, <1>5, <2>1 DEF IdsInv, At
<1>6. QED
  BY <1>1, <1>2, <1>4, <1>5 DEF NewDrafts, At

\* An order that leaves takes files of the draft, each once.
LEMMA Leaves ==
    ASSUME TypeInv, BuildInv, NEW t \in Tasks, TakeNumber(t)
    PROVE  /\ task[t].user \in Users /\ Draft(t) # NoDraft
           /\ task'[t].made.id = Draft(t).id /\ task[t].order = Draft(t).id
           /\ task'[t].order = task[t].order
           /\ Within(task'[t].made.files, Draft(t).files)
           /\ task'[t].pc = "persist"
           /\ \A r \in Tasks : r # t => task'[r] = task[r]
           /\ drafts' = [drafts EXCEPT ![task[t].user] = NoDraft]
           /\ orders' = orders
<1>1. PICK made : made = [id |-> Draft(t).id, owner |-> task[t].user, files |-> task[t].req,
                          createdAt |-> Draft(t).createdAt, seq |-> queue']
  OBVIOUS
<1>2. /\ task' = [task EXCEPT ![t].pc = "persist", ![t].made = made]
      /\ drafts' = [drafts EXCEPT ![task[t].user] = NoDraft] /\ At(t, "number")
      /\ orders' = orders
  BY <1>1 DEF TakeNumber, outer
<1>3. /\ task'[t].made = made /\ task'[t].pc = "persist" /\ task'[t].order = task[t].order
      /\ \A r \in Tasks : r # t => task'[r] = task[r]
  BY <1>2 DEF TypeInv, TypeOK, TaskType
<1>4. /\ Draft(t) # NoDraft /\ Draft(t).id = task[t].order /\ task[t].user \in Users
      /\ Within(task[t].req, Draft(t).files)
  BY <1>2 DEF BuildInv, At, TypeInv, LocalsInv
<1>5. made.id = Draft(t).id /\ made.files = task[t].req
  BY <1>1
<1>6. QED
  BY <1>2, <1>3, <1>4, <1>5

\* What leaves joins the orders that were sent.
LEMMA SentTaken ==
    ASSUME TypeInv, BuildInv, [Next]_vars, NEW ord \in Sent', ord \notin Sent
    PROVE  \E t \in Tasks : /\ TakeNumber(t) /\ ord = task'[t].made
                            /\ task[t].user \in Users /\ Draft(t) # NoDraft
                            /\ ord.id = Draft(t).id /\ Within(ord.files, Draft(t).files)
<1>1. PICK t \in Tasks : TakeNumber(t) /\ ord = task'[t].made
  BY SentMoves
<1>2. QED
  BY <1>1, Leaves

LEMMA FreshStep ==
    ASSUME TypeInv, FreshInv, BuildInv, [Next]_vars
    PROVE  FreshInv'
<1>1. NewFiles' \subseteq NewFiles
  BY NewOnce
<1>2. ASSUME NEW t \in Tasks, task'[t].pc = "add"
      PROVE  task'[t].file <= lastFile' /\ (task'[t] = task[t] \/ \E u \in Users : AddBegin(t, u))
  <2>1. task'[t] = task[t] \/ \E u \in Users : AddBegin(t, u)
    BY <1>2, TaskMoves DEF TaskMove
  <2>2. CASE task'[t] = task[t]
    <3>1. task[t].file <= lastFile /\ task[t].file \in FileIds
      BY <1>2, <2>2 DEF FreshInv, At, TypeInv, LocalsInv
    <3>2. QED
      BY <2>2, <3>1, IdsMove DEF FileIds
  <2>3. ASSUME NEW u \in Users, AddBegin(t, u) PROVE task'[t].file <= lastFile'
    BY <2>3, BeginsFile, IdsMove
  <2>4. QED
    BY <2>1, <2>2, <2>3
<1>3. ASSUME NEW r \in Tasks, NEW t \in Tasks, task'[r].pc = "add", task'[t].pc = "add", r # t
      PROVE  task'[r].file # task'[t].file
  <2>1. ASSUME NEW x \in Tasks, NEW y \in Tasks, task'[y].pc = "add", x # y,
               NEW u \in Users, AddBegin(x, u)
        PROVE  task'[x].file # task'[y].file
    <3>1. task'[x].file = lastFile + 1 /\ task'[y] = task[y] /\ lastFile \in Nat
      BY <2>1, BeginsFile, IdsMove
    <3>2. task[y].file <= lastFile /\ task[y].file \in FileIds
      BY <2>1, <3>1 DEF FreshInv, At, TypeInv, LocalsInv
    <3>3. QED
      BY <3>1, <3>2 DEF FileIds
  <2>2. CASE task'[r] = task[r] /\ task'[t] = task[t]
    BY <1>3, <2>2 DEF FreshInv, At
  <2>3. QED
    BY <1>2, <1>3, <2>1, <2>2
<1>4. ASSUME NEW t \in Tasks, task'[t].pc = "presign" PROVE task'[t].file \notin NewFiles'
  <2>1. task'[t] = task[t] \/ AddFile(t)
    BY <1>4, TaskMoves DEF TaskMove
  <2>2. CASE task'[t] = task[t]
    BY <1>1, <1>4, <2>2 DEF FreshInv, At
  <2>3. CASE AddFile(t)
    BY <2>3, UsesFile
  <2>4. QED
    BY <2>1, <2>2, <2>3
<1>5. ASSUME NEW u \in Users, NEW f \in ToSet(drafts'[u].files) PROVE f \notin NewFiles'
  <2>1. CASE Lessened(u)
    <3>1. f \in ToSet(drafts[u].files)
      BY <1>5, <2>1, Blank, Empty DEF Lessened, Within
    <3>2. QED
      BY <1>1, <3>1 DEF FreshInv
  <2>2. ASSUME NEW t \in Tasks, Inserted(t, u) PROVE f \notin NewFiles'
    BY <1>5, <2>2, Empty DEF Inserted
  <2>3. ASSUME NEW t \in Tasks, Extended(t, u) PROVE f \notin NewFiles'
    <3>1. drafts[u].files \in Seq(FileIds) /\ task[t].file \in FileIds
      BY <2>3 DEF Extended, AddFile, At, TypeInv, TypeOK, DraftType, LocalsInv
    <3>2. f \in ToSet(drafts[u].files) \/ f = task[t].file
      BY <1>5, <2>3, <3>1, Appended DEF Extended
    <3>3. task[t].file \notin NewFiles'
      BY <2>3, UsesFile DEF Extended
    <3>4. QED
      BY <1>1, <3>2, <3>3 DEF FreshInv
  <2>4. QED
    BY <2>1, <2>2, <2>3, DraftMoves DEF DraftMove
<1>6. ASSUME NEW u \in Users, NEW f \in knownFiles'[u] PROVE f \notin NewFiles'
  BY <1>1, KnownMoves DEF FreshInv
<1>7. ASSUME NEW ord \in Sent', NEW f \in ToSet(ord.files) PROVE f \notin NewFiles'
  <2>1. CASE ord \in Sent
    BY <1>1, <2>1 DEF FreshInv
  <2>2. CASE ord \notin Sent
    <3>1. PICK t \in Tasks : task[t].user \in Users /\ Within(ord.files, Draft(t).files)
      BY <2>2, SentTaken
    <3>2. f \in ToSet(drafts[task[t].user].files)
      BY <3>1 DEF Within, Draft
    <3>3. QED
      BY <1>1, <3>1, <3>2 DEF FreshInv
  <2>3. QED
    BY <2>1, <2>2
<1>8. ASSUME NEW f \in cleaner'.keys PROVE f \notin NewFiles'
  <2>1. f \in cleaner.keys \/ \E u \in Users : f \in ToSet(drafts[u].files)
    BY KeysMove
  <2>2. QED
    BY <1>1, <2>1 DEF FreshInv
<1>9. ASSUME NEW f \in NewFiles' PROVE url'[f] = 0
  <2>1. f \in NewFiles /\ f \in FileIds
    BY <1>1 DEF NewFiles, TypeInv, LocalsInv, At
  <2>2. url'[f] = url[f]
    BY <2>1, UrlMoves DEF FreshInv
  <2>3. QED
    BY <2>1, <2>2 DEF FreshInv
<1>10. QED
  BY <1>2, <1>3, <1>4, <1>5, <1>6, <1>7, <1>8, <1>9 DEF FreshInv, At

LEMMA IdsStep ==
    ASSUME TypeInv, IdsInv, BuildInv, [Next]_vars
    PROVE  IdsInv'
<1>1. NewDrafts' \subseteq NewDrafts
  BY NewOnce
<1>2. ASSUME NEW t \in Tasks, task'[t].pc = "insert"
      PROVE  /\ task'[t].made.id <= lastDraft'
             /\ task'[t] = task[t] \/ \E u \in Users : CreateRead(t, u)
  <2>1. task'[t] = task[t] \/ \E u \in Users : CreateRead(t, u)
    BY <1>2, TaskMoves DEF TaskMove
  <2>2. CASE task'[t] = task[t]
    <3>1. task[t].made.id <= lastDraft /\ task[t].made.id \in DraftIds
      BY <1>2, <2>2 DEF IdsInv, At, TypeInv, LocalsInv
    <3>2. QED
      BY <2>2, <3>1, IdsMove DEF DraftIds
  <2>3. ASSUME NEW u \in Users, CreateRead(t, u) PROVE task'[t].made.id <= lastDraft'
    BY <2>3, BeginsDraft, IdsMove
  <2>4. QED
    BY <2>1, <2>2, <2>3
<1>3. ASSUME NEW r \in Tasks, NEW t \in Tasks, task'[r].pc = "insert", task'[t].pc = "insert",
             r # t
      PROVE  task'[r].made.id # task'[t].made.id
  <2>1. ASSUME NEW x \in Tasks, NEW y \in Tasks, task'[y].pc = "insert", x # y,
               NEW u \in Users, CreateRead(x, u)
        PROVE  task'[x].made.id # task'[y].made.id
    <3>1. task'[x].made.id = lastDraft + 1 /\ task'[y] = task[y] /\ lastDraft \in Nat
      BY <2>1, BeginsDraft, IdsMove
    <3>2. task[y].made.id <= lastDraft /\ task[y].made.id \in DraftIds
      BY <2>1, <3>1 DEF IdsInv, At, TypeInv, LocalsInv
    <3>3. QED
      BY <3>1, <3>2 DEF DraftIds
  <2>2. CASE task'[r] = task[r] /\ task'[t] = task[t]
    BY <1>3, <2>2 DEF IdsInv, At
  <2>3. QED
    BY <1>2, <1>3, <2>1, <2>2
\* A draft has had its id for longer than this step,
\* or it has just been inserted.
<1>4. ASSUME NEW u \in Users, drafts'[u] # NoDraft
      PROVE  \/ drafts[u] # NoDraft /\ drafts'[u].id = drafts[u].id
             \/ \E t \in Tasks : Inserted(t, u)
  <2>1. ASSUME NEW t \in Tasks, Extended(t, u)
        PROVE  drafts[u] # NoDraft /\ drafts'[u].id = drafts[u].id
    BY <2>1 DEF Extended
  <2>2. QED
    BY <1>4, <2>1, DraftMoves DEF DraftMove, Lessened
<1>5. ASSUME NEW t \in Tasks, NEW u \in Users, Inserted(t, u)
      PROVE  /\ drafts'[u].id = task[t].made.id
             /\ task[t].made.id \in DraftIds /\ task[t].made.id \in NewDrafts
             /\ task[t].made.id \notin NewDrafts'
             /\ \A v \in Users : v # u => drafts'[v] = drafts[v]
             /\ ~\E r \in Tasks : TakeNumber(r)
  <2>1. CreateInsert(t) /\ task[t].user = u /\ drafts'[u].id = task[t].made.id
    BY <1>5 DEF Inserted
  <2>2. task[t].made.id \in DraftIds
    BY <2>1 DEF CreateInsert, At, TypeInv, LocalsInv
  <2>3. \A v \in Users : v # u => drafts'[v] = drafts[v]
    BY <2>1 DEF CreateInsert, TypeInv, TypeOK
  <2>4. ASSUME NEW r \in Tasks, TakeNumber(r) PROVE FALSE
    <3>1. task'[r].pc = "persist" /\ task[r].pc = "number"
      BY <2>4, Leaves DEF TakeNumber, At
    <3>2. task[t].pc = "insert" /\ task'[t].pc = "idle"
      BY <2>1, Blank DEF CreateInsert, Finish, At, TypeInv, TypeOK
    <3>3. QED
      BY <2>1, <3>1, <3>2, UsesDraft
  <2>5. QED
    BY <2>1, <2>2, <2>3, <2>4, UsesDraft
<1>6. ASSUME NEW u \in Users, drafts'[u] # NoDraft
      PROVE  drafts'[u].id \in DraftIds \ NewDrafts'
  BY <1>1, <1>4, <1>5, <1>6 DEF IdsInv
<1>7. ASSUME NEW u \in Users, NEW v \in Users, u # v, drafts'[u] # NoDraft
      PROVE  drafts'[u].id # drafts'[v].id
  <2>1. 0 \notin DraftIds /\ NoDraft.id = 0
    BY Blank DEF DraftIds
  <2>2. CASE drafts'[v] = NoDraft
    BY <1>6, <1>7, <2>1, <2>2
  <2>3. ASSUME NEW x \in Users, NEW y \in Users, x # y, drafts'[y] # NoDraft,
               NEW t \in Tasks, Inserted(t, x)
        PROVE  drafts'[x].id # drafts'[y].id
    BY <1>5, <2>3 DEF IdsInv
  <2>4. CASE /\ drafts[u] # NoDraft /\ drafts'[u].id = drafts[u].id
             /\ drafts'[v].id = drafts[v].id
    BY <1>7, <2>4 DEF IdsInv
  <2>5. QED
    BY <1>4, <1>7, <2>2, <2>3, <2>4
<1>8. ASSUME NEW ord \in Sent' PROVE ord.id \in DraftIds \ NewDrafts'
  <2>1. CASE ord \in Sent
    BY <1>1, <2>1 DEF IdsInv
  <2>2. CASE ord \notin Sent
    <3>1. PICK t \in Tasks : task[t].user \in Users /\ Draft(t) # NoDraft /\ ord.id = Draft(t).id
      BY <2>2, SentTaken
    <3>2. QED
      BY <1>1, <3>1 DEF IdsInv, Draft
  <2>3. QED
    BY <2>1, <2>2
<1>9. ASSUME NEW u \in Users, drafts'[u] # NoDraft, NEW ord \in Sent'
      PROVE  drafts'[u].id # ord.id
  <2>1. CASE ord \in Sent
    <3>1. CASE drafts[u] # NoDraft /\ drafts'[u].id = drafts[u].id
      BY <2>1, <3>1 DEF IdsInv, SettledOnce, Drafts
    <3>2. ASSUME NEW t \in Tasks, Inserted(t, u) PROVE drafts'[u].id # ord.id
      BY <1>5, <2>1, <3>2 DEF IdsInv
    <3>3. QED
      BY <1>4, <1>9, <3>1, <3>2
  <2>2. CASE ord \notin Sent
    <3>1. PICK t \in Tasks : /\ TakeNumber(t) /\ task[t].user \in Users
                             /\ Draft(t) # NoDraft /\ ord.id = Draft(t).id
      BY <2>2, SentTaken
    <3>2. drafts' = [drafts EXCEPT ![task[t].user] = NoDraft]
      BY <3>1 DEF TakeNumber
    <3>3. u # task[t].user /\ drafts'[u] = drafts[u]
      BY <1>9, <3>2 DEF TypeInv, TypeOK
    <3>4. QED
      BY <1>9, <3>1, <3>3 DEF IdsInv, Draft
  <2>3. QED
    BY <2>1, <2>2
<1>10. ASSUME NEW a \in Sent', NEW b \in Sent', a # b PROVE a.id # b.id
  <2>1. ASSUME NEW x \in Sent', NEW y \in Sent', x # y, x \notin Sent PROVE x.id # y.id
    <3>1. PICK t \in Tasks : /\ TakeNumber(t) /\ x = task'[t].made /\ task[t].user \in Users
                             /\ Draft(t) # NoDraft /\ x.id = Draft(t).id
      BY <2>1, SentTaken
    <3>2. CASE y \in Sent
      BY <3>1, <3>2 DEF IdsInv, SettledOnce, Drafts, Draft
    <3>3. CASE y \notin Sent
      <4>1. PICK r \in Tasks : TakeNumber(r) /\ y = task'[r].made
        BY <3>3, SentTaken
      <4>2. r # t
        BY <2>1, <3>1, <4>1
      <4>3. task'[r] = task[r] /\ task'[r].pc = "persist" /\ task[r].pc = "number"
        BY <3>1, <4>1, <4>2, Leaves DEF TakeNumber, At
      <4>4. QED
        BY <4>3
    <3>4. QED
      BY <3>2, <3>3
  <2>2. CASE a \in Sent /\ b \in Sent
    BY <1>10, <2>2 DEF IdsInv, SettledOnce
  <2>3. QED
    BY <1>10, <2>1, <2>2
<1>11. ASSUME NEW r \in Tasks, NEW t \in Tasks, task'[r].pc = "persist",
              task'[t].pc = "persist", r # t
       PROVE  task'[r].made.id # task'[t].made.id
  <2>1. ASSUME NEW x \in Tasks, NEW y \in Tasks, task'[y].pc = "persist", x # y, TakeNumber(x)
        PROVE  task'[x].made.id # task'[y].made.id
    <3>1. /\ task'[y] = task[y] /\ task'[x].made.id = Draft(x).id
          /\ task[x].user \in Users /\ Draft(x) # NoDraft
      BY <2>1, Leaves
    <3>2. task[y].made \in Sent
      BY <2>1, <3>1 DEF Sent, At
    <3>3. QED
      BY <3>1, <3>2 DEF IdsInv, SettledOnce, Drafts, Draft
  <2>2. CASE task'[r] = task[r] /\ task'[t] = task[t]
    BY <1>11, <2>2 DEF IdsInv, SettledOnce, At
  <2>3. (task'[r] = task[r] \/ TakeNumber(r)) /\ (task'[t] = task[t] \/ TakeNumber(t))
    BY <1>11, TaskMoves DEF TaskMove
  <2>4. QED
    BY <1>11, <2>1, <2>2, <2>3
<1>12. SettledOnce'
  <2>1. \A d \in Drafts' : \E u \in Users : d = drafts'[u] /\ d # NoDraft
    BY DEF Drafts
  <2>2. QED
    BY <1>9, <1>10, <1>11, <2>1 DEF SettledOnce, At
<1>13. /\ \A t \in Tasks : At(t, "insert")' => task'[t].made.id <= lastDraft'
       /\ \A r, t \in Tasks : At(r, "insert")' /\ At(t, "insert")' /\ r # t
             => task'[r].made.id # task'[t].made.id
  BY <1>2, <1>3 DEF At
<1>14. QED
  BY <1>6, <1>7, <1>8, <1>12, <1>13 DEF IdsInv

\* A file is in a draft for longer than this step, or has just been bound.
LEMMA FilesMove ==
    ASSUME TypeInv, FreshInv, BuildInv, [Next]_vars, NEW u \in Users,
           NEW f \in ToSet(drafts'[u].files)
    PROVE  \/ /\ f \in ToSet(drafts[u].files)
              /\ drafts'[u].id = drafts[u].id /\ drafts'[u].createdAt = drafts[u].createdAt
           \/ \E t \in Tasks : /\ AddFile(t) /\ At(t, "add") /\ task[t].user = u
                               /\ f = task[t].file /\ f \in NewFiles
<1>1. CASE Lessened(u)
  <2>1. drafts'[u] # NoDraft
    BY Blank, Empty
  <2>2. QED
    BY <1>1, <2>1 DEF Lessened, Within
<1>2. ASSUME NEW t \in Tasks, Inserted(t, u) PROVE FALSE
  BY <1>2, Empty DEF Inserted
<1>3. ASSUME NEW t \in Tasks, Extended(t, u)
      PROVE  \/ /\ f \in ToSet(drafts[u].files)
                /\ drafts'[u].id = drafts[u].id /\ drafts'[u].createdAt = drafts[u].createdAt
             \/ /\ AddFile(t) /\ At(t, "add") /\ task[t].user = u
                /\ f = task[t].file /\ f \in NewFiles
  <2>1. drafts[u].files \in Seq(FileIds) /\ task[t].file \in FileIds
    BY <1>3 DEF Extended, AddFile, At, TypeInv, TypeOK, DraftType, LocalsInv
  <2>2. f \in ToSet(drafts[u].files) \/ f = task[t].file
    BY <1>3, <2>1, Appended DEF Extended
  <2>3. task[t].file \in NewFiles
    BY <1>3, UsesFile DEF Extended
  <2>4. QED
    BY <1>3, <2>2, <2>3 DEF Extended, AddFile
<1>4. QED
  BY <1>1, <1>2, <1>3, DraftMoves DEF DraftMove

\* Two orders do not leave in one step.
LEMMA OneLeaves ==
    ASSUME TypeInv, BuildInv, NEW r \in Tasks, NEW t \in Tasks, TakeNumber(r), TakeNumber(t)
    PROVE  r = t
<1>1. task[r].pc = "number" /\ task'[r].pc = "persist"
  BY Leaves DEF TakeNumber, At
<1>2. QED
  BY <1>1, Leaves

LEMMA FilesStep ==
    ASSUME TypeInv, FreshInv, FilesInv, BuildInv, [Next]_vars
    PROVE  FilesInv'
<1>1. drafts \in [Users -> DraftType] /\ IsInjective(NoDraft.files) /\ ToSet(NoDraft.files) = {}
  BY Blank, Empty DEF TypeInv, TypeOK
<1>2. ASSUME NEW u \in Users PROVE IsInjective(drafts'[u].files)
  <2>1. CASE Lessened(u)
    BY <1>1, <2>1 DEF Lessened, Within, FilesInv
  <2>2. ASSUME NEW t \in Tasks, Inserted(t, u) PROVE IsInjective(drafts'[u].files)
    BY <2>2, Empty DEF Inserted
  <2>3. ASSUME NEW t \in Tasks, Extended(t, u) PROVE IsInjective(drafts'[u].files)
    <3>1. drafts[u].files \in Seq(FileIds) /\ task[t].file \in FileIds
      BY <2>3 DEF Extended, AddFile, At, TypeInv, TypeOK, DraftType, LocalsInv
    <3>2. task[t].file \notin ToSet(drafts[u].files)
      BY <2>3, UsesFile DEF Extended, FreshInv
    <3>3. IsInjective(Append(drafts[u].files, task[t].file))
      BY <3>1, <3>2, Appended DEF FilesInv
    <3>4. QED
      BY <2>3, <3>3 DEF Extended
  <2>4. QED
    BY <2>1, <2>2, <2>3, DraftMoves DEF DraftMove
<1>3. ASSUME NEW u \in Users, NEW v \in Users, u # v, NEW f,
             f \in ToSet(drafts'[u].files), f \in ToSet(drafts'[v].files)
      PROVE  FALSE
  <2>1. CASE f \in ToSet(drafts[u].files) /\ f \in ToSet(drafts[v].files)
    BY <1>3, <2>1 DEF FilesInv
  <2>2. CASE f \in NewFiles /\ (f \in ToSet(drafts[u].files) \/ f \in ToSet(drafts[v].files))
    BY <2>2 DEF FreshInv
  <2>3. ASSUME NEW r \in Tasks, NEW t \in Tasks, At(r, "add"), At(t, "add"),
               task[r].user = u, task[t].user = v, task[r].file = task[t].file
        PROVE  FALSE
    BY <1>3, <2>3 DEF FreshInv
  <2>4. QED
    BY <1>3, <2>1, <2>2, <2>3, FilesMove
<1>4. ASSUME NEW ord \in Sent', ord \notin Sent
      PROVE  \E w \in Users : /\ ToSet(ord.files) \subseteq ToSet(drafts[w].files)
                              /\ IsInjective(ord.files) /\ drafts'[w] = NoDraft
                              /\ \E t \in Tasks : TakeNumber(t) /\ ord = task'[t].made
  <2>1. PICK t \in Tasks : /\ TakeNumber(t) /\ ord = task'[t].made /\ task[t].user \in Users
                           /\ Within(ord.files, Draft(t).files)
    BY <1>4, SentTaken
  <2>2. drafts'[task[t].user] = NoDraft
    BY <1>1, <2>1 DEF TakeNumber
  <2>3. QED
    BY <2>1, <2>2 DEF Within, Draft, FilesInv
<1>5. ASSUME NEW u \in Users, NEW ord \in Sent', NEW f,
             f \in ToSet(drafts'[u].files), f \in ToSet(ord.files)
      PROVE  FALSE
  <2>1. CASE ord \in Sent
    BY <1>5, <2>1, FilesMove DEF FilesInv, FreshInv
  <2>2. CASE ord \notin Sent
    <3>1. PICK w \in Users : f \in ToSet(drafts[w].files) /\ drafts'[w] = NoDraft
      BY <1>4, <1>5, <2>2
    <3>2. u # w
      BY <1>1, <1>5, <3>1
    <3>3. QED
      BY <1>5, <3>1, <3>2, FilesMove DEF FilesInv, FreshInv
  <2>3. QED
    BY <2>1, <2>2
<1>6. ASSUME NEW ord \in Sent' PROVE IsInjective(ord.files)
  BY <1>4 DEF FilesInv
<1>7. ASSUME NEW a \in Sent', NEW b \in Sent', a # b, NEW f,
             f \in ToSet(a.files), f \in ToSet(b.files)
      PROVE  FALSE
  <2>1. ASSUME NEW x \in Sent', NEW y \in Sent', x # y, x \notin Sent,
               f \in ToSet(x.files), f \in ToSet(y.files)
        PROVE  FALSE
    <3>1. PICK w \in Users, t \in Tasks :
             f \in ToSet(drafts[w].files) /\ TakeNumber(t) /\ x = task'[t].made
      BY <1>4, <2>1
    <3>2. CASE y \in Sent
      BY <2>1, <3>1, <3>2 DEF FilesInv
    <3>3. CASE y \notin Sent
      BY <1>4, <2>1, <3>1, <3>3, OneLeaves
    <3>4. QED
      BY <3>2, <3>3
  <2>2. QED
    BY <1>7, <2>1 DEF FilesInv
<1>8. ASSUME NEW t \in Tasks, NEW v \in Users, task'[t].pc = "presign",
             task'[t].file \in ToSet(drafts'[v].files)
      PROVE  v = task'[t].user
  <2>1. CASE task'[t] = task[t]
    <3>1. At(t, "presign") /\ task[t].file \notin NewFiles
      BY <1>8, <2>1 DEF FreshInv, At
    <3>2. task[t].file \in ToSet(drafts[v].files)
      BY <1>8, <2>1, <3>1, FilesMove
    <3>3. QED
      BY <2>1, <3>1, <3>2 DEF FilesInv
  <2>2. CASE AddFile(t)
    <3>1. /\ task[t].file \in NewFiles /\ At(t, "add")
          /\ task'[t].file = task[t].file /\ task'[t].user = task[t].user
      BY <2>2, UsesFile DEF AddFile
    <3>2. task[t].file \notin ToSet(drafts[v].files)
      BY <3>1 DEF FreshInv
    <3>3. PICK r \in Tasks : At(r, "add") /\ task[r].user = v /\ task[r].file = task[t].file
      BY <1>8, <3>1, <3>2, FilesMove
    <3>4. QED
      BY <3>1, <3>3 DEF FreshInv
  <2>3. QED
    BY <1>8, <2>1, <2>2, TaskMoves DEF TaskMove
<1>9. ASSUME NEW u \in Users, NEW f \in cleaner'.keys, f \in ToSet(drafts'[u].files)
      PROVE  FALSE
  <2>1. CASE f \in cleaner.keys
    BY <1>9, <2>1, FilesMove DEF FilesInv, FreshInv
  <2>2. ASSUME NEW w \in Users, f \in ToSet(drafts[w].files),
               drafts' = [drafts EXCEPT ![w] = NoDraft]
        PROVE  FALSE
    BY <1>1, <1>9, <2>2 DEF FilesInv
  <2>3. QED
    BY <2>1, <2>2, KeysMove
<1>10. ASSUME NEW ord \in Sent', NEW f \in cleaner'.keys, f \in ToSet(ord.files)
       PROVE  FALSE
  <2>1. CASE f \in cleaner.keys
    <3>1. CASE ord \in Sent
      BY <1>10, <2>1, <3>1 DEF FilesInv
    <3>2. CASE ord \notin Sent
      BY <1>4, <1>10, <2>1, <3>2 DEF FilesInv
    <3>3. QED
      BY <3>1, <3>2
  <2>2. ASSUME NEW w \in Users, f \in ToSet(drafts[w].files), UNCHANGED <<task, orders>>
        PROVE  FALSE
    <3>1. ord \in Sent
      BY <2>2 DEF Sent, At
    <3>2. QED
      BY <1>10, <2>2, <3>1 DEF FilesInv
  <2>3. QED
    BY <1>10, <2>1, <2>2, KeysMove
<1>11. QED
  BY <1>2, <1>3, <1>5, <1>6, <1>7, <1>8, <1>9, <1>10 DEF FilesInv, At

\* A handler keeps its draft while it holds the entry.
LEMMA HeldDraft ==
    ASSUME TypeInv, LocksHeldByTasks, [Next]_vars, NEW t \in Tasks,
           task[t].pc \in Holding, task'[t] = task[t]
    PROVE  Draft(t)' = Draft(t) /\ task[t].user \in Users /\ lock[task[t].user] = t
<1>1. task[t].user \in Users
  BY DEF TypeInv, LocalsInv, At, Holding
<1>2. LocksHeldByTasks'
  BY HeldStep
<1>3. lock[task[t].user] = t /\ lock'[task[t].user] = t
  BY <1>1, <1>2 DEF LocksHeldByTasks
<1>4. drafts'[task[t].user] = drafts[task[t].user]
  BY <1>1, <1>3, EditStep, DraftAssumption
<1>5. QED
  BY <1>1, <1>3, <1>4 DEF Draft

LEMMA BuildStep ==
    ASSUME TypeInv, LocksHeldByTasks, FreshInv, BuildInv, [Next]_vars
    PROVE  BuildInv'
<1>1. ASSUME NEW t \in Tasks, task'[t].pc = "validate"
      PROVE  /\ task'[t].req # <<>>
             /\ ToSet(task'[t].req) \subseteq knownFiles'[task'[t].user]
             /\ \A f \in ToSet(task'[t].req) : Bound(t, f)' => Draft(t)'.id = task'[t].order
  <2>1. CASE task'[t] = task[t]
    <3>1. /\ task[t].user \in Users /\ At(t, "validate") /\ task[t].req # <<>>
          /\ ToSet(task[t].req) \subseteq knownFiles[task[t].user]
      BY <1>1, <2>1 DEF TypeInv, LocalsInv, BuildInv, At
    <3>2. ASSUME NEW f \in ToSet(task[t].req), f \in ToSet(drafts'[task[t].user].files)
          PROVE  drafts'[task[t].user].id = task[t].order
      <4>1. f \notin NewFiles
        BY <3>1, <3>2 DEF FreshInv
      <4>2. /\ f \in ToSet(drafts[task[t].user].files)
            /\ drafts'[task[t].user].id = drafts[task[t].user].id
        BY <3>1, <3>2, <4>1, FilesMove
      <4>3. QED
        BY <3>1, <3>2, <4>2 DEF BuildInv, Bound, Draft
    <3>3. QED
      BY <2>1, <3>1, <3>2, KnownMoves DEF Bound, Draft
  <2>2. ASSUME NEW u \in Users, BuildBegin(t, u)
        PROVE  /\ task'[t].req # <<>> /\ task'[t].user = u
               /\ ToSet(task'[t].req) \subseteq knownFiles[u]
               /\ drafts'[u].id = task'[t].order /\ knownFiles' = knownFiles
    <3>1. knownDrafts[u] \subseteq 0..MaxDrafts /\ knownFiles[u] \in SUBSET FileIds
          /\ MaxFileLimit \in Nat /\ task \in [Tasks -> TaskType]
      BY Constants DEF TypeInv, TypeOK, DraftIds
    <3>2. PICK o \in knownDrafts[u], req \in SeqOf(knownFiles[u], MaxFileLimit) \ {<<>>} :
             Exists(u, o) /\ Begin(t, Building(u, o, req))
      BY <2>2 DEF BuildBegin
    <3>3. req \in Seq(FileIds) /\ ToSet(req) \subseteq knownFiles[u]
      BY <3>1, Requests
    <3>4. task'[t] = Building(u, o, req)
      BY <3>1, <3>2 DEF Begin
    <3>5. task'[t].req = req /\ task'[t].user = u /\ task'[t].order = o
      BY <3>1, <3>3, <3>4, BuildLocals
    <3>6. UNCHANGED <<drafts, knownFiles>>
      BY <2>2 DEF BuildBegin, client
    <3>7. QED
      BY <3>2, <3>3, <3>5, <3>6 DEF Exists
  <2>3. QED
    BY <1>1, <2>1, <2>2, TaskMoves DEF TaskMove, Bound, Draft
<1>2. ASSUME NEW t \in Tasks, task'[t].pc \in {"check", "number"}
      PROVE  /\ Draft(t)' # NoDraft /\ Draft(t)'.id = task'[t].order /\ task'[t].req # <<>>
             /\ task'[t].pc = "number" => Within(task'[t].req, Draft(t)'.files)
  <2>1. CASE task'[t] = task[t]
    <3>1. task[t].pc \in Holding /\ task[t].pc = task'[t].pc
      BY <1>2, <2>1 DEF Holding
    <3>2. Draft(t)' = Draft(t)
      BY <2>1, <3>1, HeldDraft
    <3>3. QED
      BY <1>2, <2>1, <3>2 DEF BuildInv, At
  <2>2. CASE task'[t].pc = "check" /\ Validate(t)
    <3>1. /\ task[t].req # <<>> /\ task[t].req \in Seq(FileIds)
          /\ \A f \in ToSet(task[t].req) : Bound(t, f) /\ Draft(t).id = task[t].order
          /\ Draft(t).files # <<>> /\ UNCHANGED drafts
      BY <2>2 DEF Validate, Valid, BuildInv, TypeInv, TypeOK, TaskType
    <3>2. task[t].req[1] \in ToSet(task[t].req)
      BY <3>1 DEF ToSet
    <3>3. Draft(t).id = task[t].order /\ Draft(t) # NoDraft
      BY <3>1, <3>2, Blank
    <3>4. /\ task'[t].order = task[t].order /\ task'[t].user = task[t].user
          /\ task'[t].req = task[t].req
      BY <2>2 DEF Validate, GoTo, TypeInv, TypeOK, TaskType
    <3>5. Draft(t)' = Draft(t)
      BY <3>1, <3>4 DEF Draft
    <3>6. QED
      BY <2>2, <3>1, <3>3, <3>4, <3>5
  <2>3. CASE MatchFiles(t)
    <3>1. task'[t].req = task[t].req /\ task'[t].user = task[t].user
          /\ task'[t].order = task[t].order /\ UNCHANGED drafts /\ At(t, "check")
          /\ OnTop(Draft(t).files, task[t].req, Len(task[t].req))
      BY <2>3 DEF MatchFiles, TypeInv, TypeOK, TaskType
    <3>2. task[t].req \in Seq(FileIds) /\ Draft(t).files \in Seq(FileIds)
      BY <3>1 DEF At, TypeInv, TypeOK, LocalsInv, TaskType, Draft, DraftType
    <3>3. Within(task[t].req, Draft(t).files)
      BY <3>1, <3>2, Prefixed
    <3>4. Draft(t)' = Draft(t)
      BY <3>1 DEF Draft
    <3>5. QED
      BY <3>1, <3>3, <3>4 DEF BuildInv, At
  <2>4. QED
    BY <1>2, <2>1, <2>2, <2>3, TaskMoves DEF TaskMove
<1>3. ASSUME NEW t \in Tasks, task'[t].pc = "persist" PROVE task'[t].made.id = task'[t].order
  <2>1. CASE task'[t] = task[t]
    BY <1>3, <2>1 DEF BuildInv, At
  <2>2. CASE TakeNumber(t)
    BY <2>2, Leaves
  <2>3. QED
    BY <1>3, <2>1, <2>2, TaskMoves DEF TaskMove
<1>4. QED
  BY <1>1, <1>2, <1>3 DEF BuildInv, At

\* Who deletes an object: a handler that holds the draft with the file, or the
\* cleaner.
LEMMA BucketMoves ==
    ASSUME TypeInv, ObjectsInv, [Next]_vars, NEW f \in bucket, f \notin bucket'
    PROVE  \/ f \in cleaner.keys
           \/ \E t \in Tasks : /\ At(t, "delete") /\ task[t].user \in Users
                               /\ f \in ToSet(drafts[task[t].user].files)
<1>1. CASE CleanPurge
  BY <1>1 DEF CleanPurge
<1>2. ASSUME NEW t \in Tasks, DeleteObject(t)
      PROVE  /\ At(t, "delete") /\ task[t].user \in Users
             /\ f \in ToSet(drafts[task[t].user].files)
  <2>1. At(t, "delete") /\ f = task[t].file
    BY <1>2 DEF DeleteObject
  <2>2. QED
    BY <2>1 DEF ObjectsInv, Bound, Draft, At, TypeInv, LocalsInv
<1>3. ASSUME NEW g \in FileIds, Upload(g) PROVE FALSE
  BY <1>3 DEF Upload
<1>4. QED
  BY <1>1, <1>2, <1>3, Causes

LEMMA ObjectsStep ==
    ASSUME TypeInv, LocksHeldByTasks, FilesInv, BuildInv, ObjectsInv, [Next]_vars
    PROVE  ObjectsInv'
<1>1. ASSUME NEW ord \in Sent', NEW f \in ToSet(ord.files) PROVE f \in bucket'
  <2>1. CASE ord \in Sent
    <3>1. f \in bucket /\ f \notin cleaner.keys
      BY <1>1, <2>1 DEF ObjectsInv, SentFilesUploaded, Uploaded, FilesInv
    <3>2. \A u \in Users : f \notin ToSet(drafts[u].files)
      BY <1>1, <2>1 DEF FilesInv
    <3>3. QED
      BY <3>1, <3>2, BucketMoves
  <2>2. CASE ord \notin Sent
    <3>1. PICK t \in Tasks : TakeNumber(t) /\ Within(ord.files, Draft(t).files)
      BY <2>2, SentTaken
    <3>2. At(t, "number") /\ bucket' = bucket
      BY <3>1 DEF TakeNumber, outer
    <3>3. QED
      BY <1>1, <3>1, <3>2 DEF ObjectsInv, Uploaded, Within
  <2>3. QED
    BY <2>1, <2>2
<1>2. ASSUME NEW t \in Tasks, task'[t].pc = "number", NEW f \in ToSet(Draft(t)'.files)
      PROVE  f \in bucket'
  <2>1. CASE task'[t] = task[t]
    <3>1. task[t].pc \in Holding /\ At(t, "number")
      BY <1>2, <2>1 DEF Holding, At
    <3>2. Draft(t)' = Draft(t) /\ task[t].user \in Users /\ lock[task[t].user] = t
      BY <2>1, <3>1, HeldDraft
    <3>3. f \in ToSet(drafts[task[t].user].files) /\ f \in bucket
      BY <1>2, <3>1, <3>2 DEF ObjectsInv, Uploaded, Draft
    <3>4. ASSUME NEW r \in Tasks, At(r, "delete"), task[r].user \in Users,
                 f \in ToSet(drafts[task[r].user].files)
          PROVE  FALSE
      <4>1. lock[task[r].user] = r /\ r # t
        BY <3>1, <3>4 DEF LocksHeldByTasks, At, Holding
      <4>2. task[r].user # task[t].user
        BY <3>2, <4>1
      <4>3. QED
        BY <3>2, <3>3, <3>4, <4>2 DEF FilesInv
    <3>5. f \notin cleaner.keys
      BY <3>2, <3>3 DEF FilesInv
    <3>6. QED
      BY <3>3, <3>4, <3>5, BucketMoves
  <2>2. CASE MatchFiles(t)
    <3>1. task'[t].user = task[t].user /\ UNCHANGED <<drafts, bucket>>
          /\ Uploaded(Draft(t).files)
      BY <2>2 DEF MatchFiles, outer, TypeInv, TypeOK, TaskType
    <3>2. QED
      BY <1>2, <3>1 DEF Draft, Uploaded
  <2>3. QED
    BY <1>2, <2>1, <2>2, TaskMoves DEF TaskMove
<1>3. ASSUME NEW t \in Tasks, task'[t].pc = "delete" PROVE Bound(t, task[t].file)'
  <2>1. CASE task'[t] = task[t]
    <3>1. task[t].pc \in Holding /\ At(t, "delete")
      BY <1>3, <2>1 DEF Holding, At
    <3>2. Draft(t)' = Draft(t)
      BY <2>1, <3>1, HeldDraft
    <3>3. QED
      BY <2>1, <3>1, <3>2 DEF ObjectsInv, Bound
  <2>2. CASE FindFile(t)
    <3>1. task'[t].user = task[t].user /\ task'[t].file = task[t].file /\ UNCHANGED drafts
          /\ Bound(t, task[t].file)
      BY <2>2 DEF FindFile, GoTo, TypeInv, TypeOK, TaskType
    <3>2. QED
      BY <3>1 DEF Bound, Draft
  <2>3. QED
    BY <1>3, <2>1, <2>2, TaskMoves DEF TaskMove
<1>4. QED
  BY <1>1, <1>2, <1>3 DEF ObjectsInv, SentFilesUploaded, Uploaded, At

LEMMA TimesStep ==
    ASSUME TypeInv, FreshInv, FilesInv, BuildInv, TimesInv, [Next]_vars
    PROVE  TimesInv'
<1>1. TypeInv'
  BY TypeStep
<1>2. ASSUME NEW u \in Users, drafts'[u] # NoDraft, NEW f \in ToSet(drafts'[u].files)
      PROVE  url'[f] <= drafts'[u].createdAt + Lifetime
  <2>1. f \in FileIds /\ drafts'[u].createdAt \in Nat /\ Lifetime \in Nat
        /\ url \in [FileIds -> Nat]
    <3>1. drafts'[u] \in DraftType /\ url \in [FileIds -> Nat] /\ Lifetime \in Nat
      BY <1>1, Constants DEF TypeInv, TypeOK
    <3>2. QED
      BY <1>2, <3>1 DEF DraftType, ToSet
  <2>2. ASSUME NEW t \in Tasks, At(t, "presign"), f = task[t].file,
               url'[f] = Draft(t).createdAt + Lifetime, UNCHANGED drafts
        PROVE  url'[f] <= drafts'[u].createdAt + Lifetime
    <3>1. u = task[t].user
      BY <1>2, <2>2 DEF FilesInv
    <3>2. url'[f] = drafts'[u].createdAt + Lifetime
      BY <2>2, <3>1 DEF Draft
    <3>3. QED
      BY <2>1, <3>2
  <2>3. CASE url'[f] = url[f]
    <3>1. CASE /\ f \in ToSet(drafts[u].files)
               /\ drafts'[u].createdAt = drafts[u].createdAt
      <4>1. drafts[u] # NoDraft
        BY <3>1, Blank, Empty
      <4>2. url[f] <= drafts[u].createdAt + Lifetime
        BY <3>1, <4>1 DEF TimesInv, UrlWithinDraft, Drafts
      <4>3. QED
        BY <2>3, <3>1, <4>2
    <3>2. CASE f \in NewFiles
      <4>1. url'[f] = 0
        BY <2>3, <3>2 DEF FreshInv
      <4>2. QED
        BY <2>1, <4>1
    <3>3. QED
      BY <1>2, <3>1, <3>2, FilesMove
  <2>4. QED
    BY <2>1, <2>2, <2>3, UrlMoves
<1>3. UrlWithinDraft'
  BY <1>2 DEF UrlWithinDraft, Drafts
<1>4. cleaner'.cutoff <= now'
  <2>1. /\ cleaner \in [pc : {"asleep", "visit"}, cutoff : Nat, todo : SUBSET Users,
                        keys : SUBSET FileIds]
        /\ now \in Nat /\ cleaner.cutoff <= now /\ cleaner.cutoff \in Nat
    BY DEF TypeInv, TypeOK, TimesInv
  <2>2. now' \in Nat /\ now <= now'
    BY <2>1, Causes DEF Tick
  <2>3. CASE CleanStart \/ CleanPurge \/ Restart
    BY <2>1, <2>2, <2>3 DEF CleanStart, CleanPurge, Restart, Asleep, outer
  <2>4. ASSUME NEW u \in Users, CleanVisit(u) PROVE cleaner'.cutoff = cleaner.cutoff
    <3>1. PICK S : S = ToSet(drafts[u].files)
      OBVIOUS
    <3>2. \/ cleaner' = [cleaner EXCEPT !.todo = @ \ {u}, !.keys = @ \cup S]
          \/ cleaner' = [cleaner EXCEPT !.todo = @ \ {u}]
      BY <2>4, <3>1 DEF CleanVisit
    <3>3. QED
      BY <2>1, <3>2
  <2>5. cleaner'.cutoff = cleaner.cutoff \/ cleaner'.cutoff <= now'
    BY <2>3, <2>4, Causes
  <2>6. QED
    BY <2>1, <2>2, <2>5
<1>5. QED
  BY <1>3, <1>4 DEF TimesInv

\* The inductive invariant of the draft store.
StoreInv ==
    /\ TypeInv /\ LocksHeldByTasks
    /\ FreshInv /\ IdsInv /\ FilesInv /\ BuildInv /\ ObjectsInv /\ TimesInv

LEMMA InitStore == Init => StoreInv
<1> SUFFICES ASSUME Init PROVE StoreInv
  OBVIOUS
<1>1. TypeInv /\ LocksHeldByTasks
  BY InitTypes, Blank, DraftAssumption DEF Init, LocksHeldByTasks, Holding
<1>2. /\ Sent = {} /\ cleaner.keys = {} /\ cleaner.cutoff = 0 /\ now = 0
      /\ \A t \in Tasks : task[t].pc = "idle"
      /\ \A u \in Users : drafts[u] = NoDraft /\ knownFiles[u] = {}
      /\ \A f \in FileIds : url[f] = 0
  BY Blank DEF Init, Sent, At, Asleep
<1>3. ToSet(NoDraft.files) = {} /\ IsInjective(NoDraft.files) /\ Drafts = {}
  BY <1>2, Blank, Empty DEF Drafts
<1>4. \A f \in NewFiles : url[f] = 0
  BY <1>2 DEF NewFiles, At
<1>5. FreshInv
  BY <1>2, <1>3, <1>4 DEF FreshInv, At
<1>6. IdsInv
  BY <1>2, <1>3 DEF IdsInv, At, SettledOnce
<1>7. FilesInv
  BY <1>2, <1>3 DEF FilesInv, At
<1>8. BuildInv
  BY <1>2 DEF BuildInv, At
<1>9. ObjectsInv /\ TimesInv
  BY <1>2, <1>3 DEF ObjectsInv, SentFilesUploaded, TimesInv, UrlWithinDraft, At
<1>10. QED
  BY <1>1, <1>5, <1>6, <1>7, <1>8, <1>9 DEF StoreInv

LEMMA StoreStep == StoreInv /\ [Next]_vars => StoreInv'
BY TypeStep, HeldStep, FreshStep, IdsStep, FilesStep, BuildStep, ObjectsStep, TimesStep
   DEF StoreInv

\* What it says of the properties that the runs check.
LEMMA StoreSafe ==
    ASSUME StoreInv
    PROVE  /\ BuildPlacesNamed /\ SettledOnce /\ NoFileShared
           /\ SentFilesUploaded /\ UrlWithinDraft
<1>1. BuildPlacesNamed
  BY DEF StoreInv, BuildInv, BuildPlacesNamed
<1>2. SettledOnce /\ SentFilesUploaded /\ UrlWithinDraft
  BY DEF StoreInv, IdsInv, ObjectsInv, TimesInv
<1>3. \A d \in Drafts : \E u \in Users : d = drafts[u]
  BY DEF Drafts
<1>4. \A h \in Drafts \cup Sent : IsInjective(h.files)
  BY <1>3 DEF StoreInv, FilesInv
<1>5. ASSUME NEW g \in Drafts \cup Sent, NEW h \in Drafts \cup Sent, g # h
      PROVE  ToSet(g.files) \cap ToSet(h.files) = {}
  <2>1. CASE g \in Drafts /\ h \in Drafts
    BY <1>3, <1>5, <2>1 DEF StoreInv, FilesInv
  <2>2. CASE g \in Drafts /\ h \in Sent
    BY <1>3, <2>2 DEF StoreInv, FilesInv
  <2>3. CASE g \in Sent /\ h \in Drafts
    BY <1>3, <2>3 DEF StoreInv, FilesInv
  <2>4. CASE g \in Sent /\ h \in Sent
    BY <1>5, <2>4 DEF StoreInv, FilesInv
  <2>5. QED
    BY <2>1, <2>2, <2>3, <2>4
<1>6. NoFileShared
  BY <1>4, <1>5 DEF NoFileShared
<1>7. QED
  BY <1>1, <1>2, <1>6

\* New ids and files are nowhere, files are in one place, requests name files of the
\* draft they began with, and objects in use stay, in every state of the store and its
\* handlers (drafts.rs, orders.rs).
THEOREM StoreHolds == Spec => []StoreInv
BY InitStore, StoreStep, PTL DEF Spec

\* What post_orders_id_build builds and persists is the order its path names, although
\* it checks the id once and works on whatever draft the user has by then.
THEOREM NamedIsBuilt == Spec => []BuildPlacesNamed
BY StoreHolds, StoreSafe, PTL

\* No draft has the id of an order that build has sent, and no two orders share an id,
\* also when insertions race or the server restarts.
THEOREM IdsSettleOnce == Spec => []SettledOnce
BY StoreHolds, StoreSafe, PTL

\* No sequence of builds, removals and panics (the reversal and pops of build) puts a
\* file into two drafts or orders, or twice into one.
THEOREM FilesNotShared == Spec => []NoFileShared
BY StoreHolds, StoreSafe, PTL

\* Neither delete_orders_id_files_id nor clear_expired deletes an object of an order
\* once build has looked for it.
THEOREM SentStaysUploaded == Spec => []SentFilesUploaded
BY StoreHolds, StoreSafe, PTL

\* However late get_created_at runs, and whatever draft it reads, the URL of a file in a
\* draft ends with the lifetime of that draft.
THEOREM UrlsEndWithDraft == Spec => []UrlWithinDraft
BY StoreHolds, StoreSafe, PTL

\* A draft past its lifetime has no file whose URL still lives.
LEMMA ClearStep ==
    ASSUME StoreInv, [Next]_vars, NEW f \in cleaner'.keys, f \notin cleaner.keys
    PROVE  url[f] <= now
<1>1. TypeInv /\ TimesInv
  BY DEF StoreInv
<1>2. PICK u \in Users : /\ f \in ToSet(drafts[u].files) /\ drafts[u] # NoDraft
                         /\ Expired(drafts[u], cleaner.cutoff)
  BY <1>1, KeysMove
<1>3. url[f] <= drafts[u].createdAt + Lifetime
  BY <1>1, <1>2 DEF TimesInv, UrlWithinDraft, Drafts
<1>4. cleaner.cutoff - drafts[u].createdAt > Lifetime /\ cleaner.cutoff <= now
  BY <1>1, <1>2 DEF Expired, TimesInv
<1>5. drafts[u] \in DraftType /\ url \in [FileIds -> Nat] /\ cleaner.cutoff \in Nat
      /\ now \in Nat /\ Lifetime \in Nat
  BY <1>1, Constants DEF TypeInv, TypeOK
<1>6. f \in FileIds /\ drafts[u].createdAt \in Nat
  BY <1>2, <1>5 DEF DraftType, ToSet
<1>7. QED
  BY <1>3, <1>4, <1>5, <1>6

\* clear_expired drops a draft only when the upload URLs of its files have ended.
THEOREM ClearsAfterUrls == Spec => ClearedUrlsExpired
<1>1. StoreInv /\ [Next]_vars =>
         [\A f \in cleaner'.keys \ cleaner.keys : url[f] <= now]_vars
  BY ClearStep
<1>2. QED
  BY <1>1, StoreHolds, PTL DEF Spec, ClearedUrlsExpired
-----------------------------------------------------------------------------
(* The store implements the draft book.                                    *)

\* What the book sees of the handlers changes only with the handlers that begin or end
\* at "insert", "add" and "persist".
LEMMA OthersStay ==
    ASSUME NEW t \in Tasks, \A r \in Tasks : r # t => task'[r] = task[r]
    PROVE  /\ task[t].pc # "insert" /\ task'[t].pc # "insert" /\ UNCHANGED ids
                 => UNCHANGED SpentIds
           /\ task[t].pc # "add" /\ task'[t].pc # "add" /\ UNCHANGED ids
                 => UNCHANGED FiledFiles
           /\ task[t].pc # "persist" /\ task'[t].pc # "persist" => UNCHANGED BuiltOrders
<1> USE DEF At
<1>1. ASSUME task[t].pc # "insert", task'[t].pc # "insert", UNCHANGED ids
      PROVE  UNCHANGED NewDrafts
  BY <1>1 DEF NewDrafts, ids
<1>2. ASSUME task[t].pc # "add", task'[t].pc # "add", UNCHANGED ids PROVE UNCHANGED NewFiles
  BY <1>2 DEF NewFiles, ids
<1>3. ASSUME task[t].pc # "persist", task'[t].pc # "persist" PROVE UNCHANGED BuiltOrders
  BY <1>3 DEF BuiltOrders
<1>4. QED
  BY <1>1, <1>2, <1>3 DEF SpentIds, FiledFiles

\* Ids and files only ever retire.
LEMMA Retires ==
    ASSUME TypeInv, [Next]_vars
    PROVE  Book!Retire
<1>1. SpentIds' = SpentIds \cup SpentIds' /\ FiledFiles' = FiledFiles \cup FiledFiles'
  BY NewOnce DEF SpentIds, FiledFiles
<1>2. SpentIds' \in SUBSET DraftIds /\ FiledFiles' \in SUBSET FileIds
  BY DEF SpentIds, FiledFiles, DraftIds, FileIds
<1>3. QED
  BY <1>1, <1>2 DEF Book!Retire

\* The draft of one user changes.
LEMMA OneDraft ==
    ASSUME TypeInv, NEW u \in Users, \A v \in Users : v # u => drafts'[v] = drafts[v]
    PROVE  /\ drafts[u] # NoDraft => Entry(drafts[u], u) \in OpenDrafts
           /\ drafts[u] = NoDraft => \A d \in OpenDrafts : d.owner # u
           /\ drafts[u] # NoDraft /\ drafts'[u] = NoDraft =>
                 OpenDrafts' = OpenDrafts \ {Entry(drafts[u], u)}
           /\ drafts[u] = NoDraft /\ drafts'[u] # NoDraft =>
                 OpenDrafts' = OpenDrafts \cup {Entry(drafts'[u], u)}
           /\ drafts[u] # NoDraft /\ drafts'[u] # NoDraft =>
                 OpenDrafts' = (OpenDrafts \ {Entry(drafts[u], u)}) \cup {Entry(drafts'[u], u)}
<1> DEFINE Others == {Entry(drafts[v], v) : v \in {w \in Users : drafts[w] # NoDraft /\ w # u}}
<1>1. \A d, v : Entry(d, v).owner = v
  BY DEF Entry
<1>2. \A d \in Others : d.owner # u
  BY <1>1
<1>3. /\ drafts[u] = NoDraft => OpenDrafts = Others
      /\ drafts[u] # NoDraft => OpenDrafts = Others \cup {Entry(drafts[u], u)}
  BY DEF OpenDrafts
<1>4. /\ drafts'[u] = NoDraft => OpenDrafts' = Others
      /\ drafts'[u] # NoDraft => OpenDrafts' = Others \cup {Entry(drafts'[u], u)}
  BY DEF OpenDrafts
<1>5. Entry(drafts[u], u) \notin Others
  BY <1>1, <1>2
<1> HIDE DEF Others
<1>6. QED
  BY <1>1, <1>2, <1>3, <1>4, <1>5

\* An edit keeps the name and the owner of a draft.
LEMMA Edited ==
    ASSUME TypeInv, NEW u \in Users, \A v \in Users : v # u => drafts'[v] = drafts[v],
           drafts[u] # NoDraft, drafts'[u] # NoDraft, drafts'[u].id = drafts[u].id
    PROVE  Book!Edit(Entry(drafts[u], u), ToSet(drafts'[u].files))
<1>1. [Entry(drafts[u], u) EXCEPT !.files = ToSet(drafts'[u].files)] = Entry(drafts'[u], u)
  BY DEF Entry
<1>2. QED
  BY <1>1, OneDraft DEF Book!Edit

\* A draft has as many files as its list has entries, or fewer.
LEMMA FewFiles ==
    ASSUME NEW s \in Seq(FileIds)
    PROVE  Cardinality(ToSet(s)) <= Len(s) /\ Cardinality(ToSet(s)) \in Nat
<1> DEFINE f == [i \in 1..Len(s) |-> s[i]]
<1>1. Len(s) \in Nat /\ DOMAIN s = 1..Len(s)
  BY LenProperties
<1>2. f \in Surjection(1..Len(s), ToSet(s))
  BY <1>1 DEF Surjection, ToSet
<1>3. IsFiniteSet(1..Len(s)) /\ Cardinality(1..Len(s)) = Len(s)
  BY <1>1, FS_Interval
<1> HIDE DEF f
<1>4. IsFiniteSet(ToSet(s)) /\ Cardinality(ToSet(s)) <= Len(s)
  BY <1>2, <1>3, FS_Surjection
<1>5. QED
  BY <1>4, FS_CardinalityType

\* A step that changes no draft and no order, and begins and ends no "persist", is at
\* most a waste of ids.
LEMMA Wastes ==
    ASSUME TypeInv, [Next]_vars, UNCHANGED <<drafts, orders>>, UNCHANGED BuiltOrders
    PROVE  Book!Next
<1>1. UNCHANGED <<OpenDrafts, BuiltOrders, PlacedOrders>>
  BY DEF OpenDrafts, PlacedOrders
<1>2. QED
  BY <1>1, Retires DEF Book!Next, Book!Waste

\* post_orders, when the insertion finds no entry: a draft is opened.
LEMMA Opens ==
    ASSUME StoreInv, NEW t \in Tasks, CreateInsert(t), drafts[task[t].user] = NoDraft
    PROVE  Book!Next
<1> DEFINE u == task[t].user
           i == task[t].made.id
<1>1. TypeInv /\ IdsInv /\ drafts \in [Users -> DraftType] /\ task \in [Tasks -> TaskType]
  BY DEF StoreInv, TypeInv, TypeOK
<1>2. u \in Users /\ i \in DraftIds /\ At(t, "insert")
  BY <1>1 DEF CreateInsert, TypeInv, LocalsInv, At
<1>3. /\ i \in NewDrafts /\ i \notin NewDrafts'
      /\ \A r \in Tasks : r # t => task'[r] = task[r]
  BY <1>1, UsesDraft
<1>4. task'[t].pc = "idle" /\ UNCHANGED <<ids, orders>>
  BY <1>1, Blank DEF CreateInsert, Finish, outer, ids
<1>5. UNCHANGED <<FiledFiles, BuiltOrders, PlacedOrders>>
  BY <1>2, <1>3, <1>4, OthersStay DEF At, PlacedOrders
<1>6. ASSUME NEW j \in DraftIds PROVE j \in NewDrafts' <=> j \in NewDrafts /\ j # i
  <2>1. ASSUME NEW r \in Tasks, At(r, "insert"), task[r].made.id # i
        PROVE  task'[r] = task[r]
    BY <1>3, <2>1
  <2>2. ASSUME NEW r \in Tasks, task'[r].pc = "insert" PROVE task'[r] = task[r]
    BY <1>3, <1>4, <2>2
  <2>3. QED
    BY <1>3, <1>4, <2>1, <2>2 DEF NewDrafts, At, ids
<1>7. SpentIds' = SpentIds \cup {i} /\ i \notin SpentIds
  BY <1>2, <1>3, <1>6 DEF SpentIds
<1>8. /\ drafts'[u].id = i /\ drafts'[u].files = <<>> /\ drafts'[u] # NoDraft
      /\ \A v \in Users : v # u => drafts'[v] = drafts[v]
  BY <1>1, <1>2, Blank DEF CreateInsert, DraftIds
<1>9. Entry(drafts'[u], u) = [id |-> i, owner |-> u, files |-> {}]
  BY <1>8, Empty DEF Entry
<1>10. /\ \A d \in OpenDrafts : d.owner # u
       /\ OpenDrafts' = OpenDrafts \cup {[id |-> i, owner |-> u, files |-> {}]}
  BY <1>1, <1>2, <1>8, <1>9, OneDraft
<1> HIDE DEF u, i
<1>11. Book!Open(u, i)
  BY <1>5, <1>7, <1>10 DEF Book!Open
<1>12. QED
  BY <1>2, <1>11 DEF Book!Next

\* add_file: a file is bound.
LEMMA Binds ==
    ASSUME StoreInv, NEW t \in Tasks, AddFile(t)
    PROVE  Book!Next
<1> DEFINE u == task[t].user
           f == task[t].file
           d == Entry(drafts[u], u)
<1>1. /\ TypeInv /\ FreshInv
      /\ drafts \in [Users -> DraftType] /\ task \in [Tasks -> TaskType]
  BY DEF StoreInv, TypeInv, TypeOK
<1>2. u \in Users /\ f \in FileIds /\ At(t, "add")
  BY <1>1 DEF AddFile, TypeInv, LocalsInv, At
<1>3. /\ f \in NewFiles /\ f \notin NewFiles'
      /\ \A r \in Tasks : r # t => task'[r] = task[r]
  BY <1>1, UsesFile
<1>4. task'[t].pc = "presign" /\ UNCHANGED <<ids, orders>>
  BY <1>1 DEF AddFile, GoTo, outer, ids, TaskType
<1>5. UNCHANGED <<SpentIds, BuiltOrders, PlacedOrders>>
  BY <1>2, <1>3, <1>4, OthersStay DEF At, PlacedOrders
<1>6. ASSUME NEW g \in FileIds PROVE g \in NewFiles' <=> g \in NewFiles /\ g # f
  <2>1. ASSUME NEW r \in Tasks, At(r, "add"), task[r].file # f PROVE task'[r] = task[r]
    BY <1>3, <2>1
  <2>2. ASSUME NEW r \in Tasks, task'[r].pc = "add" PROVE task'[r] = task[r]
    BY <1>3, <1>4, <2>2
  <2>3. QED
    BY <1>3, <1>4, <2>1, <2>2 DEF NewFiles, At, ids
<1>7. FiledFiles' = FiledFiles \cup {f} /\ f \notin FiledFiles
  BY <1>2, <1>3, <1>6 DEF FiledFiles
<1>8. /\ drafts[u] # NoDraft /\ drafts[u] \in DraftType
      /\ Len(drafts[u].files) # MaxFileLimit /\ Len(drafts[u].files) <= MaxFileLimit
      /\ drafts' = [drafts EXCEPT ![u].files = Append(drafts[u].files, f)]
  BY <1>1, <1>2 DEF AddFile, Draft, TypeInv, TypeOK
<1>9. drafts[u].files \in Seq(FileIds)
  BY <1>8 DEF DraftType
<1>10. PICK fs : fs = Append(drafts[u].files, f)
  OBVIOUS
<1>11. ToSet(fs) = ToSet(drafts[u].files) \cup {f} /\ Len(fs) = Len(drafts[u].files) + 1
  BY <1>2, <1>9, <1>10, Appended
<1>12. /\ drafts'[u].id = drafts[u].id /\ drafts'[u].files = fs
       /\ \A v \in Users : v # u => drafts'[v] = drafts[v]
  BY <1>1, <1>2, <1>8, <1>10 DEF DraftType
<1>13. drafts'[u] # NoDraft
  BY <1>9, <1>11, <1>12, Blank, LenProperties
<1>14. Book!Edit(d, ToSet(drafts'[u].files)) /\ d \in OpenDrafts
  BY <1>1, <1>2, <1>8, <1>12, <1>13, Edited, OneDraft
<1>15. d.files = ToSet(drafts[u].files)
  BY DEF Entry
<1>16. Cardinality(d.files) < MaxFileLimit
  <2>1. Cardinality(d.files) <= Len(drafts[u].files) /\ Cardinality(d.files) \in Nat
    BY <1>9, <1>15, FewFiles
  <2>2. Len(drafts[u].files) \in Nat /\ MaxFileLimit \in Nat
    BY <1>9, Constants, LenProperties
  <2>3. QED
    BY <1>8, <2>1, <2>2
<1>17. Book!Edit(d, d.files \cup {f})
  BY <1>11, <1>12, <1>14, <1>15
<1> HIDE DEF d, f
<1>18. Book!Bind(d, f)
  <2>1. Book!Cardinality(d.files) = Cardinality(d.files)
    BY DEF Book!Cardinality, Cardinality
  <2>2. QED
    BY <1>5, <1>7, <1>16, <1>17, <2>1 DEF Book!Bind
<1>19. QED
  BY <1>2, <1>14, <1>18 DEF Book!Next

\* A draft loses files, or changes their order.
LEMMA Shrinks ==
    ASSUME TypeInv, NEW u \in Users, \A v \in Users : v # u => drafts'[v] = drafts[v],
           drafts[u] # NoDraft, drafts'[u] # NoDraft, drafts'[u].id = drafts[u].id,
           ToSet(drafts'[u].files) \subseteq ToSet(drafts[u].files),
           UNCHANGED <<SpentIds, FiledFiles, BuiltOrders, PlacedOrders>>
    PROVE  Book!Next
<1> DEFINE d == Entry(drafts[u], u)
           F == ToSet(drafts'[u].files)
<1>1. d \in OpenDrafts /\ Book!Edit(d, F)
  BY OneDraft, Edited
<1>2. d.files = ToSet(drafts[u].files)
  BY DEF Entry
<1>3. F \in SUBSET d.files
  BY <1>2
<1> HIDE DEF d, F
<1>4. Book!Shrink(d, F)
  BY <1>1 DEF Book!Shrink
<1>5. QED
  BY <1>1, <1>3, <1>4 DEF Book!Next

\* A draft goes.
LEMMA Drops ==
    ASSUME TypeInv, NEW u \in Users, drafts' = [drafts EXCEPT ![u] = NoDraft],
           drafts[u] # NoDraft,
           UNCHANGED <<SpentIds, FiledFiles, BuiltOrders, PlacedOrders>>
    PROVE  Book!Next
<1> DEFINE d == Entry(drafts[u], u)
<1>1. drafts'[u] = NoDraft /\ \A v \in Users : v # u => drafts'[v] = drafts[v]
  BY DEF TypeInv, TypeOK
<1>2. d \in OpenDrafts /\ OpenDrafts' = OpenDrafts \ {d}
  BY <1>1, OneDraft
<1> HIDE DEF d
<1>3. Book!Drop(d)
  BY <1>2 DEF Book!Drop
<1>4. QED
  BY <1>2, <1>3 DEF Book!Next

\* build removes the entry and has the order: the draft leaves in that step.
LEMMA Builds ==
    ASSUME StoreInv, NEW t \in Tasks, TakeNumber(t)
    PROVE  Book!Next
<1> DEFINE u == task[t].user
           d == Entry(drafts[u], u)
           F == ToSet(task[t].req)
<1>1. /\ TypeInv /\ BuildInv
      /\ drafts \in [Users -> DraftType] /\ task \in [Tasks -> TaskType]
  BY DEF StoreInv, TypeInv, TypeOK
<1>2. /\ u \in Users /\ Draft(t) # NoDraft /\ Within(task'[t].made.files, Draft(t).files)
      /\ task'[t].made.id = Draft(t).id
      /\ task'[t].pc = "persist" /\ \A r \in Tasks : r # t => task'[r] = task[r]
      /\ drafts' = [drafts EXCEPT ![u] = NoDraft] /\ orders' = orders
  BY <1>1, Leaves
<1>3. At(t, "number") /\ UNCHANGED ids
  BY DEF TakeNumber
<1>4. task'[t].made.files = task[t].req /\ task'[t].made.owner = u
  <2>1. PICK made : made = [id |-> Draft(t).id, owner |-> task[t].user, files |-> task[t].req,
                            createdAt |-> Draft(t).createdAt, seq |-> queue']
    OBVIOUS
  <2>2. task' = [task EXCEPT ![t].pc = "persist", ![t].made = made]
    BY <2>1 DEF TakeNumber
  <2>3. QED
    BY <1>1, <2>1, <2>2 DEF TaskType
<1>5. UNCHANGED <<SpentIds, FiledFiles, PlacedOrders>>
  BY <1>2, <1>3, OthersStay DEF At, PlacedOrders
<1>6. BuiltOrders' = BuiltOrders \cup {Entry(task'[t].made, u)}
  BY <1>2, <1>3, <1>4 DEF BuiltOrders, At
<1>7. Entry(task'[t].made, u) = [d EXCEPT !.files = F]
  BY <1>2, <1>4 DEF Entry, Draft
<1>8. d \in OpenDrafts /\ OpenDrafts' = OpenDrafts \ {d}
  <2>1. drafts'[u] = NoDraft /\ drafts[u] # NoDraft
        /\ \A v \in Users : v # u => drafts'[v] = drafts[v]
    BY <1>1, <1>2 DEF Draft
  <2>2. QED
    BY <1>1, <1>2, <2>1, OneDraft
<1>9. F \in SUBSET d.files /\ F # {}
  <2>1. task[t].req \in Seq(FileIds) /\ task[t].req # <<>>
    BY <1>1, <1>3 DEF BuildInv, At, TaskType
  <2>2. task[t].req[1] \in F
    BY <2>1 DEF ToSet
  <2>3. QED
    BY <1>2, <1>4, <2>2 DEF Within, Entry, Draft
<1> HIDE DEF d, F
<1>10. Book!Build(d, F)
  BY <1>5, <1>6, <1>7, <1>8, <1>9 DEF Book!Build
<1>11. QED
  BY <1>8, <1>9, <1>10 DEF Book!Next

\* The handler of a built order ends.
LEMMA Unbuilt ==
    ASSUME StoreInv, NEW t \in Tasks, At(t, "persist"), Finish(t), UNCHANGED ids
    PROVE  LET o == Entry(task[t].made, task[t].made.owner) IN
           /\ o \in BuiltOrders /\ BuiltOrders' = BuiltOrders \ {o}
           /\ UNCHANGED <<SpentIds, FiledFiles>>
<1> DEFINE o == Entry(task[t].made, task[t].made.owner)
<1>1. task \in [Tasks -> TaskType] /\ SettledOnce
  BY DEF StoreInv, TypeInv, TypeOK, IdsInv
<1>2. task'[t].pc = "idle" /\ \A r \in Tasks : r # t => task'[r] = task[r]
  BY <1>1, Blank DEF Finish
<1>3. UNCHANGED <<SpentIds, FiledFiles>>
  BY <1>2, OthersStay DEF At
<1>4. o \in BuiltOrders
  BY DEF BuiltOrders
<1>5. ASSUME NEW r \in Tasks, At(r, "persist"), r # t
      PROVE  Entry(task[r].made, task[r].made.owner) # o
  <2>1. task[r].made.id # task[t].made.id
    BY <1>1, <1>5 DEF SettledOnce
  <2>2. QED
    BY <2>1 DEF Entry
<1>6. BuiltOrders' = {Entry(task[r].made, task[r].made.owner) :
                        r \in {s \in Tasks : At(s, "persist") /\ s # t}}
  BY <1>2 DEF BuiltOrders, At
<1>7. BuiltOrders' = BuiltOrders \ {o}
  BY <1>5, <1>6 DEF BuiltOrders
<1>8. QED
  BY <1>3, <1>4, <1>7

\* create_new commits, or its handler ends before.
LEMMA PlacesOrLoses ==
    ASSUME StoreInv, NEW t \in Tasks, At(t, "persist"), Persist(t) \/ Refused(t)
    PROVE  Book!Next
<1> DEFINE o == Entry(task[t].made, task[t].made.owner)
<1>1. Finish(t) /\ UNCHANGED <<ids, drafts>>
  BY DEF Persist, Refused
<1>2. o \in BuiltOrders /\ BuiltOrders' = BuiltOrders \ {o} /\ UNCHANGED <<SpentIds, FiledFiles>>
  BY <1>1, Unbuilt
<1>3. UNCHANGED OpenDrafts
  BY <1>1 DEF OpenDrafts
<1>4. CASE Persist(t)
  <2>1. PlacedOrders' = PlacedOrders \cup {o}
    BY <1>4 DEF Persist, PlacedOrders
  <2> HIDE DEF o
  <2>2. Book!Place(o)
    BY <1>2, <1>3, <2>1 DEF Book!Place
  <2>3. QED
    BY <1>2, <2>2 DEF Book!Next
<1>5. CASE Refused(t)
  <2>1. UNCHANGED PlacedOrders
    BY <1>5 DEF Refused, outer, PlacedOrders
  <2> HIDE DEF o
  <2>2. Book!Lose(o)
    BY <1>2, <1>3, <2>1 DEF Book!Lose
  <2>3. QED
    BY <1>2, <2>2 DEF Book!Next
<1>6. QED
  BY <1>4, <1>5

\* A step of a handler that changes no draft and no order.
LEMMA HandlerWastes ==
    ASSUME TypeInv, [Next]_vars, NEW t \in Tasks, \A r \in Tasks : r # t => task'[r] = task[r],
           UNCHANGED <<drafts, orders>>, ~At(t, "persist"), ~TakeNumber(t)
    PROVE  Book!Next
<1>1. task[t].pc # "persist" /\ task'[t].pc # "persist"
  BY TaskMoves DEF TaskMove, At
<1>2. QED
  BY <1>1, OthersStay, Wastes

\* The draft of the handler's user loses files without going.
LEMMA HandlerShrinks ==
    ASSUME StoreInv, NEW t \in Tasks, Finish(t), UNCHANGED <<ids, orders>>,
           task[t].pc \in {"remove", "check"}, task[t].user \in Users, Draft(t) # NoDraft,
           NEW fs, Within(fs, Draft(t).files),
           drafts' = [drafts EXCEPT ![task[t].user].files = fs]
    PROVE  Book!Next
<1> DEFINE u == task[t].user
<1>1. TypeInv /\ drafts \in [Users -> DraftType] /\ task \in [Tasks -> TaskType]
  BY DEF StoreInv, TypeInv, TypeOK
<1>2. task'[t].pc = "idle" /\ \A r \in Tasks : r # t => task'[r] = task[r]
  BY <1>1, Blank DEF Finish
<1>3. UNCHANGED <<SpentIds, FiledFiles, BuiltOrders, PlacedOrders>>
  BY <1>2, OthersStay DEF PlacedOrders
<1>4. /\ drafts[u] # NoDraft /\ drafts'[u].id = drafts[u].id /\ drafts'[u].files = fs
      /\ \A v \in Users : v # u => drafts'[v] = drafts[v]
  BY <1>1 DEF Draft, DraftType
<1>5. drafts[u].id # 0
  <2>1. drafts[u].id \in DraftIds
    BY <1>4 DEF StoreInv, IdsInv
  <2>2. QED
    BY <2>1, Constants DEF DraftIds
<1>6. drafts'[u] # NoDraft
  BY <1>4, <1>5, Blank
<1>7. ToSet(drafts'[u].files) \subseteq ToSet(drafts[u].files)
  BY <1>4 DEF Within, Draft
<1> HIDE DEF u
<1>8. QED
  BY <1>1, <1>3, <1>4, <1>6, <1>7, Shrinks DEF u

LEMMA HandlersKeepBook ==
    ASSUME StoreInv, [Next]_vars, NEW t \in Tasks, Handle(t)
    PROVE  Book!Next
<1> USE DEF outer
<1>1. TypeInv /\ task \in [Tasks -> TaskType]
  BY DEF StoreInv, TypeInv, TypeOK
<1>2. ASSUME \/ Finish(t) \/ GoTo(t, "delete") \/ GoTo(t, "remove") \/ GoTo(t, "check")
             \/ MatchFiles(t)
      PROVE  \A r \in Tasks : r # t => task'[r] = task[r]
  BY <1>1, <1>2 DEF Finish, GoTo, MatchFiles
<1>3. CASE CreateInsert(t)
  <2>1. CASE drafts[task[t].user] = NoDraft
    BY <1>3, <2>1, Opens
  <2>2. CASE drafts[task[t].user] # NoDraft
    <3>1. /\ UNCHANGED <<drafts, orders>> /\ Finish(t)
          /\ ~At(t, "persist") /\ ~At(t, "number")
      BY <1>3, <2>2 DEF CreateInsert, At
    <3>2. QED
      BY <1>1, <1>2, <3>1, HandlerWastes DEF TakeNumber
  <2>3. QED
    BY <2>1, <2>2
<1>4. CASE AddFile(t)
  BY <1>4, Binds
<1>5. CASE RemoveFile(t)
  <2>1. /\ At(t, "remove") /\ Finish(t) /\ UNCHANGED <<ids, orders>>
        /\ task[t].user \in Users
    BY <1>1, <1>5 DEF RemoveFile, At, TypeInv, LocalsInv
  <2>2. ASSUME NEW i \in DOMAIN Draft(t).files,
               drafts' = [drafts EXCEPT ![task[t].user].files = RemoveAt(@, i)]
        PROVE  Book!Next
    <3>1. PICK fs : /\ Within(fs, Draft(t).files)
                    /\ drafts' = [drafts EXCEPT ![task[t].user].files = fs]
      BY <1>1, <2>1, <2>2, Removed
    <3>2. DOMAIN <<>> = {}
      OBVIOUS
    <3>3. Draft(t) # NoDraft
      BY <3>2, Blank
    <3>4. QED
      BY <2>1, <3>1, <3>3, HandlerShrinks DEF At
  <2>3. CASE UNCHANGED drafts
    BY <1>1, <1>2, <2>1, <2>3, HandlerWastes DEF TakeNumber, At
  <2>4. QED
    BY <1>5, <2>2, <2>3 DEF RemoveFile
<1>6. CASE PanicUnmatched(t)
  <2>1. /\ At(t, "check") /\ Finish(t) /\ UNCHANGED <<ids, orders>>
        /\ task[t].user \in Users /\ Draft(t) # NoDraft
    BY <1>1, <1>6 DEF PanicUnmatched, At, TypeInv, LocalsInv, StoreInv, BuildInv
  <2>2. QED
    BY <1>1, <1>6, <2>1, Panicked, HandlerShrinks DEF At
<1>7. CASE TakeNumber(t)
  BY <1>7, Builds
<1>8. CASE Persist(t)
  BY <1>8, PlacesOrLoses DEF Persist
<1>9. CASE \/ AddRefused(t) \/ Presign(t) \/ PresignFails(t) \/ FindFile(t) \/ FindRefused(t)
           \/ DeleteObject(t) \/ Validate(t) \/ BuildRefused(t) \/ CheckRefused(t)
           \/ MatchFiles(t)
  <2>1. UNCHANGED <<drafts, orders>> /\ ~At(t, "persist") /\ ~At(t, "number")
    BY <1>9 DEF AddRefused, Presign, PresignFails, FindFile, FindRefused, DeleteObject,
       Validate, BuildRefused, CheckRefused, MatchFiles, Refused, At
  <2>2. \/ Finish(t) \/ GoTo(t, "delete") \/ GoTo(t, "remove") \/ GoTo(t, "check")
        \/ MatchFiles(t)
    BY <1>9 DEF AddRefused, Presign, PresignFails, FindFile, FindRefused, DeleteObject,
       Validate, BuildRefused, CheckRefused, Refused
  <2>3. QED
    BY <1>1, <1>2, <2>1, <2>2, HandlerWastes DEF TakeNumber
<1>10. QED
  BY <1>3, <1>4, <1>5, <1>6, <1>7, <1>8, <1>9 DEF Handle, Add, RemoveStep, Build

\* Every step of the store is an operation of the book, or none.
LEMMA BookStep ==
    ASSUME StoreInv, [Next]_vars
    PROVE  [Book!Next]_(Book!bookVars)
<1> USE DEF outer
<1>1. /\ TypeInv /\ task \in [Tasks -> TaskType] /\ drafts \in [Users -> DraftType]
  BY DEF StoreInv, TypeInv, TypeOK
<1>2. ASSUME NEW t \in Tasks, NEW u \in Users,
             CreateRead(t, u) \/ AddBegin(t, u) \/ RemoveBegin(t, u) \/ BuildBegin(t, u)
      PROVE  Book!Next
  <2>1. UNCHANGED <<drafts, orders>> /\ At(t, "idle") /\ \E new : Begin(t, new)
    BY <1>2 DEF CreateRead, AddBegin, RemoveBegin, BuildBegin, Begin
  <2>2. \A r \in Tasks : r # t => task'[r] = task[r]
    BY <1>1, <2>1 DEF Begin
  <2>3. QED
    BY <1>1, <2>1, <2>2, HandlerWastes DEF At, TakeNumber
<1>3. ASSUME NEW t \in Tasks, Disconnect(t) PROVE Book!Next
  <2>1. Refused(t) /\ ~At(t, "number") /\ Finish(t) /\ UNCHANGED <<drafts, orders>>
    BY <1>3 DEF Disconnect, Refused
  <2>2. CASE At(t, "persist")
    BY <2>1, <2>2, PlacesOrLoses
  <2>3. CASE ~At(t, "persist")
    <3>1. \A r \in Tasks : r # t => task'[r] = task[r]
      BY <1>1, <2>1 DEF Finish
    <3>2. QED
      BY <1>1, <2>1, <2>3, <3>1, HandlerWastes DEF TakeNumber
  <2>4. QED
    BY <2>2, <2>3
<1>4. ASSUME UNCHANGED <<task, drafts, orders>> PROVE Book!Next
  BY <1>1, <1>4, Wastes DEF BuiltOrders, At
<1>5. ASSUME NEW u \in Users, Discard(u) \/ CleanVisit(u) PROVE Book!Next
  <2>1. UNCHANGED <<task, ids, orders>>
    BY <1>5 DEF Discard, CleanVisit
  <2>2. UNCHANGED drafts \/ (drafts[u] # NoDraft /\ drafts' = [drafts EXCEPT ![u] = NoDraft])
    BY <1>5 DEF Discard, CleanVisit, Expired
  <2>3. UNCHANGED <<SpentIds, FiledFiles, BuiltOrders, PlacedOrders>>
    BY <2>1 DEF SpentIds, FiledFiles, BuiltOrders, PlacedOrders, NewDrafts, NewFiles, At, ids
  <2>4. QED
    BY <1>1, <1>4, <2>1, <2>2, <2>3, Drops
<1>6. CASE Restart
  <2>1. OpenDrafts' = {} /\ BuiltOrders' = {} /\ UNCHANGED PlacedOrders
    BY <1>6, Blank DEF Restart, OpenDrafts, BuiltOrders, PlacedOrders, At
  <2>2. QED
    BY <1>1, <2>1, Retires DEF Book!Next, Book!Restart
<1>7. CASE (\E f \in FileIds : Upload(f)) \/ CleanStart \/ CleanPurge \/ Tick \/ UNCHANGED vars
  BY <1>4, <1>7 DEF Upload, CleanStart, CleanPurge, Tick, vars
<1>8. CASE (\E t \in Tasks : Handle(t)) \/ Clean
  BY <1>5, <1>7, <1>8, HandlersKeepBook DEF Clean
<1>9. QED
  BY <1>2, <1>3, <1>5, <1>6, <1>7, <1>8 DEF Next

\* However the handlers of drafts.rs and orders.rs, the cleaner, failures and restarts
\* interleave between their awaits, what comes of drafts and files is a behaviour of
\* DraftBook: each id and file is used once, and a draft leaves whole, in one step.
THEOREM StoreImplementsBook == Spec => ImplementsBook
<1>1. ASSUME Init PROVE Book!Init
  <2>1. /\ \A u \in Users : drafts[u] = NoDraft
        /\ \A t \in Tasks : At(t, "idle")
        /\ orders = {} /\ lastDraft = 0 /\ lastFile = 0
    BY <1>1, Blank DEF Init, At
  <2>2. OpenDrafts = {} /\ BuiltOrders = {} /\ PlacedOrders = {}
    BY <2>1 DEF OpenDrafts, BuiltOrders, PlacedOrders, At
  <2>3. SpentIds = {} /\ FiledFiles = {}
    BY <2>1, Constants DEF SpentIds, FiledFiles, NewDrafts, NewFiles, DraftIds, FileIds
  <2>4. QED
    BY <2>2, <2>3 DEF Book!Init
<1>2. QED
  BY <1>1, StoreHolds, BookStep, PTL DEF Spec, ImplementsBook, Book!Spec
-----------------------------------------------------------------------------
(* What the book promises.  Nothing here looks into the store: what holds of *)
(* the book holds of all that implements it.                               *)

BookEntries == [id : DraftIds, owner : Users, files : SUBSET FileIds]

\* Whatever is held was given its id and its files, so that a new id and a new file
\* are of nothing that is held.
BookInv ==
    /\ Book!OneHolder
    /\ \A d \in Book!Held :
          d \in BookEntries /\ d.id \in SpentIds /\ d.files \subseteq FiledFiles

LEMMA HeldStays ==
    ASSUME BookInv, Book!Held' \subseteq Book!Held, OpenDrafts' \subseteq OpenDrafts,
           SpentIds \subseteq SpentIds', FiledFiles \subseteq FiledFiles',
           OpenDrafts' \cap BuiltOrders' = {}, OpenDrafts' \cap PlacedOrders' = {},
           BuiltOrders' \cap PlacedOrders' = {}
    PROVE  BookInv'
BY DEF BookInv, Book!OneHolder

\* A draft is edited, or an order is made of a draft: one thing takes the place of
\* another with the same name and owner, and of its files and new ones.
LEMMA HeldReplaced ==
    ASSUME BookInv, NEW d \in OpenDrafts, NEW e \in BookEntries,
           e.id = d.id, e.owner = d.owner,
           \A f \in e.files : f \in d.files \/ f \notin FiledFiles,
           e.files \subseteq FiledFiles',
           SpentIds \subseteq SpentIds', FiledFiles \subseteq FiledFiles',
           PlacedOrders' = PlacedOrders,
           \/ OpenDrafts' = (OpenDrafts \ {d}) \cup {e} /\ BuiltOrders' = BuiltOrders
           \/ OpenDrafts' = OpenDrafts \ {d} /\ BuiltOrders' = BuiltOrders \cup {e}
    PROVE  BookInv'
<1> DEFINE Rest == Book!Held \ {d}
<1>1. d \in Book!Held /\ Book!Held' = Rest \cup {e}
  <2>1. d \notin BuiltOrders /\ d \notin PlacedOrders
    BY DEF BookInv, Book!OneHolder
  <2> QED BY <2>1 DEF Book!Held
<1>2. \A x \in Rest : /\ x.id # d.id /\ x.files \cap d.files = {}
                      /\ x \in BookEntries /\ x.id \in SpentIds /\ x.files \subseteq FiledFiles
  BY <1>1 DEF BookInv, Book!OneHolder
<1>3. \A x \in Rest : x.id # e.id /\ x.files \cap e.files = {}
  BY <1>2
<1>4. \A x \in Rest : x # e
  BY <1>3
<1>5. \A x \in Book!Held' :
         x \in BookEntries /\ x.id \in SpentIds' /\ x.files \subseteq FiledFiles'
  BY <1>1, <1>2 DEF BookInv
<1>6. \A x, y \in Book!Held' : x.id = y.id \/ x.files \cap y.files # {} => x = y
  <2>1. \A x, y \in Rest : x.id = y.id \/ x.files \cap y.files # {} => x = y
    BY DEF BookInv, Book!OneHolder
  <2> QED BY <1>1, <1>3, <2>1
<1>7. \A x, y \in OpenDrafts' : x.owner = y.owner => x = y
  BY DEF BookInv, Book!OneHolder
<1>8. /\ OpenDrafts' \cap BuiltOrders' = {} /\ OpenDrafts' \cap PlacedOrders' = {}
      /\ BuiltOrders' \cap PlacedOrders' = {}
  <2>1. e \notin (OpenDrafts \ {d}) /\ e \notin BuiltOrders /\ e \notin PlacedOrders
    <3>1. OpenDrafts \ {d} \subseteq Rest /\ BuiltOrders \subseteq Rest
            /\ PlacedOrders \subseteq Rest
      BY DEF BookInv, Book!OneHolder, Book!Held
    <3> QED BY <1>4, <3>1
  <2> QED BY <2>1 DEF BookInv, Book!OneHolder
<1> QED BY <1>5, <1>6, <1>7, <1>8 DEF BookInv, Book!OneHolder

LEMMA BookInvStep == BookInv /\ [Book!Next]_(Book!bookVars) => BookInv'
<1> SUFFICES ASSUME BookInv, [Book!Next]_(Book!bookVars) PROVE BookInv'
  OBVIOUS
<1>1. /\ OpenDrafts \cap BuiltOrders = {} /\ OpenDrafts \cap PlacedOrders = {}
      /\ BuiltOrders \cap PlacedOrders = {}
      /\ \A d \in OpenDrafts : d \in BookEntries /\ d.files \subseteq FiledFiles
  BY DEF BookInv, Book!OneHolder, Book!Held
<1>2. ASSUME NEW u \in Users, NEW i \in DraftIds, Book!Open(u, i) PROVE BookInv'
  <2> DEFINE e == [id |-> i, owner |-> u, files |-> {}]
  <2>1. /\ i \notin SpentIds /\ \A d \in OpenDrafts : d.owner # u
        /\ OpenDrafts' = OpenDrafts \cup {e} /\ SpentIds' = SpentIds \cup {i}
        /\ FiledFiles' = FiledFiles /\ BuiltOrders' = BuiltOrders
        /\ PlacedOrders' = PlacedOrders
    BY <1>2 DEF Book!Open
  <2>2. e \in BookEntries /\ e.id = i /\ e.owner = u /\ e.files = {}
    BY DEF BookEntries
  <2> HIDE DEF e
  <2>3. Book!Held' = Book!Held \cup {e}
    BY <2>1 DEF Book!Held
  <2>4. \A x \in Book!Held : x.id # e.id
    BY <2>1, <2>2 DEF BookInv
  <2>5. e \notin Book!Held
    BY <2>4
  <2>6. \A x, y \in Book!Held' : x.id = y.id \/ x.files \cap y.files # {} => x = y
    BY <2>2, <2>3, <2>4 DEF BookInv, Book!OneHolder
  <2>7. \A x, y \in OpenDrafts' : x.owner = y.owner => x = y
    BY <2>1, <2>2 DEF BookInv, Book!OneHolder
  <2>8. OpenDrafts' \cap BuiltOrders' = {} /\ OpenDrafts' \cap PlacedOrders' = {}
    BY <1>1, <2>1, <2>5 DEF Book!Held
  <2>9. \A x \in Book!Held' :
           x \in BookEntries /\ x.id \in SpentIds' /\ x.files \subseteq FiledFiles'
    BY <2>1, <2>2, <2>3 DEF BookInv
  <2> QED BY <1>1, <2>1, <2>6, <2>7, <2>8, <2>9 DEF BookInv, Book!OneHolder
<1>3. ASSUME NEW d \in OpenDrafts, NEW f \in FileIds, Book!Bind(d, f) PROVE BookInv'
  <2> DEFINE e == [d EXCEPT !.files = d.files \cup {f}]
  <2>1. /\ f \notin FiledFiles /\ FiledFiles' = FiledFiles \cup {f}
        /\ OpenDrafts' = (OpenDrafts \ {d}) \cup {e}
        /\ SpentIds' = SpentIds /\ BuiltOrders' = BuiltOrders
        /\ PlacedOrders' = PlacedOrders
    BY <1>3 DEF Book!Bind, Book!Edit
  <2>2. d \in BookEntries /\ d.files \subseteq FiledFiles
    BY <1>1
  <2>3. e \in BookEntries /\ e.id = d.id /\ e.owner = d.owner /\ e.files = d.files \cup {f}
    BY <2>2 DEF BookEntries
  <2> HIDE DEF e
  <2> QED BY <2>1, <2>2, <2>3, HeldReplaced
<1>4. ASSUME NEW d \in OpenDrafts, NEW F \in SUBSET d.files,
             Book!Shrink(d, F) \/ Book!Build(d, F)
      PROVE  BookInv'
  <2> DEFINE e == [d EXCEPT !.files = F]
  <2>1. /\ FiledFiles' = FiledFiles /\ SpentIds' = SpentIds /\ PlacedOrders' = PlacedOrders
        /\ \/ OpenDrafts' = (OpenDrafts \ {d}) \cup {e} /\ BuiltOrders' = BuiltOrders
           \/ OpenDrafts' = OpenDrafts \ {d} /\ BuiltOrders' = BuiltOrders \cup {e}
    BY <1>4 DEF Book!Shrink, Book!Build, Book!Edit
  <2>2. d \in BookEntries /\ d.files \subseteq FiledFiles
    BY <1>1
  <2>3. e \in BookEntries /\ e.id = d.id /\ e.owner = d.owner /\ e.files = F
    BY <2>2 DEF BookEntries
  <2> HIDE DEF e
  <2> QED BY <2>1, <2>2, <2>3, HeldReplaced
<1>5. ASSUME NEW d \in OpenDrafts, Book!Drop(d) PROVE BookInv'
  <2>1. /\ OpenDrafts' = OpenDrafts \ {d} /\ SpentIds' = SpentIds
        /\ FiledFiles' = FiledFiles /\ BuiltOrders' = BuiltOrders
        /\ PlacedOrders' = PlacedOrders
    BY <1>5 DEF Book!Drop
  <2> QED BY <1>1, <2>1, HeldStays DEF Book!Held
<1>6. ASSUME NEW o \in BuiltOrders, Book!Place(o) \/ Book!Lose(o) PROVE BookInv'
  <2>1. /\ OpenDrafts' = OpenDrafts /\ SpentIds' = SpentIds /\ FiledFiles' = FiledFiles
        /\ BuiltOrders' = BuiltOrders \ {o}
        /\ PlacedOrders' = PlacedOrders \/ PlacedOrders' = PlacedOrders \cup {o}
    BY <1>6 DEF Book!Place, Book!Lose
  <2> QED BY <1>1, <2>1, HeldStays DEF Book!Held
<1>7. ASSUME Book!Waste \/ Book!Restart PROVE BookInv'
  <2>1. /\ SpentIds \subseteq SpentIds' /\ FiledFiles \subseteq FiledFiles'
        /\ PlacedOrders' = PlacedOrders
        /\ \/ OpenDrafts' = OpenDrafts /\ BuiltOrders' = BuiltOrders
           \/ OpenDrafts' = {} /\ BuiltOrders' = {}
    BY <1>7 DEF Book!Waste, Book!Restart, Book!Retire
  <2> QED BY <1>1, <2>1, HeldStays DEF Book!Held
<1>8. CASE UNCHANGED Book!bookVars
  BY <1>1, <1>8, HeldStays DEF Book!bookVars, Book!Held
<1> QED BY <1>2, <1>3, <1>4, <1>5, <1>6, <1>7, <1>8 DEF Book!Next

LEMMA BookHolds == Book!Spec => []BookInv
<1>1. Book!Init => BookInv
  BY DEF Book!Init, BookInv, Book!OneHolder, Book!Held
<1> QED BY <1>1, BookInvStep, PTL DEF Book!Spec

\* Whatever implements the book gives an id and a file to one draft or order.
THEOREM BookHoldsOnce == Book!Spec => []Book!OneHolder
BY BookHolds, PTL DEF BookInv

\* In the book a draft that has left does not come back.
THEOREM BookNeverReturns == Book!Spec => Book!NoReturn
<1>1. ASSUME BookInv, [Book!Next]_(Book!bookVars), NEW d \in OpenDrafts', d.id \in SpentIds
      PROVE  \E e \in OpenDrafts : e.id = d.id /\ e.owner = d.owner
  <2>1. CASE d \in OpenDrafts
    BY <2>1
  <2>2. CASE d \notin OpenDrafts
    <3>1. \A e \in OpenDrafts : e \in BookEntries
      BY <1>1 DEF BookInv, Book!Held
    <3>2. ASSUME NEW e \in OpenDrafts, NEW F, OpenDrafts' = (OpenDrafts \ {e}) \cup {[e EXCEPT !.files = F]}
          PROVE  d.id = e.id /\ d.owner = e.owner
      BY <1>1, <2>2, <3>1, <3>2 DEF BookEntries
    <3>3. ASSUME NEW u \in Users, NEW i \in DraftIds, Book!Open(u, i) PROVE FALSE
      BY <1>1, <2>2, <3>3 DEF Book!Open
    <3>4. ASSUME OpenDrafts' \subseteq OpenDrafts PROVE FALSE
      BY <1>1, <2>2, <3>4
    <3> QED BY <1>1, <3>2, <3>3, <3>4
          DEF Book!Next, Book!Bind, Book!Shrink, Book!Build, Book!Drop, Book!Edit,
              Book!Place, Book!Lose, Book!Waste, Book!Restart, Book!bookVars
  <2> QED BY <2>1, <2>2
<1>2. BookInv /\ [Book!Next]_(Book!bookVars) =>
         [\A d \in OpenDrafts' : d.id \in SpentIds =>
             \E e \in OpenDrafts : e.id = d.id /\ e.owner = d.owner]_(Book!bookVars)
  BY <1>1
<1> QED BY <1>2, BookHolds, PTL DEF Book!Spec, Book!NoReturn

\* In the book orders come of drafts, and stay.
THEOREM BookIsTraceable == Book!Spec => Book!Traceable
<1> DEFINE Traced == /\ PlacedOrders \subseteq PlacedOrders'
                     /\ PlacedOrders' \ PlacedOrders \subseteq BuiltOrders
                     /\ \A o \in BuiltOrders' \ BuiltOrders : \E d \in OpenDrafts \ OpenDrafts' :
                           d.id = o.id /\ d.owner = o.owner /\ o.files \subseteq d.files
<1>1. ASSUME BookInv, NEW d \in OpenDrafts, NEW F \in SUBSET d.files, Book!Build(d, F)
      PROVE  Traced
  <2> DEFINE e == [d EXCEPT !.files = F]
  <2>1. d \in BookEntries
    BY <1>1 DEF BookInv, Book!Held
  <2>2. e.id = d.id /\ e.owner = d.owner /\ e.files = F
    BY <2>1 DEF BookEntries
  <2>3. /\ OpenDrafts' = OpenDrafts \ {d} /\ BuiltOrders' = BuiltOrders \cup {e}
        /\ PlacedOrders' = PlacedOrders
    BY <1>1 DEF Book!Build
  <2> HIDE DEF e
  <2> QED BY <2>2, <2>3
<1>2. ASSUME BookInv, [Book!Next]_(Book!bookVars) PROVE [Traced]_(Book!bookVars)
  BY <1>1, <1>2
     DEF Book!Next, Book!Open, Book!Bind, Book!Shrink, Book!Drop, Book!Edit,
         Book!Place, Book!Lose, Book!Waste, Book!Restart, Book!bookVars
<1>3. BookInv /\ [Book!Next]_(Book!bookVars) => [Traced]_(Book!bookVars)
  BY <1>2
<1> QED BY <1>3, BookHolds, PTL DEF Book!Spec, Book!Traceable

\* However handlers, cleaner and restarts interleave, nothing is given to two, no draft
\* comes back, and orders come of the drafts they are named for.
THEOREM StoreKeepsBook ==
    Spec => []Book!OneHolder /\ Book!NoReturn /\ Book!Traceable
BY StoreImplementsBook, BookHoldsOnce, BookNeverReturns, BookIsTraceable, PTL
   DEF ImplementsBook

-----------------------------------------------------------------------------
(* Order numbers.                                                          *)

\* On the numbers next_queue hands out, the u16 subtraction does not wrap and
\* the u8 cut loses nothing: letter and digits are quotient and remainder.
LEMMA OrderNumberArithmetic ==
    ASSUME NEW seq \in QueueSeq
    PROVE  /\ OrderNumberOf(seq).letter \in 0..25
           /\ OrderNumberOf(seq).number \in 1..999
           /\ seq = OrderNumberOf(seq).letter * 999 + OrderNumberOf(seq).number
<1>1. seq \in Int /\ 1 <= seq /\ seq <= 25974
  BY QueueAssumption DEF QueueSeq, Letters, PerLetter
<1>2. PICK s \in Int : s = seq - 1 /\ 0 <= s /\ s <= 25973
  BY <1>1
<1>3. s % 65536 = s
  BY <1>2
<1>4. /\ s \div 999 \in Int /\ 0 <= s \div 999 /\ s \div 999 <= 25
      /\ s % 999 \in Int /\ 0 <= s % 999 /\ s % 999 <= 998
      /\ s = (s \div 999) * 999 + (s % 999)
  BY <1>2
<1>5. (s \div 999) % 256 = s \div 999
  BY <1>4
<1>6. OrderNumberOf(seq) = [letter |-> s \div 999, number |-> (s % 999) + 1]
  BY <1>2, <1>3, <1>5 DEF OrderNumberOf, PerLetter
<1>7. /\ OrderNumberOf(seq).letter = s \div 999
      /\ OrderNumberOf(seq).number = (s % 999) + 1
  BY <1>6
<1>8. (s \div 999) \in 0..25 /\ (s % 999) + 1 \in 1..999
  BY <1>4
<1>9. seq = (s \div 999) * 999 + ((s % 999) + 1)
  BY <1>1, <1>2, <1>4
<1> QED
  BY <1>7, <1>8, <1>9

\* The conversion shows different numbers of the counter differently: only the
\* counter can give two orders the same order number.
THEOREM OrderNumberInjective ==
    \A a, b \in QueueSeq : OrderNumberOf(a) = OrderNumberOf(b) => a = b
<1>1. SUFFICES ASSUME NEW a \in QueueSeq, NEW b \in QueueSeq,
                      OrderNumberOf(a) = OrderNumberOf(b)
               PROVE  a = b
  OBVIOUS
<1> QED
  BY <1>1, OrderNumberArithmetic

\* next_queue never leaves 1..MAX_QUEUE_SEQ.
LEMMA NextSeqInRange ==
    ASSUME NEW current \in Counter
    PROVE  NextSeq(current) \in QueueSeq
BY QueueAssumption DEF Counter, QueueSeq, NextSeq

\* What next_queue hands out is readable, for every size of the counter.
LEMMA SeqReadable ==
    ASSUME NEW seq \in QueueSeq
    PROVE  Readable(OrderNumberOf(seq))
BY OrderNumberArithmetic DEF Readable, OrderNumberOf, Letters, PerLetter

\* One order after the other gets the next number in reading order, until the
\* counter wraps around to A-001.
LEMMA SeqInOrder ==
    ASSUME NEW a \in QueueSeq
    PROVE  \/ Follows(OrderNumberOf(a), OrderNumberOf(NextSeq(a)))
           \/ /\ a = MaxQueueSeq
              /\ OrderNumberOf(NextSeq(a)) = [letter |-> 0, number |-> 1]
<1> DEFINE b == NextSeq(a)
<1>1. a \in Int /\ b \in QueueSeq /\ b \in Int /\ MaxQueueSeq \in Int
  BY NextSeqInRange, QueueAssumption DEF Counter, QueueSeq
<1>2. b = IF a = MaxQueueSeq THEN 1 ELSE a + 1
  BY DEF NextSeq
<1> HIDE DEF b
<1>3. PICK la, na : la = OrderNumberOf(a).letter /\ na = OrderNumberOf(a).number
  OBVIOUS
<1>4. la \in 0..25 /\ na \in 1..999 /\ a = la * 999 + na
  BY <1>3, OrderNumberArithmetic
<1>5. OrderNumberOf(a) = [letter |-> la, number |-> na]
  BY <1>3 DEF OrderNumberOf
<1>6. PICK lb, nb : lb = OrderNumberOf(b).letter /\ nb = OrderNumberOf(b).number
  OBVIOUS
<1>7. lb \in 0..25 /\ nb \in 1..999 /\ b = lb * 999 + nb
  BY <1>1, <1>6, OrderNumberArithmetic
<1>8. OrderNumberOf(b) = [letter |-> lb, number |-> nb]
  BY <1>6 DEF OrderNumberOf
<1>9. CASE a = MaxQueueSeq
  <2>1. lb = 0 /\ nb = 1
    BY <1>2, <1>7, <1>9
  <2>2. QED
    BY <1>8, <1>9, <2>1 DEF b
<1>10. CASE a # MaxQueueSeq /\ na < 999
  <2>1. lb = la /\ nb = na + 1
    BY <1>1, <1>2, <1>4, <1>7, <1>10
  <2>2. QED
    BY <1>5, <1>8, <1>10, <2>1 DEF Follows, PerLetter, b
<1>11. CASE a # MaxQueueSeq /\ na = 999
  <2>1. lb = la + 1 /\ nb = 1
    BY <1>1, <1>2, <1>4, <1>7, <1>11
  <2>2. QED
    BY <1>5, <1>8, <1>11, <2>1 DEF Follows, PerLetter, b
<1>12. QED
  BY <1>4, <1>9, <1>10, <1>11

\* Sent orders have numbers that next_queue handed out.
SentNumbered == \A ord \in Sent : ord.seq \in QueueSeq

LEMMA TakesNext ==
    ASSUME TypeInv, NEW t \in Tasks, TakeNumber(t)
    PROVE  /\ task[t].seq \in Counter
           /\ task'[t].made.seq = NextSeq(task[t].seq)
<1>1. PICK made : made = [id |-> Draft(t).id, owner |-> task[t].user, files |-> task[t].req,
                          createdAt |-> Draft(t).createdAt, seq |-> queue']
  OBVIOUS
<1>2. task' = [task EXCEPT ![t].pc = "persist", ![t].made = made]
  BY <1>1 DEF TakeNumber
<1>3. task'[t].made = made
  BY <1>2 DEF TypeInv, TypeOK, TaskType
<1>4. made.seq = NextSeq(task[t].seq)
  BY <1>1 DEF TakeNumber
<1>5. task[t].seq \in Counter
  BY DEF TypeInv, TypeOK, TaskType
<1>6. QED
  BY <1>3, <1>4, <1>5

LEMMA NumberedStep == TypeInv /\ SentNumbered /\ [Next]_vars => SentNumbered'
<1>1. SUFFICES ASSUME TypeInv, SentNumbered, [Next]_vars, NEW ord \in Sent'
               PROVE  ord.seq \in QueueSeq
  BY DEF SentNumbered
<1>2. ASSUME NEW t \in Tasks, TakeNumber(t), ord = task'[t].made
      PROVE  ord.seq \in QueueSeq
  BY <1>1, <1>2, TakesNext, NextSeqInRange
<1>3. QED
  BY <1>1, <1>2, SentMoves DEF SentNumbered

\* Whatever builds race for the counter and whenever it restarts, every order that
\* was sent has a number that reads as a letter and three digits that are not all zero.
THEOREM NumbersAreReadable == Spec => [](\A ord \in Sent : Readable(OrderNumberOf(ord.seq)))
<1>1. Init => TypeInv /\ SentNumbered
  BY InitStore, InitTypes DEF Init, SentNumbered, Sent, At, Idle
<1>2. TypeInv /\ SentNumbered /\ [Next]_vars => (TypeInv /\ SentNumbered)'
  BY TypeStep, NumberedStep
<1>3. SentNumbered => \A ord \in Sent : Readable(OrderNumberOf(ord.seq))
  BY SeqReadable DEF SentNumbered
<1>4. QED
  BY <1>1, <1>2, <1>3, PTL DEF Spec

\* A build that still finds the counter as it loaded it gives its order the number
\* after the last one; a build that does not may give a number again.
NumbersInOrder ==
    [][\A t \in Tasks : TakeNumber(t) /\ task[t].seq = queue /\ queue # 0 =>
          LET a == OrderNumberOf(queue)
              b == OrderNumberOf(queue')
          IN  Follows(a, b) \/ (queue = MaxQueueSeq /\ b = [letter |-> 0, number |-> 1])]_vars

\* As long as next_queue is not interrupted between its load and its store, orders
\* get numbers in the order in which people read them, without gaps.
THEOREM NumbersAreInOrder == Spec => NumbersInOrder
<1>1. ASSUME TypeInv, NEW t \in Tasks, TakeNumber(t), task[t].seq = queue, queue # 0
      PROVE  LET a == OrderNumberOf(queue)
                 b == OrderNumberOf(queue')
             IN  Follows(a, b) \/ (queue = MaxQueueSeq /\ b = [letter |-> 0, number |-> 1])
  <2>1. queue \in QueueSeq
    BY <1>1, QueueAssumption DEF TypeInv, TypeOK, Counter, QueueSeq
  <2>2. queue' = NextSeq(queue)
    BY <1>1 DEF TakeNumber
  <2>3. QED
    BY <2>1, <2>2, SeqInOrder
<1>2. TypeInv /\ [Next]_vars =>
         [\A t \in Tasks : TakeNumber(t) /\ task[t].seq = queue /\ queue # 0 =>
             LET a == OrderNumberOf(queue)
                 b == OrderNumberOf(queue')
             IN  Follows(a, b) \/ (queue = MaxQueueSeq /\ b = [letter |-> 0, number |-> 1])]_vars
  BY <1>1
<1>3. StoreInv => TypeInv
  BY DEF StoreInv
<1>4. QED
  BY <1>2, <1>3, StoreHolds, PTL DEF Spec, NumbersInOrder
=============================================================================
