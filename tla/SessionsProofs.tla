--------------------------- MODULE SessionsProofs ---------------------------
(***************************************************************************)
(* Proofs about modules Sessions and WebSession, for any users, any number *)
(* of sessions, tabs, restarts and crashes.                                *)
(*                                                                         *)
(* The inductive invariant says what each place that holds a flag or a     *)
(* session knows: an onboarded flag anywhere (session, sign-in under way,  *)
(* written POST) is backed by the row; ids not given out yet are nowhere;  *)
(* the table is empty while the server is up and has not begun to stop.    *)
(* Of the tabs it says which page has whose record, and that redirects end.*)
(***************************************************************************)
EXTENDS WebSession, TLAPS

\* A flag that says "onboarded" is backed by the row, wherever it is.
FlagsRecorded ==
    /\ OnboardedIsRecorded
    /\ \A t \in Tabs : flow[t] \in Session /\ flow[t].onboarded =>
            flow[t].user \in onboarded
    /\ \A i \in Ids : post[i] # None /\ post[i].written =>
            post[i].user \in onboarded
    /\ \A i \in Ids : store[i] # None /\ post[i] # None =>
            store[i].user = post[i].user

\* What no session has come to yet is empty, and what is to come back comes
\* from a shutdown.
NothingEarly ==
    /\ \A i \in Ids : i > issued =>
          store[i] = None /\ post[i] = None /\ table[i] = None /\ i \notin signedOut
    /\ phase = "up" => \A i \in Ids : table[i] = None
    /\ phase \in {"down", "loading"} => \A i \in Ids : post[i] = None

\* A session signed out in time is nowhere.
GoneForGood == \A i \in signedOut : store[i] = None /\ table[i] = None

\* What a session that once said "onboarded" is loaded from says so too: its row
\* in the table is of the same user, and that user is onboarded.
KeptFlags ==
    /\ \A i \in Ids : store[i] # None /\ table[i] # None => table[i] = store[i].user
    /\ \A i \in marked :
          /\ store[i] # None \/ table[i] # None
          /\ store[i] # None => store[i].onboarded
          /\ table[i] # None => table[i] \in onboarded

Inv == ServerTypeOK /\ FlagsRecorded /\ NothingEarly /\ GoneForGood /\ KeptFlags
-----------------------------------------------------------------------------
\* The first state has no session anywhere and no flag but the merchants'.
LEMMA InitInv == ServerInit => Inv
BY SessionsAssumption DEF SessionsAssumption, ServerInit, Inv, ServerTypeOK,
   FlagsRecorded, OnboardedIsRecorded, NothingEarly, GoneForGood, KeptFlags, Ids

\* What is to be seen of an action that changes the store or the table.
LEMMA MarksKept ==
    ASSUME Remember, OnboardedIsRecorded',
           \A i \in Ids : store'[i] # None /\ table'[i] # None => table'[i] = store'[i].user,
           \A i \in marked : store'[i] # None => store'[i].onboarded,
           \A i \in marked : table'[i] # None => table'[i] \in onboarded'
    PROVE  KeptFlags' /\ marked' \subseteq Ids
BY DEF Remember, OnboardedIsRecorded, KeptFlags

\* The oauth states come and go.
LEMMA StateKeeps ==
    ASSUME Inv, NEW t \in Tabs, AskGoogle(t) \/ DropFlow(t)
    PROVE  Inv'
<1>1. flow[t] \in {None, Asked} /\ flow'[t] \in {None, Asked}
  BY DEF Inv, ServerTypeOK, AskGoogle, DropFlow
<1>2. \A x \in Tabs \ {t} : flow'[x] = flow[x]
  BY DEF Inv, ServerTypeOK, AskGoogle, DropFlow
<1>3. flow' \in [Tabs -> Session \cup {None, Asked}]
  BY DEF Inv, ServerTypeOK, AskGoogle, DropFlow
<1>4. UNCHANGED <<onboarded, store, expired, table, issued, post, phase, restarts,
                  signedOut, marked>>
  BY DEF AskGoogle, DropFlow
<1>5. FlagsRecorded'
  BY <1>1, <1>2, <1>4, SessionsAssumption
     DEF SessionsAssumption, Inv, FlagsRecorded, OnboardedIsRecorded
<1> QED BY <1>3, <1>4, <1>5 DEF Inv, ServerTypeOK, NothingEarly, GoneForGood, KeptFlags

\* The callback reads the row.
LEMMA ReadKeeps ==
    ASSUME Inv, NEW t \in Tabs, NEW u \in Users, ReadUser(t, u)
    PROVE  Inv'
<1> DEFINE b == u \in onboarded
<1>1. b \in BOOLEAN
  OBVIOUS
<1>2. flow' = [flow EXCEPT ![t] = [user |-> u, onboarded |-> b]]
  BY DEF ReadUser
<1>3. b => u \in onboarded
  OBVIOUS
<1> HIDE DEF b
<1>4. flow' \in [Tabs -> Session \cup {None, Asked}]
  BY <1>1, <1>2 DEF Inv, ServerTypeOK, Session
<1>5. UNCHANGED <<onboarded, store, expired, table, issued, post, phase, restarts,
                  signedOut, marked>>
  BY DEF ReadUser
<1>6. FlagsRecorded'
  <2>1. ASSUME NEW x \in Tabs, flow'[x] \in Session, flow'[x].onboarded
        PROVE  flow'[x].user \in onboarded
    <3>1. CASE x = t
      BY <1>2, <1>3, <2>1, <3>1 DEF Inv, ServerTypeOK
    <3>2. CASE x # t
      BY <1>2, <2>1, <3>2 DEF Inv, ServerTypeOK, FlagsRecorded
    <3> QED BY <3>1, <3>2
  <2> QED BY <1>5, <2>1 DEF Inv, FlagsRecorded, OnboardedIsRecorded
<1> QED BY <1>4, <1>5, <1>6 DEF Inv, ServerTypeOK, NothingEarly, GoneForGood, KeptFlags

\* A new session takes the flag of the row as it was read.
LEMMA IssueKeeps ==
    ASSUME Inv, NEW t \in Tabs, NEW i \in Ids, Issue(t, i)
    PROVE  Inv'
<1>1. ServerTypeOK'
  <2>1. flow[t] \in Session /\ store' = [store EXCEPT ![i] = flow[t]]
    BY DEF Issue
  <2>2. flow' = [flow EXCEPT ![t] = None] /\ issued' = i /\ marked' \subseteq Ids
    BY DEF Issue, Remember
  <2>3. UNCHANGED <<onboarded, expired, table, post, phase, restarts, signedOut>>
    BY DEF Issue
  <2>4. store' \in [Ids -> Session \cup {None}]
    BY <2>1 DEF Inv, ServerTypeOK
  <2>5. i \in 0..MaxIds
    BY SessionsAssumption DEF SessionsAssumption, Ids
  <2> QED BY <2>2, <2>3, <2>4, <2>5 DEF Inv, ServerTypeOK
<1>2. FlagsRecorded'
  <2>1. flow[t] \in Session /\ UNCHANGED <<onboarded, post>> /\ i > issued /\ post[i] = None
    BY DEF Issue, Inv, ServerTypeOK, NothingEarly, Ids
  <2>2. store' = [store EXCEPT ![i] = flow[t]] /\ flow' = [flow EXCEPT ![t] = None]
    BY DEF Issue
  <2>3. OnboardedIsRecorded'
    BY <2>1, <2>2 DEF Inv, ServerTypeOK, FlagsRecorded, OnboardedIsRecorded
  <2>4. \A x \in Tabs : flow'[x] \in Session => flow'[x] = flow[x]
    BY <2>2, SessionsAssumption DEF Inv, ServerTypeOK, SessionsAssumption
  <2>5. \A j \in Ids : store'[j] # None /\ post[j] # None => store'[j] = store[j]
    BY <2>1, <2>2 DEF Inv, ServerTypeOK
  <2> QED BY <2>1, <2>3, <2>4, <2>5 DEF Inv, FlagsRecorded
<1>3. NothingEarly'
  BY SessionsAssumption DEF SessionsAssumption, Inv, ServerTypeOK, Ids, Session, Post,
     Issue, NothingEarly
<1>4. GoneForGood'
  BY SessionsAssumption DEF SessionsAssumption, Inv, ServerTypeOK, Ids, Session, Post,
     Issue, GoneForGood, NothingEarly
<1>5. KeptFlags'
  <2>1. i \notin marked /\ table[i] = None /\ UNCHANGED <<table, onboarded>> /\ Remember
    BY DEF Inv, ServerTypeOK, NothingEarly, KeptFlags, Issue, Ids
  <2>2. \A j \in Ids \ {i} : store'[j] = store[j]
    BY DEF Inv, ServerTypeOK, Issue
  <2>3. marked \subseteq Ids
    BY DEF Inv, ServerTypeOK
  <2> QED BY <1>2, <2>1, <2>2, <2>3, MarksKept DEF Inv, KeptFlags, FlagsRecorded
<1> QED BY <1>1, <1>2, <1>3, <1>4, <1>5 DEF Inv

\* Sessions that end.
LEMMA SignOutKeeps ==
    ASSUME Inv, NEW i \in Ids, SignOut(i) \/ GetExpired(i) \/ Expire(i)
    PROVE  Inv'
<1>1. ServerTypeOK'
  <2>1. CASE SignOut(i)
    BY <2>1 DEF Inv, ServerTypeOK, SignOut, Remember
  <2>2. CASE GetExpired(i) \/ Expire(i)
    BY <2>2 DEF Inv, ServerTypeOK, GetExpired, Expire, Remember
  <2> QED BY <2>1, <2>2
<1>2. FlagsRecorded'
  <2>1. \A x \in Ids : store'[x] # None => store'[x] = store[x]
    BY DEF Inv, ServerTypeOK, SignOut, GetExpired, Expire
  <2>2. UNCHANGED <<onboarded, flow, post>>
    BY DEF SignOut, GetExpired, Expire
  <2> QED BY <2>1, <2>2 DEF Inv, FlagsRecorded, OnboardedIsRecorded
<1>3. NothingEarly'
  BY SessionsAssumption DEF SessionsAssumption, Inv, ServerTypeOK, Ids, Session, Post,
     SignOut, GetExpired, Live, Expire, NothingEarly
<1>4. GoneForGood'
  BY SessionsAssumption DEF SessionsAssumption, Inv, ServerTypeOK, Ids, Session, Post,
     SignOut, GetExpired, Live, Expire, GoneForGood, NothingEarly
<1>5. KeptFlags'
  <2>1. CASE Expire(i)
    BY <2>1 DEF Inv, KeptFlags, Expire
  <2>2. CASE SignOut(i) \/ GetExpired(i)
    <3>1. Remember /\ UNCHANGED <<table, onboarded>> /\ marked \subseteq Ids
      BY <2>2 DEF Inv, ServerTypeOK, SignOut, GetExpired
    <3>2. \A x \in Ids : store'[x] # None => store'[x] = store[x]
      BY <2>2 DEF Inv, ServerTypeOK, SignOut, GetExpired
    <3> QED BY <1>2, <3>1, <3>2, MarksKept DEF Inv, KeptFlags, FlagsRecorded
  <2> QED BY <2>1, <2>2
<1> QED BY <1>1, <1>2, <1>3, <1>4, <1>5 DEF Inv

\* POST /user/onboard looks at the session ...
LEMMA CheckKeeps ==
    ASSUME Inv, NEW i \in Ids, CheckOnboard(i)
    PROVE  Inv'
<1>1. ServerTypeOK'
  BY SessionsAssumption DEF SessionsAssumption, Inv, ServerTypeOK, Ids, Session, Post,
     CheckOnboard, MayOnboard, Live
<1>2. FlagsRecorded'
  BY SessionsAssumption DEF SessionsAssumption, Inv, ServerTypeOK, Ids, Session, Post,
     CheckOnboard, MayOnboard, Live, FlagsRecorded, OnboardedIsRecorded, NothingEarly
<1>3. NothingEarly'
  BY SessionsAssumption DEF SessionsAssumption, Inv, ServerTypeOK, Ids, Session, Post,
     CheckOnboard, MayOnboard, Live, Serving, NothingEarly
<1>4. GoneForGood'
  BY SessionsAssumption DEF SessionsAssumption, Inv, ServerTypeOK, Ids, Session, Post,
     CheckOnboard, MayOnboard, Live, GoneForGood, NothingEarly
<1>5. KeptFlags'
  BY SessionsAssumption DEF SessionsAssumption, Inv, ServerTypeOK, Ids, Session, Post,
     CheckOnboard, MayOnboard, Live, KeptFlags, FlagsRecorded, OnboardedIsRecorded, NothingEarly
<1> QED BY <1>1, <1>2, <1>3, <1>4, <1>5 DEF Inv

\* ... writes the row ...
LEMMA WriteKeeps ==
    ASSUME Inv, NEW i \in Ids, WriteOnboard(i)
    PROVE  Inv'
<1>1. ServerTypeOK'
  BY SessionsAssumption DEF SessionsAssumption, Inv, ServerTypeOK, Ids, Session, Post,
     WriteOnboard
<1>2. FlagsRecorded'
  BY SessionsAssumption DEF SessionsAssumption, Inv, ServerTypeOK, Ids, Session, Post,
     WriteOnboard, FlagsRecorded, OnboardedIsRecorded, NothingEarly
<1>3. NothingEarly'
  BY SessionsAssumption DEF SessionsAssumption, Inv, ServerTypeOK, Ids, Session, Post,
     WriteOnboard, NothingEarly
<1>4. GoneForGood'
  BY SessionsAssumption DEF SessionsAssumption, Inv, ServerTypeOK, Ids, Session, Post,
     WriteOnboard, GoneForGood, NothingEarly
<1>5. KeptFlags'
  BY DEF Inv, ServerTypeOK, WriteOnboard, KeptFlags
<1> QED BY <1>1, <1>2, <1>3, <1>4, <1>5 DEF Inv

\* ... or fails to ...
LEMMA FailKeeps ==
    ASSUME Inv, NEW i \in Ids, FailOnboard(i)
    PROVE  Inv'
<1>1. ServerTypeOK'
  BY SessionsAssumption DEF SessionsAssumption, Inv, ServerTypeOK, Ids, Session, Post,
     FailOnboard
<1>2. FlagsRecorded'
  BY SessionsAssumption DEF SessionsAssumption, Inv, ServerTypeOK, Ids, Session, Post,
     FailOnboard, FlagsRecorded, OnboardedIsRecorded, NothingEarly
<1>3. NothingEarly'
  BY SessionsAssumption DEF SessionsAssumption, Inv, ServerTypeOK, Ids, Session, Post,
     FailOnboard, NothingEarly
<1>4. GoneForGood'
  BY SessionsAssumption DEF SessionsAssumption, Inv, ServerTypeOK, Ids, Session, Post,
     FailOnboard, GoneForGood, NothingEarly
<1>5. KeptFlags'
  BY SessionsAssumption DEF SessionsAssumption, Inv, ServerTypeOK, Ids, Session, Post,
     FailOnboard, KeptFlags, FlagsRecorded, OnboardedIsRecorded, NothingEarly
<1> QED BY <1>1, <1>2, <1>3, <1>4, <1>5 DEF Inv

\* ... and its answer.
LEMMA MarkKeeps ==
    ASSUME Inv, NEW i \in Ids, MarkSession(i)
    PROVE  Inv'
<1>1. ServerTypeOK'
  <2>1. store' \in [Ids -> Session \cup {None}]
    <3>1. CASE store[i] = None
      BY <3>1 DEF Inv, ServerTypeOK, MarkSession
    <3>2. CASE store[i] # None
      <4>1. [store[i] EXCEPT !.onboarded = TRUE] \in Session
        BY <3>2 DEF Inv, ServerTypeOK, Session
      <4>2. store' = [store EXCEPT ![i] = [store[i] EXCEPT !.onboarded = TRUE]]
        BY <3>2 DEF MarkSession
      <4> QED BY <4>1, <4>2 DEF Inv, ServerTypeOK
    <3> QED BY <3>1, <3>2
  <2> QED BY <2>1 DEF Inv, ServerTypeOK, MarkSession, Remember
<1>2. FlagsRecorded'
  BY SessionsAssumption DEF SessionsAssumption, Inv, ServerTypeOK, Ids, Session, Post,
     MarkSession, FlagsRecorded, OnboardedIsRecorded, NothingEarly
<1>3. NothingEarly'
  BY SessionsAssumption DEF SessionsAssumption, Inv, ServerTypeOK, Ids, Session, Post,
     MarkSession, NothingEarly
<1>4. GoneForGood'
  BY SessionsAssumption DEF SessionsAssumption, Inv, ServerTypeOK, Ids, Session, Post,
     MarkSession, GoneForGood, NothingEarly
<1>5. KeptFlags'
  <2>1. Remember /\ UNCHANGED <<table, onboarded>> /\ marked \subseteq Ids
    BY DEF Inv, ServerTypeOK, MarkSession
  <2>2. ASSUME NEW x \in Ids, store'[x] # None
        PROVE  /\ store[x] # None /\ store'[x].user = store[x].user
               /\ store[x].onboarded => store'[x].onboarded
    BY <2>2, SessionsAssumption
       DEF SessionsAssumption, Inv, ServerTypeOK, Session, MarkSession
  <2> QED BY <1>2, <2>1, <2>2, MarksKept DEF Inv, KeptFlags, FlagsRecorded
<1> QED BY <1>1, <1>2, <1>3, <1>4, <1>5 DEF Inv

\* The shutdown writes what is live.
LEMMA CommitKeeps ==
    ASSUME Inv, Commit
    PROVE  Inv'
<1>1. ServerTypeOK'
  BY SessionsAssumption DEF SessionsAssumption, Inv, ServerTypeOK, Ids, Session, Post,
     Commit, MayEnd, Remember
<1>2. FlagsRecorded'
  BY SessionsAssumption DEF SessionsAssumption, Inv, ServerTypeOK, Ids, Session, Post,
     Commit, FlagsRecorded, OnboardedIsRecorded, NothingEarly
<1>3. NothingEarly'
  BY SessionsAssumption DEF SessionsAssumption, Inv, ServerTypeOK, Ids, Session, Post,
     Commit, NothingEarly
<1>4. GoneForGood'
  BY SessionsAssumption DEF SessionsAssumption, Inv, ServerTypeOK, Ids, Session, Post,
     Commit, GoneForGood, NothingEarly
<1>5. KeptFlags'
  <2>1. Remember /\ UNCHANGED onboarded /\ marked \subseteq Ids
    BY DEF Inv, ServerTypeOK, Commit
  <2>2. ASSUME NEW x \in Ids
        PROVE  /\ store'[x] # None => store'[x] = store[x] /\ table'[x] = store[x].user
               /\ store'[x] = None => table'[x] = table[x]
    BY DEF Commit
  <2> QED BY <1>2, <2>1, <2>2, MarksKept
          DEF Inv, KeptFlags, FlagsRecorded, OnboardedIsRecorded
<1> QED BY <1>1, <1>2, <1>3, <1>4, <1>5 DEF Inv

\* The process ends.
LEMMA GoneKeeps ==
    ASSUME Inv, Exit \/ Crash
    PROVE  Inv'
<1>1. ServerTypeOK'
  <2>1. restarts' \in 0..MaxRestarts
    BY SessionsAssumption DEF SessionsAssumption, Inv, ServerTypeOK, Exit, Crash, MayEnd
  <2> QED BY <2>1 DEF Inv, ServerTypeOK, Exit, Crash, Gone, Remember
<1>2. FlagsRecorded'
  BY SessionsAssumption DEF SessionsAssumption, Inv, ServerTypeOK, Ids, Session, Post,
     Exit, Crash, Gone, FlagsRecorded, OnboardedIsRecorded, NothingEarly
<1>3. NothingEarly'
  BY SessionsAssumption DEF SessionsAssumption, Inv, ServerTypeOK, Ids, Session, Post,
     Exit, Crash, Gone, NothingEarly
<1>4. GoneForGood'
  BY SessionsAssumption DEF SessionsAssumption, Inv, ServerTypeOK, Ids, Session, Post,
     Exit, Crash, Gone, GoneForGood, NothingEarly
<1>5. KeptFlags'
  <2>1. /\ Remember /\ UNCHANGED <<table, onboarded>> /\ marked \subseteq Ids
        /\ \A x \in Ids : store'[x] = None
    BY DEF Inv, ServerTypeOK, Exit, Crash, Gone
  <2> QED BY <1>2, <2>1, MarksKept DEF Inv, KeptFlags, FlagsRecorded
<1> QED BY <1>1, <1>2, <1>3, <1>4, <1>5 DEF Inv

\* The next one starts.
LEMMA LoadKeeps ==
    ASSUME Inv, Load \/ Truncate
    PROVE  Inv'
<1>1. CASE Load
  <2> DEFINE Back(i) == [user |-> table[i], onboarded |-> table[i] \in onboarded]
  <2>1. \A i \in Ids : store'[i] = IF table[i] = None \/ i \in expired THEN None ELSE Back(i)
    BY <1>1 DEF Load
  <2>2. \A i \in Ids : table[i] # None => Back(i) \in Session
    BY DEF Inv, ServerTypeOK, Session
  <2>3. \A i \in Ids : Back(i).onboarded <=> Back(i).user \in onboarded
    OBVIOUS
  <2>4. store' = [i \in Ids |-> IF table[i] = None \/ i \in expired THEN None ELSE Back(i)]
    BY <1>1 DEF Load
  <2>14. \A i \in Ids : Back(i).user = table[i]
    OBVIOUS
  <2> HIDE DEF Back
  <2>5. store' \in [Ids -> Session \cup {None}]
    BY <2>2, <2>4
  <2>6. phase = "down" /\ phase' = "loading"
        /\ UNCHANGED <<onboarded, expired, table, issued, flow, post, restarts, signedOut>>
    BY <1>1 DEF Load
  <2>7. \A i \in Ids : post[i] = None
    BY <2>6 DEF Inv, NothingEarly
  <2>8. ServerTypeOK'
    BY <1>1, <2>5, <2>6 DEF Inv, ServerTypeOK, Load, Remember
  <2>9. FlagsRecorded'
    BY <2>1, <2>3, <2>6, <2>7 DEF Inv, FlagsRecorded, OnboardedIsRecorded
  <2>10. NothingEarly'
    BY <2>1, <2>6 DEF Inv, NothingEarly
  <2>11. GoneForGood'
    BY <2>1, <2>6 DEF Inv, ServerTypeOK, GoneForGood
  <2>12. KeptFlags'
    <3>1. \A i \in Ids : store'[i] # None => store'[i].user = table[i]
      BY <2>1, <2>14
    <3>2. Remember /\ marked \subseteq Ids
      BY <1>1 DEF Load, Inv, ServerTypeOK
    <3>3. \A i \in Ids : store'[i] # None /\ table[i] \in onboarded => store'[i].onboarded
      BY <2>1, <2>3, <3>1
    <3>4. \A i \in marked : table[i] # None => table[i] \in onboarded
      BY DEF Inv, KeptFlags
    <3>5. \A i \in marked : store'[i] # None => table[i] # None
      BY <2>1, <3>2
    <3> QED BY <2>6, <2>9, <3>1, <3>2, <3>3, <3>4, <3>5, MarksKept DEF FlagsRecorded
  <2> QED BY <2>8, <2>9, <2>10, <2>11, <2>12 DEF Inv
<1>2. CASE Truncate
  <2>1. /\ Remember /\ UNCHANGED <<store, onboarded, post, flow, issued, signedOut>>
        /\ marked \subseteq Ids /\ \A x \in Ids : table'[x] = None
        /\ phase = "loading" /\ phase' = "up"
    BY <1>2 DEF Truncate, Inv, ServerTypeOK
  <2>2. ServerTypeOK'
    BY <1>2 DEF Truncate, Inv, ServerTypeOK, Remember
  <2>3. FlagsRecorded'
    BY <2>1 DEF Inv, FlagsRecorded, OnboardedIsRecorded
  <2>5. NothingEarly'
    BY <2>1 DEF Inv, NothingEarly
  <2>6. GoneForGood'
    BY <2>1 DEF Inv, ServerTypeOK, GoneForGood
  <2>4. KeptFlags'
    BY <2>1, <2>3, MarksKept DEF Inv, KeptFlags, FlagsRecorded
  <2> QED BY <2>2, <2>3, <2>4, <2>5, <2>6 DEF Inv
<1> QED BY <1>1, <1>2

\* Every step of the server keeps the invariant.
LEMMA NextKeeps == Inv /\ [ServerNext]_server => Inv'
<1> SUFFICES ASSUME Inv, [ServerNext]_server PROVE Inv'
  OBVIOUS
<1>1. CASE Process
  BY <1>1, CommitKeeps, GoneKeeps, LoadKeeps DEF Process
<1>2. ASSUME NEW t \in Tabs, AskGoogle(t) \/ DropFlow(t) PROVE Inv'
  BY <1>2, StateKeeps
<1>3. ASSUME NEW t \in Tabs, NEW u \in Users, ReadUser(t, u) PROVE Inv'
  BY <1>3, ReadKeeps
<1>4. ASSUME NEW t \in Tabs, NEW i \in Ids, Issue(t, i) PROVE Inv'
  BY <1>4, IssueKeeps
<1>5. ASSUME NEW i \in Ids,
             \/ SignOut(i) \/ GetExpired(i) \/ Expire(i) \/ CheckOnboard(i)
             \/ WriteOnboard(i) \/ MarkSession(i) \/ FailOnboard(i)
      PROVE  Inv'
  BY <1>5, SignOutKeeps, CheckKeeps, WriteKeeps, FailKeeps, MarkKeeps
<1>6. CASE UNCHANGED server
  BY <1>6 DEF server, Inv, ServerTypeOK, FlagsRecorded, OnboardedIsRecorded,
     NothingEarly, GoneForGood, KeptFlags
<1> QED BY <1>1, <1>2, <1>3, <1>4, <1>5, <1>6 DEF ServerNext

\* The strengthened invariant of the server is inductive: it holds always
\* (handlers of routes/auth.rs and user.rs, main.rs).
THEOREM Invariance == ServerSpec => []Inv
BY InitInv, NextKeeps, PTL DEF ServerSpec

\* The state of the server keeps its type.
THEOREM SessionsTyped == ServerSpec => []ServerTypeOK
BY Invariance, PTL DEF Inv

\* requires_onboarding never lets a session past whose user is not onboarded
\* (post_user_onboard, get_finish_google_oauth, SessionStore::load).
THEOREM FlagsAreBacked == ServerSpec => []OnboardedIsRecorded
BY Invariance, PTL DEF Inv, FlagsRecorded

\* Whoever requires_onboarding has let past with a session it lets past with it
\* again, whatever fails, stops and starts in between (set_onboard, load).
THEOREM OnboardedStays == ServerSpec => []OnboardedForGood
<1>1. Inv => OnboardedForGood
  BY DEF Inv, KeptFlags, OnboardedForGood
<1> QED BY <1>1, Invariance, PTL

\* A sign-out before a shutdown is for good (SessionStore::commit, load and
\* the TRUNCATE between them).
THEOREM SignOutIsForGood == ServerSpec => []SignedOutStaysOut
<1>1. Inv => SignedOutStaysOut
  BY DEF Inv, GoneForGood, SignedOutStaysOut
<1> QED BY <1>1, Invariance, PTL
-----------------------------------------------------------------------------
(* The web client asks nothing of the server that module Sessions does not *)
(* know: every step of WebSession is a step of Sessions or leaves the      *)
(* server alone.  What is proved about the server therefore holds behind   *)
(* the web client.                                                         *)

\* A tab waits for an onboarding only with a cookie.
Waiting ==
    /\ cookie  \in [Tabs -> Ids \cup {None}]
    /\ request \in [Tabs -> {"none", "onboard", "signout", "failed"}]
    /\ \A t \in Tabs : request[t] = "onboard" => cookie[t] \in Ids

LEMMA InitWaiting == WebInit => ServerInit /\ Waiting
BY DEF WebInit, Waiting

\* Steps that set no cookie and send no onboarding.
LEMMA WaitingKept ==
    ASSUME Waiting, UNCHANGED cookie, NEW t \in Tabs,
           NEW v \in {"none", "signout", "failed"},
           request' = [request EXCEPT ![t] = v] \/ UNCHANGED request
    PROVE  Waiting'
BY DEF Waiting

\* The tabs' moves and pages do not touch the server.
LEMMA MovesKeep ==
    ASSUME Waiting, NEW t \in Tabs,
           \/ \E p \in Routes : Follow(t, p) \/ Visit(t, p)
           \/ Loading(t) \/ ClickSignIn(t) \/ Message(t) \/ ClosePopup(t)
           \/ Refetched(t) \/ AskSignOut(t) \/ SignOutFailed(t)
    PROVE  UNCHANGED server /\ Waiting'
<1>1. ASSUME NEW p \in Routes, Follow(t, p) PROVE UNCHANGED server /\ Waiting'
  BY <1>1 DEF Follow, Waiting
<1>2. ASSUME NEW p \in Routes, Visit(t, p) PROVE UNCHANGED server /\ Waiting'
  BY <1>2, WaitingKept DEF Visit, Forget
<1>3. CASE ServeRedirect(t) \/ ServeProps(t)
  BY <1>3 DEF ServeRedirect, ServeProps, Waiting
<1>4. CASE ServeError(t)
  BY <1>4, WaitingKept DEF ServeError, Forget
<1>5. CASE Arrive(t)
  BY <1>5 DEF Arrive, Waiting
<1>6. CASE ClickSignIn(t) \/ Message(t) \/ ClosePopup(t)
  BY <1>6 DEF ClickSignIn, Message, ClosePopup, Waiting
<1>7. CASE Refetched(t)
  BY <1>7 DEF Refetched, Waiting
<1>8. CASE AskSignOut(t)
  BY <1>8, WaitingKept DEF AskSignOut
<1>9. CASE SignOutFailed(t)
  BY <1>9, WaitingKept DEF SignOutFailed
<1> QED BY <1>1, <1>2, <1>3, <1>4, <1>5, <1>6, <1>7, <1>8, <1>9 DEF Loading

\* What the tabs do with the server are operations of the server.
LEMMA RequestsAreOperations ==
    ASSUME Waiting, NEW t \in Tabs,
           \/ OpenGoogle(t) \/ SubmitOnboard(t) \/ Onboarded(t) \/ OnboardFailed(t)
           \/ SignedOut(t)
           \/ \E u \in Users : PickAccount(t, u)
           \/ \E i \in Ids : Accept(t, i)
    PROVE  [ServerNext]_server /\ Waiting'
<1>1. CASE OpenGoogle(t)
  BY <1>1 DEF OpenGoogle, ServerNext, browser, Waiting
<1>2. ASSUME NEW u \in Users, PickAccount(t, u)
      PROVE  [ServerNext]_server /\ Waiting'
  <2>1. ServerNext
    BY <1>2 DEF PickAccount, ServerNext
  <2>2. Waiting'
    BY <1>2 DEF PickAccount, browser, Waiting
  <2> QED BY <2>1, <2>2
<1>3. ASSUME NEW i \in Ids, Accept(t, i)
      PROVE  [ServerNext]_server /\ Waiting'
  <2>1. ServerNext
    BY <1>3 DEF Accept, ServerNext
  <2>2. Waiting'
    BY <1>3 DEF Accept, Waiting
  <2> QED BY <2>1, <2>2
<1>4. CASE SubmitOnboard(t)
  <2>1. cookie[t] \in Ids /\ CheckOnboard(cookie[t])
    BY <1>4 DEF SubmitOnboard, CheckOnboard, MayOnboard, Live
  <2>2. ServerNext
    BY <2>1 DEF ServerNext
  <2>3. Waiting'
    BY <1>4, <2>1 DEF SubmitOnboard, Waiting
  <2> QED BY <2>2, <2>3
<1>5. CASE Onboarded(t)
  <2>1. cookie[t] \in Ids /\ MarkSession(cookie[t])
    BY <1>5 DEF Onboarded, Waiting
  <2>2. ServerNext
    BY <2>1 DEF ServerNext
  <2>3. Waiting'
    BY <1>5, WaitingKept DEF Onboarded
  <2> QED BY <2>2, <2>3
<1>6. CASE OnboardFailed(t)
  <2>1. cookie[t] \in Ids
    BY <1>6 DEF OnboardFailed, Waiting
  <2>2. ServerNext \/ UNCHANGED server
    BY <1>6, <2>1 DEF OnboardFailed, ServerNext
  <2>3. Waiting'
    BY <1>6, WaitingKept DEF OnboardFailed
  <2> QED BY <2>2, <2>3
<1>7. CASE SignedOut(t)
  <2>1. cookie[t] \in Ids /\ SignOut(cookie[t])
    BY <1>7 DEF SignedOut, SignOut, Live
  <2>2. ServerNext
    BY <2>1 DEF ServerNext
  <2>3. Waiting'
    BY <1>7, WaitingKept DEF SignedOut
  <2> QED BY <2>2, <2>3
<1> QED BY <1>1, <1>2, <1>3, <1>4, <1>5, <1>6, <1>7

\* Every step behind the web client is one of the server's.
LEMMA WebStep == Waiting /\ [WebNext]_vars => [ServerNext]_server /\ Waiting'
<1> SUFFICES ASSUME Waiting, [WebNext]_vars PROVE [ServerNext]_server /\ Waiting'
  OBVIOUS
<1>1. CASE Elsewhere
  <2>1. ServerNext
    BY <1>1 DEF Elsewhere, ServerNext
  <2>2. Waiting'
    BY <1>1 DEF Elsewhere, browser, Waiting
  <2> QED BY <2>1, <2>2
<1>2. CASE UNCHANGED vars
  BY <1>2 DEF vars, server, browser, Waiting
<1> QED BY <1>1, <1>2, MovesKeep, RequestsAreOperations DEF WebNext

\* The web client with its server is an implementation of the server: whatever
\* tabs ask in whatever order, the handlers of auth.rs and user.rs and main.rs
\* take no step that module Sessions does not have.
THEOREM WebImplementsServer == WebSpec => ServerSpec
BY InitWaiting, WebStep, PTL DEF WebSpec, ServerSpec

\* In any number of tabs, over crashes and restarts, requires_onboarding lets
\* nobody past whose row is not onboarded (post_user_onboard).
THEOREM WebFlagsAreBacked == WebSpec => []OnboardedIsRecorded
BY WebImplementsServer, FlagsAreBacked, PTL

\* In any number of tabs nobody is turned away with a session that was let past.
THEOREM WebOnboardedStays == WebSpec => []OnboardedForGood
BY WebImplementsServer, OnboardedStays, PTL

\* Signing out in any tab before a shutdown is for good (post_signout).
THEOREM WebSignOutIsForGood == WebSpec => []SignedOutStaysOut
BY WebImplementsServer, SignOutIsForGood, PTL
-----------------------------------------------------------------------------
(* What the tabs show.                                                     *)

\* Props that are on their way are of the page the router goes to, and of a
\* user it let in.
AnswerFits(t) ==
    answer[t] # NoData =>
        /\ nav[t] # None
        /\ Redirect(nav[t], answer[t]) = nav[t]
        /\ answer[t].user \in Merchants => answer[t].onboarded

PageFits(t) ==
    /\ page[t] \in NeedsUser => cached[t].user # None
    /\ page[t] \in ClientPages /\ cached[t].user \in Merchants => nav[t] # None
    /\ page[t] \in MerchantPages /\ nav[t] = None =>
          cached[t].user \in Merchants \cup {None}

TabTypes(t) ==
    /\ page[t]   \in Routes \cup {"500", "broken", "blank"}
    /\ cached[t] \in UserData
    /\ nav[t]    \in Routes \cup {None}
    /\ answer[t] \in UserData

TabInv(t) == TabTypes(t) /\ AnswerFits(t) /\ PageFits(t)

Functions ==
    /\ page   = [t \in Tabs |-> page[t]]
    /\ cached = [t \in Tabs |-> cached[t]]
    /\ nav    = [t \in Tabs |-> nav[t]]
    /\ answer = [t \in Tabs |-> answer[t]]

\* Merchants are onboarded, so a page that asks only whether its user is
\* onboarded may still rely on it to turn them away.
PagesInv ==
    /\ Merchants \subseteq onboarded
    /\ Functions
    /\ \A t \in Tabs : TabInv(t)

LEMMA NoneIsNoPage ==
    /\ None \notin Routes /\ None \notin Users /\ Merchants \subseteq Users
    /\ NoData # Nobody
BY WebAssumption, SessionsAssumption DEF WebAssumption, SessionsAssumption, NoData, Nobody

\* Rows stay onboarded.
LEMMA OnboardedGrows == [ServerNext]_server => onboarded \subseteq onboarded'
BY DEF ServerNext, server, Process, Commit, Exit, Crash, Gone, Load, Truncate, AskGoogle,
       DropFlow, ReadUser, Issue, SignOut, GetExpired, Expire, CheckOnboard, WriteOnboard,
       FailOnboard, MarkSession

\* The page a user is sent to is a page, and a page that keeps them fits them.
LEMMA RedirectProperties ==
    ASSUME NEW p \in Routes, NEW u \in UserData
    PROVE  /\ Redirect(p, u) \in Routes
           /\ u # NoData /\ (u.user \in Merchants => u.onboarded) /\ Redirect(p, u) = p =>
                 /\ p \in NeedsUser => u.user # None
                 /\ p \in ClientPages => u.user \notin Merchants
                 /\ p \in MerchantPages => u.user \in Merchants
<1> USE NoneIsNoPage
    DEF Redirect, Routes, ClientPages, MerchantPages, NeedsUser, UserData, NoData, Nobody
<1>1. CASE p = "landing"
  BY <1>1 DEF FromLanding, Home
<1>2. CASE p = "onboard"
  BY <1>2 DEF FromOnboard, Home
<1>3. CASE p = "glance"
  BY <1>3 DEF FromGlance, Home
<1>4. CASE p \in {"settings", "order", "detail"}
  BY <1>4 DEF FromSettings, FromOrder, FromDetail, ForClients
<1>5. CASE p = "dashboard"
  BY <1>5 DEF FromDashboard
<1>6. CASE p = "management"
  BY <1>6 DEF FromManagement
<1> QED BY <1>1, <1>2, <1>3, <1>4, <1>5, <1>6

\* Who the server says the user is.
LEMMA MeProperties ==
    ASSUME ServerTypeOK, Merchants \subseteq onboarded, NEW t \in Tabs
    PROVE  /\ Me(t) \in UserData /\ Me(t) # NoData
           /\ Me(t).user \in Merchants => Me(t).onboarded
           /\ Me(t).user = None => Me(t) = Nobody
<1>1. CASE Live(cookie[t])
  <2>1. cookie[t] \in Ids /\ store[cookie[t]] \in Session
    BY <1>1 DEF Live, ServerTypeOK
  <2> DEFINE v == store[cookie[t]].user
             b == v \in onboarded
  <2>2. v \in Users
    BY <2>1 DEF Session
  <2>3. Me(t) = [user |-> v, onboarded |-> b]
    BY <1>1 DEF Me
  <2>4. b \in BOOLEAN /\ (v \in Merchants => b)
    OBVIOUS
  <2> HIDE DEF v, b
  <2> QED BY <2>2, <2>3, <2>4, NoneIsNoPage DEF UserData, NoData
<1>2. CASE ~Live(cookie[t])
  BY <1>2, NoneIsNoPage DEF Me, UserData, Nobody, NoData
<1> QED BY <1>1, <1>2

\* The other tabs do not notice what happens in one.
OthersStay(t) ==
    \A x \in Tabs \ {t} : /\ page'[x] = page[x] /\ cached'[x] = cached[x]
                          /\ nav'[x] = nav[x] /\ answer'[x] = answer[x]

LEMMA OneTab ==
    ASSUME PagesInv, NEW t \in Tabs, onboarded \subseteq onboarded',
           Functions', OthersStay(t), TabInv(t)'
    PROVE  PagesInv'
<1>1. ASSUME NEW x \in Tabs \ {t} PROVE TabInv(x)'
  BY DEF OthersStay, PagesInv, TabInv, TabTypes, AnswerFits, PageFits
<1> QED BY <1>1 DEF PagesInv

\* Nor do tabs notice what happens in none.
LEMMA NoTab ==
    ASSUME PagesInv, onboarded \subseteq onboarded', UNCHANGED <<page, cached, nav, answer>>
    PROVE  PagesInv'
<1>1. ASSUME NEW x \in Tabs PROVE TabInv(x)'
  BY DEF PagesInv, TabInv, TabTypes, AnswerFits, PageFits
<1> QED BY <1>1 DEF PagesInv, Functions

\* A tab that is on its way somewhere may show anybody's page.
LEMMA OnTheWay ==
    ASSUME PagesInv, NEW t \in Tabs, NEW p \in Routes, onboarded \subseteq onboarded',
           GoTo(t, p), Functions', OthersStay(t), TabTypes(t)',
           page'[t] \in NeedsUser => cached'[t].user # None
    PROVE  PagesInv'
<1>1. nav'[t] = p /\ answer'[t] = NoData
  BY DEF GoTo, PagesInv, Functions
<1>2. TabInv(t)'
  BY <1>1, NoneIsNoPage DEF TabInv, AnswerFits, PageFits
<1> QED BY <1>2, OneTab

LEMMA FollowFits ==
    ASSUME PagesInv, NEW t \in Tabs, NEW p \in Routes, Follow(t, p)
    PROVE  PagesInv'
<1>1. GoTo(t, p) /\ UNCHANGED <<page, cached>> /\ UNCHANGED onboarded
  BY DEF Follow, server
<1>2. Functions' /\ OthersStay(t) /\ nav'[t] = p /\ answer'[t] = NoData
  BY <1>1 DEF GoTo, PagesInv, Functions, OthersStay
<1>3. TabTypes(t)' /\ (page'[t] \in NeedsUser => cached'[t].user # None)
  BY <1>1, <1>2 DEF PagesInv, TabInv, TabTypes, PageFits, UserData
<1> QED BY <1>1, <1>2, <1>3, OnTheWay

LEMMA VisitFits ==
    ASSUME PagesInv, NEW t \in Tabs, NEW p \in Routes, Visit(t, p)
    PROVE  PagesInv'
<1>1. /\ GoTo(t, p) /\ UNCHANGED onboarded
      /\ page' = [page EXCEPT ![t] = "blank"] /\ cached' = [cached EXCEPT ![t] = NoData]
  BY DEF Visit, Forget, server
<1>2. /\ Functions' /\ OthersStay(t) /\ nav'[t] = p /\ answer'[t] = NoData
      /\ page'[t] = "blank" /\ cached'[t] = NoData
  BY <1>1 DEF GoTo, PagesInv, Functions, OthersStay
<1>3. TabTypes(t)' /\ page'[t] \notin NeedsUser
  BY <1>2 DEF TabTypes, UserData, NeedsUser
<1> QED BY <1>1, <1>2, <1>3, OnTheWay

LEMMA ServeFits ==
    ASSUME PagesInv, ServerTypeOK, NEW t \in Tabs, ServeRedirect(t) \/ ServeProps(t)
    PROVE  PagesInv'
<1>1. /\ nav[t] # None /\ answer[t] = NoData /\ UNCHANGED onboarded
      /\ UNCHANGED <<page, cached>>
  BY DEF ServeRedirect, ServeProps, server
<1>2. TabInv(t) /\ Functions
  BY DEF PagesInv
<1>3. nav[t] \in Routes
  BY <1>1, <1>2 DEF TabInv, TabTypes
<1>4. /\ Me(t) \in UserData /\ Me(t) # NoData
      /\ Me(t).user \in Merchants => Me(t).onboarded
      /\ Redirect(nav[t], Me(t)) \in Routes
  BY <1>3, MeProperties, RedirectProperties DEF PagesInv
<1>5. CASE ServeRedirect(t)
  <2>1. UNCHANGED answer /\ nav' = [nav EXCEPT ![t] = Redirect(nav[t], Me(t))]
    BY <1>5 DEF ServeRedirect
  <2>2. Functions' /\ OthersStay(t) /\ nav'[t] \in Routes
    BY <1>1, <1>2, <1>4, <2>1 DEF Functions, OthersStay
  <2>3. TabInv(t)'
    BY <1>1, <1>2, <2>1, <2>2, NoneIsNoPage DEF TabInv, TabTypes, AnswerFits, PageFits
  <2> QED BY <1>1, <2>2, <2>3, OneTab
<1>6. CASE ServeProps(t)
  <2>1. /\ UNCHANGED nav /\ answer' = [answer EXCEPT ![t] = Me(t)]
        /\ Redirect(nav[t], Me(t)) = nav[t]
    BY <1>6 DEF ServeProps
  <2>2. Functions' /\ OthersStay(t) /\ answer'[t] = Me(t)
    BY <1>1, <1>2, <2>1 DEF Functions, OthersStay
  <2> HIDE DEF Me
  <2>3. Redirect(nav'[t], answer'[t]) = nav'[t]
    BY <2>1, <2>2
  <2>4. AnswerFits(t)'
    BY <1>1, <1>4, <2>1, <2>2, <2>3 DEF AnswerFits, Redirect
  <2>5. TabTypes(t)' /\ PageFits(t)'
    BY <1>1, <1>2, <1>4, <2>1, <2>2 DEF TabInv, TabTypes, PageFits
  <2> QED BY <1>1, <2>2, <2>4, <2>5, OneTab DEF TabInv
<1> QED BY <1>5, <1>6

LEMMA ErrorFits ==
    ASSUME PagesInv, NEW t \in Tabs, ServeError(t)
    PROVE  PagesInv'
<1>1. nav[t] # None /\ answer[t] = NoData /\ UNCHANGED onboarded /\ UNCHANGED answer
  BY DEF ServeError, server
<1>2. TabInv(t) /\ Functions
  BY DEF PagesInv
<1>3. \/ /\ page' = [page EXCEPT ![t] = "500"] /\ nav' = [nav EXCEPT ![t] = None]
         /\ UNCHANGED cached
      \/ /\ page' = [page EXCEPT ![t] = "blank"] /\ cached' = [cached EXCEPT ![t] = NoData]
         /\ UNCHANGED nav
  BY DEF ServeError, Forget
<1>4. /\ Functions' /\ OthersStay(t) /\ page'[t] \in {"500", "blank"}
      /\ nav'[t] \in {None, nav[t]} /\ cached'[t] \in {NoData, cached[t]}
      /\ answer'[t] = NoData
  BY <1>1, <1>2, <1>3 DEF Functions, OthersStay
<1>5. TabInv(t)'
  BY <1>2, <1>4 DEF TabInv, TabTypes, AnswerFits, PageFits, UserData, ClientPages,
                    MerchantPages, NeedsUser
<1> QED BY <1>1, <1>4, <1>5, OneTab

\* The page that arrives is of the user that arrives with it.
LEMMA ArriveFits ==
    ASSUME PagesInv, NEW t \in Tabs, Arrive(t)
    PROVE  PagesInv'
<1>1. /\ answer[t] # NoData /\ UNCHANGED onboarded
      /\ nav' = [nav EXCEPT ![t] = None] /\ answer' = [answer EXCEPT ![t] = NoData]
  BY DEF Arrive, server
<1>2. TabInv(t) /\ Functions
  BY DEF PagesInv
<1>3. CASE page' = [page EXCEPT ![t] = "broken"] /\ UNCHANGED cached
  <2>1. /\ Functions' /\ OthersStay(t) /\ page'[t] = "broken" /\ cached'[t] = cached[t]
        /\ nav'[t] = None /\ answer'[t] = NoData
    BY <1>1, <1>2, <1>3 DEF Functions, OthersStay
  <2>2. TabInv(t)'
    BY <1>2, <2>1 DEF TabInv, TabTypes, AnswerFits, PageFits, UserData, ClientPages,
                      MerchantPages, NeedsUser
  <2> QED BY <1>1, <2>1, <2>2, OneTab
<1>4. CASE /\ page' = [page EXCEPT ![t] = nav[t]]
           /\ cached' = [cached EXCEPT ![t] = answer[t]]
  <2>1. /\ Functions' /\ OthersStay(t) /\ page'[t] = nav[t] /\ cached'[t] = answer[t]
        /\ nav'[t] = None /\ answer'[t] = NoData
    BY <1>1, <1>2, <1>4 DEF Functions, OthersStay
  <2>2. /\ nav[t] \in Routes /\ answer[t] \in UserData
        /\ answer[t].user \in Merchants => answer[t].onboarded
        /\ Redirect(nav[t], answer[t]) = nav[t]
    BY <1>1, <1>2 DEF TabInv, TabTypes, AnswerFits
  <2>3. /\ nav[t] \in NeedsUser => answer[t].user # None
        /\ nav[t] \in ClientPages => answer[t].user \notin Merchants
        /\ nav[t] \in MerchantPages => answer[t].user \in Merchants
    BY <1>1, <2>2, RedirectProperties
  <2>4. TabInv(t)'
    BY <2>1, <2>2, <2>3 DEF TabInv, TabTypes, AnswerFits, PageFits, UserData
  <2> QED BY <1>1, <2>1, <2>4, OneTab
<1> QED BY <1>3, <1>4 DEF Arrive

\* A refetch that finds nobody breaks a page that needs somebody; one that finds
\* somebody moves on.
LEMMA RefetchFits ==
    ASSUME PagesInv, ServerTypeOK, NEW t \in Tabs, Refetched(t)
    PROVE  PagesInv'
<1> DEFINE c == cached'[t]
<1>1. /\ cached' = [cached EXCEPT ![t] = IF Serving THEN Me(t) ELSE @]
      /\ IF c.user # None THEN GoTo(t, Home(c)) ELSE UNCHANGED <<nav, answer>>
      /\ page' = [page EXCEPT ![t] = IF @ \in NeedsUser /\ c = Nobody THEN "broken" ELSE @]
      /\ UNCHANGED onboarded
  BY DEF Refetched, server
<1>2. TabInv(t) /\ Functions
  BY DEF PagesInv
<1>3. c = IF Serving THEN Me(t) ELSE cached[t]
  BY <1>1, <1>2 DEF Functions
<1>4. c \in UserData
  BY <1>2, <1>3, MeProperties DEF PagesInv, TabInv, TabTypes
<1>5. page'[t] = IF page[t] \in NeedsUser /\ c = Nobody THEN "broken" ELSE page[t]
  BY <1>1, <1>2 DEF Functions
<1>6. page'[t] \in NeedsUser => c.user # None
  <2>1. SUFFICES ASSUME page'[t] \in NeedsUser, c.user = None PROVE FALSE
    OBVIOUS
  <2>2. page[t] \in NeedsUser /\ c # Nobody
    BY <1>5, <2>1 DEF NeedsUser
  <2>3. CASE Serving
    BY <1>3, <2>1, <2>2, <2>3, MeProperties DEF PagesInv
  <2>4. CASE ~Serving
    BY <1>2, <1>3, <2>1, <2>2, <2>4 DEF TabInv, PageFits
  <2> QED BY <2>3, <2>4
<1>7. Functions' /\ OthersStay(t)
  BY <1>1, <1>2 DEF Functions, OthersStay, GoTo
<1>8. page'[t] \in {page[t], "broken"}
  BY <1>5
<1> HIDE DEF c
<1>9. CASE c.user # None
  <2>1. Home(c) \in Routes
    BY DEF Home, Routes, ClientPages, MerchantPages, NeedsUser
  <2>2. GoTo(t, Home(c)) /\ nav'[t] = Home(c) /\ answer'[t] = NoData
    BY <1>1, <1>2, <1>9 DEF GoTo, Functions
  <2>3. TabTypes(t)'
    BY <1>2, <1>4, <1>8, <2>1, <2>2 DEF TabInv, TabTypes, UserData, c
  <2> QED BY <1>1, <1>6, <1>7, <2>1, <2>2, <2>3, OnTheWay DEF c
<1>10. CASE c.user = None
  <2>1. UNCHANGED <<nav, answer>>
    BY <1>1, <1>10
  <2>2. TabTypes(t)' /\ AnswerFits(t)'
    BY <1>2, <1>4, <1>8, <2>1 DEF TabInv, TabTypes, AnswerFits, c
  <2>3. PageFits(t)'
    BY <1>6, <1>10, NoneIsNoPage DEF PageFits, c
  <2> QED BY <1>1, <1>7, <2>2, <2>3, OneTab DEF TabInv
<1> QED BY <1>9, <1>10

\* A user who is onboarded goes home, and one who signs out to the landing page.
LEMMA EndFits ==
    ASSUME PagesInv, ServerTypeOK, Waiting, NEW t \in Tabs, Onboarded(t) \/ SignedOut(t)
    PROVE  PagesInv'
<1>2. TabInv(t) /\ Functions
  BY DEF PagesInv
<1>3. CASE Onboarded(t)
  <2> DEFINE u == [user |-> post[cookie[t]].user, onboarded |-> TRUE]
  <2>1. /\ UNCHANGED page /\ UNCHANGED onboarded
        /\ \/ cached' = [cached EXCEPT ![t] = u] /\ GoTo(t, Home(u))
           \/ UNCHANGED <<cached, nav, answer>>
    BY <1>3 DEF Onboarded, MarkSession
  <2>2. post[cookie[t]] \in Post
    BY <1>3 DEF Onboarded, MarkSession, Waiting, ServerTypeOK
  <2>3. u \in UserData /\ u.user # None /\ Home(u) \in Routes
    BY <2>2, NoneIsNoPage DEF Post, UserData, Home, Routes, ClientPages, MerchantPages,
                              NeedsUser
  <2> HIDE DEF u
  <2>4. CASE cached' = [cached EXCEPT ![t] = u] /\ GoTo(t, Home(u))
    <3>1. /\ Functions' /\ OthersStay(t) /\ cached'[t] = u /\ page'[t] = page[t]
          /\ nav'[t] = Home(u) /\ answer'[t] = NoData
      BY <1>2, <2>1, <2>4 DEF Functions, OthersStay, GoTo
    <3>2. TabTypes(t)'
      BY <1>2, <2>3, <3>1 DEF TabInv, TabTypes, UserData
    <3> QED BY <2>1, <2>3, <2>4, <3>1, <3>2, OnTheWay
  <2>5. CASE UNCHANGED <<cached, nav, answer>>
    BY <2>1, <2>5, NoTab
  <2> QED BY <2>1, <2>4, <2>5
<1>4. CASE SignedOut(t)
  <2>1. GoTo(t, "landing") /\ UNCHANGED <<page, cached>> /\ UNCHANGED onboarded
    BY <1>4 DEF SignedOut, SignOut
  <2>2. /\ Functions' /\ OthersStay(t) /\ cached'[t] = cached[t] /\ page'[t] = page[t]
        /\ nav'[t] = "landing" /\ answer'[t] = NoData /\ "landing" \in Routes
    BY <1>2, <2>1 DEF Functions, OthersStay, GoTo, Routes
  <2>3. TabTypes(t)' /\ (page'[t] \in NeedsUser => cached'[t].user # None)
    BY <1>2, <2>2 DEF TabInv, TabTypes, PageFits, UserData
  <2> QED BY <2>1, <2>2, <2>3, OnTheWay
<1> QED BY <1>3, <1>4

LEMMA InitPages == WebInit => PagesInv
<1> SUFFICES ASSUME WebInit PROVE PagesInv
  OBVIOUS
<1>1. Functions /\ Merchants \subseteq onboarded
  BY DEF WebInit, ServerInit, Functions
<1>2. ASSUME NEW t \in Tabs PROVE TabInv(t)
  <2>1. page[t] = "landing" /\ cached[t] = Nobody /\ nav[t] = None /\ answer[t] = NoData
    BY DEF WebInit
  <2> QED BY <2>1 DEF TabInv, TabTypes, AnswerFits, PageFits, UserData, Routes, ClientPages,
                      MerchantPages, NeedsUser
<1> QED BY <1>1, <1>2 DEF PagesInv

LEMMA PagesStep == Inv /\ Waiting /\ PagesInv /\ [WebNext]_vars => PagesInv'
<1> SUFFICES ASSUME Inv, Waiting, PagesInv, [WebNext]_vars PROVE PagesInv'
  OBVIOUS
<1>1. ServerTypeOK /\ onboarded \subseteq onboarded'
  BY WebStep, OnboardedGrows DEF Inv
<1>2. CASE Elsewhere \/ UNCHANGED vars
  BY <1>1, <1>2, NoTab DEF Elsewhere, browser, vars
<1>3. ASSUME NEW t \in Tabs,
             \/ ClickSignIn(t) \/ OpenGoogle(t) \/ Message(t) \/ ClosePopup(t)
             \/ \E u \in Users : PickAccount(t, u)
             \/ \E i \in Ids : Accept(t, i)
             \/ SubmitOnboard(t) \/ OnboardFailed(t) \/ AskSignOut(t) \/ SignOutFailed(t)
      PROVE  PagesInv'
  <2>1. UNCHANGED <<page, cached, nav, answer>>
    BY <1>3 DEF ClickSignIn, OpenGoogle, Message, ClosePopup, PickAccount, Accept,
                SubmitOnboard, OnboardFailed, AskSignOut, SignOutFailed, browser
  <2> QED BY <1>1, <2>1, NoTab
<1>4. ASSUME NEW t \in Tabs, NEW p \in Routes, Follow(t, p) \/ Visit(t, p)
      PROVE  PagesInv'
  BY <1>4, FollowFits, VisitFits
<1>5. ASSUME NEW t \in Tabs, Loading(t) PROVE PagesInv'
  BY <1>1, <1>5, ServeFits, ErrorFits, ArriveFits DEF Loading
<1>6. ASSUME NEW t \in Tabs, Refetched(t) \/ Onboarded(t) \/ SignedOut(t) PROVE PagesInv'
  BY <1>1, <1>6, RefetchFits, EndFits
<1> QED BY <1>2, <1>3, <1>4, <1>5, <1>6 DEF WebNext

THEOREM PagesHold == WebSpec => []PagesInv
<1>1. WebSpec => []Inv
  BY WebImplementsServer, Invariance, PTL
<1>2. WebSpec => []Waiting
  BY InitWaiting, WebStep, PTL DEF WebSpec
<1> QED BY <1>1, <1>2, InitPages, PagesStep, PTL DEF WebSpec

\* Whatever the tabs do and whenever sessions end, a page that needs a user has
\* one, a client's page is not left standing for a merchant, nor a merchant's for
\* a client (getServerSideProps and useUserContext).
THEOREM PagesFitTheirUser == WebSpec => []RightPage
<1>1. PagesInv => RightPage
  BY DEF PagesInv, TabInv, PageFits, RightPage
<1> QED BY <1>1, PagesHold, PTL
-----------------------------------------------------------------------------
(* Where redirects lead.                                                   *)

\* How many redirects are before a tab that goes to p, while its user is u.
Away(p, u) ==
    IF Redirect(p, u) = p THEN 0
    ELSE IF Redirect(Redirect(p, u), u) = Redirect(p, u) THEN 1
    ELSE 2

\* A router that turns to another page while the tab waits for one, and not
\* because a sign-in, an onboarding or a sign-out has come to its end, has one
\* redirect less before it.
RedirectsComeNearer ==
    [][\A t \in Tabs :
          /\ nav[t] # None /\ nav'[t] \notin {None, nav[t]}
          /\ refetch'[t] = refetch[t] /\ request'[t] = request[t]
          => Away(nav[t], Me(t))' < Away(nav[t], Me(t))]_vars

\* The pages turn nobody round in a circle: whoever the user is, whatever their
\* row says, the second page they are sent to keeps them.
LEMMA SecondPageKeeps ==
    ASSUME NEW p \in Routes, NEW u \in UserData
    PROVE  LET q == Redirect(p, u)
               r == Redirect(q, u)
           IN  Redirect(r, u) = r
<1> DEFINE q == Redirect(p, u)
           r == Redirect(q, u)
<1> USE DEF Home
<1>1. /\ Redirect("landing", u) = FromLanding(u)
      /\ Redirect("onboard", u) = FromOnboard(u)
      /\ Redirect("glance", u) = FromGlance(u)
      /\ Redirect("settings", u) = FromSettings(u)
      /\ Redirect("order", u) = FromOrder(u)
      /\ Redirect("detail", u) = FromDetail(u)
      /\ Redirect("dashboard", u) = FromDashboard(u)
      /\ Redirect("management", u) = FromManagement(u)
  BY DEF Redirect
<1>2. p \in {"landing", "onboard", "glance", "settings", "order", "detail",
             "dashboard", "management"}
  BY DEF Routes, ClientPages, MerchantPages, NeedsUser
<1> HIDE DEF Redirect
<1> QED BY <1>1, <1>2 DEF FromLanding, FromOnboard, FromGlance, FromSettings, FromOrder,
                       FromDetail, FromDashboard, FromManagement, ForClients

LEMMA RedirectLowers ==
    ASSUME NEW p \in Routes, NEW u \in UserData, Redirect(p, u) # p
    PROVE  Away(Redirect(p, u), u) < Away(p, u)
BY SecondPageKeeps DEF Away

\* The button's two variables keep their types.
ButtonTypes ==
    /\ popup   \in [Tabs -> {"closed", "open", "accepted"}]
    /\ refetch \in [Tabs -> BOOLEAN]

LEMMA ButtonStep == ButtonTypes /\ [WebNext]_vars => ButtonTypes'
<1> SUFFICES ASSUME ButtonTypes, [WebNext]_vars PROVE ButtonTypes'
  OBVIOUS
<1> USE DEF ButtonTypes
<1>1. CASE Elsewhere \/ UNCHANGED vars
  BY <1>1 DEF Elsewhere, browser, vars
<1>2. ASSUME NEW t \in Tabs, NEW p \in Routes, Follow(t, p) \/ Visit(t, p)
      PROVE  ButtonTypes'
  BY <1>2 DEF Follow, Visit, Forget
<1>3. ASSUME NEW t \in Tabs, Loading(t) PROVE ButtonTypes'
  BY <1>3 DEF Loading, ServeRedirect, ServeProps, ServeError, Arrive, Forget
<1>4. ASSUME NEW t \in Tabs,
             ClickSignIn(t) \/ OpenGoogle(t) \/ Message(t) \/ ClosePopup(t) \/ Refetched(t)
      PROVE  ButtonTypes'
  BY <1>4 DEF ClickSignIn, OpenGoogle, Message, ClosePopup, Refetched, browser
<1>5. ASSUME NEW t \in Tabs, NEW i \in Ids, Accept(t, i) PROVE ButtonTypes'
  BY <1>5 DEF Accept
<1>6. ASSUME NEW t \in Tabs,
             \/ \E u \in Users : PickAccount(t, u)
             \/ SubmitOnboard(t) \/ Onboarded(t) \/ OnboardFailed(t)
             \/ AskSignOut(t) \/ SignedOut(t) \/ SignOutFailed(t)
      PROVE  ButtonTypes'
  BY <1>6 DEF PickAccount, SubmitOnboard, Onboarded, OnboardFailed, AskSignOut, SignedOut,
     SignOutFailed, browser
<1> QED BY <1>1, <1>2, <1>3, <1>4, <1>5, <1>6 DEF WebNext

\* Where a router that waits may turn.
LEMMA TurnsAreRedirects ==
    ASSUME PagesInv, Waiting, ButtonTypes, [WebNext]_vars, NEW t \in Tabs,
           nav[t] # None, nav'[t] \notin {None, nav[t]},
           refetch'[t] = refetch[t], request'[t] = request[t]
    PROVE  ServeRedirect(t)
<1>1. nav = [x \in Tabs |-> nav[x]] /\ nav'[t] # nav[t]
  BY DEF PagesInv, Functions
<1>2. ~Elsewhere /\ ~UNCHANGED vars
  BY <1>1 DEF Elsewhere, browser, vars
<1>3. ASSUME NEW x \in Tabs PROVE
        /\ ~ClickSignIn(x) /\ ~OpenGoogle(x) /\ ~Message(x) /\ ~ClosePopup(x)
        /\ ~(\E u \in Users : PickAccount(x, u))
        /\ ~(\E i \in Ids : Accept(x, i))
        /\ ~SubmitOnboard(x) /\ ~OnboardFailed(x) /\ ~AskSignOut(x) /\ ~SignOutFailed(x)
        /\ ~ServeProps(x)
  BY <1>1 DEF ClickSignIn, OpenGoogle, Message, ClosePopup, PickAccount, Accept,
     SubmitOnboard, OnboardFailed, AskSignOut, SignOutFailed, ServeProps, browser
<1>4. ASSUME NEW x \in Tabs, NEW p \in Routes, Follow(x, p) \/ Visit(x, p)
      PROVE  FALSE
  <2>1. nav[x] = None /\ nav' = [nav EXCEPT ![x] = p]
    BY <1>4 DEF Follow, Visit, GoTo
  <2> QED BY <1>1, <2>1
<1>5. ASSUME NEW x \in Tabs, ServeError(x) \/ Arrive(x)
      PROVE  FALSE
  <2>1. nav' = nav \/ nav' = [nav EXCEPT ![x] = None]
    BY <1>5 DEF ServeError, Arrive
  <2> QED BY <1>1, <2>1
<1>6. ASSUME NEW x \in Tabs, ServeRedirect(x)
      PROVE  x = t
  <2>1. nav' = [nav EXCEPT ![x] = Redirect(nav[x], Me(x))]
    BY <1>6 DEF ServeRedirect
  <2> QED BY <1>1, <2>1
<1>7. ASSUME NEW x \in Tabs, Refetched(x)
      PROVE  FALSE
  <2>1. refetch[x] /\ refetch' = [refetch EXCEPT ![x] = FALSE]
    BY <1>7 DEF Refetched
  <2>2. x # t
    BY <2>1 DEF ButtonTypes
  <2>3. nav' = [nav EXCEPT ![x] = Home(cached'[x])] \/ nav' = nav
    BY <1>7 DEF Refetched, GoTo
  <2> QED BY <1>1, <2>2, <2>3
<1>8. ASSUME NEW x \in Tabs, Onboarded(x) \/ SignedOut(x)
      PROVE  FALSE
  <2>1. request[x] # "none" /\ request' = [request EXCEPT ![x] = "none"]
    BY <1>8 DEF Onboarded, SignedOut
  <2>2. x # t
    BY <2>1 DEF Waiting
  <2>3. nav' = nav \/ \E p : nav' = [nav EXCEPT ![x] = p]
    BY <1>8 DEF Onboarded, SignedOut, GoTo
  <2> QED BY <1>1, <2>2, <2>3
<1> QED BY <1>2, <1>3, <1>4, <1>5, <1>6, <1>7, <1>8 DEF WebNext, Loading

\* A redirect leaves the user as it was.
LEMMA NearerStep ==
    ASSUME ServerTypeOK, PagesInv, NEW t \in Tabs, nav[t] # None, ServeRedirect(t)
    PROVE  Away(nav[t], Me(t))' < Away(nav[t], Me(t))
<1>1. nav[t] \in Routes /\ Me(t) \in UserData
  BY MeProperties DEF PagesInv, TabInv, TabTypes
<1>2. /\ UNCHANGED <<server, cookie>> /\ Redirect(nav[t], Me(t)) # nav[t]
      /\ nav' = [nav EXCEPT ![t] = Redirect(nav[t], Me(t))]
  BY DEF ServeRedirect
<1>3. Me(t)' = Me(t)
  BY <1>2 DEF Me, Live, server
<1> DEFINE u == Me(t)
<1> HIDE DEF u
<1>4. nav'[t] = Redirect(nav[t], u)
  BY <1>2 DEF PagesInv, Functions, u
<1>5. Away(nav[t], Me(t))' = Away(Redirect(nav[t], u), u)
  BY <1>3, <1>4 DEF Away, Redirect, u
<1> QED BY <1>1, <1>2, <1>5, RedirectLowers DEF u

\* The tabs and their server are what they are declared to be.
THEOREM WebTyped == WebSpec => []TypeOK
<1>1. WebSpec => []Inv
  BY WebImplementsServer, Invariance, PTL
<1>2. WebSpec => []Waiting
  BY InitWaiting, WebStep, PTL DEF WebSpec
<1>3. WebInit => ButtonTypes
  BY DEF WebInit, ButtonTypes
<1>4. WebSpec => []ButtonTypes
  BY <1>3, ButtonStep, PTL DEF WebSpec
<1>5. Inv /\ Waiting /\ ButtonTypes /\ PagesInv => TypeOK
  BY DEF Inv, Waiting, ButtonTypes, PagesInv, Functions, TabInv, TabTypes, TypeOK
<1> QED BY <1>1, <1>2, <1>4, <1>5, PagesHold, PTL

\* However sessions and rows change between the redirects of getServerSideProps,
\* each brings the tab nearer to a page that keeps its user, and from none are
\* there more than two: only a change of the user, or a sign-in, an onboarding or a
\* sign-out that ends, can make the way longer again.
THEOREM RedirectsNear == WebSpec => RedirectsComeNearer
<1>1. WebSpec => []TypeOK /\ []PagesInv
  BY WebTyped, PagesHold, PTL
<1>2. WebSpec => []Waiting
  BY InitWaiting, WebStep, PTL DEF WebSpec
<1>3. TypeOK /\ PagesInv /\ Waiting /\ [WebNext]_vars =>
        [\A t \in Tabs :
            /\ nav[t] # None /\ nav'[t] \notin {None, nav[t]}
            /\ refetch'[t] = refetch[t] /\ request'[t] = request[t]
            => Away(nav[t], Me(t))' < Away(nav[t], Me(t))]_vars
  BY TurnsAreRedirects, NearerStep DEF TypeOK, ButtonTypes
<1> QED BY <1>1, <1>2, <1>3, PTL DEF WebSpec, RedirectsComeNearer
=============================================================================
