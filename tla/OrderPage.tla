------------------------------ MODULE OrderPage ------------------------------
(***************************************************************************)
(* The pages on which a client fills and sends an order                    *)
(* (web/pages/order/new/[stage].tsx and the components it shows), with     *)
(* the local storage that outlives them, the dialog that hangs above them, *)
(* and the server of DraftApi.                                             *)
(*                                                                         *)
(* One tab of one user.  An action is what React runs for one event: the   *)
(* handler, the state it sets, and the effects that follow from it.        *)
(* The server handles a request in a step of its own and the page takes    *)
(* the answer in another, when both may be elsewhere.                      *)
(***************************************************************************)
EXTENDS DraftApi

CONSTANTS
    Configs,    \* the ranges of a file: "none", "good" and perhaps "bad" (invalid)
    MaxRequests \* bound on the requests under way at once

Stages == {"upload", "configure", "review"}

\* A file on the page: the page's own key, whether its upload has ended, ranges.
DraftFile == [key : Keys, up : BOOLEAN, cfg : Configs]

ASSUME PageAssumption ==
    /\ {"none", "good"} \subseteq Configs /\ Configs \subseteq {"none", "bad", "good"}
    /\ MaxRequests \in Nat \ {0}
    /\ None \notin Stages \cup Answers \cup {"away"}
    /\ None \notin DraftIds \cup Seq(DraftFile)

VARIABLES
    at,       \* router.query.stage, or "away": some other page
    nav,      \* where a router.push under way leads, or None
    files,    \* draftFiles, or None while undefined
    ready,    \* readyForNextStage
    dialog,   \* the dialog that shows, or None
    storage,  \* localStorage
    requests  \* requests, and their answers, that are under way

page == <<at, nav, files, ready, dialog, storage>>
vars == <<now, draft, lastDraft, stored, orders, page, requests>>

Empty    == [stage |-> None, id |-> None, expiry |-> 0, data |-> None]

Init ==
    /\ ApiInit
    /\ at = "away" /\ nav = None
    /\ files = None /\ ready = FALSE
    /\ dialog = None
    /\ storage = Empty
    /\ requests = {}
-----------------------------------------------------------------------------
(* What the page computes.                                                 *)

\* checkIsBuildingOrder: all four keys are there and the expiry has not come.
Building == /\ storage.stage # None /\ storage.id # None /\ storage.data # None
            /\ now < storage.expiry

Mounted == at # "away"
Loading == files = None \/ storage.stage = None \/ storage.id = None
Idle    == dialog = None /\ Mounted /\ ~Loading
Showing(stage) == storage.stage = stage /\ Idle

\* Array.filter: what stands at the given places of fs, in the order of fs.
Filter(fs, places) ==
    [n \in 1..Cardinality(places) |->
        fs[CHOOSE i \in places : Cardinality({j \in places : j <= i}) = n]]

\* Variant for a control run: everything counts as uploaded.
UploadedAll(fs) == fs

\* What the save effect keeps.
Uploaded(fs) == Filter(fs, {i \in DOMAIN fs : fs[i].up})

All(fs, P(_)) == \A i \in DOMAIN fs : P(fs[i])
KeysOf(fs) == {fs[i].key : i \in DOMAIN fs}
Listed(fs) == [i \in DOMAIN fs |-> [key |-> fs[i].key, cfg |-> fs[i].cfg]]

\* Variant for a control run: once on, the button stays on.
ReadyKept(stage, fs, was) ==
    IF stage = "upload" /\ fs # <<>> /\ All(fs, LAMBDA f : f.up) THEN TRUE
    ELSE IF stage = "configure" THEN was \/ All(Uploaded(fs), LAMBDA f : f.cfg = "good")
         ELSE was

\* The effect on the files: whether the button leads on, at a stage.
Ready(stage, fs, was) ==
    IF stage = "upload" /\ fs # <<>> /\ All(fs, LAMBDA f : f.up) THEN TRUE
    ELSE IF stage = "configure"
         THEN All(Uploaded(fs), LAMBDA f : f.cfg = "good")
         ELSE was

\* A mutation is started; one that equals a request under way adds nothing.
\* `by` says who takes the answer, `answer` what it is; `until` is the end of
\* the time an answer gives, to a draft or to an upload.
Ask(reqs, op, id, key, body) ==
    /\ Cardinality(reqs) < MaxRequests
    /\ requests' = reqs \cup {[op |-> op, id |-> id, key |-> key, files |-> body,
                               by |-> "page", until |-> 0, answer |-> None]}

\* Answers under way that the page will do nothing about, which are left out: a
\* file that is refused, and what only a component that has gone waits for.
Heeded(reqs) ==
    {r \in reqs : /\ r.answer = "no" => r.op \in {"discard", "send"}
                  /\ r.by = "left" => \/ r.answer \in {None, "built"}
                                      \/ r.op = "create"
                                      \/ r.op = "send" /\ r.answer = "ok"}

Pending(op) == \E r \in requests : r.op = op /\ r.by = "page"
-----------------------------------------------------------------------------
(* Routing, and the effect of [stage].tsx on router.query.stage.           *)

\* Variant for a control run: unconfigured files are let through.
GuardUploads(stage, fs) ==
    IF stage \in {"configure", "review"} /\ (fs = <<>> \/ ~All(fs, LAMBDA f : f.up))
    THEN "upload" ELSE None

\* The effects of ConfigOrder and Review that send the user back.
Guard(stage, fs) ==
    IF stage \in {"configure", "review"} /\ (fs = <<>> \/ ~All(fs, LAMBDA f : f.up))
    THEN "upload"
    ELSE IF stage = "review" /\ ~All(fs, LAMBDA f : f.cfg # "none") THEN "configure"
    ELSE None

\* Variant for a control run: saved at the upload stage only.
SetFilesSavedOnce(fs, was, store) ==
    /\ files' = fs
    /\ ready' = Ready(store.stage, fs, was)
    /\ storage' = IF store.stage = "upload" THEN [store EXCEPT !.data = Uploaded(fs)]
                                           ELSE store
    /\ LET back == IF store.id = None THEN None ELSE Guard(store.stage, fs)
       IN  nav' = IF back = None THEN nav ELSE back

\* New files: the effect that saves what was uploaded and sets the button,
\* and the guard of the component that shows them.
SetFiles(fs, was, store) ==
    /\ files' = fs
    /\ ready' = Ready(store.stage, fs, was)
    /\ storage' = [store EXCEPT !.data = Uploaded(fs)]
    /\ LET back == IF store.id = None THEN None ELSE Guard(store.stage, fs)
       IN  nav' = IF back = None THEN nav ELSE back

\* The draft in the local storage is taken up again; without one the upload
\* stage asks for a draft and the other stages turn away.
Enter(stage, fs, was, reqs) ==
    \/ /\ Building
       /\ files' = storage.data
       /\ ready' = Ready(stage, storage.data, was)
       /\ storage' = [storage EXCEPT !.stage = stage]
       /\ nav' = Guard(stage, storage.data)
       /\ requests' = reqs
    \/ /\ ~Building
       /\ files' = fs /\ ready' = was
       /\ \/ /\ stage = "upload"
             /\ storage' = [Empty EXCEPT !.stage = stage]
             /\ Ask(reqs, "create", None, None, <<>>)
             /\ nav' = None
          \/ /\ stage # "upload"
             /\ storage' = Empty
             /\ nav' = "away"
             /\ requests' = reqs

\* The component goes, and the page that is shown instead (/glance) looks at
\* the local storage.  The dialog stays; the mutations live on, but what they
\* set in the component is gone.  (Uploads are not marked: the entry they would
\* update is not among the files that are taken up again.  Nor is a discard,
\* which sets nothing there.)
Leave ==
    /\ files' = None /\ ready' = FALSE
    /\ storage' = IF Building THEN storage ELSE Empty
    /\ nav' = None
    /\ requests' = Heeded({IF r.op \in {"bind", "put", "discard"} THEN r ELSE [r EXCEPT !.by = "left"]
                            : r \in requests})

\* The page at s is shown.  A stage change keeps the component; a push to the
\* stage that is shown changes nothing, so its effect does not run.
Go(s) ==
    /\ at' = s
    /\ \/ /\ s = at
          /\ nav' = None /\ UNCHANGED <<files, ready, storage, requests>>
       \/ /\ s # at
          /\ \/ s # "away" /\ Enter(s, files, ready, requests)
             \/ s = "away" /\ Leave
    /\ UNCHANGED <<server, dialog>>

\* A navigation the code has asked for ends.
Arrive == nav # None /\ Go(nav)

\* The tab is reloaded, or the user types the address of a stage: the browser
\* drops the requests that are under way, whether the server has handled them
\* or not.
Reload ==
    /\ \E s \in (IF Mounted THEN {at} ELSE Stages) :
          /\ at' = s
          /\ Enter(s, None, FALSE, {})
    /\ dialog' = None
    /\ UNCHANGED server

OpenFromGlance == at = "away" /\ dialog = None /\ Go("upload")

NextStage ==
    /\ ready
    /\ \/ Showing("upload") /\ Go("configure")
       \/ Showing("configure") /\ Go("review")

\* The arrow in the navigation bar, and the history of the browser, which may
\* hold every stage from orders made before.
Browse == \E s \in (Stages \cup {"away"}) \ {at} : Go(s)
-----------------------------------------------------------------------------
(* The stages.                                                             *)

Edit == UNCHANGED <<server, at, dialog>>

\* UploadFiles: a file the user drops is appended and its upload starts.
Fresh(k) ==
    /\ k \notin KeysOf(files) \cup stored \cup ToSet(draft.bound)
    /\ \A r \in requests : r.key # k

Drop(k) ==
    /\ Showing("upload") /\ Len(files) < MaxFileLimit
    /\ Fresh(k)
    /\ SetFiles(Append(files, [key |-> k, up |-> FALSE, cfg |-> "none"]), FALSE, storage)
    /\ Ask(requests, "bind", storage.id, k, <<>>)
    /\ Edit

\* A file too many only brings up a dialog.
DropTooMany ==
    /\ Showing("upload") /\ Len(files) = MaxFileLimit
    /\ dialog' = "limit"
    /\ UNCHANGED <<server, requests, at, nav, files, ready, storage>>

\* UploadFiles: the cross of an uploaded file.
Delete(k) ==
    /\ Showing("upload")
    /\ \E i \in DOMAIN files : files[i].key = k /\ files[i].up
    /\ ready' = FALSE
    /\ Ask(requests, "remove", storage.id, k, <<>>)
    /\ UNCHANGED <<nav, files, storage>>
    /\ Edit

\* ConfigOrder and FileRangeConfig: the ranges of a file change.  The first
\* range is valid; ranges are made invalid, valid or deleted afterwards.
Configure(i, c) ==
    /\ Showing("configure")
    /\ i \in DOMAIN files
    /\ c # files[i].cfg /\ (files[i].cfg = "none" => c = "good")
    /\ SetFiles([files EXCEPT ![i].cfg = c], ready, storage)
    /\ UNCHANGED requests
    /\ Edit
-----------------------------------------------------------------------------
(* The dialogs.                                                            *)

Shown(kind) == dialog = kind
SetDialog(d) == dialog' = d /\ UNCHANGED <<server, requests, at, nav, files, ready, storage>>

\* The contents of a dialog are fixed when it opens, so its "nevermind" stays
\* enabled while the request is under way.
OpenSend == ready /\ Showing("review") /\ SetDialog("send")

OpenDiscard == Idle /\ ~Pending("send") /\ SetDialog("discard")

Nevermind ==
    \/ (Shown("send") \/ Shown("discard")) /\ SetDialog(None)
    \/ Shown("limit") /\ SetDialog(None)

\* What a button of a dialog closes over: the state of the page; when the page
\* has gone, what it showed last, which is what it saved last.
Mine == IF Mounted THEN files ELSE storage.data

\* "busy" disables nothing: the user may confirm again.
Confirm(kind, body) ==
    /\ Shown(kind)
    /\ storage.id # None
    /\ Ask(requests, kind, storage.id, None, body)
    /\ UNCHANGED <<server, page>>

ConfirmSend    == Mine # None /\ Confirm("send", Listed(Mine))
ConfirmDiscard == Confirm("discard", <<>>)

\* Ten seconds before the expiry, and again whenever the page renders after.
TimerDue == /\ Mounted /\ storage.id # None /\ now >= storage.expiry - 1
            /\ ~Shown("timeout")
Timeout == TimerDue /\ SetDialog("timeout")

\* Both buttons forget the draft; the second of two pushes wins.
EndTimeout(to) ==
    /\ Shown("timeout")
    /\ dialog' = None
    /\ storage' = Empty
    /\ nav' = to
    /\ UNCHANGED <<server, requests, at, files, ready>>

BackToGlance == EndTimeout("away")
StartOver    == EndTimeout("upload")
-----------------------------------------------------------------------------
(* Answers: what the page does with the answer to its request r.           *)

Nothing == UNCHANGED <<nav, files, ready, dialog, storage>>

\* createOrderMutation: the 15 minutes count from the timestamp of the answer.
TakeCreate(r) ==
    LET store == [storage EXCEPT !.id = r.id, !.expiry = r.until] IN
    /\ r.op = "create"
    /\ IF r.by = "page"
       THEN SetFiles(<<>>, ready, store) /\ UNCHANGED dialog
       ELSE storage' = store /\ UNCHANGED <<nav, files, ready, dialog>>

\* fileUploadMutation: the upload has ended.
TakePut(r) ==
    /\ r.op = "put"
    /\ IF r.answer = "ok" /\ files # None /\ r.key \in KeysOf(files)
       THEN /\ SetFiles([i \in DOMAIN files |->
                           IF files[i].key = r.key THEN [files[i] EXCEPT !.up = TRUE]
                                                   ELSE files[i]], ready, storage)
            /\ UNCHANGED dialog
       ELSE Nothing

\* fileDeleteMutation.
TakeRemove(r) ==
    /\ r.op = "remove"
    /\ IF r.answer = "ok" /\ r.by = "page"
       THEN /\ SetFiles(Filter(files, {i \in DOMAIN files : files[i].key # r.key}), ready, storage)
            /\ UNCHANGED dialog
       ELSE Nothing

\* discardOrderMutation: the dialog closes whatever the answer, and whatever
\* draft is in the local storage by now is forgotten.
TakeDiscard(r) ==
    /\ r.op = "discard"
    /\ dialog' = None
    /\ IF r.answer = "ok" THEN storage' = Empty /\ nav' = "away"
                          ELSE UNCHANGED <<storage, nav>>
    /\ UNCHANGED <<files, ready>>

\* Variant for a control run: the draft is forgotten whatever the answer.
TakeSendSettled(r) ==
    /\ r.op = "send"
    /\ dialog' = None /\ storage' = Empty /\ nav' = "away"
    /\ UNCHANGED <<files, ready>>

\* sendOrderMutation: the dialog closes, the draft in the local storage is
\* forgotten, the order shown.
TakeSend(r) ==
    /\ r.op = "send"
    /\ IF r.answer = "ok" THEN dialog' = None /\ storage' = Empty /\ nav' = "away"
                          ELSE UNCHANGED <<dialog, storage, nav>>
    /\ UNCHANGED <<files, ready>>

Take(r) ==
    /\ r.answer \in {"ok", "no"}
    /\ \/ TakeCreate(r) \/ TakePut(r) \/ TakeRemove(r)
       \/ TakeDiscard(r) \/ TakeSend(r)
    /\ requests' = requests \ {r}
    /\ UNCHANGED <<server, at>>

\* The server goes on with a request, to its answer or to its panic.
Respond(r) ==
    /\ r.answer \in {None, "built"}
    /\ \E a \in Answers :
          /\ \/ r.answer = None /\ Handle(r, a)
             \/ r.answer = "built" /\ Place(r, a)
          /\ requests' =
                (requests \ {r}) \cup (IF a = "none" THEN {} ELSE Heeded({Reply(r, a)}))
    /\ UNCHANGED page

\* The connection drops: before the server sees the request, while its handler
\* is at work, which is then dropped at its next await, or under the answer.
Lose(r) == requests' = requests \ {r} /\ UNCHANGED <<server, page>>
-----------------------------------------------------------------------------
\* The timer of the page and the cleaner are at most one unit late.  Bound: the
\* clock runs from the first draft on, until the last one there may be is made.
Tick ==
    /\ now < MaxNow /\ lastDraft \in 1..(MaxDrafts - 1) /\ ~TimerDue /\ ~Expired
    /\ now' = now + 1
    /\ UNCHANGED <<draft, lastDraft, stored, orders, requests, page>>

User ==
    \/ OpenFromGlance \/ NextStage \/ Browse \/ Reload
    \/ \E k \in Keys : Drop(k) \/ Delete(k)
    \/ DropTooMany
    \/ \E i \in 1..MaxFileLimit, c \in Configs : Configure(i, c)
    \/ OpenSend \/ OpenDiscard \/ Nevermind \/ ConfirmSend \/ ConfirmDiscard
    \/ BackToGlance \/ StartOver

Next ==
    \/ User \/ Arrive \/ Timeout \/ Tick
    \/ \E r \in requests : Respond(r) \/ Take(r) \/ Lose(r)
    \/ ClearExpired /\ UNCHANGED <<page, requests>>

Spec == Init /\ [][Next]_vars
-----------------------------------------------------------------------------
(* Properties.                                                             *)

\* What the page and the local storage hold, at most.
TypeOK ==
    /\ at \in Stages \cup {"away"}
    /\ nav \in {None, "away", "upload", "configure"}
    /\ \A fs \in {files, storage.data} \ {None} :
          /\ Len(fs) <= MaxFileLimit
          /\ All(fs, LAMBDA f : f \in DraftFile)
    /\ ready \in BOOLEAN
    /\ dialog \in {None, "send", "discard", "timeout", "limit"}
    /\ storage.stage \in Stages \cup {None}
    /\ storage.id \in DraftIds \cup {None}
    /\ storage.expiry \in 0..(MaxNow + Lifetime)
    /\ Cardinality(requests) <= MaxRequests

\* The stages after the upload read the draft of every file they show, which a
\* file has only when its upload has ended: whatever way the user came, the page
\* shows no other file there.
NoUploadPastUpload ==
    (Mounted /\ ~Loading /\ storage.stage # "upload") => All(files, LAMBDA f : f.up)

\* A review that is not about to send the user back shows files, all uploaded
\* and with ranges, whatever way the user came there and whatever was undone
\* since.
ReviewIsComplete ==
    (Showing("review") /\ nav = None) =>
       files # <<>> /\ All(files, LAMBDA f : f.up /\ f.cfg # "none")

\* The button leads from the ranges to the review only while all are valid,
\* although drops, removals and the effect on the files set it too.
ReadyToReview == (Showing("configure") /\ ready) => All(files, LAMBDA f : f.cfg = "good")

\* A reload loses only uploads that have not ended: what the local storage holds
\* is what the page shows, late answers and answers to a page that has gone
\* included.
SavedIsShown ==
    (Mounted /\ ~Loading /\ storage.data # None) => storage.data = Uploaded(files)

\* A draft the user can return to is forgotten only when the server has none of
\* that name any more, in the dialog that tells the user that the time is up, or
\* by the late success of a request that was about another draft: the code does
\* not compare the draft an answer is about with the one it has by now.
ForgottenIsOver ==
    [][storage'.id # storage.id /\ Building =>
          \/ draft'.id # storage.id
          \/ dialog = "timeout"
          \/ \E r \in requests \ requests' :
                /\ r.op \in {"create", "discard", "send"}
                /\ r.answer = "ok"
                /\ r.id # storage.id]_vars
=============================================================================
