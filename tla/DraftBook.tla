------------------------------ MODULE DraftBook ------------------------------
(***************************************************************************)
(* What the draft store and the handlers on it promise to the users: an    *)
(* id is given to one draft, a file is bound to one draft, and a draft     *)
(* leaves at once and for good.  It is dropped, or some of its files are   *)
(* built into an order of its name, which is placed or lost.               *)
(*                                                                         *)
(* There are no handlers, locks or clock here.  Module DraftOrders, where  *)
(* several handlers, the cleaner and restarts interleave await by await,   *)
(* implements it.                                                          *)
(***************************************************************************)
EXTENDS FiniteSets, Naturals

CONSTANTS Users, DraftIds, FileIds,
          MaxFileLimit  \* MAX_FILE_LIMIT

\* Drafts and orders are [id, owner, files], the files being a set.
VARIABLES spent,   \* ids that no new draft gets any more
          filed,   \* files that are not bound any more to a further draft
          open,    \* the drafts
          built,   \* orders that have left the store and are not in the database
          placed   \* orders in the database

bookVars == <<spent, filed, open, built, placed>>

Init == spent = {} /\ filed = {} /\ open = {} /\ built = {} /\ placed = {}

\* A user without a draft gets one.
Open(u, i) ==
    /\ i \notin spent /\ \A d \in open : d.owner # u
    /\ open' = open \cup {[id |-> i, owner |-> u, files |-> {}]}
    /\ spent' = spent \cup {i}
    /\ UNCHANGED <<filed, built, placed>>

\* Ids and files come to nothing: the request for them failed or lost a race.
Retire ==
    \E I \in SUBSET DraftIds, F \in SUBSET FileIds :
        spent' = spent \cup I /\ filed' = filed \cup F

Waste == UNCHANGED <<open, built, placed>> /\ Retire

Edit(d, files) == open' = (open \ {d}) \cup {[d EXCEPT !.files = files]}

Bind(d, f) ==
    /\ f \notin filed /\ Cardinality(d.files) < MaxFileLimit
    /\ filed' = filed \cup {f}
    /\ Edit(d, d.files \cup {f})
    /\ UNCHANGED <<spent, built, placed>>

\* The user removes a file, or a build that fails takes some out.
Shrink(d, F) ==
    /\ Edit(d, F)
    /\ UNCHANGED <<spent, filed, built, placed>>

\* The user discards a draft, or its time is over.
Drop(d) ==
    /\ open' = open \ {d}
    /\ UNCHANGED <<spent, filed, built, placed>>

\* The draft becomes an order of some of its files, and is gone.
Build(d, F) ==
    /\ F # {}
    /\ open' = open \ {d}
    /\ built' = built \cup {[d EXCEPT !.files = F]}
    /\ UNCHANGED <<spent, filed, placed>>

\* An order that was built reaches the database, or does not.
Place(o) ==
    /\ built' = built \ {o} /\ placed' = placed \cup {o}
    /\ UNCHANGED <<spent, filed, open>>

Lose(o) ==
    /\ built' = built \ {o}
    /\ UNCHANGED <<spent, filed, open, placed>>

\* The server starts again: what was in memory is gone, but no id comes back.
Restart == open' = {} /\ built' = {} /\ UNCHANGED placed /\ Retire

Next ==
    \/ Waste
    \/ \E u \in Users, i \in DraftIds : Open(u, i)
    \/ \E d \in open : \/ \E f \in FileIds : Bind(d, f)
                       \/ \E F \in SUBSET d.files : Shrink(d, F) \/ Build(d, F)
                       \/ Drop(d)
    \/ \E o \in built : Place(o) \/ Lose(o)
    \/ Restart

Spec == Init /\ [][Next]_bookVars
-----------------------------------------------------------------------------
(* What follows from this for users.                                       *)

Held == open \cup built \cup placed

\* A user has one draft at a time, and an id or a file is of one draft or order: what
\* was built is not open, what was placed is not to be placed again (drafts.rs keeps
\* drafts by user, and build takes the entry out).
OneHolder ==
    /\ \A d, e \in open : d.owner = e.owner => d = e
    /\ \A d, e \in Held : d.id = e.id \/ d.files \cap e.files # {} => d = e
    /\ open \cap built = {} /\ open \cap placed = {} /\ built \cap placed = {}

\* A draft that has left does not come back, nor does one change hands
\* (DraftOrderStore::insert).
NoReturn ==
    [][\A d \in open' : d.id \in spent =>
          \E e \in open : e.id = d.id /\ e.owner = d.owner]_bookVars

\* Orders stay, and a new one is an order that was built, out of a draft of its name
\* and owner and of files that were bound to it (build, post_orders_id_build).
Traceable ==
    [][/\ placed \subseteq placed' /\ placed' \ placed \subseteq built
       /\ \A o \in built' \ built : \E d \in open \ open' :
             d.id = o.id /\ d.owner = o.owner /\ o.files \subseteq d.files]_bookVars
=============================================================================
