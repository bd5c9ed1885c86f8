---------------------------- MODULE OrderStatus ----------------------------
(***************************************************************************)
(* The life of a placed order as the schema and the status handler see it. *)
(* "building" exists in the enumeration of the schema but no row ever has  *)
(* it: create_new writes "reviewing".  "unplaced" stands for "no row".     *)
(***************************************************************************)
EXTENDS Integers, Sequences

\* The values of order_status that a row can hold.
Statuses == {"reviewing", "processing", "ready", "completed",
             "rejected", "cancelled"}

\* Variant for a control run: the match goes through the schema's unused value.
NextStatusBuilding == [reviewing  |-> "building",
                       processing |-> "ready",
                       ready      |-> "completed"]

\* The match in post_orders_id_status: what a merchant's "advance" turns a
\* status into.  Every other status is refused with error 4005.
NextStatus == [reviewing  |-> "processing",
               processing |-> "ready",
               ready      |-> "completed"]

Advanceable == DOMAIN NextStatus
Terminal == Statuses \ Advanceable

\* The place of each status on the way from placement to pickup; the two
\* ways out of it, rejection and cancellation, have no place.
Rank == [reviewing |-> 0, processing |-> 1, ready |-> 2, completed |-> 3]
=============================================================================
