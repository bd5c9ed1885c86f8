---------------------------- MODULE MCDraftOrders ----------------------------
(* Instances of DraftOrders for TLC; the run with the clock and liveness
   (MCDraftOrdersClock.cfg) uses no symmetry. *)
EXTENDS DraftOrders, TLC

\* Tasks are interchangeable, and so are users.
Symmetry == Permutations(Tasks) \cup Permutations(Users)
=============================================================================
