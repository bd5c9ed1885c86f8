------------------------------ MODULE MCOrders ------------------------------
(***************************************************************************)
(* Orders for TLC: orders, workers and prices are interchangeable. The run *)
(* that checks liveness (MCOrdersRows.cfg) uses no symmetry.               *)
(***************************************************************************)
EXTENDS Orders, TLC

Symmetry == Permutations(Orders) \cup Permutations(Workers)
                                  \cup Permutations(Prices)
=============================================================================
