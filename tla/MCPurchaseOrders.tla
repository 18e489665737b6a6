-------------------------- MODULE MCPurchaseOrders --------------------------
(***************************************************************************)
(* Small instances of PurchaseOrders for TLC.  The handlers are            *)
(* interchangeable: nothing but equality is asked of them.                 *)
(***************************************************************************)
EXTENDS PurchaseOrders, TLC

Symmetry == Permutations(Handlers)
=============================================================================
