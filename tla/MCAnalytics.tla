----------------------------- MODULE MCAnalytics -----------------------------
(***************************************************************************)
(* Small instances of Analytics for TLC: months of two days, of which the  *)
(* second is the first that follows invoice dates.  The handlers are       *)
(* interchangeable.                                                        *)
(***************************************************************************)
EXTENDS Analytics, TLC

Symmetry == Permutations(Handlers)
=============================================================================
