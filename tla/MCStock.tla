------------------------------- MODULE MCStock -------------------------------
(***************************************************************************)
(* A small instance of Stock for TLC.  Handlers, items and units are       *)
(* interchangeable.                                                        *)
(***************************************************************************)
EXTENDS Stock, TLC

Symmetry == Permutations(Handlers) \cup Permutations(Items) \cup Permutations(Units)
=============================================================================
