----------------------------- MODULE MCSessions -----------------------------
(***************************************************************************)
(* Small instances of Sessions for TLC.  Handlers are interchangeable.     *)
(* PINs are compared for equality alone; a fixed one stands in idle        *)
(* requests, so they are not.                                              *)
(***************************************************************************)
EXTENDS Sessions, TLC

Symmetry == Permutations(Handlers)
=============================================================================
