------------------------------ MODULE MCPipeline ------------------------------
(***************************************************************************)
(* Small instances of Pipeline for TLC.  Handlers are interchangeable: only*)
(* equality is asked of them.                                              *)
(***************************************************************************)
EXTENDS Pipeline, TLC

Symmetry == Permutations(Handlers)

One == [k \in AllKinds |-> 1]
DocumentNumbers == [One EXCEPT !["direct"] = 2, !["rfq"] = 2, !["rfqdraft"] = 2]
=============================================================================
