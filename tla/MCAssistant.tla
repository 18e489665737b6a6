----------------------------- MODULE MCAssistant -----------------------------
(***************************************************************************)
(* A small instance of Assistant for TLC.                                  *)
(***************************************************************************)
EXTENDS Assistant, TLC

Symmetry == Permutations(Calls) \cup Permutations(Previews) \cup Permutations(Sessions)
            \cup Permutations(Contents)
=============================================================================
