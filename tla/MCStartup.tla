------------------------------ MODULE MCStartup ------------------------------
(***************************************************************************)
(* A small instance of Startup for TLC.  Items are interchangeable.        *)
(***************************************************************************)
EXTENDS Startup, TLC

Symmetry == Permutations(Items)
=============================================================================
