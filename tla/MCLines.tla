------------------------------- MODULE MCLines -------------------------------
(***************************************************************************)
(* A small instance of Lines for TLC.  Handlers, names and stock ids are   *)
(* interchangeable; the sets below treat all of them alike.                *)
(***************************************************************************)
EXTENDS Lines, TLC

CONSTANTS n1, n2, s1, s2

NamesUsed == {n1, n2}
StocksUsed == {s1, s2}

\* A person adds a line under a name nobody has linked yet.
Unlinked == [name : NamesUsed, stock : {None}]

\* A file's row holds two lines of different names: two short ones, of which one is
\* linked, or a short one and a long one whose link is under stock_id alone.
Pairs == {<<n1, n2>>, <<n2, n1>>}
Short(n, s) == [name |-> n, id |-> s, stock |-> None, long |-> FALSE]
Long(n, s) == [name |-> n, id |-> None, stock |-> s, long |-> TRUE]
FileRows ==
    {<<Short(p[1], s), Short(p[2], None)>> : p \in Pairs, s \in StocksUsed}
    \cup {<<Short(p[1], None), Long(p[2], s)>> : p \in Pairs, s \in StocksUsed}

Symmetry == Permutations(Handlers) \cup Permutations(NamesUsed) \cup Permutations(StocksUsed)
=============================================================================
