------------------------------ MODULE MCReorder ------------------------------
(***************************************************************************)
(* Small instances of Reorder for TLC.  Handlers are interchangeable.      *)
(***************************************************************************)
EXTENDS Reorder, TLC

Now == 40

\* Usage by age: nothing but a row of next month, and a target; the oldest age that
\* counts, which the next month takes out; three buckets with an idle month and three
\* active ones, of which a report makes one a spike, and two are at a border of the
\* buckets that the next month crosses; and the same with a spike of long ago, which
\* the report makes none by moving the median.
Rows(ages, usages) == [m \in {Now - a : a \in ages} |-> usages[Now - m]]
ThreeActive(old) ==
    Rows({1, 2, 5, 6}, (1 :> 1) @@ (2 :> 0) @@ (5 :> 1) @@ (6 :> old))
Samples ==
    {[usage |-> Rows({-1}, [a \in {-1} |-> 1]), target |-> 1]} \cup
    {[usage |-> rows, target |-> 0] : rows \in
        {Rows({1, 35}, (1 :> 0) @@ (35 :> 1)), ThreeActive(1), ThreeActive(20)}}

Symmetry == Permutations(Handlers)
=============================================================================
