------------------------------ MODULE DraftBook ------------------------------
(***************************************************************************)
(* What the program promises for assistant drafts (CHANGELOG.md:41,        *)
(* po.go:230): "concurrent drafts cannot overwrite records".  Each draft   *)
(* takes a number nobody has, is stored with lines that may be bought at   *)
(* that moment, awaits approval, and is changed afterwards only in status. *)
(***************************************************************************)
EXTENDS Integers

CONSTANTS Items, Statuses
VARIABLES item, po

Clean == [buy |-> TRUE, avail |-> TRUE, pending |-> FALSE]

Init == item = [i \in Items |-> Clean] /\ DOMAIN po = {}

Draft ==
    /\ \E n \in (DOMAIN po') \ DOMAIN po :
          /\ DOMAIN po' = DOMAIN po \cup {n}
          /\ po'[n].status = "Pending Approval"
          /\ \A i \in po'[n].lines : i \in Items /\ item[i] = Clean
    /\ \A m \in DOMAIN po : po'[m] = po[m]
    /\ UNCHANGED item

Progress ==
    /\ \E n \in DOMAIN po, s \in Statuses : po' = [po EXCEPT ![n].status = s]
    /\ UNCHANGED item

Reclassify ==
    /\ \E i \in Items, b, a, p \in BOOLEAN :
          item' = [item EXCEPT ![i] = [buy |-> b, avail |-> a, pending |-> p]]
    /\ UNCHANGED po

Next == Draft \/ Progress \/ Reclassify

Spec == Init /\ [][Next]_<<item, po>>
=============================================================================
