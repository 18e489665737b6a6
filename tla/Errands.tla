------------------------------- MODULE Errands -------------------------------
(***************************************************************************)
(* What becomes of the orders the assistant extension is sent for          *)
(* (guard.ts:1, index.ts:347, CHANGELOG.md:34): what is stored was         *)
(* previewed, answered to by the user and still true then, and it is stored*)
(* once.  What is said of it is so, with one exception: "Procura refused   *)
(* the PO: HTTP 200" is never true.                                        *)
(***************************************************************************)
EXTENDS Naturals

CONSTANT Previews
VARIABLES
    confirmed,  \* previews the user replied to and whose details held since
    alike,      \* previews whose lines some order has, or may have had: it was edited
    stored,     \* how many documents were stored for each preview
    answer      \* what was said of each, or "none"

vars == <<confirmed, alike, stored, answer>>

\* "treat": another order may be meant.  "refused200": "Procura refused the PO".
Answers == {"saved", "notSaved", "treat", "refused200", "unknown"}

Init ==
    /\ confirmed = {} /\ alike = {}
    /\ stored = [p \in Previews |-> 0]
    /\ answer = [p \in Previews |-> "none"]

\* People reply, and store and edit orders of their own.
World ==
    /\ confirmed \subseteq confirmed' /\ confirmed' \subseteq Previews
    /\ alike \subseteq alike' /\ alike' \subseteq Previews
    /\ UNCHANGED <<stored, answer>>

\* Possibly after an answer that leaves it open, or long after the service died.
Store ==
    /\ \E p \in confirmed :
          /\ stored[p] = 0 /\ answer[p] \notin {"notSaved", "saved", "refused200"}
          /\ stored' = [stored EXCEPT ![p] = 1]
          /\ alike \cup {p} \subseteq alike' /\ alike' \subseteq Previews
    /\ UNCHANGED <<confirmed, answer>>

Answer ==
    /\ \E p \in Previews, says \in Answers :
          /\ answer[p] = "none"
          /\ says \in {"saved", "refused200"} => stored[p] = 1
          /\ says = "notSaved" => stored[p] = 0
          /\ says \in {"saved", "treat"} => p \in alike
          /\ answer' = [answer EXCEPT ![p] = says]
    /\ UNCHANGED <<confirmed, alike, stored>>

Next == World \/ Store \/ Answer

Spec == Init /\ [][Next]_vars
=============================================================================
