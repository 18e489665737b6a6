------------------------------- MODULE Startup -------------------------------
(***************************************************************************)
(* Opening the database: core.Open in internal/core/db.go, with the        *)
(* migrations that touch what people maintain.  Each start tries every     *)
(* migration again; one that fails is logged and passed over; the process  *)
(* may die after any of them; and between two starts people work on what   *)
(* the last start left.                                                    *)
(*                                                                         *)
(* The database is one from before these migrations, or a new one.  A      *)
(* column that is only added is left out, unless Open looks for it or      *)
(* rebuilding direct_orders reads it; pack_qty stands for pack_uom and the *)
(* other columns of items and rfq_logs that Open looks for.                *)
(*                                                                         *)
(* Names begin with Open where Sessions has the plain one: ServerProofs    *)
(* proves about both.                                                      *)
(***************************************************************************)
EXTENDS Integers

CONSTANTS
    Items           \* stock ids

VARIABLES
    columns,        \* columns that migrations have added
    done,           \* migrations marked in settings
    item,           \* items
    audited,        \* item_anchor_audit: rows about pack_size, by item
    direct,         \* direct_orders: keyed by order_id, or by a surrogate id
    stage,          \* where the program is in Open; "down" or "up"
    chosen,         \* history: the policy a person gave each item last
    excludedThen,   \* history: the items excluded when the policy came
    hadText         \* history: the items whose pack was only ever a text

openVars == <<columns, done, item, audited, direct, stage, chosen, excludedThen, hadText>>

\* on_demand is a choice like do_not_reorder; unclassified is NULL.
Policies == {"routine", "do_not_reorder", "unclassified"}
NoPolicy == "no column"

\* text: items.pack_size, as somebody typed it once or derived from pack_qty.
Item == [exclude : BOOLEAN, policy : Policies \cup {NoPolicy},
         text : {"", "typed", "derived"}, packed : BOOLEAN]

\* The order in which Open works.
After(s) == CASE s = "superseded" -> "policy" [] s = "policy" -> "pack"
              [] s = "pack" -> "clear" [] s = "clear" -> "check" [] s = "check" -> "rebuild"
Stages == {"down", "superseded", "policy", "pack", "clear", "check", "rebuild", "up"}

OpenInit ==
    /\ columns = {} /\ done = {}
    /\ item \in [Items -> {i \in Item : i.policy = NoPolicy /\ ~i.packed /\ i.text # "derived"}]
    /\ audited = [i \in Items |-> 0]
    /\ direct \in {"by order", "by id"}
    /\ stage = "down"
    /\ chosen = [i \in Items |-> NoPolicy]
    /\ excludedThen = {}
    /\ hadText = {i \in Items : item[i].text = "typed"}

-----------------------------------------------------------------------------
(* Open *)

Start ==
    /\ stage = "down" /\ stage' = "superseded"
    /\ UNCHANGED <<columns, done, item, audited, direct, chosen, excludedThen, hadText>>

\* An ALTER that adds a column: adding it again is an error that is ignored.
AddColumn(column, at) ==
    /\ stage = at /\ stage' = After(at)
    /\ columns' = columns \cup {column}
    /\ UNCHANGED <<done, item, audited, direct, chosen, excludedThen, hadText>>
AddSuperseded == AddColumn("superseded_by_po", "superseded")
AddPack == AddColumn("pack_qty", "pack")

\* Column, backfill and marker in one transaction, unless the marker is there.
BackfilledAs(policy) == [i \in Items |->
    [item[i] EXCEPT !.policy = IF item[i].exclude THEN policy ELSE "routine"]]
BackfilledByName == BackfilledAs("excluded")
Backfilled == BackfilledAs("unclassified")
AlterThenBackfill ==
    IF "purchase_policy" \notin columns
    THEN /\ columns' = columns \cup {"purchase_policy"}
         /\ item' = [i \in Items |-> [item[i] EXCEPT !.policy = "routine"]]
         /\ excludedThen' = {i \in Items : item[i].exclude}
         /\ UNCHANGED done
    ELSE /\ item' = Backfilled /\ done' = done \cup {"policy"}
         /\ UNCHANGED <<columns, excludedThen>>
BackfillPolicy ==
    /\ item' = Backfilled
    /\ columns' = columns \cup {"purchase_policy"}
    /\ done' = done \cup {"policy"}
    /\ excludedThen' = {i \in Items : item[i].exclude}
MigratePurchasePolicy ==
    /\ stage = "policy" /\ stage' = After("policy")
    /\ IF "policy" \in done THEN UNCHANGED <<columns, done, item, excludedThen>>
                            ELSE BackfillPolicy
    /\ UNCHANGED <<audited, direct, chosen, hadText>>

\* Audited, cleared and marked in one transaction; without the column it fails.
Legacy(i) == item[i].text # "" /\ ~item[i].packed
Cleared == {i \in Items : Legacy(i)}
AuditNone(cleared) == audited
Audit(cleared) == [i \in Items |-> IF i \in cleared THEN audited[i] + 1 ELSE audited[i]]
ClearLegacyPackSize ==
    /\ stage = "clear" /\ stage' = After("clear")
    /\ IF "pack" \in done THEN UNCHANGED <<done, item, audited>>
       ELSE /\ "pack_qty" \in columns
            /\ audited' = Audit(Cleared)
            /\ item' = [i \in Items |->
                   IF i \in Cleared THEN [item[i] EXCEPT !.text = ""] ELSE item[i]]
            /\ done' = done \cup {"pack"}
    /\ UNCHANGED <<columns, direct, chosen, excludedThen, hadText>>

\* A migration fails: it is logged, and the next one is tried.
PassOver ==
    /\ stage \in {"superseded", "policy", "pack", "clear"} /\ stage' = After(stage)
    /\ UNCHANGED <<columns, done, item, audited, direct, chosen, excludedThen, hadText>>

\* Without the columns the code depends on there is no start.
Needed == {"purchase_policy", "pack_qty"}
CheckColumns ==
    /\ stage = "check"
    /\ stage' = IF Needed \subseteq columns THEN After("check") ELSE "down"
    /\ UNCHANGED <<columns, done, item, audited, direct, chosen, excludedThen, hadText>>

\* The table is rebuilt in one transaction, which reads superseded_by_po; an
\* error here ends the start.
RebuildDirectOrdersPK ==
    /\ stage = "rebuild"
    /\ IF direct = "by id" THEN stage' = "up" /\ UNCHANGED direct
       ELSE IF "superseded_by_po" \in columns THEN stage' = "up" /\ direct' = "by id"
            ELSE stage' = "down" /\ UNCHANGED direct
    /\ UNCHANGED <<columns, done, item, audited, chosen, excludedThen, hadText>>

\* The process ends, at any moment.
Stop ==
    /\ stage # "down" /\ stage' = "down"
    /\ UNCHANGED <<columns, done, item, audited, direct, chosen, excludedThen, hadText>>

-----------------------------------------------------------------------------
(* What people do while the program runs: UpdateAnchorsAs *)

EditPolicy(i, p) ==
    /\ stage = "up"
    /\ item' = [item EXCEPT ![i].policy = p]
    /\ chosen' = [chosen EXCEPT ![i] = p]
    /\ UNCHANGED <<columns, done, audited, direct, stage, excludedThen, hadText>>

EditExclude(i) ==
    /\ stage = "up"
    /\ item' = [item EXCEPT ![i].exclude = ~@]
    /\ UNCHANGED <<columns, done, audited, direct, stage, chosen, excludedThen, hadText>>

\* pack_qty and pack_uom are set or cleared together, and pack_size follows.
EditPack(i) ==
    /\ stage = "up"
    /\ item' = [item EXCEPT ![i].packed = ~@, ![i].text = IF item[i].packed THEN "" ELSE "derived"]
    /\ hadText' = hadText \ {i}
    /\ UNCHANGED <<columns, done, audited, direct, stage, chosen, excludedThen>>

OpenNext ==
    \/ Start \/ Stop
    \/ AddSuperseded \/ MigratePurchasePolicy \/ AddPack \/ ClearLegacyPackSize \/ PassOver
    \/ CheckColumns \/ RebuildDirectOrdersPK
    \/ \E i \in Items : EditExclude(i) \/ EditPack(i) \/ \E p \in Policies : EditPolicy(i, p)

OpenSpec == OpenInit /\ [][OpenNext]_openVars

-----------------------------------------------------------------------------
(* Properties *)

\* Every variable keeps its shape.
OpenTypeOK ==
    /\ columns \subseteq {"superseded_by_po", "purchase_policy", "pack_qty"}
    /\ done \subseteq {"policy", "pack"}
    /\ item \in [Items -> Item]
    /\ audited \in [Items -> Nat]
    /\ direct \in {"by order", "by id"} /\ stage \in Stages
    /\ chosen \in [Items -> Policies \cup {NoPolicy}]
    /\ excludedThen \subseteq Items /\ hadText \subseteq Items

\* Whatever starts failed or died, and whatever was excluded since: an item has the
\* policy a person gave it last or, if nobody did, the one the migration owed it.
PolicyStands ==
    "purchase_policy" \in columns =>
        \A i \in Items :
            item[i].policy = (IF chosen[i] # NoPolicy THEN chosen[i]
                              ELSE IF i \in excludedThen THEN "unclassified" ELSE "routine")

\* No pack size that somebody typed is lost: until a person replaces it, it is still
\* there or it was written to the audit, once.
TypedPackKept ==
    \A i \in hadText :
        \/ item[i].text = "typed" /\ audited[i] = 0
        \/ item[i].text = "" /\ audited[i] = 1

\* Once the texts are cleared, pack_size is only ever derived from pack_qty; and a
\* pack that a person entered while that was still due is not cleared with them.
PackSizeDerived ==
    \A i \in Items :
        /\ item[i].packed => item[i].text = "derived"
        /\ "pack" \in done /\ ~item[i].packed => item[i].text = ""

\* The program serves nobody from a database that lacks a column the code depends on,
\* or whose direct orders could hold one line each.
ServesMigrated ==
    stage = "up" => /\ {"purchase_policy", "pack_qty"} \subseteq columns
                    /\ direct = "by id"
=============================================================================
