-------------------------------- MODULE Stock --------------------------------
(***************************************************************************)
(* Reorder points and the item fields they depend on: RecalcROP (internal/ *)
(* movement) beside edits of items (inventory.UpdateAnchorsAs), hospital   *)
(* imports (import.upsertItem) and new movement reports.                   *)
(*                                                                         *)
(* RecalcROP reads the movements, then the items, and writes its results   *)
(* item by item: edits, imports and other recalculations come in between.  *)
(* An edit is one transaction.  One that changes several fields is as good *)
(* as one edit per field with nothing between; the same goes for the rows  *)
(* of a report.                                                            *)
(*                                                                         *)
(* usage[i] is the velocity that the movements of item i come to, a small  *)
(* number: the weighting of months, and the clock that moves them, are     *)
(* left out.                                                               *)
(***************************************************************************)
EXTENDS Integers, FiniteSets

CONSTANTS
    Handlers,       \* request goroutines that recalculate
    Items,          \* stock ids
    Units,          \* units of measure
    MaxRate,        \* bound: the highest velocity, used or overridden
    MaxROP          \* bound: the highest reorder point set by hand

ASSUME StockAssumption == MaxRate \in Nat /\ MaxROP \in Nat

VARIABLES
    item,           \* the table items, by stock id
    usage,          \* the velocity the stock_movements of an id come to
    req,            \* what each recalculation is doing
    vouched,        \* history: the unit a person entered or confirmed last
    overtaken       \* history: items written from a snapshot they had left

vars == <<item, usage, req, vouched, overtaken>>

Rates == 0..MaxRate
\* An asset is treated like a service, in-house use like a standard item.
Behaviours == {"Standard / Pack", "Unavailable", "Service"}
Blank == -1         \* velocity_override as an import without that column leaves it
Item == [behaviour : Behaviours, surgical : BOOLEAN, override : Rates \cup {Blank},
         rop : Nat, velocity : Rates, uom : Units, pending : BOOLEAN]

\* Of each item read: the velocity computed, and the reorder point found.
Result == [velocity : Rates, rop : Nat]
Request == [pc : {"idle", "items", "write"}, usage : [Items -> Rates],
            plan : [Items -> Result], todo : SUBSET Items, moved : SUBSET Items]
            \* moved: the items that changed, or failed to be written, since read
Idle == [pc |-> "idle", usage |-> [i \in Items |-> 0],
         plan |-> [i \in Items |-> [velocity |-> 0, rop |-> 0]], todo |-> {}, moved |-> {}]

-----------------------------------------------------------------------------
(* The reorder point of an item *)

Stockable(it) == ~it.surgical /\ it.behaviour \notin {"Service", "Unavailable"}

Velocity(it, used) ==
    IF ~Stockable(it) THEN 0
    ELSE IF it.override > 0 THEN it.override ELSE used

ROP(velocity) == 2 * velocity

\* A blank override is no number: the row fails to scan, and is passed over.
Readable == {i \in DOMAIN item : item[i].override # Blank}

-----------------------------------------------------------------------------
(* Steps *)

Init ==
    /\ item = [i \in {} |-> 0]
    /\ usage = [i \in Items |-> 0]
    /\ req = [h \in Handlers |-> Idle]
    /\ vouched = [i \in {} |-> 0]
    /\ overtaken = {}

\* The recalculations under way, in one of the phases pcs, learn that ids moved.
Moved(ids, pcs) ==
    req' = [h \in Handlers |->
        IF req[h].pc \in pcs
        THEN [req[h] EXCEPT !.moved = @ \cup ids] ELSE req[h]]

\* The reorder point and all that it depends on in the row are the same.
Alike(old, new) == [new EXCEPT !.uom = old.uom, !.pending = old.pending] = old

\* Row i becomes new.
Store(i, new) ==
    /\ item' = [k \in (DOMAIN item) \cup {i} |-> IF k = i THEN new ELSE item[k]]
    /\ Moved(IF i \in DOMAIN item /\ Alike(item[i], new) THEN {} ELSE {i}, {"write"})
    /\ UNCHANGED usage

-----------------------------------------------------------------------------
(* RecalcROP *)

ReadMovements(h) ==
    /\ req[h].pc = "idle"
    /\ req' = [req EXCEPT ![h].pc = "items", ![h].usage = usage]
    /\ UNCHANGED <<item, usage, vouched, overtaken>>

ReadItems(h) ==
    /\ req[h].pc = "items"
    /\ req' = [req EXCEPT ![h].pc = "write", ![h].todo = Readable,
           ![h].plan = [i \in Items |->
               IF i \in Readable
               THEN [velocity |-> Velocity(item[i], req[h].usage[i]), rop |-> item[i].rop]
               ELSE Idle.plan[i]]]
    /\ UNCHANGED <<item, usage, vouched, overtaken>>

\* The row with what was computed; an unchanged reorder point is not written.
ROPAlone(it, res) == [it EXCEPT !.rop = ROP(res.velocity)]
Written(it, res) ==
    IF ROP(res.velocity) # res.rop
    THEN [it EXCEPT !.rop = ROP(res.velocity), !.velocity = res.velocity]
    ELSE IF res.velocity > 0 THEN [it EXCEPT !.velocity = res.velocity]
    ELSE it

\* h is done with item i, and others that are writing learn if the row changed.
Tick(h, i, moved, changed) ==
    req' = [k \in Handlers |->
        IF k = h THEN [req[h] EXCEPT !.todo = @ \ {i}, !.moved = moved]
        ELSE IF changed /\ req[k].pc = "write"
        THEN [req[k] EXCEPT !.moved = @ \cup {i}] ELSE req[k]]

WriteItem(h) ==
    \E i \in req[h].todo :
        LET new == Written(item[i], req[h].plan[i])
        IN  /\ req[h].pc = "write"
            /\ item' = [item EXCEPT ![i] = new]
            /\ Tick(h, i, req[h].moved, new # item[i])
            /\ overtaken' = IF i \in req[h].moved THEN overtaken \cup {i}
                            ELSE overtaken \ {i}
            /\ UNCHANGED <<usage, vouched>>

\* The error of an UPDATE is ignored, and the loop goes on.
SkipItem(h) ==
    \E i \in req[h].todo :
        /\ req[h].pc = "write"
        /\ Tick(h, i, req[h].moved \cup {i}, FALSE)
        /\ UNCHANGED <<item, usage, vouched, overtaken>>

\* The answer, an error of a query, or the death of the process.
Leave(h) ==
    /\ req[h].pc # "idle"
    /\ req' = [req EXCEPT ![h] = Idle]
    /\ UNCHANGED <<item, usage, vouched, overtaken>>

-----------------------------------------------------------------------------
(* Edits, imports and movements *)

\* A service has no reorder point; other behaviours keep theirs.
NoROP(it) == IF it.behaviour = "Service" THEN [it EXCEPT !.rop = 0] ELSE it

AnyNumber(it) == {[it EXCEPT !.rop = r] : r \in -1..MaxROP}
Edits(it) ==
    {[it EXCEPT !.behaviour = b] : b \in Behaviours}
    \cup {[it EXCEPT !.surgical = s] : s \in BOOLEAN}
    \cup {[it EXCEPT !.override = v] : v \in Rates}
    \cup {[it EXCEPT !.rop = r] : r \in 0..MaxROP}

UpdateAnchors(i) ==
    /\ i \in DOMAIN item
    /\ \E edit \in Edits(item[i]) : Store(i, NoROP(edit))
    /\ overtaken' = overtaken \ {i}
    /\ UNCHANGED vouched

EditUnit(i) ==
    /\ i \in DOMAIN item
    /\ \E u \in Units :
          /\ Store(i, NoROP([item[i] EXCEPT !.uom = u]))
          /\ vouched' = [vouched EXCEPT ![i] = u]
    /\ overtaken' = overtaken \ {i}

ConfirmUnit(i) ==
    /\ i \in DOMAIN item /\ item[i].pending
    /\ Store(i, NoROP([item[i] EXCEPT !.pending = FALSE]))
    /\ vouched' = [vouched EXCEPT ![i] = item[i].uom]
    /\ overtaken' = overtaken \ {i}

\* The flag an import leaves: one already raised stays.
FlagOfThisImport(it, u) == u # it.uom
Flag(it, u) == it.pending \/ u # it.uom

\* upsertItem on an item it finds: no planning field changes, but the category may.
ImportKnown(i) ==
    /\ i \in DOMAIN item
    /\ \E u \in Units, s \in BOOLEAN :
          Store(i, [item[i] EXCEPT !.uom = u, !.surgical = s, !.pending = Flag(item[i], u)])
    /\ UNCHANGED <<vouched, overtaken>>

\* upsertItem on a new one: the planning fields are what the file has, or blank.
ImportNew(i) ==
    /\ i \notin DOMAIN item
    /\ \E u \in Units, s \in BOOLEAN, b \in Behaviours, v \in Rates \cup {Blank} :
          /\ Store(i, [behaviour |-> b, surgical |-> s, override |-> v, rop |-> 0,
                       velocity |-> 0, uom |-> u, pending |-> FALSE])
          /\ vouched' = [k \in (DOMAIN vouched) \cup {i} |-> IF k = i THEN u ELSE vouched[k]]
    /\ UNCHANGED overtaken

\* A month of movements replaced, by BulkSave or ImportMovements.
ReplaceMovements ==
    \E new \in [Items -> Rates] :
        /\ usage' = new
        /\ Moved({i \in Items : new[i] # usage[i]}, {"items", "write"})
        /\ UNCHANGED <<item, vouched, overtaken>>

Next ==
    \/ \E h \in Handlers : ReadMovements(h) \/ ReadItems(h) \/ WriteItem(h)
                           \/ SkipItem(h) \/ Leave(h)
    \/ \E i \in Items : UpdateAnchors(i) \/ EditUnit(i) \/ ConfirmUnit(i)
                        \/ ImportKnown(i) \/ ImportNew(i)
    \/ ReplaceMovements

Spec == Init /\ [][Next]_vars

-----------------------------------------------------------------------------
(* Properties *)

\* Every variable keeps its shape; a handler writes only rows that exist.
TypeOK ==
    /\ DOMAIN item \subseteq Items /\ item \in [DOMAIN item -> Item]
    /\ usage \in [Items -> Rates]
    /\ req \in [Handlers -> Request]
    /\ \A h \in Handlers : req[h].todo \subseteq DOMAIN item
    /\ DOMAIN vouched = DOMAIN item /\ vouched \in [DOMAIN vouched -> Units]
    /\ overtaken \subseteq DOMAIN item

\* Item i has the reorder point and velocity that its fields and movements call
\* for.  (A velocity is not reset where the reorder point already was 0.)
Exact(i) ==
    LET v == Velocity(item[i], usage[i])
    IN  /\ item[i].rop = ROP(v)
        /\ item[i].velocity = v \/ v = 0

\* RecalcROP, the comparison with the reorder point found included, leaves each
\* item it has dealt with exact, unless the item or its movements changed since
\* they were read, or the write failed.
RecalcExact ==
    \A h \in Handlers : req[h].pc = "write" =>
        \A i \in (DOMAIN item) \ (req[h].todo \cup req[h].moved) :
            item[i].override # Blank => Exact(i)

\* UpdateAnchorsAs and RecalcROP together: a service has a reorder point only
\* where a recalculation wrote what it computed before the item became one.
ServiceHasNoROP ==
    \A i \in (DOMAIN item) \ overtaken : item[i].behaviour = "Service" => item[i].rop = 0

\* upsertItem: a unit nobody entered or confirmed is flagged, which stops drafts,
\* until somebody does, however often the file is imported.
UnitChangeFlagged ==
    \A i \in DOMAIN item : item[i].uom # vouched[i] => item[i].pending
=============================================================================
