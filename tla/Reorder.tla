------------------------------- MODULE Reorder -------------------------------
(***************************************************************************)
(* What to buy: the arithmetic of movement.RecalcROP and planning.Plan for *)
(* one item, and the loop it closes.  Months of usage give a velocity and a*)
(* reorder point; the plan compares them with the recorded stock and with  *)
(* what is on order; somebody orders what the plan suggests; the goods come*)
(* and the next stock report records them.                                 *)
(*                                                                         *)
(* Each statement of these runs is atomic here as a whole: Stock models a  *)
(* recalculation step by step, Pipeline the reads of a plan.  The item is  *)
(* eligible and stockable.  Stock is counted in halves of a unit, since    *)
(* reports hold fractions; usage and orders in units.                      *)
(***************************************************************************)
EXTENDS Integers, FiniteSets, Functions

CONSTANTS
    Handlers,       \* plan pages open
    Histories,      \* what to start from: usage (out_qty + adj_out) by month, and a target
    Months,         \* months that a later report replaces
    Usages,         \* usage that a later report brings
    Start,          \* the month it is; months are numbered as year*12+month
    Overrides,      \* velocity overrides and reorder points entered by hand
    Waits,          \* how many months may pass at once
    LastMonth,      \* bound: no later month comes
    MaxShelf,       \* bound: halves of a unit on the shelf
    MaxOrder        \* bound: units ordered at once

ASSUME ReorderAssumption ==
    /\ \A past \in Histories : /\ DOMAIN past.usage \subseteq Nat
                              /\ past.usage \in [DOMAIN past.usage -> Nat]
                              /\ past.target \in Nat
    /\ Months \subseteq Nat /\ Usages \subseteq Nat /\ Overrides \subseteq Nat
    /\ Waits \subseteq Nat \ {0}
    /\ Start \in Nat \ {0} /\ LastMonth \in Nat /\ MaxShelf \in Nat \ {0} /\ MaxOrder \in Nat

VARIABLES
    usage,      \* stock_movements: out_qty + adj_out, by month with a row
    now,        \* the current month
    override,   \* items.velocity_override, 0 for none
    target,     \* items.initial_stock_target, 0 for none
    rop,        \* items.rop
    velocity,   \* twice items.velocity
    shelf,      \* halves of a unit there really are
    stock,      \* items.current_stock, as the last report had it
    onOrder,    \* units in orders under way that the plan counts
    overdue,    \* units in orders under way past their expiry, which it does not
    page,       \* the plan each handler is looking at
    byHand      \* history: rop or override edited since the last recalculation

vars == <<usage, now, override, target, rop, velocity, shelf, stock, onOrder, overdue, page, byHand>>

CeilDiv(n, d) == -((-n) \div d)
AtLeast0(n) == IF n < 0 THEN 0 ELSE n

\* Twice a velocity: a fraction, and whether the float is just above it.
Twice == [num : Nat, den : Nat \ {0}, up : BOOLEAN]
Exactly(n) == [num |-> n, den |-> 1, up |-> FALSE]

\* math.Ceil(2v - halves/2), in units.
CeilLess(v, halves) ==
    LET n == 2 * v.num - halves * v.den
        d == 2 * v.den
    IN  CeilDiv(n, d) + (IF v.up /\ n % d = 0 THEN 1 ELSE 0)

-----------------------------------------------------------------------------
(* RecalcROP: the velocity of an item from its movements *)

Ago(m) == now - m

\* The rows the query returns: 36 months back, none of the future.
Points == {m \in DOMAIN usage : Ago(m) \in 0..36}
Used(points) == {m \in points : usage[m] > 0}
\* Only the months since the first in which the item was used.
ActivePoints == {m \in Points : \E first \in Used(Points) : first <= m}

\* The k-th smallest usage among the months of ms, and twice their median.
Ranked(ms, k) == CHOOSE u \in {usage[m] : m \in ms} :
    /\ Cardinality({m \in ms : usage[m] <= u}) >= k
    /\ Cardinality({m \in ms : usage[m] < u}) < k
TwiceMedian(ms) ==
    LET n == Cardinality(ms) IN Ranked(ms, (n + 1) \div 2) + Ranked(ms, n \div 2 + 1)

\* Twice what a month contributes: three active months cap it at thrice the median.
Spike(m) == /\ Cardinality(Used(ActivePoints)) >= 3
            /\ 2 * usage[m] > 3 * TwiceMedian(Used(ActivePoints))
Uncapped(m) == 2 * usage[m]
CappedAway(m) == IF Spike(m) THEN 0 ELSE 2 * usage[m]
Capped(m) == IF Spike(m) THEN 3 * TwiceMedian(Used(ActivePoints)) ELSE 2 * usage[m]

Bucket(b) == {m \in ActivePoints : Ago(m) \in
    (CASE b = "recent" -> 0..2 [] b = "middle" -> 3..5 [] b = "old" -> 6..35)}
Weight(b) == CASE b = "recent" -> 5 [] b = "middle" -> 3 [] b = "old" -> 2
Filled == {b \in {"recent", "middle", "old"} : Bucket(b) # {}}

Count(b) == IF b \in Filled THEN Cardinality(Bucket(b)) ELSE 1
InUse(b) == IF b \in Filled THEN Weight(b) ELSE 0
Contribution == [m \in ActivePoints |-> Capped(m)]
Share(b) == InUse(b) * SumFunctionOnSet(Contribution, Bucket(b))

\* The average of the filled buckets, by weight.  The weights 0.3 and 0.2 are not
\* exact in floating point: where the result should come out even it may be a last
\* digit too large.
Weighted ==
    LET num == Share("recent") * (Count("middle") * Count("old"))
             + Share("middle") * (Count("recent") * Count("old"))
             + Share("old") * (Count("recent") * Count("middle"))
        den == (InUse("recent") + InUse("middle") + InUse("old"))
                   * (Count("recent") * Count("middle") * Count("old"))
    IN  IF Filled = {} THEN {Exactly(0)}
        ELSE {[num |-> num, den |-> den, up |-> up] :
                 up \in {FALSE} \cup (IF Filled # {"recent"} /\ num > 0 /\ (2 * num) % den = 0
                                      THEN {TRUE} ELSE {})}

Velocities == IF override > 0 THEN {Exactly(2 * override)} ELSE Weighted

\* A reorder point that stays writes no velocity of zero.
Recalculated(v) ==
    /\ rop' = CeilLess(v, 0)
    /\ velocity' = IF rop' # rop \/ v.num > 0 THEN v ELSE velocity

-----------------------------------------------------------------------------
(* Plan *)

BelowROP == rop > 0 /\ stock < 2 * rop

Incoming == 2 * onOrder     \* in halves

\* Too little history, or a human's target, leaves the quantity to a person.
Manual == override = 0 /\ (Cardinality(DOMAIN usage) <= 1 \/ target > 0)
PlanVelocity ==
    IF override > 0 THEN Exactly(2 * override)
    ELSE IF velocity.num > 0 THEN velocity ELSE Exactly(rop)

\* target - on hand - incoming, and no estimate for a manual item.
ToCover == IF Manual THEN Exactly(target) ELSE PlanVelocity
MissingOfStock(v, onHand, coming) == AtLeast0(CeilLess(v, onHand))
MissingSigned(v, onHand, coming) == CeilLess(v, onHand + coming)
MissingFloor(v, onHand, coming) ==
    AtLeast0((2 * v.num - (onHand + coming) * v.den) \div (2 * v.den))
Missing(v, onHand, coming) == AtLeast0(CeilLess(v, onHand + coming))
Suggested == IF BelowROP THEN Missing(ToCover, stock, Incoming) ELSE 0

-----------------------------------------------------------------------------
\* told (history): nothing has changed since the page was loaded, and the
\* recorded stock and the orders in flight were the real ones.
NoPage == [suggested |-> 0, told |-> FALSE]

Init ==
    /\ \E past \in Histories : usage = past.usage /\ target = past.target
    /\ now = Start
    /\ override = 0
    /\ rop = 0 /\ velocity = Exactly(0)
    /\ \E s \in 0..1 : shelf = s /\ stock = s
    /\ onOrder = 0 /\ overdue = 0
    /\ page = [h \in Handlers |-> NoPage]
    /\ byHand = FALSE

Forget == page' = [h \in Handlers |-> [page[h] EXCEPT !.told = FALSE]]

RecalcROP ==
    /\ \E v \in Velocities : Recalculated(v)
    /\ byHand' = FALSE
    /\ Forget
    /\ UNCHANGED <<usage, now, override, target, shelf, stock, onOrder, overdue>>

\* A report of month m, whichever that is: BulkSave and ImportMovements delete the
\* rows of the month and insert those of the report, which may lack the item.
\* (One that names it twice is left out.)
ReplaceMovements(m) ==
    /\ \/ \E u \in Usages :
             usage' = [x \in (DOMAIN usage) \cup {m} |-> IF x = m THEN u ELSE usage[x]]
       \/ usage' = [x \in (DOMAIN usage) \ {m} |-> usage[x]]
    /\ Forget
    /\ UNCHANGED <<now, override, target, rop, velocity, shelf, stock, onOrder, overdue, byHand>>

EditOverride(v) ==
    /\ override' = v /\ byHand' = TRUE /\ Forget
    /\ UNCHANGED <<usage, now, target, rop, velocity, shelf, stock, onOrder, overdue>>

EditROP(r) ==
    /\ rop' = r /\ byHand' = TRUE /\ Forget
    /\ UNCHANGED <<usage, now, override, target, velocity, shelf, stock, onOrder, overdue>>

\* A page of the plan is loaded.  (The bound on orders is one on the pages too: a
\* page from which nothing could be ordered shows nothing.)
BooksTell == stock = shelf /\ overdue = 0
Plan(h) ==
    /\ Suggested <= MaxOrder
    /\ page' = [page EXCEPT ![h] = [suggested |-> Suggested, told |-> BooksTell]]
    /\ UNCHANGED <<usage, now, override, target, rop, velocity, shelf, stock, onOrder,
                   overdue, byHand>>

\* MarkOrdered: the quantity comes from the page.
MarkOrdered(h) ==
    /\ page[h].suggested > 0 /\ onOrder + page[h].suggested <= MaxOrder
    /\ onOrder' = onOrder + page[h].suggested
    /\ page' = [k \in Handlers |->
           IF k = h THEN NoPage ELSE [page[k] EXCEPT !.told = FALSE]]
    /\ UNCHANGED <<usage, now, override, target, rop, velocity, shelf, stock, overdue, byHand>>

\* What is under way comes and is marked delivered; no report has it yet.
MarkDelivered ==
    /\ onOrder + overdue > 0 /\ shelf + 2 * (onOrder + overdue) <= MaxShelf
    /\ shelf' = shelf + 2 * (onOrder + overdue)
    /\ onOrder' = 0 /\ overdue' = 0
    /\ Forget
    /\ UNCHANGED <<usage, now, override, target, rop, velocity, stock, byHand>>

\* Thirty days pass over what is under way.
Expire ==
    /\ onOrder > 0 /\ overdue + onOrder <= MaxOrder
    /\ overdue' = overdue + onOrder /\ onOrder' = 0
    /\ Forget
    /\ UNCHANGED <<usage, now, override, target, rop, velocity, shelf, stock, byHand>>

\* The morning's report: ImportStock records what is there.
ImportStock ==
    /\ stock' = shelf
    /\ Forget
    /\ UNCHANGED <<usage, now, override, target, rop, velocity, shelf, onOrder, overdue, byHand>>

Consume ==
    /\ shelf > 0 /\ shelf' = shelf - 1
    /\ Forget
    /\ UNCHANGED <<usage, now, override, target, rop, velocity, stock, onOrder, overdue, byHand>>

MonthsPass(n) ==
    /\ now + n <= LastMonth /\ now' = now + n
    /\ Forget
    /\ UNCHANGED <<usage, override, target, rop, velocity, shelf, stock, onOrder, overdue, byHand>>

Next ==
    \/ RecalcROP \/ ImportStock \/ Consume \/ MarkDelivered \/ Expire
    \/ \E m \in Months : ReplaceMovements(m)
    \/ \E v \in Overrides : EditOverride(v) \/ EditROP(v)
    \/ \E h \in Handlers : Plan(h) \/ MarkOrdered(h)
    \/ \E n \in Waits : MonthsPass(n)

Spec == Init /\ [][Next]_vars

-----------------------------------------------------------------------------
(* Properties *)

\* Every variable keeps its shape.
TypeOK ==
    /\ DOMAIN usage \subseteq Nat /\ usage \in [DOMAIN usage -> Nat]
    /\ now \in Nat \ {0} /\ override \in Nat /\ target \in Nat /\ rop \in Nat
    /\ velocity \in Twice
    /\ shelf \in 0..MaxShelf /\ stock \in 0..MaxShelf
    /\ onOrder \in 0..MaxOrder /\ overdue \in 0..MaxOrder
    /\ page \in [Handlers -> [suggested : Nat, told : BOOLEAN]]
    /\ byHand \in BOOLEAN

\* v <= n/d and v >= n/d, exactly.
AtMost(v, n, d) == v.num * d <= n * v.den

\* One odd month cannot carry the velocity away: it never exceeds the busiest month
\* and, once three months were active, three times their median.  And an item used
\* in the 36 months of the buckets always gets a velocity, so that it is not lost.
VelocityWithinReason ==
    [][velocity' # velocity /\ override = 0 =>
          /\ velocity'.num > 0 => \E m \in ActivePoints : AtMost(velocity', 2 * usage[m], 1)
          /\ Cardinality(Used(ActivePoints)) >= 3 =>
                AtMost(velocity', 3 * TwiceMedian(Used(ActivePoints)), 1)
          /\ velocity'.num = 0 => \A m \in Used(Points) : Ago(m) > 35]_vars

\* A report that corrects a month upwards, one that was active already, never
\* lowers the velocity, although it may move the median and so the cap.
Compared(v, w) == v.num * w.den <= w.num * v.den
MoreUsageNeverLess ==
    [][usage' # usage /\ DOMAIN usage' = DOMAIN usage
       /\ (\A m \in DOMAIN usage :
              usage'[m] # usage[m] => usage[m] > 0 /\ usage'[m] > usage[m])
       => LET before == Weighted
              after == Weighted'
          IN  \A v \in before, w \in after : Compared(v, w)]_vars

\* Below its reorder point by a unit or more, what is on order and not overdue
\* counted, an item that a recalculation was the last to touch is never without a
\* suggestion: an order that never comes does not hide it for ever.
NeverHidden ==
    /\ ~byHand /\ ~Manual /\ BelowROP
    /\ stock + 2 * onOrder <= 2 * (rop - 1)
    => Suggested > 0

\* Ordering what a page suggests brings what there is and what is on order to two
\* months of velocity, and no more than a unit beyond.  Only an order from a page
\* that no longer held (somebody ordered, goods came, the reorder point moved), or
\* that was read while goods were neither in stock nor on order, is more or less.
Really == shelf + 2 * (onOrder + overdue)
OrdersWhatIsMissing ==
    [][\A h \in Handlers : MarkOrdered(h) /\ page[h].told =>
          /\ ToCover.den * Really' >= 2 * ToCover.num
          /\ ToCover.den * (Really' - 2) <= 2 * ToCover.num]_vars

\* The inductive invariant behind NeverHidden and OrdersWhatIsMissing.  Until
\* somebody edits them, a reorder point is two months of the velocity stored with
\* it, and of the override where there is one; and a page that still holds shows
\* what would be suggested now.
ROPTells ==
    ~byHand /\ rop > 0 =>
        /\ rop = CeilLess(velocity, 0) /\ velocity.num > 0
        /\ override > 0 => velocity = Exactly(2 * override)
PagesTell ==
    \A h \in Handlers : page[h].told => page[h].suggested = Suggested /\ BooksTell

IInv == TypeOK /\ ROPTells /\ PagesTell
=============================================================================
