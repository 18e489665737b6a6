----------------------------- MODULE StockProofs -----------------------------
(***************************************************************************)
(* Proofs about Stock, for every set of handlers, items and units and      *)
(* whatever velocities there are.                                          *)
(***************************************************************************)
EXTENDS Stock, TLAPS

\* What request r knows of row i, which now is it and whose movements come to
\* used: while it is to be written, what was computed of it stands; then it is exact.
Known(r, i, it, used) ==
    r.pc = "write" /\ i \notin r.moved =>
        IF i \in r.todo
        THEN /\ it.override # Blank
             /\ r.plan[i].velocity = Velocity(it, used)
             /\ r.plan[i].rop = it.rop
        ELSE it.override # Blank =>
             /\ it.rop = ROP(Velocity(it, used))
             /\ it.velocity = Velocity(it, used) \/ Velocity(it, used) = 0

RowsKnown == \A h \in Handlers : \A i \in DOMAIN item : Known(req[h], i, item[i], usage[i])

\* The movements a recalculation holds are still those of what has not moved.
UsageFresh ==
    \A h \in Handlers : req[h].pc # "idle" =>
        \A i \in Items \ req[h].moved : req[h].usage[i] = usage[i]

IInv ==
    TypeOK /\ UsageFresh /\ RowsKnown /\ ServiceHasNoROP /\ UnitChangeFlagged

-----------------------------------------------------------------------------
(* Lemmas about the operators *)

LEMMA IdleRequest == Idle \in Request /\ Idle.pc = "idle"
<1>1. 0 \in Rates /\ 0 \in Nat
  BY StockAssumption DEF StockAssumption, Rates
<1>2. QED
  BY <1>1 DEF Idle, Request, Result

\* The velocity of an item is one there is, and a service has none.
LEMMA VelocityType ==
    ASSUME NEW it \in Item, NEW used \in Rates
    PROVE  /\ Velocity(it, used) \in Rates
           /\ it.behaviour = "Service" => Velocity(it, used) = 0
<1>1. 0 \in Rates
  BY StockAssumption DEF StockAssumption, Rates
<1>2. it.override > 0 => it.override \in Rates
  BY DEF Item, Blank, Rates
<1>3. QED
  BY <1>1, <1>2 DEF Velocity, Stockable

LEMMA RatesNat == Rates \subseteq Nat /\ 0 \in Rates /\ \A v \in Rates : ROP(v) \in Nat
BY StockAssumption DEF StockAssumption, Rates, ROP

\* Rows alike have the same reorder point, velocity and fields it depends on.
LEMMA AlikeFields ==
    ASSUME NEW old \in Item, NEW new \in Item, Alike(old, new)
    PROVE  /\ new.behaviour = old.behaviour /\ new.surgical = old.surgical
           /\ new.override = old.override /\ new.rop = old.rop
           /\ new.velocity = old.velocity
BY DEF Alike, Item

\* What is known of a row stands for a row alike, and for a request that learnt
\* of other changes.
LEMMA KnownAlike ==
    ASSUME NEW r \in Request, NEW i \in Items, NEW old \in Item, NEW new \in Item,
           NEW used \in Rates, Known(r, i, old, used), Alike(old, new)
    PROVE  Known(r, i, new, used)
<1>1. Velocity(new, used) = Velocity(old, used)
  BY AlikeFields DEF Velocity, Stockable
<1>2. QED
  BY <1>1, AlikeFields DEF Known

LEMMA KnownMoved ==
    ASSUME NEW r \in Request, NEW q \in Request, NEW i \in Items, NEW it \in Item,
           NEW used \in Rates, Known(r, i, it, used),
           q.pc = r.pc, q.plan = r.plan, q.todo = r.todo, r.moved \subseteq q.moved
    PROVE  Known(q, i, it, used)
BY DEF Known

\* What a recalculation writes is a row; where it knew the row, an exact one.
LEMMA WrittenRow ==
    ASSUME NEW it \in Item, NEW res \in Result
    PROVE  /\ Written(it, res) \in Item
           /\ Written(it, res).behaviour = it.behaviour
           /\ Written(it, res).surgical = it.surgical
           /\ Written(it, res).override = it.override
           /\ Written(it, res).uom = it.uom /\ Written(it, res).pending = it.pending
           /\ res.rop = it.rop =>
                 /\ Written(it, res).rop = ROP(res.velocity)
                 /\ Written(it, res).velocity = res.velocity \/ res.velocity = 0
<1>1. res.velocity \in Rates /\ ROP(res.velocity) \in Nat /\ res.velocity \in Nat
  BY RatesNat DEF Result
<1>2. CASE ROP(res.velocity) # res.rop
  BY <1>1, <1>2 DEF Written, Item
<1>3. CASE ROP(res.velocity) = res.rop /\ res.velocity > 0
  BY <1>1, <1>3 DEF Written, Item
<1>4. CASE ROP(res.velocity) = res.rop /\ ~(res.velocity > 0)
  BY <1>1, <1>4 DEF Written
<1>5. QED
  BY <1>2, <1>3, <1>4
-----------------------------------------------------------------------------
\* A new database satisfies the invariant.
LEMMA InitIInv == Init => IInv
<1> SUFFICES ASSUME Init PROVE IInv
  OBVIOUS
<1>1. DOMAIN item = {} /\ DOMAIN vouched = {} /\ overtaken = {}
  BY DEF Init
<1>2. \A h \in Handlers : req[h].pc = "idle" /\ req[h].todo = {}
  BY DEF Init, Idle
<1>3. TypeOK
  <2>1. item \in [DOMAIN item -> Item] /\ vouched \in [DOMAIN vouched -> Units]
    BY DEF Init
  <2>2. usage \in [Items -> Rates] /\ req \in [Handlers -> Request]
    BY IdleRequest, RatesNat DEF Init
  <2>3. QED
    BY <1>1, <1>2, <2>1, <2>2 DEF TypeOK
<1>4. QED
  BY <1>1, <1>2, <1>3
  DEF IInv, UsageFresh, RowsKnown, ServiceHasNoROP, UnitChangeFlagged

\* Storing a row that is right in itself keeps the invariant: the recalculations
\* that are writing know of it, or it is alike.
LEMMA StoreKeeps ==
    ASSUME IInv, NEW i \in Items, NEW new \in Item, Store(i, new),
           overtaken' \in {overtaken, overtaken \ {i}},
           vouched' \in [(DOMAIN vouched) \cup {i} -> Units],
           \A k \in (DOMAIN vouched) \ {i} : vouched'[k] = vouched[k],
           new.behaviour = "Service" /\ i \notin overtaken' => new.rop = 0,
           new.uom # vouched'[i] => new.pending
    PROVE  IInv'
<1> DEFINE ids == IF i \in DOMAIN item /\ Alike(item[i], new) THEN {} ELSE {i}
<1>1. /\ item' = [k \in (DOMAIN item) \cup {i} |-> IF k = i THEN new ELSE item[k]]
      /\ Moved(ids, {"write"}) /\ usage' = usage
  BY DEF Store
<1>2. ids \in SUBSET Items /\ (i \notin ids => i \in DOMAIN item /\ Alike(item[i], new))
  OBVIOUS
<1> HIDE DEF ids
<1>3. /\ DOMAIN item' = (DOMAIN item) \cup {i}
      /\ \A k \in DOMAIN item' : item'[k] = IF k = i THEN new ELSE item[k]
  BY <1>1
<1>4. TypeOK
  BY DEF IInv
<1>5. \A h \in Handlers :
        /\ req[h] \in Request
        /\ req'[h] \in Request /\ req'[h].pc = req[h].pc /\ req'[h].plan = req[h].plan
        /\ req'[h].todo = req[h].todo /\ req'[h].usage = req[h].usage
        /\ req'[h].moved = IF req[h].pc \in {"write"} THEN req[h].moved \cup ids
                           ELSE req[h].moved
  <2>1. \A h \in Handlers : req[h] \in Request
    BY <1>4 DEF TypeOK
  <2>2. \A h \in Handlers :
          req'[h] = IF req[h].pc \in {"write"} THEN [req[h] EXCEPT !.moved = @ \cup ids]
                    ELSE req[h]
    BY <1>1 DEF Moved
  <2>3. QED
    <3> SUFFICES ASSUME NEW h \in Handlers
                 PROVE  /\ req[h] \in Request
                        /\ req'[h] \in Request /\ req'[h].pc = req[h].pc
                        /\ req'[h].plan = req[h].plan /\ req'[h].todo = req[h].todo
                        /\ req'[h].usage = req[h].usage
                        /\ req'[h].moved = IF req[h].pc \in {"write"} THEN req[h].moved \cup ids
                                           ELSE req[h].moved
      OBVIOUS
    <3>1. CASE req[h].pc \in {"write"}
      <4>1. req'[h] = [req[h] EXCEPT !.moved = @ \cup ids]
        BY <2>2, <3>1, Zenon
      <4>2. req[h] \in Request /\ ids \in SUBSET Items
        BY <1>2, <2>1
      <4>3. req[h].moved \cup ids \in SUBSET Items
        BY <4>2 DEF Request
      <4>4. QED
        BY <3>1, <4>1, <4>2, <4>3 DEF Request
    <3>2. CASE req[h].pc \notin {"write"}
      BY <2>1, <2>2, <3>2
    <3>3. QED
      BY <3>1, <3>2
<1>6. TypeOK'
  <2>1. req' \in [Handlers -> Request]
    BY <1>1, <1>5 DEF Moved
  <2>2. DOMAIN item' \subseteq Items /\ item' \in [DOMAIN item' -> Item]
    BY <1>1, <1>3, <1>4 DEF TypeOK
  <2>3. \A h \in Handlers : req'[h].todo \subseteq DOMAIN item'
    BY <1>3, <1>4, <1>5 DEF TypeOK
  <2>4. DOMAIN vouched' = DOMAIN item' /\ vouched' \in [DOMAIN vouched' -> Units]
    BY <1>3, <1>4 DEF TypeOK
  <2>5. overtaken' \subseteq DOMAIN item'
    BY <1>3, <1>4 DEF TypeOK
  <2>6. QED
    BY <1>1, <1>4, <2>1, <2>2, <2>3, <2>4, <2>5 DEF TypeOK
<1>7. UsageFresh'
  BY <1>1, <1>5 DEF IInv, UsageFresh
<1>8. RowsKnown'
  <2> SUFFICES ASSUME NEW h \in Handlers, NEW k \in DOMAIN item'
               PROVE  Known(req'[h], k, item'[k], usage'[k])
    BY DEF RowsKnown
  <2>1. CASE req[h].pc # "write"
    BY <1>5, <2>1 DEF Known
  <2>2. CASE req[h].pc = "write" /\ k \in ids
    BY <1>5, <2>2 DEF Known
  <2>3. CASE req[h].pc = "write" /\ k \notin ids
    <3>1. k \in DOMAIN item /\ k \in Items /\ item[k] \in Item /\ usage[k] \in Rates
      BY <1>2, <1>3, <1>4, <2>3 DEF TypeOK
    <3>2. Known(req[h], k, item[k], usage[k])
      BY <3>1 DEF IInv, RowsKnown
    <3>3. Known(req[h], k, item'[k], usage[k])
      <4>1. CASE k = i
        <5>1. Alike(item[k], new) /\ item'[k] = new /\ req[h] \in Request
          BY <1>2, <1>3, <1>5, <2>3, <4>1
        <5>2. QED
          BY <3>1, <3>2, <5>1, KnownAlike
      <4>2. CASE k # i
        BY <1>3, <3>1, <3>2, <4>2
      <4>3. QED
        BY <4>1, <4>2
    <3>4. item'[k] \in Item
      BY <1>3, <3>1
    <3>5. QED
      BY <1>1, <1>5, <3>1, <3>3, <3>4, KnownMoved
  <2>4. QED
    BY <2>1, <2>2, <2>3
<1>9. ServiceHasNoROP'
  BY <1>3 DEF IInv, ServiceHasNoROP
<1>10. UnitChangeFlagged'
  BY <1>3, <1>4 DEF IInv, UnitChangeFlagged, TypeOK
<1>11. QED
  BY <1>6, <1>7, <1>8, <1>9, <1>10 DEF IInv

\* An item edited by hand is a row, and a service among them has no reorder point.
LEMMA NoROPRow ==
    ASSUME NEW it \in Item
    PROVE  /\ NoROP(it) \in Item /\ NoROP(it).uom = it.uom /\ NoROP(it).pending = it.pending
           /\ NoROP(it).behaviour = "Service" => NoROP(it).rop = 0
BY DEF NoROP, Item

LEMMA UpdateAnchorsKeeps == ASSUME IInv, NEW i \in Items, UpdateAnchors(i) PROVE IInv'
<1>1. PICK edit \in Edits(item[i]) : Store(i, NoROP(edit))
  BY DEF UpdateAnchors
<1>2. i \in DOMAIN item /\ item[i] \in Item /\ i \in DOMAIN vouched
  BY DEF UpdateAnchors, IInv, TypeOK
<1>3. edit \in Item /\ edit.uom = item[i].uom /\ edit.pending = item[i].pending
  <2>1. \A r \in 0..MaxROP : r \in Nat
    BY StockAssumption DEF StockAssumption
  <2>2. QED
    BY <1>2, <2>1 DEF Edits, Item
<1>4. vouched' = vouched /\ overtaken' = overtaken \ {i}
  BY DEF UpdateAnchors
<1>5. item[i].uom # vouched[i] => item[i].pending
  BY <1>2 DEF IInv, UnitChangeFlagged
<1>6. vouched' \in [(DOMAIN vouched) \cup {i} -> Units]
  BY <1>2, <1>4 DEF IInv, TypeOK
<1>7. QED
  BY <1>1, <1>3, <1>4, <1>5, <1>6, NoROPRow, StoreKeeps

LEMMA EditUnitKeeps == ASSUME IInv, NEW i \in Items, EditUnit(i) PROVE IInv'
<1>1. i \in DOMAIN item /\ item[i] \in Item /\ i \in DOMAIN vouched
  BY DEF EditUnit, IInv, TypeOK
<1>2. PICK u \in Units : /\ Store(i, NoROP([item[i] EXCEPT !.uom = u]))
                         /\ vouched' = [vouched EXCEPT ![i] = u]
  BY DEF EditUnit
<1> DEFINE it == [item[i] EXCEPT !.uom = u]
<1>3. it \in Item /\ it.uom = u
  BY <1>1 DEF Item
<1>4. Store(i, NoROP(it)) /\ overtaken' = overtaken \ {i}
  BY <1>2 DEF EditUnit
<1> HIDE DEF it
<1>5. /\ vouched' \in [(DOMAIN vouched) \cup {i} -> Units] /\ vouched'[i] = u
      /\ \A k \in (DOMAIN vouched) \ {i} : vouched'[k] = vouched[k]
  BY <1>1, <1>2 DEF IInv, TypeOK
<1>6. QED
  BY <1>3, <1>4, <1>5, NoROPRow, StoreKeeps

LEMMA ConfirmUnitKeeps == ASSUME IInv, NEW i \in Items, ConfirmUnit(i) PROVE IInv'
<1>1. i \in DOMAIN item /\ item[i] \in Item /\ i \in DOMAIN vouched
  BY DEF ConfirmUnit, IInv, TypeOK
<1> DEFINE it == [item[i] EXCEPT !.pending = FALSE]
<1>2. it \in Item /\ it.uom = item[i].uom
  BY <1>1 DEF Item
<1>3. /\ Store(i, NoROP(it)) /\ overtaken' = overtaken \ {i}
      /\ vouched' = [vouched EXCEPT ![i] = item[i].uom]
  BY DEF ConfirmUnit
<1> HIDE DEF it
<1>4. item[i].uom \in Units
  BY <1>1 DEF Item
<1>5. /\ vouched' \in [(DOMAIN vouched) \cup {i} -> Units] /\ vouched'[i] = item[i].uom
      /\ \A k \in (DOMAIN vouched) \ {i} : vouched'[k] = vouched[k]
  BY <1>1, <1>3, <1>4 DEF IInv, TypeOK
<1>6. QED
  BY <1>2, <1>3, <1>5, NoROPRow, StoreKeeps

LEMMA ImportKnownKeeps == ASSUME IInv, NEW i \in Items, ImportKnown(i) PROVE IInv'
<1>1. i \in DOMAIN item /\ item[i] \in Item /\ i \in DOMAIN vouched
  BY DEF ImportKnown, IInv, TypeOK
<1>2. PICK u \in Units, s \in BOOLEAN :
        Store(i, [item[i] EXCEPT !.uom = u, !.surgical = s, !.pending = Flag(item[i], u)])
  BY DEF ImportKnown
<1> DEFINE it == [item[i] EXCEPT !.uom = u, !.surgical = s, !.pending = Flag(item[i], u)]
<1>3. Flag(item[i], u) \in BOOLEAN
  BY <1>1 DEF Flag, Item
<1>4. /\ it \in Item /\ it.uom = u /\ it.pending = Flag(item[i], u)
      /\ it.behaviour = item[i].behaviour /\ it.rop = item[i].rop
  BY <1>1, <1>3 DEF Item
<1>5. Store(i, it) /\ vouched' = vouched /\ overtaken' = overtaken
  BY <1>2 DEF ImportKnown
<1> HIDE DEF it
<1>6. it.uom # vouched[i] => it.pending
  BY <1>1, <1>4 DEF IInv, UnitChangeFlagged, Flag
<1>7. it.behaviour = "Service" /\ i \notin overtaken => it.rop = 0
  BY <1>1, <1>4 DEF IInv, ServiceHasNoROP
<1>8. vouched' \in [(DOMAIN vouched) \cup {i} -> Units]
  BY <1>1, <1>5 DEF IInv, TypeOK
<1>9. QED
  BY <1>4, <1>5, <1>6, <1>7, <1>8, StoreKeeps

LEMMA ImportNewKeeps == ASSUME IInv, NEW i \in Items, ImportNew(i) PROVE IInv'
<1>1. PICK u \in Units, s \in BOOLEAN, b \in Behaviours, v \in Rates \cup {Blank} :
        /\ Store(i, [behaviour |-> b, surgical |-> s, override |-> v, rop |-> 0,
                     velocity |-> 0, uom |-> u, pending |-> FALSE])
        /\ vouched' = [k \in (DOMAIN vouched) \cup {i} |-> IF k = i THEN u ELSE vouched[k]]
  BY DEF ImportNew
<1> DEFINE it == [behaviour |-> b, surgical |-> s, override |-> v, rop |-> 0,
                  velocity |-> 0, uom |-> u, pending |-> FALSE]
<1>2. it \in Item /\ it.uom = u /\ it.rop = 0
  BY RatesNat DEF Item
<1>3. Store(i, it) /\ overtaken' = overtaken
  BY <1>1 DEF ImportNew
<1> HIDE DEF it
<1>4. /\ vouched' \in [(DOMAIN vouched) \cup {i} -> Units] /\ vouched'[i] = u
      /\ \A k \in (DOMAIN vouched) \ {i} : vouched'[k] = vouched[k]
  BY <1>1 DEF IInv, TypeOK
<1>5. QED
  BY <1>2, <1>3, <1>4, StoreKeeps

\* New movements are news to every recalculation that read the old ones.
LEMMA ReplaceMovementsKeeps == ASSUME IInv, ReplaceMovements PROVE IInv'
<1>1. PICK new \in [Items -> Rates] :
        usage' = new /\ Moved({i \in Items : new[i] # usage[i]}, {"items", "write"})
  BY DEF ReplaceMovements
<1> DEFINE ids == {i \in Items : new[i] # usage[i]}
<1>2. Moved(ids, {"items", "write"}) /\ ids \in SUBSET Items
      /\ \A i \in Items \ ids : usage'[i] = usage[i]
  BY <1>1
<1> HIDE DEF ids
<1>3. TypeOK /\ UNCHANGED <<item, vouched, overtaken>>
  BY DEF IInv, ReplaceMovements
<1>4. \A h \in Handlers :
        /\ req[h] \in Request
        /\ req'[h] \in Request /\ req'[h].pc = req[h].pc /\ req'[h].plan = req[h].plan
        /\ req'[h].todo = req[h].todo /\ req'[h].usage = req[h].usage
        /\ req'[h].moved = IF req[h].pc \in {"items", "write"} THEN req[h].moved \cup ids
                           ELSE req[h].moved
  <2>1. \A h \in Handlers : req[h] \in Request
    BY <1>3 DEF TypeOK
  <2>2. \A h \in Handlers :
          req'[h] = IF req[h].pc \in {"items", "write"}
                    THEN [req[h] EXCEPT !.moved = @ \cup ids] ELSE req[h]
    BY <1>2 DEF Moved
  <2>3. QED
    <3> SUFFICES ASSUME NEW h \in Handlers
                 PROVE  /\ req[h] \in Request
                        /\ req'[h] \in Request /\ req'[h].pc = req[h].pc
                        /\ req'[h].plan = req[h].plan /\ req'[h].todo = req[h].todo
                        /\ req'[h].usage = req[h].usage
                        /\ req'[h].moved = IF req[h].pc \in {"items", "write"} THEN req[h].moved \cup ids
                                           ELSE req[h].moved
      OBVIOUS
    <3>1. CASE req[h].pc \in {"items", "write"}
      <4>1. req'[h] = [req[h] EXCEPT !.moved = @ \cup ids]
        BY <2>2, <3>1, Zenon
      <4>2. req[h] \in Request /\ ids \in SUBSET Items
        BY <1>2, <2>1
      <4>3. req[h].moved \cup ids \in SUBSET Items
        BY <4>2 DEF Request
      <4>4. QED
        BY <3>1, <4>1, <4>2, <4>3 DEF Request
    <3>2. CASE req[h].pc \notin {"items", "write"}
      BY <2>1, <2>2, <3>2
    <3>3. QED
      BY <3>1, <3>2
<1>5. TypeOK'
  <2>1. req' \in [Handlers -> Request]
    BY <1>2, <1>4 DEF Moved
  <2>2. \A h \in Handlers : req'[h].todo \subseteq DOMAIN item'
    BY <1>3, <1>4 DEF TypeOK
  <2>3. QED
    BY <1>1, <1>3, <2>1, <2>2 DEF TypeOK
<1>6. \A h \in Handlers : req[h].pc # "idle" => req[h].pc \in {"items", "write"}
  BY <1>4 DEF Request
<1>7. UsageFresh'
  <2> SUFFICES ASSUME NEW h \in Handlers, req'[h].pc # "idle",
                      NEW i \in Items, i \notin req'[h].moved
               PROVE  req'[h].usage[i] = usage'[i]
    BY DEF UsageFresh
  <2>1. i \notin ids /\ i \notin req[h].moved /\ req[h].pc # "idle"
    BY <1>4, <1>6
  <2>2. req[h].usage[i] = usage[i]
    BY <2>1 DEF IInv, UsageFresh
  <2>3. QED
    BY <1>2, <1>4, <2>1, <2>2
<1>8. RowsKnown'
  <2> SUFFICES ASSUME NEW h \in Handlers, NEW k \in DOMAIN item
               PROVE  Known(req'[h], k, item[k], usage'[k])
    BY <1>3 DEF RowsKnown
  <2>1. CASE k \in ids
    BY <1>4, <2>1 DEF Known
  <2>2. CASE k \notin ids
    <3>1. k \in Items /\ item[k] \in Item /\ usage[k] \in Rates /\ usage'[k] = usage[k]
      BY <1>2, <1>3, <2>2 DEF TypeOK
    <3>2. Known(req[h], k, item[k], usage[k])
      BY DEF IInv, RowsKnown
    <3>3. QED
      BY <1>4, <3>1, <3>2, KnownMoved
  <2>3. QED
    BY <2>1, <2>2
<1>9. ServiceHasNoROP' /\ UnitChangeFlagged'
  BY <1>3 DEF IInv, ServiceHasNoROP, UnitChangeFlagged
<1>10. QED
  BY <1>5, <1>7, <1>8, <1>9 DEF IInv
-----------------------------------------------------------------------------
(* The steps of a recalculation *)

LEMMA ReadMovementsKeeps == ASSUME IInv, NEW h \in Handlers, ReadMovements(h) PROVE IInv'
<1> DEFINE r == [req[h] EXCEPT !.pc = "items", !.usage = usage]
<1>1. /\ req' = [req EXCEPT ![h] = r] /\ UNCHANGED <<item, usage, vouched, overtaken>>
  BY DEF ReadMovements
<1>2. req[h] \in Request /\ usage \in [Items -> Rates] /\ req \in [Handlers -> Request]
  BY DEF IInv, TypeOK
<1>3. r \in Request /\ r.pc = "items" /\ r.usage = usage /\ r.todo = req[h].todo
  BY <1>2 DEF Request
<1> HIDE DEF r
<1>4. \A k \in Handlers : req'[k] = IF k = h THEN r ELSE req[k]
  BY <1>1, <1>2
<1>5. TypeOK'
  <2>1. req' \in [Handlers -> Request]
    BY <1>1, <1>2, <1>3
  <2>2. \A k \in Handlers : req'[k].todo \subseteq DOMAIN item
    BY <1>3, <1>4 DEF IInv, TypeOK
  <2>3. QED
    BY <1>1, <2>1, <2>2 DEF IInv, TypeOK
<1>6. UsageFresh'
  BY <1>1, <1>3, <1>4 DEF IInv, UsageFresh
<1>7. RowsKnown'
  BY <1>1, <1>3, <1>4 DEF IInv, RowsKnown, Known
<1>8. ServiceHasNoROP' /\ UnitChangeFlagged'
  BY <1>1 DEF IInv, ServiceHasNoROP, UnitChangeFlagged
<1>9. QED
  BY <1>5, <1>6, <1>7, <1>8 DEF IInv

LEMMA ReadItemsKeeps == ASSUME IInv, NEW h \in Handlers, ReadItems(h) PROVE IInv'
<1> DEFINE plan == [i \in Items |->
               IF i \in Readable
               THEN [velocity |-> Velocity(item[i], req[h].usage[i]), rop |-> item[i].rop]
               ELSE Idle.plan[i]]
           r == [req[h] EXCEPT !.pc = "write", !.todo = Readable, !.plan = plan]
<1>1. /\ req' = [req EXCEPT ![h] = r] /\ UNCHANGED <<item, usage, vouched, overtaken>>
      /\ req[h].pc = "items"
  BY DEF ReadItems
<1>2. /\ req[h] \in Request /\ req \in [Handlers -> Request]
      /\ Readable \subseteq DOMAIN item /\ DOMAIN item \subseteq Items
      /\ \A i \in DOMAIN item : item[i] \in Item
  BY DEF IInv, TypeOK, Readable
<1>3. plan \in [Items -> Result]
  <2>1. ASSUME NEW i \in Readable
        PROVE  [velocity |-> Velocity(item[i], req[h].usage[i]), rop |-> item[i].rop] \in Result
    <3>1. item[i] \in Item /\ req[h].usage[i] \in Rates
      BY <1>2 DEF Request
    <3>2. Velocity(item[i], req[h].usage[i]) \in Rates /\ item[i].rop \in Nat
      BY <3>1, VelocityType DEF Item
    <3>3. QED
      BY <3>2 DEF Result
  <2>2. \A i \in Items : Idle.plan[i] \in Result
    BY RatesNat DEF Idle, Result
  <2>3. QED
    BY <2>1, <2>2
<1>4. \A i \in Readable : /\ plan[i].velocity = Velocity(item[i], req[h].usage[i])
                          /\ plan[i].rop = item[i].rop
  BY <1>2
<1> HIDE DEF plan
<1>5. /\ r \in Request /\ r.pc = "write" /\ r.todo = Readable /\ r.plan = plan
      /\ r.usage = req[h].usage /\ r.moved = req[h].moved
  BY <1>2, <1>3 DEF Request
<1> HIDE DEF r
<1>6. \A k \in Handlers : req'[k] = IF k = h THEN r ELSE req[k]
  BY <1>1, <1>2
<1>7. TypeOK'
  <2>1. req' \in [Handlers -> Request]
    BY <1>1, <1>2, <1>5
  <2>2. \A k \in Handlers : req'[k].todo \subseteq DOMAIN item
    BY <1>2, <1>5, <1>6 DEF IInv, TypeOK
  <2>3. QED
    BY <1>1, <2>1, <2>2 DEF IInv, TypeOK
<1>8. UsageFresh'
  BY <1>1, <1>5, <1>6 DEF IInv, UsageFresh
<1>9. RowsKnown'
  <2> SUFFICES ASSUME NEW k \in Handlers, NEW i \in DOMAIN item
               PROVE  Known(req'[k], i, item[i], usage[i])
    BY <1>1 DEF RowsKnown
  <2>1. CASE k # h
    BY <1>6, <2>1 DEF IInv, RowsKnown
  <2>2. CASE k = h
    <3>1. i \notin r.moved => req[h].usage[i] = usage[i]
      BY <1>1, <1>2, <1>5 DEF IInv, UsageFresh
    <3>2. i \in Readable <=> item[i].override # Blank
      BY DEF Readable
    <3>3. Known(r, i, item[i], usage[i])
      BY <1>4, <1>5, <3>1, <3>2 DEF Known
    <3>4. QED
      BY <1>6, <2>2, <3>3
  <2>3. QED
    BY <2>1, <2>2
<1>10. ServiceHasNoROP' /\ UnitChangeFlagged'
  BY <1>1 DEF IInv, ServiceHasNoROP, UnitChangeFlagged
<1>11. QED
  BY <1>7, <1>8, <1>9, <1>10 DEF IInv

\* Writing what was computed of an item makes it exact, if it was known; and a
\* service gets no reorder point, if it was.
LEMMA WriteItemKeeps == ASSUME IInv, NEW h \in Handlers, WriteItem(h) PROVE IInv'
<1>1. PICK i \in req[h].todo :
        /\ req[h].pc = "write"
        /\ item' = [item EXCEPT ![i] = Written(item[i], req[h].plan[i])]
        /\ Tick(h, i, req[h].moved, Written(item[i], req[h].plan[i]) # item[i])
        /\ overtaken' = IF i \in req[h].moved THEN overtaken \cup {i} ELSE overtaken \ {i}
        /\ UNCHANGED <<usage, vouched>>
  BY DEF WriteItem
<1>2. /\ TypeOK /\ i \in DOMAIN item /\ i \in Items /\ item[i] \in Item
      /\ req[h] \in Request /\ usage[i] \in Rates
  BY DEF IInv, TypeOK
<1> DEFINE res == req[h].plan[i]
           new == Written(item[i], res)
           changed == new # item[i]
<1>3. res \in Result /\ req[h].moved \in SUBSET Items
  BY <1>2 DEF Request
<1>4. /\ new \in Item /\ new.behaviour = item[i].behaviour /\ new.surgical = item[i].surgical
      /\ new.override = item[i].override
      /\ new.uom = item[i].uom /\ new.pending = item[i].pending
      /\ res.rop = item[i].rop => /\ new.rop = ROP(res.velocity)
                                  /\ new.velocity = res.velocity \/ res.velocity = 0
  BY <1>2, <1>3, WrittenRow
<1>5. \A k \in DOMAIN item : item'[k] = IF k = i THEN new ELSE item[k]
  BY <1>1
<1>6. DOMAIN item' = DOMAIN item
  BY <1>1
<1>7. \A k \in Handlers :
           /\ req'[k] \in Request /\ req'[k].pc = req[k].pc /\ req'[k].plan = req[k].plan
           /\ req'[k].usage = req[k].usage
           /\ req'[k].todo = IF k = h THEN req[k].todo \ {i} ELSE req[k].todo
           /\ req'[k].moved = IF k = h THEN req[h].moved
                              ELSE IF changed /\ req[k].pc = "write"
                              THEN req[k].moved \cup {i} ELSE req[k].moved
  <2> SUFFICES ASSUME NEW k \in Handlers
               PROVE  /\ req'[k] \in Request /\ req'[k].pc = req[k].pc
                      /\ req'[k].plan = req[k].plan /\ req'[k].usage = req[k].usage
                      /\ req'[k].todo = IF k = h THEN req[k].todo \ {i} ELSE req[k].todo
                      /\ req'[k].moved = IF k = h THEN req[h].moved
                                         ELSE IF changed /\ req[k].pc = "write"
                                         THEN req[k].moved \cup {i} ELSE req[k].moved
    OBVIOUS
  <2>1. /\ req[k] \in Request
        /\ req'[k] = IF k = h THEN [req[h] EXCEPT !.todo = @ \ {i}, !.moved = req[h].moved]
                     ELSE IF changed /\ req[k].pc = "write"
                     THEN [req[k] EXCEPT !.moved = @ \cup {i}] ELSE req[k]
    BY <1>1, <1>2 DEF Tick, TypeOK
  <2> HIDE DEF changed
  <2>2. CASE k = h
    <3>1. req'[k] = [req[k] EXCEPT !.todo = req[k].todo \ {i}, !.moved = req[k].moved]
      BY <2>1, <2>2, Zenon
    <3>2. req[k].todo \ {i} \in SUBSET Items /\ req[k].moved \in SUBSET Items
      BY <2>1 DEF Request
    <3>3. req[k] \in Request
      BY <2>1
    <3>4. /\ req'[k].pc = req[k].pc /\ req'[k].plan = req[k].plan
          /\ req'[k].usage = req[k].usage /\ req'[k].todo = req[k].todo \ {i}
          /\ req'[k].moved = req[k].moved
      BY <3>1, <3>3 DEF Request
    <3>5. req'[k] \in Request
      BY <3>1, <3>2, <3>3 DEF Request
    <3>6. QED
      BY <2>2, <3>4, <3>5
  <2>3. CASE k # h /\ changed /\ req[k].pc = "write"
    <3>1. req'[k] = [req[k] EXCEPT !.moved = @ \cup {i}]
      BY <2>1, <2>3, Zenon
    <3>2. QED
      BY <1>2, <2>1, <2>3, <3>1 DEF Request
  <2>4. CASE k # h /\ ~(changed /\ req[k].pc = "write")
    <3>1. req'[k] = req[k]
      BY <2>1, <2>4, Zenon
    <3>2. QED
      BY <2>1, <2>4, <3>1
  <2>5. QED
    BY <2>2, <2>3, <2>4
<1>8. /\ UNCHANGED <<usage, vouched>> /\ req[h].pc = "write"
      /\ overtaken' = IF i \in req[h].moved THEN overtaken \cup {i} ELSE overtaken \ {i}
  BY <1>1
<1>9. req' \in [Handlers -> Request]
  BY <1>1, <1>7 DEF Tick
<1>10. new = item[i] \/ changed
  OBVIOUS
<1> HIDE DEF new, changed
<1>11. i \notin req[h].moved =>
         /\ res.rop = item[i].rop /\ res.velocity = Velocity(item[i], usage[i])
  BY <1>1, <1>2 DEF IInv, RowsKnown, Known
<1>12. Velocity(new, usage[i]) = Velocity(item[i], usage[i])
  BY <1>4 DEF Velocity, Stockable
<1>13. TypeOK'
  <2>1. item' \in [DOMAIN item' -> Item]
    BY <1>1, <1>2, <1>4, <1>5, <1>6 DEF TypeOK
  <2>2. \A k \in Handlers : req'[k].todo \subseteq DOMAIN item'
    BY <1>2, <1>6, <1>7 DEF TypeOK
  <2>3. overtaken' \subseteq DOMAIN item'
    BY <1>2, <1>6, <1>8 DEF TypeOK
  <2>4. QED
    BY <1>2, <1>6, <1>8, <1>9, <2>1, <2>2, <2>3 DEF TypeOK
<1>14. UsageFresh'
  <2>1. \A k \in Handlers : /\ req'[k].pc = req[k].pc /\ req'[k].usage = req[k].usage
                            /\ req[k].moved \subseteq req'[k].moved
    BY <1>7
  <2>2. QED
    BY <1>8, <2>1 DEF IInv, UsageFresh
<1>15. RowsKnown'
  <2> SUFFICES ASSUME NEW k \in Handlers, NEW j \in DOMAIN item
               PROVE  Known(req'[k], j, item'[j], usage[j])
    BY <1>6, <1>8 DEF RowsKnown
  <2>0. Known(req[k], j, item[j], usage[j])
    BY DEF IInv, RowsKnown
  <2>1. CASE j # i
    BY <1>5, <1>7, <2>0, <2>1 DEF Known
  <2>2. CASE j = i /\ k = h
    <3>1. item'[j] = new /\ j \notin req'[k].todo /\ req'[k].moved = req[h].moved
      BY <1>5, <1>7, <2>2
    <3>2. QED
      BY <1>4, <1>11, <1>12, <2>2, <3>1 DEF Known
  <2>3. CASE j = i /\ k # h /\ changed
    BY <1>7, <2>3 DEF Known
  <2>4. CASE j = i /\ k # h /\ ~changed
    BY <1>5, <1>7, <1>10, <2>0, <2>4 DEF Known
  <2>5. QED
    BY <2>1, <2>2, <2>3, <2>4
<1>16. ServiceHasNoROP'
  <2> SUFFICES ASSUME NEW j \in DOMAIN item, j \notin overtaken',
                      item'[j].behaviour = "Service"
               PROVE  item'[j].rop = 0
    BY <1>6 DEF ServiceHasNoROP
  <2>1. CASE j # i
    BY <1>5, <1>8, <2>1 DEF IInv, ServiceHasNoROP
  <2>2. CASE j = i
    <3>1. i \notin req[h].moved /\ item'[j] = new /\ item[i].behaviour = "Service"
      BY <1>4, <1>5, <1>8, <2>2
    <3>2. Velocity(item[i], usage[i]) = 0
      BY <1>2, <3>1, VelocityType
    <3>3. new.rop = ROP(0)
      BY <1>4, <1>11, <3>1, <3>2
    <3>4. QED
      BY <3>1, <3>3 DEF ROP
  <2>3. QED
    BY <2>1, <2>2
<1>17. UnitChangeFlagged'
  BY <1>4, <1>5, <1>6, <1>8 DEF IInv, UnitChangeFlagged
<1>18. QED
  BY <1>13, <1>14, <1>15, <1>16, <1>17 DEF IInv

LEMMA SkipItemKeeps == ASSUME IInv, NEW h \in Handlers, SkipItem(h) PROVE IInv'
<1>1. PICK i \in req[h].todo :
        /\ req[h].pc = "write" /\ Tick(h, i, req[h].moved \cup {i}, FALSE)
        /\ UNCHANGED <<item, usage, vouched, overtaken>>
  BY DEF SkipItem
<1>2. TypeOK /\ i \in Items /\ req[h].moved \cup {i} \in SUBSET Items
  BY DEF IInv, TypeOK, Request
<1>3. \A k \in Handlers :
           /\ req'[k] \in Request /\ req'[k].pc = req[k].pc /\ req'[k].plan = req[k].plan
           /\ req'[k].usage = req[k].usage
           /\ req'[k].todo = IF k = h THEN req[k].todo \ {i} ELSE req[k].todo
           /\ req'[k].moved = IF k = h THEN req[h].moved \cup {i} ELSE req[k].moved
  <2> SUFFICES ASSUME NEW k \in Handlers
               PROVE  /\ req'[k] \in Request /\ req'[k].pc = req[k].pc
                      /\ req'[k].plan = req[k].plan /\ req'[k].usage = req[k].usage
                      /\ req'[k].todo = IF k = h THEN req[k].todo \ {i} ELSE req[k].todo
                      /\ req'[k].moved = IF k = h THEN req[h].moved \cup {i} ELSE req[k].moved
    OBVIOUS
  <2>1. /\ req[k] \in Request
        /\ req'[k] = IF k = h
                     THEN [req[h] EXCEPT !.todo = @ \ {i}, !.moved = req[h].moved \cup {i}]
                     ELSE req[k]
    BY <1>1, <1>2 DEF Tick, TypeOK
  <2>2. CASE k = h
    <3>1. req'[k] = [req[k] EXCEPT !.todo = req[k].todo \ {i},
                                   !.moved = req[k].moved \cup {i}]
      BY <2>1, <2>2, Zenon
    <3>2. req[k].todo \ {i} \in SUBSET Items /\ req[k].moved \cup {i} \in SUBSET Items
      BY <1>2, <2>1, <2>2 DEF Request
    <3>3. req[k] \in Request
      BY <2>1
    <3>4. /\ req'[k].pc = req[k].pc /\ req'[k].plan = req[k].plan
          /\ req'[k].usage = req[k].usage /\ req'[k].todo = req[k].todo \ {i}
          /\ req'[k].moved = req[k].moved \cup {i}
      BY <3>1, <3>3 DEF Request
    <3>5. req'[k] \in Request
      BY <3>1, <3>2, <3>3 DEF Request
    <3>6. QED
      BY <2>2, <3>4, <3>5
  <2>3. CASE k # h
    BY <2>1, <2>3
  <2>4. QED
    BY <2>2, <2>3
<1>4. TypeOK'
  <2>1. req' \in [Handlers -> Request]
    BY <1>1, <1>3 DEF Tick
  <2>2. \A k \in Handlers : req'[k].todo \subseteq DOMAIN item
    BY <1>2, <1>3 DEF TypeOK
  <2>3. QED
    BY <1>1, <1>2, <2>1, <2>2 DEF TypeOK
<1>5. UsageFresh'
  <2>1. \A k \in Handlers : /\ req'[k].pc = req[k].pc /\ req'[k].usage = req[k].usage
                            /\ req[k].moved \subseteq req'[k].moved
    BY <1>3
  <2>2. QED
    BY <1>1, <2>1 DEF IInv, UsageFresh
<1>6. RowsKnown'
  <2> SUFFICES ASSUME NEW k \in Handlers, NEW j \in DOMAIN item
               PROVE  Known(req'[k], j, item[j], usage[j])
    BY <1>1 DEF RowsKnown
  <2>1. Known(req[k], j, item[j], usage[j])
    BY DEF IInv, RowsKnown
  <2>2. CASE k = h /\ j = i
    BY <1>3, <2>2 DEF Known
  <2>3. CASE k # h \/ j # i
    BY <1>3, <2>1, <2>3 DEF Known
  <2>4. QED
    BY <2>2, <2>3
<1>7. ServiceHasNoROP' /\ UnitChangeFlagged'
  BY <1>1 DEF IInv, ServiceHasNoROP, UnitChangeFlagged
<1>8. QED
  BY <1>4, <1>5, <1>6, <1>7 DEF IInv

LEMMA LeaveKeeps == ASSUME IInv, NEW h \in Handlers, Leave(h) PROVE IInv'
<1>1. /\ req' = [req EXCEPT ![h] = Idle] /\ UNCHANGED <<item, usage, vouched, overtaken>>
  BY DEF Leave
<1>2. req \in [Handlers -> Request]
  BY DEF IInv, TypeOK
<1>3. /\ \A k \in Handlers : req'[k] = IF k = h THEN Idle ELSE req[k]
      /\ req' \in [Handlers -> Request]
  BY <1>1, <1>2, IdleRequest
<1>4. Idle.pc = "idle" /\ Idle.todo = {}
  BY DEF Idle
<1>5. TypeOK'
  <2>1. \A k \in Handlers : req'[k].todo \subseteq DOMAIN item
    BY <1>3, <1>4 DEF IInv, TypeOK
  <2>2. QED
    BY <1>1, <1>3, <2>1 DEF IInv, TypeOK
<1>6. UsageFresh'
  BY <1>1, <1>3, <1>4 DEF IInv, UsageFresh
<1>7. RowsKnown'
  BY <1>1, <1>3, <1>4 DEF IInv, RowsKnown, Known
<1>8. ServiceHasNoROP' /\ UnitChangeFlagged'
  BY <1>1 DEF IInv, ServiceHasNoROP, UnitChangeFlagged
<1>9. QED
  BY <1>5, <1>6, <1>7, <1>8 DEF IInv

-----------------------------------------------------------------------------
\* Every step keeps the invariant.
LEMMA NextKeeps == IInv /\ [Next]_vars => IInv'
<1> SUFFICES ASSUME IInv, [Next]_vars PROVE IInv'
  OBVIOUS
<1>1. CASE UNCHANGED vars
  <2>1. /\ item' = item /\ usage' = usage /\ req' = req
        /\ vouched' = vouched /\ overtaken' = overtaken
    BY <1>1 DEF vars
  <2>2. TypeOK' /\ UsageFresh'
    BY <2>1 DEF IInv, TypeOK, UsageFresh
  <2>3. RowsKnown' /\ ServiceHasNoROP' /\ UnitChangeFlagged'
    BY <2>1 DEF IInv, RowsKnown, ServiceHasNoROP, UnitChangeFlagged
  <2>4. QED
    BY <2>2, <2>3 DEF IInv
<1>2. ASSUME NEW h \in Handlers,
             ReadMovements(h) \/ ReadItems(h) \/ WriteItem(h) \/ SkipItem(h) \/ Leave(h)
      PROVE  IInv'
  BY <1>2, ReadMovementsKeeps, ReadItemsKeeps, WriteItemKeeps, SkipItemKeeps, LeaveKeeps
<1>3. ASSUME NEW i \in Items,
             UpdateAnchors(i) \/ EditUnit(i) \/ ConfirmUnit(i) \/ ImportKnown(i) \/ ImportNew(i)
      PROVE  IInv'
  BY <1>3, UpdateAnchorsKeeps, EditUnitKeeps, ConfirmUnitKeeps, ImportKnownKeeps, ImportNewKeeps
<1>4. QED
  BY <1>1, <1>2, <1>3, ReplaceMovementsKeeps DEF Next

\* The invariant holds always.
THEOREM Invariance == Spec => []IInv
BY InitIInv, NextKeeps, PTL DEF Spec

\* Every variable keeps its shape, and a handler writes only rows that exist.
THEOREM TypeCorrect == Spec => []TypeOK
<1>1. IInv => TypeOK
  BY DEF IInv
<1>2. QED
  BY Invariance, <1>1, PTL

\* RecalcROP leaves exact what nobody disturbed: its comparison with the reorder
\* point it found saves writes, and never a needed one.
THEOREM RecalcIsExact == Spec => []RecalcExact
<1>1. IInv => RecalcExact
  BY DEF IInv, RowsKnown, Known, RecalcExact, Exact
<1>2. QED
  BY Invariance, <1>1, PTL

\* Edits and recalculations give a service no reorder point, unless a
\* recalculation computed it before the item became one.
THEOREM ServicesHaveNoROP == Spec => []ServiceHasNoROP
<1>1. IInv => ServiceHasNoROP
  BY DEF IInv
<1>2. QED
  BY Invariance, <1>1, PTL

\* A unit that an import changed stays flagged until a person vouches for it.
THEOREM UnitChangesFlagged == Spec => []UnitChangeFlagged
<1>1. IInv => UnitChangeFlagged
  BY DEF IInv
<1>2. QED
  BY Invariance, <1>1, PTL
=============================================================================
