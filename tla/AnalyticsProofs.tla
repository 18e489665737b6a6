--------------------------- MODULE AnalyticsProofs ---------------------------
(***************************************************************************)
(* Proofs about Analytics, for every set of handlers, of days and of       *)
(* months, and for every bound.                                            *)
(***************************************************************************)
EXTENDS Analytics, TLAPS

\* There is a last rowid, so that LastRow names it.
LastRowExists ==
    \E r \in {po[n].row : n \in DOMAIN po} \cup {0} : \A n \in DOMAIN po : po[n].row <= r

\* No freeze is under way until the server serves.
FreezesWhenUp == stage # "up" => \A h \in Handlers : req[h].pc = "idle"

\* A copy of the setting never holds a month without a mark, once those are marked.
CopiesMarked ==
    "rowid" \in done =>
        \A h \in Handlers : req[h].pc # "idle" =>
            \A m \in Months : req[h].copy[m].mark # NoMark

\* Unless another freeze wrote meanwhile, a freeze's copy of the setting still
\* is the setting, but for its own month, whose watermark it keeps.
CopiesFresh ==
    \A h \in Handlers \ stale : req[h].pc # "idle" =>
        /\ \A m \in Months \ {req[h].month} : req[h].copy[m] = frozen[m]
        /\ frozen[req[h].month].mark \in Marks =>
              /\ req[h].pc # "rowid"
              /\ req[h].mark = frozen[req[h].month].mark
        /\ req[h].pc = "write" => req[h].copy[req[h].month].mark = req[h].mark

IInv ==
    /\ TypeOK /\ LastRowExists
    /\ FreezesWhenUp /\ AllMarked /\ CopiesMarked /\ CopiesFresh
-----------------------------------------------------------------------------
\* The last rowid is a watermark, and no order has a higher one.
LEMMA LastRowBounds ==
    ASSUME TypeOK, LastRowExists
    PROVE  LastRow \in Marks /\ \A n \in DOMAIN po : po[n].row <= LastRow
<1>1. LastRow \in {po[n].row : n \in DOMAIN po} \cup {0} /\ \A n \in DOMAIN po : po[n].row <= LastRow
  BY DEF LastRowExists, LastRow
<1>2. {po[n].row : n \in DOMAIN po} \cup {0} \subseteq Marks
  BY AnalyticsAssumption DEF TypeOK, Order, Marks, AnalyticsAssumption
<1>3. QED
  BY <1>1, <1>2

\* A setting that cannot be read holds no month.
LEMMA UnreadSetting == Unread \in [Months -> Figure] /\ \A m \in Months : Unread[m] = Live
BY DEF Unread, Live, Figure

\* The month a waiting handler carries is a month.
LEMMA IdleRequest == Idle \in Request
<1>1. Month(SpendFrom) \in Months
  BY DEF Months
<1>2. 0 \in Marks
  BY AnalyticsAssumption DEF Marks, AnalyticsAssumption
<1>3. QED
  BY <1>1, <1>2, UnreadSetting DEF Idle, Request

\* The three marks a figure may carry besides a watermark are none of them.
LEMMA NoMarkIsNoWatermark == NoMark \notin Marks /\ NotFrozen \notin Marks /\ NoMark # NotFrozen
BY DEF NoMark, NotFrozen, Marks

\* The invariant holds in a new database and in one with legacy frozen months.
LEMMA InitIInv == Init => IInv
<1> SUFFICES ASSUME Init PROVE IInv
  OBVIOUS
<1>1. PICK k \in IF Legacy THEN 0..MaxRow ELSE {0} :
        \E f \in [1..k -> [date : Days, inv : Days \cup {NoDate}]] :
            po = [n \in 1..k |-> [row |-> n, date |-> f[n].date, inv |-> f[n].inv,
                                  void |-> FALSE]]
  BY DEF Init
<1>2. PICK f \in [1..k -> [date : Days, inv : Days \cup {NoDate}]] :
        po = [n \in 1..k |-> [row |-> n, date |-> f[n].date, inv |-> f[n].inv,
                              void |-> FALSE]]
  BY <1>1
<1>3. k \in 0..MaxRow
  BY AnalyticsAssumption DEF AnalyticsAssumption
<1>4. /\ DOMAIN po = 1..k /\ 1..k \subseteq 1..MaxRow
      /\ \A n \in 1..k : po[n].row = n /\ po[n] \in Order
  BY <1>2, <1>3, AnalyticsAssumption DEF Order, AnalyticsAssumption
<1>5. frozen \in [Months -> Figure] /\ done = {} /\ stage = "refreeze"
  <2>1. PICK old \in SUBSET Months :
          frozen = [m \in Months |->
             IF m \in old
             THEN [mark |-> NoMark, spend |-> {n \in DOMAIN po : Month(po[n].date) = m}]
             ELSE Live]
    BY DEF Init
  <2>2. Live \in Figure
    BY DEF Live, Figure
  <2>3. \A S \in SUBSET (1..MaxRow) : [mark |-> NoMark, spend |-> S] \in Figure
    BY DEF Figure
  <2>4. \A m \in Months : {n \in DOMAIN po : Month(po[n].date) = m} \in SUBSET (1..MaxRow)
    BY <1>4
  <2>5. QED
    BY <2>1, <2>2, <2>3, <2>4 DEF Init
<1>6. \A h \in Handlers : req[h] = Idle /\ req[h].pc = "idle"
  BY DEF Init, Idle
<1>7. TypeOK
  <2>1. po \in [DOMAIN po -> Order]
    BY <1>2, <1>4
  <2>2. \A i, j \in DOMAIN po : po[i].row = po[j].row => i = j
    BY <1>4
  <2>3. /\ req \in [Handlers -> Request]
        /\ freezes \in Nat /\ loose \subseteq DOMAIN po /\ stale \subseteq Handlers
    BY IdleRequest DEF Init
  <2>4. QED
    BY <1>4, <1>5, <2>1, <2>2, <2>3 DEF TypeOK
<1>8. LastRowExists
  <2>1. CASE k = 0
    BY <2>1, <1>4 DEF LastRowExists
  <2>2. CASE k # 0
    <3>1. k \in DOMAIN po /\ po[k].row = k /\ \A n \in DOMAIN po : po[n].row <= k
      BY <2>2, <1>3, <1>4
    <3>2. QED
      BY <3>1 DEF LastRowExists
  <2>3. QED
    BY <2>1, <2>2
<1>9. QED
  BY <1>5, <1>6, <1>7, <1>8
  DEF IInv, FreezesWhenUp, AllMarked, CopiesMarked, CopiesFresh

-----------------------------------------------------------------------------
\* A reading gives a setting, and no month without a mark once those are marked.
LEMMA ReadingsMarked ==
    ASSUME IInv, NEW read \in Readings
    PROVE  /\ read \in [Months -> Figure]
           /\ "rowid" \in done => \A m \in Months : read[m].mark # NoMark
<1>1. CASE read = frozen
  BY <1>1 DEF IInv, TypeOK, AllMarked
<1>2. CASE read = Unread
  BY <1>2, UnreadSetting, NoMarkIsNoWatermark DEF Live
<1>3. QED
  BY <1>1, <1>2 DEF Readings

\* What a reading leaves out is of the orders there are, and of those it adds up.
LEMMA UnseenOrders ==
    ASSUME NEW m, NEW figures, NEW end
    PROVE  Unseen(m, figures, end) \subseteq Spend(m, figures) /\ Spend(m, figures) \subseteq DOMAIN po
BY DEF Unseen, Spend

\* What a start step changes in the setting leaves the invariant as it was:
\* no freeze is under way.
LEMMA StartKeeps ==
    ASSUME IInv, stage # "up", NEW next \in {"marks", "up"}, Start(next),
           frozen' \in [Months -> Figure], done' \subseteq {"spend", "rowid"},
           loose' \subseteq DOMAIN po, stage' = next, AllMarked'
    PROVE  IInv'
<1>1. \A h \in Handlers : req'[h].pc = "idle"
  BY DEF IInv, FreezesWhenUp, Start
<1>2. TypeOK'
  BY DEF IInv, TypeOK, Start
<1>3. LastRowExists'
  BY DEF IInv, LastRowExists, Start
<1>4. QED
  BY <1>1, <1>2, <1>3 DEF IInv, FreezesWhenUp, CopiesMarked, CopiesFresh

\* A migration that is done, or that fails, leaves the setting as it was.
LEMMA NothingKeeps ==
    ASSUME IInv, stage # "up", NEW next \in {"marks", "up"}, Start(next),
           UNCHANGED <<frozen, done, loose>>
    PROVE  IInv'
<1>1. stage' = next
  BY DEF Start
<1>2. QED
  BY <1>1, StartKeeps DEF IInv, TypeOK, AllMarked

\* Refreezing changes what months add up, never their marks.
LEMMA RefreezeKeeps == ASSUME IInv, RefreezeInvoiceSpend PROVE IInv'
<1>1. stage # "up" /\ Start("marks")
  BY DEF RefreezeInvoiceSpend
<1>2. CASE Done("spend")
  BY <1>1, <1>2, NothingKeeps DEF Done
<1>3. CASE ~Done("spend")
  <2>1. PICK read \in Readings, end \in [RefreezeMonths -> 0..LastRow] :
          /\ frozen' = [m \in Months |->
                 IF m \in Refrozen(read)
                 THEN [read[m] EXCEPT !.spend = Spend(m, read) \ Unseen(m, read, end[m])]
                 ELSE read[m]]
          /\ Loosen(UNION {Unseen(m, read, end[m]) : m \in Refrozen(read)})
          /\ done' = done \cup {"spend"}
    BY <1>3, Zenon DEF RefreezeInvoiceSpend
  <2>2. read \in [Months -> Figure] /\ ("rowid" \in done => \A m \in Months : read[m].mark # NoMark)
    BY ReadingsMarked
  <2>3. \A m \in Months : Spend(m, read) \ Unseen(m, read, end[m]) \in SUBSET (1..MaxRow)
    BY UnseenOrders DEF IInv, TypeOK
  <2>4. \A m \in Months : frozen'[m] \in Figure /\ frozen'[m].mark = read[m].mark
    BY <2>1, <2>2, <2>3 DEF Figure
  <2>5. frozen' \in [Months -> Figure]
    BY <2>1, <2>4
  <2>6. AllMarked'
    BY <2>1, <2>2, <2>4 DEF AllMarked
  <2>7. done' \subseteq {"spend", "rowid"}
    BY <2>1 DEF IInv, TypeOK
  <2>8. UNION {Unseen(m, read, end[m]) : m \in Refrozen(read)} \subseteq DOMAIN po
    BY UnseenOrders
  <2>9. loose' \subseteq DOMAIN po
    BY <2>1, <2>8 DEF Loosen, IInv, TypeOK
  <2>10. stage' = "marks"
    BY <1>1 DEF Start
  <2>11. QED
    BY <1>1, <2>5, <2>6, <2>7, <2>9, <2>10, StartKeeps
<1>4. QED
  BY <1>2, <1>3

\* Marking the months leaves none without a mark.
LEMMA MarkKeeps == ASSUME IInv, MarkFreezeWatermarks PROVE IInv'
<1>1. stage # "up" /\ Start("up")
  BY DEF MarkFreezeWatermarks
<1>2. CASE Done("rowid")
  BY <1>1, <1>2, NothingKeeps DEF Done
<1>3. CASE ~Done("rowid")
  <2>1. PICK read \in Readings : frozen' = Marked(read)
    BY <1>3 DEF MarkFreezeWatermarks
  <2>2. done' = done \cup {"rowid"} /\ loose' = loose
    BY <1>3 DEF MarkFreezeWatermarks
  <2>3. LastRow \in Marks
    BY LastRowBounds DEF IInv
  <2>4. read \in [Months -> Figure]
    BY ReadingsMarked
  <2>5. \A m \in Months : frozen'[m] \in Figure /\ frozen'[m].mark # NoMark
    BY <2>1, <2>3, <2>4, NoMarkIsNoWatermark DEF Figure, Marked
  <2>6. frozen' \in [Months -> Figure] /\ AllMarked'
    BY <2>1, <2>5 DEF AllMarked, Marked
  <2>7. done' \subseteq {"spend", "rowid"} /\ loose' \subseteq DOMAIN po
    BY <2>2 DEF IInv, TypeOK
  <2>8. stage' = "up"
    BY <1>1 DEF Start
  <2>9. QED
    BY <1>1, <2>6, <2>7, <2>8, StartKeeps
<1>4. QED
  BY <1>2, <1>3

\* A start whose migration fails goes on with the setting as it was.
LEMMA StartFailsKeeps == ASSUME IInv, StartFails PROVE IInv'
<1>1. stage # "up" /\ (Start("marks") \/ Start("up")) /\ UNCHANGED <<frozen, done, loose>>
  BY DEF StartFails
<1>2. QED
  BY <1>1, NothingKeeps

\* A restart forgets the freezes under way.
LEMMA RestartKeeps == ASSUME IInv, Restart PROVE IInv'
<1>1. \A h \in Handlers : req'[h] = Idle /\ req'[h].pc = "idle"
  BY DEF Restart, Idle
<1>2. TypeOK'
  BY IdleRequest DEF IInv, TypeOK, Restart
<1>3. LastRowExists' /\ AllMarked'
  BY DEF IInv, LastRowExists, AllMarked, Restart
<1>4. QED
  BY <1>1, <1>2, <1>3 DEF IInv, FreezesWhenUp, CopiesMarked, CopiesFresh
-----------------------------------------------------------------------------
\* A freeze that moves on, its new record well-formed and its copy of the setting
\* as fresh as the old one, keeps the invariant.
FreshRecord(r) ==
    /\ \A m \in Months \ {r.month} : r.copy[m] = frozen[m]
    /\ frozen[r.month].mark \in Marks => r.pc # "rowid" /\ r.mark = frozen[r.month].mark
    /\ r.pc = "write" => r.copy[r.month].mark = r.mark

LEMMA GotoKeeps ==
    ASSUME IInv, stage = "up", NEW h \in Handlers, NEW r \in Request, Goto(h, r),
           stale' \in {stale, stale \ {h}, stale \cup {h}}, loose' \subseteq DOMAIN po,
           r.pc # "idle" =>
              /\ h \notin stale' => FreshRecord(r)
              /\ "rowid" \in done => \A m \in Months : r.copy[m].mark # NoMark
    PROVE  IInv'
<1>1. \A k \in Handlers : req'[k] = IF k = h THEN r ELSE req[k]
  BY DEF IInv, TypeOK, Goto
<1>2. TypeOK'
  BY DEF IInv, TypeOK, Goto
<1>3. LastRowExists' /\ AllMarked' /\ FreezesWhenUp'
  BY DEF IInv, LastRowExists, AllMarked, FreezesWhenUp, Goto
<1>4. CopiesMarked'
  BY <1>1 DEF IInv, CopiesMarked, Goto
<1>5. CopiesFresh'
  <2> SUFFICES ASSUME NEW k \in Handlers, k \notin stale', req'[k].pc # "idle"
               PROVE  /\ \A m \in Months \ {req'[k].month} : req'[k].copy[m] = frozen'[m]
                      /\ frozen'[req'[k].month].mark \in Marks =>
                            /\ req'[k].pc # "rowid"
                            /\ req'[k].mark = frozen'[req'[k].month].mark
                      /\ req'[k].pc = "write" => req'[k].copy[req'[k].month].mark = req'[k].mark
    BY DEF CopiesFresh
  <2>1. frozen' = frozen
    BY DEF Goto
  <2>2. CASE k = h
    BY <1>1, <2>1, <2>2 DEF FreshRecord
  <2>3. CASE k # h
    <3>1. req'[k] = req[k] /\ k \notin stale
      BY <1>1, <2>3
    <3>2. QED
      BY <2>1, <3>1 DEF IInv, CopiesFresh
  <2>4. QED
    BY <2>2, <2>3
<1>6. QED
  BY <1>2, <1>3, <1>4, <1>5 DEF IInv

\* A freeze under way is one of a server that is up.
LEMMA BusyWhenUp ==
    ASSUME IInv, NEW h \in Handlers, req[h].pc # "idle"
    PROVE  stage = "up"
BY DEF IInv, FreezesWhenUp

\* What a freeze holds once it has read the setting.
Started(m, read) ==
    [pc |-> IF Kept(read[m]) THEN "compute" ELSE "rowid", month |-> m, copy |-> read,
     mark |-> IF Kept(read[m]) THEN read[m].mark ELSE 0]

LEMMA ReadFrozenKeeps == ASSUME IInv, NEW h \in Handlers, ReadFrozen(h) PROVE IInv'
<1>1. PICK m \in Months, read \in Readings :
        /\ stage = "up" /\ loose' = loose /\ Goto(h, Started(m, read))
        /\ stale' = IF read = frozen THEN stale ELSE stale \cup {h}
  BY Zenon DEF ReadFrozen, Started
<1> DEFINE r == Started(m, read)
<1>2. 0 \in Marks
  BY AnalyticsAssumption DEF Marks, AnalyticsAssumption
<1>3. /\ read \in [Months -> Figure]
      /\ "rowid" \in done => \A k \in Months : read[k].mark # NoMark
  BY ReadingsMarked
<1>4. /\ r \in Request /\ r.copy = read
      /\ r.month = m /\ r.pc # "write"
      /\ Kept(read[m]) => r.pc = "compute" /\ r.mark = read[m].mark
  BY <1>2, <1>3 DEF Request, Kept, Started
<1>5. h \notin stale' => FreshRecord(r)
  BY <1>1, <1>4 DEF FreshRecord, Kept
<1>6. Goto(h, r)
  BY <1>1
<1>7. loose' \subseteq DOMAIN po /\ stale' \in {stale, stale \cup {h}}
  BY <1>1 DEF IInv, TypeOK
<1> HIDE DEF r
<1>8. QED
  BY <1>1, <1>3, <1>4, <1>5, <1>6, <1>7, GotoKeeps

LEMMA ReadRowidKeeps == ASSUME IInv, NEW h \in Handlers, ReadRowid(h) PROVE IInv'
<1> DEFINE r == [req[h] EXCEPT !.pc = "compute", !.mark = LastRow]
<1>1. /\ req[h].pc = "rowid" /\ Goto(h, r) /\ stale' = stale /\ loose' = loose
  BY DEF ReadRowid
<1>2. stage = "up"
  BY <1>1, BusyWhenUp
<1>3. req[h] \in Request
  BY DEF IInv, TypeOK
<1>4. LastRow \in Marks
  BY LastRowBounds DEF IInv
<1>5. /\ r \in Request /\ r.pc = "compute" /\ r.month = req[h].month
      /\ r.copy = req[h].copy
  BY <1>3, <1>4 DEF Request
<1>6. h \notin stale => FreshRecord(r)
  BY <1>1, <1>5 DEF IInv, CopiesFresh, FreshRecord
<1>7. "rowid" \in done => \A m \in Months : r.copy[m].mark # NoMark
  BY <1>1, <1>5 DEF IInv, CopiesMarked
<1>8. loose' \subseteq DOMAIN po
  BY <1>1 DEF IInv, TypeOK
<1> HIDE DEF r
<1>9. QED
  BY <1>1, <1>2, <1>5, <1>6, <1>7, <1>8, GotoKeeps

\* The figure a freeze writes when its reading of the orders ends at a row.
Computed(r, end) ==
    [mark |-> r.mark, spend |-> Spend(r.month, r.copy) \ Unseen(r.month, r.copy, end)]

LEMMA ComputeSpendKeeps == ASSUME IInv, NEW h \in Handlers, ComputeSpend(h) PROVE IInv'
<1>1. PICK end \in 0..LastRow :
        /\ req[h].pc = "compute" /\ stale' = stale
        /\ Goto(h, [req[h] EXCEPT !.pc = "write",
                                  !.copy[req[h].month] = Computed(req[h], end)])
        /\ Loosen(Unseen(req[h].month, req[h].copy, end))
  BY Zenon DEF ComputeSpend, Computed
<1> DEFINE fig == Computed(req[h], end)
           r == [req[h] EXCEPT !.pc = "write", !.copy[req[h].month] = fig]
<1>2. stage = "up"
  BY <1>1, BusyWhenUp
<1>3. req[h] \in Request
  BY DEF IInv, TypeOK
<1>4. fig.spend \in SUBSET (1..MaxRow)
  BY UnseenOrders DEF IInv, TypeOK, Computed
<1>5. fig \in Figure /\ fig.mark = req[h].mark /\ req[h].mark \in Marks
  BY <1>3, <1>4 DEF Figure, Request, Computed
<1>6. loose' \subseteq DOMAIN po
  BY <1>1, UnseenOrders DEF Loosen, IInv, TypeOK
<1>7. Goto(h, r)
  BY <1>1
<1> HIDE DEF fig
<1>8. /\ r \in Request /\ r.pc = "write" /\ r.month = req[h].month /\ r.mark = req[h].mark
      /\ \A m \in Months : r.copy[m] = IF m = req[h].month THEN fig ELSE req[h].copy[m]
  BY <1>3, <1>5 DEF Request
<1>9. h \notin stale => FreshRecord(r)
  BY <1>1, <1>3, <1>5, <1>8 DEF IInv, CopiesFresh, FreshRecord, Request
<1>10. "rowid" \in done => \A m \in Months : r.copy[m].mark # NoMark
  BY <1>1, <1>5, <1>8, NoMarkIsNoWatermark DEF IInv, CopiesMarked
<1> HIDE DEF r
<1>11. QED
  BY <1>1, <1>2, <1>6, <1>7, <1>8, <1>9, <1>10, GotoKeeps

LEMMA FreezeFailsKeeps == ASSUME IInv, NEW h \in Handlers, FreezeFails(h) PROVE IInv'
<1>1. /\ req[h].pc # "idle" /\ Goto(h, Idle) /\ stale' = stale \ {h} /\ loose' = loose
  BY DEF FreezeFails
<1>2. stage = "up"
  BY <1>1, BusyWhenUp
<1>3. Idle.pc = "idle" /\ loose' \subseteq DOMAIN po
  BY <1>1 DEF Idle, IInv, TypeOK
<1>4. QED
  BY <1>1, <1>2, <1>3, IdleRequest, GotoKeeps

\* Writing the setting makes every other freeze under way stale.
LEMMA WriteFrozenKeeps == ASSUME IInv, NEW h \in Handlers, WriteFrozen(h) PROVE IInv'
<1>1. /\ req[h].pc = "write" /\ frozen' = req[h].copy
      /\ req' = [req EXCEPT ![h] = Idle]
      /\ stale' = {k \in Handlers \ {h} : req[k].pc # "idle"}
      /\ freezes' = freezes + 1 /\ UNCHANGED <<po, done, stage, loose>>
  BY DEF WriteFrozen
<1>2. \A k \in Handlers : req'[k] = IF k = h THEN Idle ELSE req[k]
  BY <1>1 DEF IInv, TypeOK
<1>3. Idle.pc = "idle"
  BY DEF Idle
<1>4. TypeOK'
  <2>1. frozen' \in [Months -> Figure]
    BY <1>1 DEF IInv, TypeOK, Request
  <2>2. req' \in [Handlers -> Request] /\ freezes' \in Nat /\ stale' \subseteq Handlers
    BY <1>1, IdleRequest DEF IInv, TypeOK
  <2>3. QED
    BY <1>1, <2>1, <2>2 DEF IInv, TypeOK
<1>5. LastRowExists'
  BY <1>1 DEF IInv, LastRowExists
<1>6. AllMarked'
  BY <1>1 DEF IInv, AllMarked, CopiesMarked
<1>7. FreezesWhenUp' /\ CopiesMarked'
  BY <1>1, <1>2, <1>3 DEF IInv, FreezesWhenUp, CopiesMarked
<1>8. CopiesFresh'
  BY <1>1, <1>2, <1>3 DEF CopiesFresh
<1>9. QED
  BY <1>4, <1>5, <1>6, <1>7, <1>8 DEF IInv

-----------------------------------------------------------------------------
\* Storing an order under its own rowid or the next keeps the invariant.
LEMMA StoreKeeps ==
    ASSUME IInv, NEW n \in 1..MaxRow, NEW order \in Order, NEW moved,
           Store(n, order, moved),
           \/ n \in DOMAIN po /\ order.row = po[n].row
           \/ order.row = LastRow + 1
    PROVE  IInv'
<1>1. /\ po' = [k \in (DOMAIN po) \cup {n} |-> IF k = n THEN order ELSE po[k]]
      /\ loose' \in {loose, loose \cup {n}}
      /\ UNCHANGED <<frozen, done, stage, req, freezes, stale>>
  BY DEF Store, Loosen
<1>2. /\ DOMAIN po' = (DOMAIN po) \cup {n}
      /\ \A k \in DOMAIN po' : po'[k] = IF k = n THEN order ELSE po[k]
  BY <1>1
<1>3. LastRow \in Nat /\ \A k \in DOMAIN po : po[k].row \in Nat /\ po[k].row <= LastRow
  BY LastRowBounds DEF IInv, TypeOK, Order, Marks
<1>4. TypeOK'
  <2>1. DOMAIN po' \subseteq 1..MaxRow /\ po' \in [DOMAIN po' -> Order]
    BY <1>1, <1>2 DEF IInv, TypeOK
  <2>2. ASSUME NEW j \in DOMAIN po', NEW k \in DOMAIN po', po'[j].row = po'[k].row
        PROVE  j = k
    BY <1>2, <1>3, <2>2 DEF IInv, TypeOK
  <2>3. loose' \subseteq DOMAIN po'
    BY <1>1, <1>2 DEF IInv, TypeOK
  <2>4. QED
    BY <1>1, <2>1, <2>2, <2>3 DEF IInv, TypeOK
<1>5. LastRowExists'
  <2>1. CASE n \in DOMAIN po /\ order.row = po[n].row
    <3>1. DOMAIN po' = DOMAIN po /\ \A k \in DOMAIN po : po'[k].row = po[k].row
      BY <1>2, <2>1
    <3>2. {po'[k].row : k \in DOMAIN po'} = {po[k].row : k \in DOMAIN po}
      BY <3>1
    <3>3. QED
      BY <3>1, <3>2 DEF IInv, LastRowExists
  <2>2. CASE order.row = LastRow + 1
    <3>1. \A k \in DOMAIN po' : po'[k].row <= LastRow + 1
      BY <1>2, <1>3, <2>2
    <3>2. n \in DOMAIN po' /\ po'[n].row = LastRow + 1
      BY <1>2, <2>2
    <3>3. \E r \in {po'[k].row : k \in DOMAIN po'} \cup {0} :
             \A k \in DOMAIN po' : po'[k].row <= r
      BY <3>1, <3>2
    <3>4. QED
      BY <3>3 DEF LastRowExists
  <2>3. QED
    BY <2>1, <2>2
<1>6. AllMarked' /\ FreezesWhenUp' /\ CopiesMarked' /\ CopiesFresh'
  BY <1>1 DEF IInv, AllMarked, FreezesWhenUp, CopiesMarked, CopiesFresh
<1>7. QED
  BY <1>4, <1>5, <1>6 DEF IInv

\* Entering, editing, dating, voiding and importing an order are such stores.
LEMMA OrdersKeep ==
    ASSUME IInv, NEW n \in 1..MaxRow,
           \/ EnterPO(n) \/ EditPO(n) \/ UpdateInvoiceDate(n)
           \/ UpdateStatus(n) \/ ImportPO(n)
    PROVE  IInv'
<1>1. n \in DOMAIN po => po[n] \in Order
  BY DEF IInv, TypeOK
<1>2. ASSUME LastRow < MaxRow PROVE LastRow + 1 \in 1..MaxRow
  BY <1>2, LastRowBounds, AnalyticsAssumption DEF IInv, Marks, AnalyticsAssumption
<1>3. \A date : Invoices(date) \subseteq Days \cup {NoDate}
  BY DEF Invoices
<1>4. CASE EnterPO(n)
  <2>1. PICK date \in Days, void \in BOOLEAN, inv \in Days \cup {NoDate} :
          /\ LastRow < MaxRow
          /\ Store(n, [row |-> LastRow + 1, date |-> date, inv |-> inv, void |-> void],
                   Unsettled)
    BY <1>3, <1>4 DEF EnterPO
  <2>2. [row |-> LastRow + 1, date |-> date, inv |-> inv, void |-> void] \in Order
    BY <1>2, <1>3, <2>1 DEF Order
  <2>3. QED
    BY <2>1, <2>2, StoreKeeps
<1>5. CASE EditPO(n)
  <2>1. PICK date \in Days, void \in BOOLEAN, inv \in Days \cup {NoDate} :
          /\ n \in DOMAIN po
          /\ Store(n, [po[n] EXCEPT !.date = date, !.inv = inv, !.void = void], TRUE)
    BY <1>3, <1>5 DEF EditPO
  <2> DEFINE o == [po[n] EXCEPT !.date = date, !.inv = inv, !.void = void]
  <2>2. o \in Order /\ o.row = po[n].row
    BY <1>1, <1>3, <2>1 DEF Order
  <2>3. Store(n, o, TRUE)
    BY <2>1
  <2> HIDE DEF o
  <2>4. QED
    BY <2>1, <2>2, <2>3, StoreKeeps
<1>6. CASE UpdateInvoiceDate(n)
  <2>1. PICK inv \in Days \cup {NoDate} :
          n \in DOMAIN po /\ Store(n, [po[n] EXCEPT !.inv = inv], TRUE)
    BY <1>6 DEF UpdateInvoiceDate
  <2> DEFINE o == [po[n] EXCEPT !.inv = inv]
  <2>2. o \in Order /\ o.row = po[n].row
    BY <1>1, <2>1 DEF Order
  <2>3. Store(n, o, TRUE)
    BY <2>1
  <2> HIDE DEF o
  <2>4. QED
    BY <2>1, <2>2, <2>3, StoreKeeps
<1>7. CASE UpdateStatus(n)
  <2> DEFINE o == [po[n] EXCEPT !.void = ~@]
  <2>1. n \in DOMAIN po /\ Store(n, o, TRUE)
    BY <1>7 DEF UpdateStatus
  <2>2. o \in Order /\ o.row = po[n].row
    BY <1>1, <2>1 DEF Order
  <2> HIDE DEF o
  <2>3. QED
    BY <2>1, <2>2, StoreKeeps
<1>8. CASE ImportPO(n)
  <2>1. PICK date \in Days, void \in BOOLEAN :
          /\ LastRow < MaxRow
          /\ Store(n, [row |-> LastRow + 1, date |-> date, inv |-> NoDate, void |-> void],
                   n \in DOMAIN po \/ Unsettled)
    BY <1>8 DEF ImportPO
  <2>2. [row |-> LastRow + 1, date |-> date, inv |-> NoDate, void |-> void] \in Order
    BY <1>2, <2>1 DEF Order
  <2>3. QED
    BY <2>1, <2>2, StoreKeeps
<1>9. QED
  BY <1>4, <1>5, <1>6, <1>7, <1>8

-----------------------------------------------------------------------------
\* Every step keeps the invariant.
LEMMA NextKeeps == IInv /\ [Next]_vars => IInv'
<1> SUFFICES ASSUME IInv, [Next]_vars PROVE IInv'
  OBVIOUS
<1>1. CASE UNCHANGED vars
  <2>0. /\ po' = po /\ frozen' = frozen /\ done' = done /\ stage' = stage
        /\ req' = req /\ freezes' = freezes /\ loose' = loose /\ stale' = stale
    BY <1>1 DEF vars
  <2>1. LastRowExists'
    BY <2>0 DEF IInv, LastRowExists
  <2>2. TypeOK'
    BY <2>0 DEF IInv, TypeOK
  <2>3. FreezesWhenUp' /\ AllMarked' /\ CopiesMarked' /\ CopiesFresh'
    BY <1>1 DEF vars, IInv, FreezesWhenUp, AllMarked, CopiesMarked, CopiesFresh
  <2>4. QED
    BY <2>1, <2>2, <2>3 DEF IInv
<1>2. CASE RefreezeInvoiceSpend \/ MarkFreezeWatermarks \/ StartFails \/ Restart
  BY <1>2, RefreezeKeeps, MarkKeeps, StartFailsKeeps, RestartKeeps
<1>3. ASSUME NEW h \in Handlers,
             ReadFrozen(h) \/ ReadRowid(h) \/ ComputeSpend(h) \/ WriteFrozen(h) \/ FreezeFails(h)
      PROVE  IInv'
  BY <1>3, ReadFrozenKeeps, ReadRowidKeeps, ComputeSpendKeeps, WriteFrozenKeeps, FreezeFailsKeeps
<1>4. ASSUME NEW n \in 1..MaxRow,
             EnterPO(n) \/ EditPO(n) \/ UpdateInvoiceDate(n) \/ UpdateStatus(n) \/ ImportPO(n)
      PROVE  IInv'
  BY <1>4, OrdersKeep
<1>5. QED
  BY <1>1, <1>2, <1>3, <1>4 DEF Next

\* The invariant holds always.
THEOREM Invariance == Spec => []IInv
BY InitIInv, NextKeeps, PTL DEF Spec

\* Every variable keeps its shape, and rowids stay distinct.
THEOREM TypeCorrect == Spec => []TypeOK
<1>1. IInv => TypeOK
  BY DEF IInv
<1>2. QED
  BY Invariance, <1>1, PTL

\* Once the months are marked none is ever without a watermark.
THEOREM MonthsStayMarked == Spec => []AllMarked
<1>1. IInv => AllMarked
  BY DEF IInv
<1>2. QED
  BY Invariance, <1>1, PTL

\* Freeze overwrites only what another freeze wrote since it read, and what it
\* could not read.
THEOREM FreezeKeepsMarks == Spec => FreezeKeepsMarksUnlessDisturbed
<1>1. ASSUME IInv, NEW h \in Handlers, WriteFrozen(h), h \notin stale, NEW m \in Months
      PROVE  /\ frozen[m].mark \in Marks => frozen'[m].mark = frozen[m].mark
             /\ m # req[h].month => frozen'[m] = frozen[m]
  BY <1>1 DEF IInv, CopiesFresh, WriteFrozen
<1>2. IInv /\ [Next]_vars =>
        [\A h \in Handlers :
           WriteFrozen(h) /\ h \notin stale =>
               \A m \in Months :
                   /\ frozen[m].mark \in Marks => frozen'[m].mark = frozen[m].mark
                   /\ m # req[h].month => frozen'[m] = frozen[m]]_vars
  BY <1>1
<1>3. QED
  BY Invariance, <1>2, PTL DEF Spec, FreezeKeepsMarksUnlessDisturbed

-----------------------------------------------------------------------------
(***************************************************************************)
(* Every order is shown in one month (CountedOnce): a setting, as stored   *)
(* and as any freeze holds it, agrees with the orders nobody disturbed.    *)
(* While a migration is due all of them are older than every watermark, so *)
(* that each counts in the month of its invoice; later each counts in the  *)
(* month the setting itself assigns it, and a setting that a freeze writes *)
(* back still assigns it that month.                                       *)
(***************************************************************************)
Settled == DOMAIN po \ loose
InMonth(n) == Month(SpendDate(po[n].date, po[n].inv))
Migrated == done = {"spend", "rowid"}

\* A setting speaks of orders that exist, and its watermarks are not ahead.
Known(f) ==
    \A m \in Months : f[m].spend \subseteq DOMAIN po /\ f[m].mark <= LastRow

\* While a migration is due: watermarks are past order n, and a frozen month counts
\* it if it is the month of its invoice, but in months yet to be refrozen.
AgreesEarly(f, n) ==
    \A m \in Months :
        /\ f[m].mark \in Marks => po[n].row <= f[m].mark
        /\ f[m].mark # NotFrozen /\ (m \notin RefreezeMonths \/ "spend" \in done) =>
              (n \in f[m].spend <=> ~po[n].void /\ InMonth(n) = m)

\* Later: a frozen month that counts order n is the month the setting assigns it,
\* and that month, when frozen, counts it or was frozen before it came.
AgreesWith(o, f, n) ==
    \A m \in Months : f[m].mark # NotFrozen =>
        /\ n \in f[m].spend => ~o.void /\ SpendMonth(o, f) = m
        /\ SpendMonth(o, f) = m /\ ~o.void => n \in f[m].spend \/ o.row > f[m].mark
Agrees(f, n) == AgreesWith(po[n], f, n)

Sound(f) ==
    /\ Known(f)
    /\ \A n \in Settled : IF Migrated THEN Agrees(f, n) ELSE AgreesEarly(f, n)

\* A freeze computes with a watermark that is its month's own or past every order
\* nobody disturbed.
FreezeSound(h) ==
    req[h].pc # "idle" =>
        LET r == req[h]
            kept == r.copy[r.month].mark \in Marks
        IN  /\ Sound(r.copy)
            /\ r.mark <= LastRow
            /\ r.pc = "rowid" => ~kept
            /\ r.pc = "compute" /\ kept => r.mark = r.copy[r.month].mark
            /\ r.pc = "compute" /\ ~kept => \A n \in Settled : po[n].row <= r.mark

SInv == Sound(frozen) /\ \A h \in Handlers : FreezeSound(h)

-----------------------------------------------------------------------------
(* Months *)

\* Of two days the later one is in no earlier month.
LEMMA MonthsInOrder ==
    ASSUME NEW a \in Nat, NEW b \in Nat, a <= b
    PROVE  Month(a) <= Month(b) /\ Month(a) \in Nat
<1> DEFINE d == MonthLength
<1>1. d \in Nat /\ d > 0
  BY AnalyticsAssumption DEF AnalyticsAssumption
<1> HIDE DEF d
<1>2. /\ a \div d \in Nat /\ b \div d \in Nat
      /\ d * (a \div d) <= a /\ b < d * (b \div d) + d
  BY <1>1
<1>3. QED
  <2>1. ASSUME b \div d < a \div d PROVE FALSE
    <3>1. PICK k \in Nat : a \div d = (b \div d) + 1 + k
      <4>1. (a \div d) - (b \div d) - 1 \in Nat
        BY <1>2, <2>1
      <4>2. a \div d = (b \div d) + 1 + ((a \div d) - (b \div d) - 1)
        BY <1>2
      <4>3. QED
        BY <4>1, <4>2
    <3>2. d * (a \div d) = d * (b \div d) + d + d * k
      BY <1>1, <1>2, <3>1
    <3>3. d * k >= 0 /\ d * (b \div d) \in Nat
      BY <1>1, <1>2
    <3>4. QED
      BY <1>1, <1>2, <3>2, <3>3
  <2>2. QED
    BY <1>2, <2>1 DEF Month, d

\* An order counts in a month there is; before invoices count, in that of its date.
LEMMA MonthOfOrder ==
    ASSUME NEW o \in Order, NEW m, m = Month(SpendDate(o.date, o.inv))
    PROVE  /\ m \in Months /\ Month(o.date) \in Months
           /\ m < Month(SpendFrom) \/ Month(o.date) < Month(SpendFrom) => m = Month(o.date)
<1>1. /\ o.date \in Days /\ o.date \in Nat /\ SpendFrom \in Nat
      /\ o.inv = NoDate \/ (o.inv \in Days /\ o.inv \in Nat)
  BY AnalyticsAssumption DEF Order, AnalyticsAssumption
<1> DEFINE day == SpendDate(o.date, o.inv)
<1>2. /\ day = o.date \/ day = SpendFrom \/ (day = o.inv /\ o.inv # NoDate)
      /\ o.date < SpendFrom => day = o.date
      /\ o.date >= SpendFrom => day = o.date \/ day = SpendFrom \/ ~(o.inv < SpendFrom)
  BY DEF SpendDate
<1> HIDE DEF day
<1>3. /\ day \in Days \cup {SpendFrom} /\ day \in Nat
      /\ o.date >= SpendFrom => day = o.date \/ day >= SpendFrom
  BY <1>1, <1>2
<1>4. m = Month(day)
  BY DEF day
<1>5. m \in Months /\ Month(o.date) \in Months
  BY <1>1, <1>3, <1>4 DEF Months
<1>6. CASE o.date < SpendFrom
  BY <1>2, <1>4, <1>5, <1>6
<1>7. CASE o.date >= SpendFrom
  <2>1. day >= SpendFrom
    BY <1>1, <1>3, <1>7
  <2>2. /\ Month(SpendFrom) <= Month(day) /\ Month(SpendFrom) \in Nat
    BY <1>1, <1>3, <2>1, MonthsInOrder
  <2>3. Month(day) \in Nat
    BY <1>3, MonthsInOrder
  <2>4. /\ Month(SpendFrom) <= Month(o.date) /\ Month(o.date) \in Nat
    <3>1. SpendFrom <= o.date
      BY <1>1, <1>7
    <3>2. o.date <= o.date
      BY <1>1
    <3>3. QED
      BY <1>1, <3>1, <3>2, MonthsInOrder
  <2>5. ~(m < Month(SpendFrom)) /\ ~(Month(o.date) < Month(SpendFrom))
    BY <1>4, <2>2, <2>3, <2>4
  <2>6. QED
    BY <1>5, <2>5
<1>8. QED
  BY <1>1, <1>6, <1>7

\* What is known of every settled order, of every setting and of every freeze.
LEMMA Typed ==
    ASSUME IInv
    PROVE  /\ LastRow \in Nat /\ \A n \in DOMAIN po : po[n].row <= LastRow
           /\ \A n \in DOMAIN po : po[n] \in Order /\ po[n].row \in Nat /\ InMonth(n) \in Months
           /\ frozen \in [Months -> Figure]
           /\ \A h \in Handlers : /\ req[h] \in Request
                                  /\ req[h].copy \in [Months -> Figure]
                                  /\ req[h].month \in Months /\ req[h].mark \in Marks
<1>1. LastRow \in Marks /\ \A n \in DOMAIN po : po[n].row <= LastRow
  BY LastRowBounds DEF IInv
<1>2. \A n \in DOMAIN po : po[n] \in Order
  BY DEF IInv, TypeOK
<1>3. \A n \in DOMAIN po : InMonth(n) \in Months
  BY <1>2, MonthOfOrder DEF InMonth
<1>4. \A n \in DOMAIN po : po[n].row \in Nat
  BY <1>2, AnalyticsAssumption DEF Order, AnalyticsAssumption
<1>5. \A h \in Handlers : req[h] \in Request
  BY DEF IInv, TypeOK
<1>6. \A h \in Handlers : /\ req[h].copy \in [Months -> Figure]
                          /\ req[h].month \in Months /\ req[h].mark \in Marks
  BY <1>5 DEF Request
<1>7. LastRow \in Nat
  BY <1>1 DEF Marks
<1>8. QED
  BY <1>1, <1>2, <1>3, <1>4, <1>5, <1>6, <1>7 DEF IInv, TypeOK

\* The last rowid of the next state, likewise.
LEMMA LastRowPrimed ==
    ASSUME TypeOK', LastRowExists'
    PROVE  LastRow' \in Nat /\ \A n \in DOMAIN po' : po'[n].row <= LastRow'
<1>1. /\ LastRow' \in {po'[n].row : n \in DOMAIN po'} \cup {0}
      /\ \A n \in DOMAIN po' : po'[n].row <= LastRow'
  BY DEF LastRowExists, LastRow
<1>2. {po'[n].row : n \in DOMAIN po'} \cup {0} \subseteq Nat
  BY AnalyticsAssumption DEF TypeOK, Order, AnalyticsAssumption
<1>3. QED
  BY <1>1, <1>2

\* Past every watermark, an order is assigned the month of its invoice.
LEMMA EarlyMonth ==
    ASSUME NEW f, NEW n, InMonth(n) \in Months, po[n].row \in Nat, AgreesEarly(f, n)
    PROVE  SpendMonth(po[n], f) = InMonth(n)
<1>1. f[InMonth(n)].mark \in Marks => ~(po[n].row > f[InMonth(n)].mark)
  BY DEF AgreesEarly, Marks
<1>2. QED
  BY <1>1 DEF SpendMonth, InMonth

\* When the last migration is done, what agreed early agrees.
LEMMA EarlyAgrees ==
    ASSUME NEW f \in [Months -> Figure], NEW n, NEW o, NEW in,
           in = Month(SpendDate(o.date, o.inv)), in \in Months, o.row \in Nat,
           \A m \in Months :
               /\ f[m].mark # NoMark
               /\ f[m].mark \in Marks => o.row <= f[m].mark
               /\ f[m].mark # NotFrozen => (n \in f[m].spend <=> ~o.void /\ in = m)
    PROVE  AgreesWith(o, f, n)
<1>1. f[in].mark \in Marks => ~(o.row > f[in].mark)
  BY DEF Marks
<1>2. SpendMonth(o, f) = in
  BY <1>1 DEF SpendMonth
<1>3. QED
  BY <1>2 DEF AgreesWith

-----------------------------------------------------------------------------
(* The start of the server *)

LEMMA InitSInv == Init => SInv
<1> SUFFICES ASSUME Init PROVE SInv
  OBVIOUS
<1>1. IInv /\ \A h \in Handlers : req[h].pc = "idle"
  BY InitIInv DEF Init, Idle
<1>2. PICK old \in SUBSET {m \in Months : m < Month(SpendFrom) \/ m \in RefreezeMonths} :
        frozen = [m \in Months |->
             IF m \in old
             THEN [mark |-> NoMark, spend |-> {n \in DOMAIN po : Month(po[n].date) = m}]
             ELSE Live]
  BY DEF Init
<1>3. /\ \A m \in Months \ old : frozen[m].mark = NotFrozen /\ frozen[m].spend = {}
      /\ \A m \in old : /\ frozen[m].mark = NoMark
                        /\ frozen[m].spend = {n \in DOMAIN po : Month(po[n].date) = m}
  BY <1>2 DEF Live
<1>4. \A n \in DOMAIN po : ~po[n].void
  <2>1. PICK k \in IF Legacy THEN 0..MaxRow ELSE {0} :
          \E f \in [1..k -> [date : Days, inv : Days \cup {NoDate}]] :
              po = [n \in 1..k |-> [row |-> n, date |-> f[n].date, inv |-> f[n].inv,
                                    void |-> FALSE]]
    BY DEF Init
  <2>2. QED
    BY <2>1
<1>5. Known(frozen)
  BY <1>1, <1>3, Typed DEF Known, NoMark, NotFrozen
<1>6. ~Migrated /\ "spend" \notin done
  BY DEF Init, Migrated
<1>7. ASSUME NEW n \in Settled PROVE AgreesEarly(frozen, n)
  <2>1. /\ n \in DOMAIN po /\ po[n] \in Order /\ ~po[n].void
        /\ InMonth(n) = Month(SpendDate(po[n].date, po[n].inv))
    BY <1>1, <1>4, Typed DEF Settled, InMonth
  <2>2. InMonth(n) < Month(SpendFrom) \/ Month(po[n].date) < Month(SpendFrom)
          => InMonth(n) = Month(po[n].date)
    BY <2>1, MonthOfOrder
  <2>3. ASSUME NEW m \in Months, frozen[m].mark # NotFrozen, m \notin RefreezeMonths
        PROVE  n \in frozen[m].spend <=> ~po[n].void /\ InMonth(n) = m
    <3>1. m \in old /\ m < Month(SpendFrom)
      BY <1>3, <2>3
    <3>2. n \in frozen[m].spend <=> Month(po[n].date) = m
      BY <1>3, <2>1, <3>1
    <3>3. QED
      BY <2>1, <2>2, <3>1, <3>2
  <2>4. \A m \in Months : frozen[m].mark \notin Marks
    BY <1>3 DEF Marks, NoMark, NotFrozen
  <2>5. QED
    BY <1>6, <2>3, <2>4 DEF AgreesEarly
<1>8. QED
  BY <1>1, <1>5, <1>6, <1>7 DEF SInv, Sound, FreezeSound

\* A start step: no freeze is under way, and orders stay.
LEMMA StartSound ==
    ASSUME IInv, IInv', stage # "up", NEW next, Start(next), Sound(frozen)'
    PROVE  SInv'
<1>1. \A h \in Handlers : req'[h].pc = "idle"
  BY DEF IInv, FreezesWhenUp, Start
<1>2. QED
  BY <1>1 DEF SInv, FreezeSound

\* A setting that could not be read says nothing of any order.
LEMMA ReadingsSound ==
    ASSUME IInv, Sound(frozen), NEW read \in Readings
    PROVE  Sound(read) /\ read \in [Months -> Figure]
<1>1. read \in [Months -> Figure]
  BY ReadingsMarked
<1>2. CASE read = frozen
  BY <1>1, <1>2
<1>3. CASE read = Unread
  <2>1. \A m \in Months : read[m].mark = NotFrozen /\ read[m].spend = {}
    BY <1>3, UnreadSetting DEF Live
  <2>2. Known(read)
    <3>1. LastRow \in Nat
      BY Typed
    <3>2. QED
      BY <2>1, <3>1 DEF Known, NotFrozen
  <2>3. NotFrozen \notin Marks
    BY NoMarkIsNoWatermark
  <2>4. \A n \in Settled : Agrees(read, n) /\ AgreesEarly(read, n)
    BY <2>1, <2>3 DEF Agrees, AgreesWith, AgreesEarly
  <2>5. QED
    BY <1>1, <2>2, <2>4 DEF Sound
<1>4. QED
  BY <1>2, <1>3 DEF Readings

\* A migration that changes nothing.
LEMMA NothingSound ==
    ASSUME IInv, IInv', SInv, stage # "up", NEW next, Start(next),
           UNCHANGED <<frozen, done, loose>>
    PROVE  SInv'
<1>1. po' = po /\ LastRow' = LastRow
  BY DEF Start, LastRow
<1>2. Sound(frozen)'
  BY <1>1 DEF SInv, Sound, Known, Migrated, Agrees, AgreesEarly, InMonth, Settled
<1>3. QED
  BY <1>2, StartSound

\* Refrozen, every frozen month agrees with the orders its readings saw.
LEMMA RefreezeSound == ASSUME IInv, IInv', SInv, RefreezeInvoiceSpend PROVE SInv'
<1>1. stage # "up" /\ Start("marks")
  BY DEF RefreezeInvoiceSpend
<1>2. po' = po /\ LastRow' = LastRow
  BY <1>1 DEF Start, LastRow
<1>3. \A n : InMonth(n)' = InMonth(n)
  BY <1>2 DEF InMonth
<1>4. CASE Done("spend")
  BY <1>1, <1>4, NothingSound DEF Done
<1>5. CASE ~Done("spend")
  <2>1. PICK read \in Readings, end \in [RefreezeMonths -> 0..LastRow] :
          /\ frozen' = [m \in Months |->
                 IF m \in Refrozen(read)
                 THEN [read[m] EXCEPT !.spend = Spend(m, read) \ Unseen(m, read, end[m])]
                 ELSE read[m]]
          /\ Loosen(UNION {Unseen(m, read, end[m]) : m \in Refrozen(read)})
          /\ done' = done \cup {"spend"}
    BY <1>5, Zenon DEF RefreezeInvoiceSpend
  <2>2. read \in [Months -> Figure] /\ Sound(read)
    BY ReadingsSound DEF SInv
  <2>3. /\ Settled' \subseteq Settled
        /\ \A m \in Refrozen(read) : \A n \in Settled' : n \notin Unseen(m, read, end[m])
    BY <1>2, <2>1 DEF Loosen, Settled
  <2>4. ASSUME NEW m \in Months
        PROVE  /\ frozen'[m].mark = read[m].mark
               /\ m \in Refrozen(read) =>
                     frozen'[m].spend = Spend(m, read) \ Unseen(m, read, end[m])
               /\ m \notin Refrozen(read) => frozen'[m].spend = read[m].spend
    <3>1. read[m] \in Figure
      BY <2>2
    <3>2. CASE m \in Refrozen(read)
      <4>1. frozen'[m] = [read[m] EXCEPT !.spend = Spend(m, read) \ Unseen(m, read, end[m])]
        BY <2>1, <3>2
      <4>2. QED
        BY <3>1, <3>2, <4>1 DEF Figure
    <3>3. CASE m \notin Refrozen(read)
      <4>1. frozen'[m] = read[m]
        BY <2>1, <3>3
      <4>2. QED
        BY <3>3, <4>1
    <3>4. QED
      BY <3>2, <3>3
  <2>5. Known(frozen)'
    <3>1. \A m \in Months : Spend(m, read) \subseteq DOMAIN po
      BY DEF Spend
    <3>2. QED
      BY <1>2, <2>2, <2>4, <3>1 DEF Sound, Known
  <2>6. ASSUME NEW n \in Settled', NEW m \in Refrozen(read)
        PROVE  n \in frozen'[m].spend <=> ~po[n].void /\ SpendMonth(po[n], read) = m
    <3>1. n \in DOMAIN po /\ n \notin Unseen(m, read, end[m]) /\ m \in Months
      BY <2>3, <2>6 DEF Settled, Refrozen
    <3>2. QED
      BY <2>4, <2>6, <3>1 DEF Spend
  <2>7. ASSUME ~Migrated, NEW n \in Settled', NEW m \in Months
        PROVE  /\ frozen'[m].mark \in Marks => po[n].row <= frozen'[m].mark
               /\ frozen'[m].mark # NotFrozen =>
                    (n \in frozen'[m].spend <=> ~po[n].void /\ InMonth(n) = m)
    <3>1. /\ n \in DOMAIN po /\ InMonth(n) \in Months /\ po[n].row \in Nat
          /\ AgreesEarly(read, n)
      BY <2>2, <2>3, <2>7, Typed DEF Settled, Sound
    <3>2. SpendMonth(po[n], read) = InMonth(n)
      BY <3>1, EarlyMonth
    <3>3. CASE m \in Refrozen(read)
      <4>1. n \in frozen'[m].spend <=> ~po[n].void /\ InMonth(n) = m
        BY <2>6, <2>7, <3>2, <3>3
      <4>2. QED
        BY <2>4, <3>1, <4>1 DEF AgreesEarly
    <3>4. CASE m \notin Refrozen(read)
      BY <2>4, <3>1, <3>4 DEF AgreesEarly, Refrozen
    <3>5. QED
      BY <3>3, <3>4
  <2>8. ASSUME ~Migrated, NEW n \in Settled' PROVE AgreesEarly(frozen, n)'
    BY <1>2, <1>3, <2>7, <2>8 DEF AgreesEarly
  <2>9. ASSUME ~Migrated, Migrated', NEW n \in Settled' PROVE Agrees(frozen, n)'
    <3>1. \A m \in Months : frozen'[m].mark # NoMark
      BY <2>9 DEF IInv, AllMarked, Migrated
    <3>2. n \in DOMAIN po /\ InMonth(n) \in Months /\ po[n].row \in Nat
      BY <2>3, <2>9, Typed DEF Settled
    <3>3. frozen' \in [Months -> Figure] /\ InMonth(n)' \in Months /\ po'[n].row \in Nat
      BY <1>2, <1>3, <3>2 DEF IInv, TypeOK
    <3>4. \A m \in Months :
              /\ frozen'[m].mark # NoMark
              /\ frozen'[m].mark \in Marks => po'[n].row <= frozen'[m].mark
              /\ frozen'[m].mark # NotFrozen =>
                    (n \in frozen'[m].spend <=> ~po'[n].void /\ InMonth(n)' = m)
      BY <1>2, <1>3, <2>7, <2>9, <3>1
    <3>5. InMonth(n)' = Month(SpendDate(po'[n].date, po'[n].inv))
      BY DEF InMonth
    <3>6. AgreesWith(po'[n], frozen', n)
      BY <3>3, <3>4, <3>5, EarlyAgrees
    <3>7. QED
      BY <3>6 DEF Agrees
  <2>10. ASSUME Migrated, NEW n \in Settled' PROVE Agrees(frozen, n)'
    <3>1. /\ n \in DOMAIN po /\ InMonth(n) \in Months /\ Agrees(read, n)
          /\ InMonth(n) = Month(SpendDate(po[n].date, po[n].inv))
      BY <2>2, <2>3, <2>10, Typed DEF Settled, Sound, InMonth
    <3>2. SpendMonth(po[n], frozen') = SpendMonth(po[n], read)
      BY <2>4, <3>1 DEF SpendMonth
    <3>3. ASSUME NEW m \in Months, frozen'[m].mark # NotFrozen
          PROVE  /\ n \in frozen'[m].spend => ~po[n].void /\ SpendMonth(po[n], frozen') = m
                 /\ SpendMonth(po[n], frozen') = m /\ ~po[n].void =>
                       n \in frozen'[m].spend \/ po[n].row > frozen'[m].mark
      <4>1. CASE m \in Refrozen(read)
        BY <2>6, <2>10, <3>2, <4>1
      <4>2. CASE m \notin Refrozen(read)
        BY <2>4, <3>1, <3>2, <3>3, <4>2 DEF Agrees, AgreesWith
      <4>3. QED
        BY <4>1, <4>2
    <3>4. AgreesWith(po[n], frozen', n)
      BY <3>3 DEF AgreesWith
    <3>5. QED
      BY <1>2, <3>4 DEF Agrees
  <2>11. Migrated => Migrated'
    BY <2>1 DEF Migrated
  <2>12. Sound(frozen)'
    BY <2>5, <2>8, <2>9, <2>10, <2>11 DEF Sound
  <2>13. QED
    BY <1>1, <2>12, StartSound
<1>6. QED
  BY <1>4, <1>5

\* Marked, a month that had no watermark gets one past every order.
LEMMA MarkSound == ASSUME IInv, IInv', SInv, MarkFreezeWatermarks PROVE SInv'
<1>1. stage # "up" /\ Start("up")
  BY DEF MarkFreezeWatermarks
<1>2. CASE Done("rowid")
  BY <1>1, <1>2, NothingSound DEF Done
<1>3. CASE ~Done("rowid")
  <2>1. PICK read \in Readings : frozen' = Marked(read)
    BY <1>3 DEF MarkFreezeWatermarks
  <2>2. done' = done \cup {"rowid"} /\ loose' = loose
    BY <1>3 DEF MarkFreezeWatermarks
  <2>3. po' = po /\ LastRow' = LastRow /\ Settled' = Settled
    BY <1>1, <2>2 DEF Start, LastRow, Settled
  <2>4. \A n : InMonth(n)' = InMonth(n)
    BY <2>3 DEF InMonth
  <2>5. /\ read \in [Months -> Figure] /\ Sound(read) /\ LastRow \in Nat
        /\ "rowid" \in done => \A m \in Months : read[m].mark # NoMark
    BY ReadingsSound, ReadingsMarked, Typed DEF SInv
  <2>6. ASSUME NEW m \in Months
        PROVE  /\ frozen'[m].spend = read[m].spend
               /\ frozen'[m].mark = IF read[m].mark = NoMark THEN LastRow ELSE read[m].mark
    <3>1. read[m] \in Figure
      BY <2>5
    <3>2. CASE read[m].mark = NoMark
      <4>1. frozen'[m] = [read[m] EXCEPT !.mark = LastRow]
        BY <2>1, <3>2 DEF Marked
      <4>2. QED
        BY <3>1, <3>2, <4>1 DEF Figure
    <3>3. CASE read[m].mark # NoMark
      <4>1. frozen'[m] = read[m]
        BY <2>1, <3>3 DEF Marked
      <4>2. QED
        BY <3>3, <4>1
    <3>4. QED
      BY <3>2, <3>3
  <2>7. Known(frozen)'
    BY <2>3, <2>5, <2>6 DEF Sound, Known
  <2>8. ASSUME ~Migrated, NEW n \in Settled, NEW m \in Months
        PROVE  /\ frozen'[m].mark \in Marks => po[n].row <= frozen'[m].mark
               /\ frozen'[m].mark # NotFrozen /\ (m \notin RefreezeMonths \/ "spend" \in done) =>
                    (n \in frozen'[m].spend <=> ~po[n].void /\ InMonth(n) = m)
    <3>1. AgreesEarly(read, n) /\ po[n].row <= LastRow
      BY <2>5, <2>8, Typed DEF Settled, Sound
    <3>2. NoMark # NotFrozen
      BY DEF NoMark, NotFrozen
    <3>3. QED
      BY <2>6, <3>1, <3>2 DEF AgreesEarly
  <2>9. ASSUME ~Migrated, NEW n \in Settled PROVE AgreesEarly(frozen, n)'
    <3>1. "spend" \in done' <=> "spend" \in done
      BY <2>2
    <3>2. QED
      BY <2>3, <2>4, <2>8, <2>9, <3>1 DEF AgreesEarly
  <2>10. ASSUME ~Migrated, Migrated', NEW n \in Settled PROVE Agrees(frozen, n)'
    <3>1. "spend" \in done /\ \A m \in Months : frozen'[m].mark # NoMark
      BY <2>2, <2>10 DEF IInv, AllMarked, Migrated
    <3>2. frozen' \in [Months -> Figure] /\ InMonth(n)' \in Months /\ po'[n].row \in Nat
      BY <2>3, <2>4, Typed DEF IInv, TypeOK, Settled
    <3>3. \A m \in Months :
              /\ frozen'[m].mark # NoMark
              /\ frozen'[m].mark \in Marks => po'[n].row <= frozen'[m].mark
              /\ frozen'[m].mark # NotFrozen =>
                    (n \in frozen'[m].spend <=> ~po'[n].void /\ InMonth(n)' = m)
      BY <2>3, <2>4, <2>8, <2>10, <3>1
    <3>4. InMonth(n)' = Month(SpendDate(po'[n].date, po'[n].inv))
      BY DEF InMonth
    <3>5. AgreesWith(po'[n], frozen', n)
      BY <3>2, <3>3, <3>4, EarlyAgrees
    <3>6. QED
      BY <3>5 DEF Agrees
  <2>11. ASSUME Migrated, NEW n \in Settled PROVE Agrees(frozen, n)'
    <3>1. Agrees(read, n) /\ InMonth(n) \in Months
          /\ InMonth(n) = Month(SpendDate(po[n].date, po[n].inv))
      BY <2>5, <2>11, Typed DEF Settled, Sound, InMonth
    <3>2. \A m \in Months : frozen'[m].mark = read[m].mark /\ frozen'[m].spend = read[m].spend
      BY <2>5, <2>6, <2>11 DEF Migrated
    <3>3. SpendMonth(po[n], frozen') = SpendMonth(po[n], read)
      BY <3>1, <3>2 DEF SpendMonth
    <3>4. AgreesWith(po[n], frozen', n)
      BY <3>1, <3>2, <3>3 DEF Agrees, AgreesWith
    <3>5. QED
      BY <2>3, <3>4 DEF Agrees
  <2>12. Migrated => Migrated'
    BY <2>2 DEF Migrated
  <2>13. Sound(frozen)'
    BY <2>3, <2>7, <2>9, <2>10, <2>11, <2>12 DEF Sound
  <2>14. QED
    BY <1>1, <2>13, StartSound
<1>4. QED
  BY <1>2, <1>3

LEMMA StartFailsSound == ASSUME IInv, IInv', SInv, StartFails PROVE SInv'
<1>1. stage # "up" /\ (Start("marks") \/ Start("up")) /\ UNCHANGED <<frozen, done, loose>>
  BY DEF StartFails
<1>2. QED
  BY <1>1, NothingSound

LEMMA RestartSound == ASSUME SInv, Restart PROVE SInv'
<1>1. po' = po /\ loose' = loose /\ LastRow' = LastRow /\ frozen' = frozen /\ done' = done
  BY DEF Restart, LastRow
<1>2. Sound(frozen)'
  BY <1>1 DEF SInv, Sound, Known, Migrated, Agrees, AgreesEarly, InMonth, Settled
<1>3. \A h \in Handlers : req'[h].pc = "idle"
  BY DEF Restart, Idle
<1>4. QED
  BY <1>2, <1>3 DEF SInv, FreezeSound

-----------------------------------------------------------------------------
(* Freezes *)

\* A step of one freeze that writes nothing: the others and the setting stay sound.
LEMMA FreezeStep ==
    ASSUME IInv, SInv, NEW h \in Handlers, NEW r, Goto(h, r), loose \subseteq loose',
           FreezeSound(h)'
    PROVE  SInv'
<1>1. po' = po /\ loose \subseteq loose' /\ LastRow' = LastRow /\ frozen' = frozen /\ done' = done
  BY DEF Goto, LastRow
<1>2. Sound(frozen)'
  BY <1>1 DEF SInv, Sound, Known, Migrated, Agrees, AgreesEarly, InMonth, Settled
<1>3. ASSUME NEW k \in Handlers, k # h PROVE FreezeSound(k)'
  <2>1. req'[k] = req[k]
    BY <1>3 DEF Goto, IInv, TypeOK
  <2>2. QED
    BY <1>1, <2>1 DEF SInv, FreezeSound, Sound, Known, Migrated, Agrees, AgreesEarly,
                      InMonth, Settled
<1>4. QED
  BY <1>2, <1>3 DEF SInv

LEMMA ReadFrozenSound == ASSUME IInv, SInv, NEW h \in Handlers, ReadFrozen(h) PROVE SInv'
<1>1. PICK m \in Months, read \in Readings :
        stage = "up" /\ loose' = loose /\ Goto(h, Started(m, read))
  BY Zenon DEF ReadFrozen, Started
<1> DEFINE r == Started(m, read)
<1>2. /\ r.month = m /\ r.copy = read
      /\ Kept(read[m]) => r.pc = "compute" /\ r.mark = read[m].mark
      /\ ~Kept(read[m]) => r.pc = "rowid" /\ r.mark = 0
  BY DEF Started
<1> HIDE DEF r
<1>3. /\ req'[h] = r /\ po' = po /\ loose' = loose /\ LastRow' = LastRow
      /\ frozen' = frozen /\ done' = done
  BY <1>1 DEF r, Goto, LastRow, IInv, TypeOK
<1>4. Sound(read)
  BY ReadingsSound DEF SInv
<1>5. LastRow \in Nat /\ read[m].mark <= LastRow
  BY <1>4, Typed DEF Sound, Known
<1>6. FreezeSound(h)'
  <2>1. CASE Kept(read[m])
    BY <1>2, <1>3, <1>4, <1>5, <2>1 DEF FreezeSound, Kept, Sound, Known, Migrated, Agrees,
                                        AgreesEarly, InMonth, Settled
  <2>2. CASE ~Kept(read[m])
    BY <1>2, <1>3, <1>4, <1>5, <2>2 DEF FreezeSound, Kept, Sound, Known, Migrated, Agrees,
                                        AgreesEarly, InMonth, Settled
  <2>3. QED
    BY <2>1, <2>2
<1>7. QED
  BY <1>1, <1>6, FreezeStep

LEMMA ReadRowidSound == ASSUME IInv, SInv, NEW h \in Handlers, ReadRowid(h) PROVE SInv'
<1> DEFINE r == [req[h] EXCEPT !.pc = "compute", !.mark = LastRow]
<1>1. req[h].pc = "rowid" /\ Goto(h, r) /\ loose' = loose
  BY DEF ReadRowid
<1>2. req[h] \in Request /\ LastRow \in Nat /\ \A n \in DOMAIN po : po[n].row <= LastRow
  BY Typed
<1>3. /\ r.pc = "compute" /\ r.mark = LastRow
      /\ r.copy = req[h].copy /\ r.month = req[h].month
  BY <1>2 DEF Request
<1> HIDE DEF r
<1>4. /\ req'[h] = r /\ po' = po /\ loose' = loose /\ LastRow' = LastRow /\ done' = done
  BY <1>1 DEF Goto, LastRow, IInv, TypeOK
<1>5. Sound(req[h].copy) /\ req[h].copy[req[h].month].mark \notin Marks
  BY <1>1 DEF SInv, FreezeSound
<1>6. FreezeSound(h)'
  BY <1>2, <1>3, <1>4, <1>5 DEF FreezeSound, Sound, Known, Migrated, Agrees, AgreesEarly,
                                InMonth, Settled
<1>7. QED
  BY <1>1, <1>6, FreezeStep

LEMMA FreezeFailsSound == ASSUME IInv, SInv, NEW h \in Handlers, FreezeFails(h) PROVE SInv'
<1>1. Goto(h, Idle) /\ req'[h] = Idle /\ loose' = loose
  BY DEF FreezeFails, Goto, IInv, TypeOK
<1>2. Idle.pc = "idle"
  BY DEF Idle
<1>3. FreezeSound(h)'
  BY <1>1, <1>2 DEF FreezeSound
<1>4. QED
  BY <1>1, <1>3, FreezeStep

LEMMA WriteFrozenSound == ASSUME IInv, SInv, NEW h \in Handlers, WriteFrozen(h) PROVE SInv'
<1>1. /\ req[h].pc = "write" /\ frozen' = req[h].copy /\ req' = [req EXCEPT ![h] = Idle]
      /\ po' = po /\ loose' = loose /\ LastRow' = LastRow /\ done' = done
  BY DEF WriteFrozen, LastRow
<1>2. Sound(req[h].copy)
  BY <1>1 DEF SInv, FreezeSound
<1>3. Sound(frozen)'
  BY <1>1, <1>2 DEF Sound, Known, Migrated, Agrees, AgreesEarly, InMonth, Settled
<1>4. ASSUME NEW k \in Handlers PROVE FreezeSound(k)'
  <2>1. CASE k = h
    <3>1. req'[k].pc = "idle"
      BY <1>1, <2>1 DEF Idle, IInv, TypeOK
    <3>2. QED
      BY <3>1 DEF FreezeSound
  <2>2. CASE k # h
    <3>1. req'[k] = req[k]
      BY <1>1, <2>2 DEF IInv, TypeOK
    <3>2. QED
      BY <1>1, <3>1 DEF SInv, FreezeSound, Sound, Known, Migrated, Agrees, AgreesEarly,
                        InMonth, Settled
  <2>3. QED
    BY <2>1, <2>2
<1>5. QED
  BY <1>3, <1>4 DEF SInv

\* What a freeze computes is sound: its watermark moves no settled order to another
\* month than the setting it read, and of its month it counts all that it saw.
LEMMA ComputeSpendSound == ASSUME IInv, SInv, NEW h \in Handlers, ComputeSpend(h) PROVE SInv'
<1>0. PICK end \in 0..LastRow :
        /\ req[h].pc = "compute"
        /\ Goto(h, [req[h] EXCEPT !.pc = "write",
                                  !.copy[req[h].month] = Computed(req[h], end)])
        /\ Loosen(Unseen(req[h].month, req[h].copy, end))
  BY Zenon DEF ComputeSpend, Computed
<1> DEFINE f == req[h].copy
           month == req[h].month
           mark == req[h].mark
           kept == f[month].mark \in Marks
           figure == Computed(req[h], end)
           g == [f EXCEPT ![month] = figure]
           r == [req[h] EXCEPT !.pc = "write", !.copy[month] = figure]
<1>1. /\ req[h].pc = "compute" /\ Goto(h, r)
      /\ loose' = loose \cup Unseen(month, f, end)
  BY <1>0 DEF Loosen
<1>2. /\ req[h] \in Request /\ f \in [Months -> Figure] /\ month \in Months /\ mark \in Marks
      /\ LastRow \in Nat
  BY Typed
<1>3. r.pc = "write" /\ r.copy = g /\ r.month = month /\ r.mark = mark
  BY <1>2 DEF Request
<1>4. /\ Sound(f) /\ mark <= LastRow
      /\ kept => mark = f[month].mark
      /\ ~kept => \A n \in Settled : po[n].row <= mark
  BY <1>1 DEF SInv, FreezeSound
<1>5. /\ g[month].mark = mark /\ g[month].spend = Spend(month, f) \ Unseen(month, f, end)
      /\ \A m \in Months \ {month} : g[m] = f[m]
      /\ mark \in Nat /\ mark # NotFrozen
  BY <1>2 DEF Marks, NotFrozen, Computed
<1> HIDE DEF f, month, mark, g, r
<1>6. Known(g)
  <2>1. Spend(month, f) \subseteq DOMAIN po
    BY DEF Spend
  <2>2. QED
    BY <1>4, <1>5, <2>1 DEF Sound, Known
<1>7. ASSUME NEW n \in Settled'
      PROVE  IF Migrated THEN Agrees(g, n) ELSE AgreesEarly(g, n)
  <2>1. /\ n \in Settled /\ n \notin Unseen(month, f, end)
        /\ n \in DOMAIN po /\ InMonth(n) \in Months /\ po[n].row \in Nat
        /\ InMonth(n) = Month(SpendDate(po[n].date, po[n].inv))
    BY <1>1, <1>7, Typed DEF Settled, InMonth, Goto
  <2>2. n \in g[month].spend <=> ~po[n].void /\ SpendMonth(po[n], f) = month
    BY <1>5, <2>1 DEF Spend
  <2>3. CASE Migrated
    <3>1. Agrees(f, n)
      BY <1>4, <2>1, <2>3 DEF Sound
    <3>2. SpendMonth(po[n], g) = SpendMonth(po[n], f)
      <4>1. CASE InMonth(n) # month
        <5>1. g[InMonth(n)] = f[InMonth(n)]
          BY <1>5, <2>1, <4>1
        <5>2. QED
          BY <2>1, <5>1 DEF SpendMonth
      <4>2. CASE InMonth(n) = month /\ kept
        <5>1. g[InMonth(n)].mark = f[InMonth(n)].mark
          BY <1>4, <1>5, <4>2
        <5>2. QED
          BY <2>1, <5>1 DEF SpendMonth
      <4>3. CASE InMonth(n) = month /\ ~kept
        <5>1. SpendMonth(po[n], f) = InMonth(n)
          BY <2>1, <4>3 DEF SpendMonth
        <5>2. ~(po[n].row > g[InMonth(n)].mark)
          BY <1>4, <1>5, <2>1, <4>3
        <5>3. QED
          BY <2>1, <5>1, <5>2 DEF SpendMonth
      <4>4. QED
        BY <4>1, <4>2, <4>3
    <3>3. ASSUME NEW m \in Months, g[m].mark # NotFrozen
          PROVE  /\ n \in g[m].spend => ~po[n].void /\ SpendMonth(po[n], g) = m
                 /\ SpendMonth(po[n], g) = m /\ ~po[n].void =>
                       n \in g[m].spend \/ po[n].row > g[m].mark
      <4>1. CASE m = month
        BY <2>2, <3>2, <4>1
      <4>2. CASE m # month
        <5>1. g[m] = f[m]
          BY <1>5, <4>2
        <5>2. QED
          BY <3>1, <3>2, <3>3, <5>1 DEF Agrees, AgreesWith
      <4>3. QED
        BY <4>1, <4>2
    <3>4. QED
      BY <2>3, <3>3 DEF Agrees, AgreesWith
  <2>4. CASE ~Migrated
    <3>1. AgreesEarly(f, n)
      BY <1>4, <2>1, <2>4 DEF Sound
    <3>2. SpendMonth(po[n], f) = InMonth(n)
      BY <2>1, <3>1, EarlyMonth
    <3>3. po[n].row <= mark
      BY <1>2, <1>4, <2>1, <3>1 DEF AgreesEarly, month
    <3>4. ASSUME NEW m \in Months
          PROVE  /\ g[m].mark \in Marks => po[n].row <= g[m].mark
                 /\ g[m].mark # NotFrozen /\ (m \notin RefreezeMonths \/ "spend" \in done) =>
                       (n \in g[m].spend <=> ~po[n].void /\ InMonth(n) = m)
      <4>1. CASE m = month
        BY <1>5, <2>2, <3>2, <3>3, <4>1
      <4>2. CASE m # month
        <5>1. g[m] = f[m]
          BY <1>5, <4>2
        <5>2. QED
          BY <3>1, <5>1 DEF AgreesEarly
      <4>3. QED
        BY <4>1, <4>2
    <3>5. QED
      BY <2>4, <3>4 DEF AgreesEarly
  <2>5. QED
    BY <2>3, <2>4
<1>9. /\ req'[h] = r /\ po' = po /\ loose \subseteq loose' /\ LastRow' = LastRow /\ done' = done
  BY <1>1 DEF Goto, LastRow, IInv, TypeOK
<1>10. /\ req'[h].copy = g /\ req'[h].pc = "write" /\ req'[h].mark = mark
  BY <1>3, <1>9
<1>11. Sound(req[h].copy)'
  <2>1. Known(req[h].copy)'
    BY <1>6, <1>9, <1>10 DEF Known
  <2>2. ASSUME NEW n \in Settled'
        PROVE  IF Migrated' THEN Agrees(req[h].copy, n)' ELSE AgreesEarly(req[h].copy, n)'
    <3>1. IF Migrated THEN Agrees(g, n) ELSE AgreesEarly(g, n)
      BY <1>7, <2>2
    <3>2. QED
      BY <1>9, <1>10, <3>1 DEF Migrated, Agrees, AgreesEarly, InMonth
  <2>3. QED
    BY <2>1, <2>2 DEF Sound
<1>12. FreezeSound(h)'
  BY <1>4, <1>9, <1>10, <1>11 DEF FreezeSound
<1>13. QED
  BY <1>1, <1>9, <1>12, FreezeStep

-----------------------------------------------------------------------------
(* Orders *)

\* An order that is changed, or comes while a freeze looks or a migration is due, is
\* not settled; one that comes otherwise is in no figure and past every watermark.
Stores(n, o) ==
    /\ po' = [k \in (DOMAIN po) \cup {n} |-> IF k = n THEN o ELSE po[k]]
    /\ UNCHANGED <<frozen, done, req>>
    /\ loose \subseteq loose' /\ loose' \subseteq loose \cup {n}
    /\ IF n \in DOMAIN po THEN n \in loose' /\ o.row >= po[n].row
       ELSE /\ o.row = LastRow + 1
            /\ Unsettled => n \in loose'

LEMMA StoresSound ==
    ASSUME IInv, IInv', SInv, NEW n, NEW o, Stores(n, o)
    PROVE  SInv'
<1>1. /\ DOMAIN po' = (DOMAIN po) \cup {n} /\ po'[n] = o
      /\ \A k \in DOMAIN po \ {n} : po'[k] = po[k]
      /\ frozen' = frozen /\ done' = done /\ req' = req
  BY DEF Stores
<1>2. /\ LastRow \in Nat /\ LastRow' \in Nat /\ LastRow <= LastRow'
  <2>1. LastRow \in Nat /\ LastRow' \in Nat /\ \A k \in DOMAIN po' : po'[k].row <= LastRow'
    <3>1. LastRow \in Nat
      BY Typed
    <3>2. LastRow' \in Nat /\ \A k \in DOMAIN po' : po'[k].row <= LastRow'
      BY LastRowPrimed DEF IInv
    <3>3. QED
      BY <3>1, <3>2
  <2>2. LastRow = 0 \/ \E k \in DOMAIN po : LastRow = po[k].row
    BY DEF LastRow, IInv, LastRowExists
  <2>3. ASSUME NEW k \in DOMAIN po PROVE po[k].row <= po'[k].row /\ po'[k].row \in Nat
    <3>1. po[k].row \in Nat /\ po'[k].row \in Nat
      BY <1>1, AnalyticsAssumption DEF IInv, TypeOK, Order, AnalyticsAssumption
    <3>2. CASE k = n
      BY <1>1, <3>1, <3>2 DEF Stores
    <3>3. CASE k # n
      BY <1>1, <3>1, <3>3
    <3>4. QED
      BY <3>2, <3>3
  <2>4. CASE LastRow = 0
    BY <2>1, <2>4
  <2>5. ASSUME NEW k \in DOMAIN po, LastRow = po[k].row PROVE LastRow <= LastRow'
    BY <1>1, <2>1, <2>3, <2>5
  <2>6. QED
    BY <2>1, <2>2, <2>4, <2>5
<1>3. Settled' \ {n} \subseteq Settled \ {n}
  BY <1>1 DEF Settled, Stores
<1>4. n \in Settled' => /\ n \notin DOMAIN po /\ o.row = LastRow + 1
                        /\ Migrated /\ \A h \in Handlers : ~Racing(h)
  BY DEF Settled, Stores, Unsettled, Migrated
<1>5. ASSUME NEW f, Sound(f), f \in [Months -> Figure]
      PROVE  /\ \A m \in Months : f[m].spend \subseteq DOMAIN po' /\ f[m].mark <= LastRow'
             /\ \A k \in Settled' : IF Migrated' THEN Agrees(f, k)' ELSE AgreesEarly(f, k)'
  <2>1. ASSUME NEW m \in Months
        PROVE  /\ f[m].spend \subseteq DOMAIN po /\ f[m].spend \subseteq DOMAIN po'
               /\ f[m].mark <= LastRow /\ f[m].mark <= LastRow' /\ f[m].mark \in Int
    <3>1. f[m].mark \in Int
      BY <1>5 DEF Figure, Marks, NoMark, NotFrozen
    <3>2. f[m].spend \subseteq DOMAIN po /\ f[m].mark <= LastRow
      BY <1>5 DEF Sound, Known
    <3>3. QED
      BY <1>1, <1>2, <3>1, <3>2
  <2>2. ASSUME NEW k \in Settled' \ {n}
        PROVE  IF Migrated' THEN Agrees(f, k)' ELSE AgreesEarly(f, k)'
    <3>1. k \in Settled /\ po'[k] = po[k]
      BY <1>1, <1>3, <2>2 DEF Settled
    <3>2. IF Migrated THEN Agrees(f, k) ELSE AgreesEarly(f, k)
      BY <1>5, <3>1 DEF Sound
    <3>3. QED
      BY <1>1, <3>1, <3>2 DEF Migrated, Agrees, AgreesEarly, InMonth
  <2>3. ASSUME n \in Settled'
        PROVE  Migrated' /\ Agrees(f, n)'
    <3>1. /\ \A m \in Months : n \notin f[m].spend
          /\ \A m \in Months : o.row > f[m].mark
      BY <1>2, <1>4, <2>1, <2>3
    <3>2. AgreesWith(o, f, n)
      BY <3>1 DEF AgreesWith
    <3>3. QED
      BY <1>1, <1>4, <2>3, <3>2 DEF Migrated, Agrees
  <2>4. QED
    BY <2>1, <2>2, <2>3
<1>6. Sound(frozen)'
  <2>1. Sound(frozen) /\ frozen \in [Months -> Figure]
    BY DEF SInv, IInv, TypeOK
  <2>2. QED
    BY <1>1, <1>5, <2>1 DEF Sound, Known, Agrees, AgreesEarly
<1>7. ASSUME NEW h \in Handlers, req[h].pc # "idle" PROVE FreezeSound(h)'
  <2>1. /\ FreezeSound(h) /\ req'[h] = req[h] /\ req[h].copy \in [Months -> Figure]
        /\ req[h].mark \in Marks
    BY <1>1, Typed DEF SInv
  <2>2. Sound(req[h].copy)
    BY <1>7, <2>1 DEF FreezeSound
  <2>3. Sound(req[h].copy)'
    BY <1>1, <1>5, <2>1, <2>2 DEF Sound, Known, Agrees, AgreesEarly
  <2>4. req[h].mark <= LastRow'
    <3>1. req[h].mark <= LastRow /\ req[h].mark \in Nat
      BY <1>7, <2>1 DEF FreezeSound, Marks
    <3>2. QED
      BY <1>2, <3>1
  <2>5. ASSUME req[h].pc = "compute", req[h].copy[req[h].month].mark \notin Marks,
               NEW k \in Settled'
        PROVE  po'[k].row <= req[h].mark
    <3>1. Racing(h)
      BY <2>5 DEF Racing
    <3>2. k # n
      BY <1>4, <2>5, <3>1
    <3>3. k \in Settled /\ po'[k] = po[k]
      BY <1>1, <1>3, <2>5, <3>2 DEF Settled
    <3>4. QED
      BY <2>1, <2>5, <3>3 DEF FreezeSound
  <2>6. QED
    BY <2>1, <2>3, <2>4, <2>5 DEF FreezeSound
<1>8. \A h \in Handlers : FreezeSound(h)'
  BY <1>1, <1>7 DEF FreezeSound
<1>9. QED
  BY <1>6, <1>8 DEF SInv

LEMMA StoreStores ==
    ASSUME IInv, NEW n, NEW o, NEW moved, Store(n, o, moved),
           IF n \in DOMAIN po THEN moved /\ o.row >= po[n].row
           ELSE o.row = LastRow + 1 /\ (Unsettled => moved)
    PROVE  Stores(n, o)
<1>1. /\ po' = [k \in (DOMAIN po) \cup {n} |-> IF k = n THEN o ELSE po[k]]
      /\ UNCHANGED <<frozen, done, req>>
  BY DEF Store
<1>2. /\ moved => loose' = loose \cup {n}
      /\ ~moved => loose' = loose
  BY DEF Store, Loosen
<1>3. QED
  BY <1>1, <1>2 DEF Stores

LEMMA OrdersSound ==
    ASSUME IInv, IInv', SInv, NEW n \in 1..MaxRow,
           EnterPO(n) \/ EditPO(n) \/ UpdateInvoiceDate(n) \/ UpdateStatus(n) \/ ImportPO(n)
    PROVE  SInv'
<1> SUFFICES \E o : Stores(n, o)
  BY StoresSound
<1>1. /\ n \in DOMAIN po => po[n] \in Order /\ po[n].row \in Nat /\ po[n].row <= LastRow
      /\ LastRow \in Nat
  BY Typed
<1>2. CASE EnterPO(n)
  <2>1. PICK date \in Days, void \in BOOLEAN, inv \in Days \cup {NoDate} :
          /\ n \notin DOMAIN po
          /\ Store(n, [row |-> LastRow + 1, date |-> date, inv |-> inv, void |-> void],
                   Unsettled)
    BY <1>2 DEF EnterPO, Invoices
  <2>2. Stores(n, [row |-> LastRow + 1, date |-> date, inv |-> inv, void |-> void])
    BY <2>1, StoreStores
  <2>3. QED
    BY <2>2
<1>3. CASE EditPO(n)
  <2>1. PICK date \in Days, void \in BOOLEAN, inv \in Days \cup {NoDate} :
          /\ n \in DOMAIN po
          /\ Store(n, [po[n] EXCEPT !.date = date, !.inv = inv, !.void = void], TRUE)
    BY <1>3 DEF EditPO, Invoices
  <2> DEFINE o == [po[n] EXCEPT !.date = date, !.inv = inv, !.void = void]
  <2>2. o.row = po[n].row
    BY <1>1, <2>1 DEF Order
  <2>3. Store(n, o, TRUE) /\ n \in DOMAIN po
    BY <2>1
  <2> HIDE DEF o
  <2>4. o.row >= po[n].row
    BY <1>1, <2>2, <2>3
  <2>5. QED
    BY <2>3, <2>4, StoreStores
<1>4. CASE UpdateInvoiceDate(n)
  <2>1. PICK inv \in Days \cup {NoDate} :
          n \in DOMAIN po /\ Store(n, [po[n] EXCEPT !.inv = inv], TRUE)
    BY <1>4 DEF UpdateInvoiceDate
  <2> DEFINE o == [po[n] EXCEPT !.inv = inv]
  <2>2. o.row = po[n].row
    BY <1>1, <2>1 DEF Order
  <2>3. Store(n, o, TRUE) /\ n \in DOMAIN po
    BY <2>1
  <2> HIDE DEF o
  <2>4. o.row >= po[n].row
    BY <1>1, <2>2, <2>3
  <2>5. QED
    BY <2>3, <2>4, StoreStores
<1>5. CASE UpdateStatus(n)
  <2> DEFINE o == [po[n] EXCEPT !.void = ~po[n].void]
  <2>1. n \in DOMAIN po /\ Store(n, o, TRUE)
    BY <1>5 DEF UpdateStatus
  <2>2. o.row = po[n].row
    BY <1>1, <2>1 DEF Order
  <2> HIDE DEF o
  <2>3. o.row >= po[n].row
    BY <1>1, <2>1, <2>2
  <2>4. QED
    BY <2>1, <2>3, StoreStores
<1>6. CASE ImportPO(n)
  <2>1. PICK date \in Days, void \in BOOLEAN :
          Store(n, [row |-> LastRow + 1, date |-> date, inv |-> NoDate, void |-> void],
                n \in DOMAIN po \/ Unsettled)
    BY <1>6 DEF ImportPO
  <2> DEFINE o == [row |-> LastRow + 1, date |-> date, inv |-> NoDate, void |-> void]
  <2>2. o.row = LastRow + 1 /\ (n \in DOMAIN po => o.row >= po[n].row)
    BY <1>1
  <2>3. Store(n, o, n \in DOMAIN po \/ Unsettled)
    BY <2>1
  <2> HIDE DEF o
  <2>4. Stores(n, o)
    BY <2>2, <2>3, StoreStores
  <2>5. QED
    BY <2>4
<1>7. QED
  BY <1>2, <1>3, <1>4, <1>5, <1>6

-----------------------------------------------------------------------------
LEMMA NextSInv == IInv /\ IInv' /\ SInv /\ [Next]_vars => SInv'
<1> SUFFICES ASSUME IInv, IInv', SInv, [Next]_vars PROVE SInv'
  OBVIOUS
<1>1. CASE UNCHANGED vars
  <2>1. /\ po' = po /\ frozen' = frozen /\ done' = done /\ req' = req /\ loose' = loose
        /\ LastRow' = LastRow
    BY <1>1 DEF vars, LastRow
  <2>2. QED
    BY <2>1 DEF SInv, FreezeSound, Sound, Known, Migrated, Agrees, AgreesEarly, InMonth, Settled
<1>2. CASE RefreezeInvoiceSpend \/ MarkFreezeWatermarks \/ StartFails \/ Restart
  BY <1>2, RefreezeSound, MarkSound, StartFailsSound, RestartSound
<1>3. ASSUME NEW h \in Handlers,
             ReadFrozen(h) \/ ReadRowid(h) \/ ComputeSpend(h) \/ WriteFrozen(h) \/ FreezeFails(h)
      PROVE  SInv'
  BY <1>3, ReadFrozenSound, ReadRowidSound, ComputeSpendSound, WriteFrozenSound,
     FreezeFailsSound
<1>4. ASSUME NEW n \in 1..MaxRow,
             EnterPO(n) \/ EditPO(n) \/ UpdateInvoiceDate(n) \/ UpdateStatus(n) \/ ImportPO(n)
      PROVE  SInv'
  BY <1>4, OrdersSound
<1>5. QED
  BY <1>1, <1>2, <1>3, <1>4 DEF Next

\* Every setting, stored or held by a freeze, agrees with the settled orders.
THEOREM SettingsSound == Spec => []SInv
BY Invariance, InitSInv, NextSInv, PTL DEF Spec

\* Every order nobody disturbed is shown in one month, and in none only if it is
\* void or came after the month it would count in was frozen.
THEOREM SpendCountedOnce == Spec => []CountedOnce
<1>1. ASSUME IInv, SInv PROVE CountedOnce
  <2> SUFFICES ASSUME Migrated, NEW n \in Settled
               PROVE  /\ \A m1, m2 \in Shown(n) : m1 = m2
                      /\ Shown(n) = {} => po[n].void \/ Late(n)
    BY DEF CountedOnce, Migrated, Settled
  <2> DEFINE mine == SpendMonth(po[n], frozen)
  <2>1. /\ n \in DOMAIN po /\ po[n] \in Order /\ po[n].row \in Nat /\ InMonth(n) \in Months
        /\ InMonth(n) = Month(SpendDate(po[n].date, po[n].inv))
        /\ frozen \in [Months -> Figure]
    BY <1>1, Typed DEF Settled, InMonth
  <2>2. Month(po[n].date) \in Months
    BY <2>1, MonthOfOrder
  <2>3. \A m \in Months : frozen[m].mark # NotFrozen =>
           /\ n \in frozen[m].spend => ~po[n].void /\ mine = m
           /\ mine = m /\ ~po[n].void => n \in frozen[m].spend \/ po[n].row > frozen[m].mark
    BY <1>1 DEF SInv, Sound, Agrees, AgreesWith
  <2>4. \A m \in Months : frozen[m].mark # NotFrozen => frozen[m].mark \in Marks
    BY <1>1, <2>1 DEF IInv, AllMarked, Migrated, Figure
  <2>5. mine \in {InMonth(n), Month(po[n].date)}
    BY <2>1 DEF SpendMonth
  <2>6. frozen[InMonth(n)].mark \in Marks /\ po[n].row > frozen[InMonth(n)].mark
          => mine = Month(po[n].date)
    BY <2>1 DEF SpendMonth
  <2> HIDE DEF mine
  <2>7. \A m \in Shown(n) : m = mine
    BY <2>3 DEF Shown, mine
  <2>8. ASSUME Shown(n) = {}, ~po[n].void PROVE Late(n)
    <3>1. mine \in Months
      BY <2>1, <2>2, <2>5
    <3>2. frozen[mine].mark # NotFrozen /\ n \notin frozen[mine].spend
      BY <2>8, <3>1 DEF Shown, mine
    <3>3. frozen[mine].mark \in Marks /\ po[n].row > frozen[mine].mark
      BY <2>3, <2>4, <2>8, <3>1, <3>2
    <3>4. mine = Month(po[n].date)
      BY <2>5, <2>6, <3>3
    <3>5. QED
      BY <3>3, <3>4 DEF Late
  <2>9. QED
    BY <2>7, <2>8
<1>2. QED
  BY <1>1, Invariance, SettingsSound, PTL
=============================================================================
