------------------------------ MODULE Analytics ------------------------------
(***************************************************************************)
(* Monthly procurement spend and its frozen months: internal/analytics     *)
(* (compute, Freeze, RefreezeInvoiceSpend, MarkFreezeWatermarks) and       *)
(* core.SpendDate, beside the requests that enter, date, void and import   *)
(* purchase orders, and beside the server's start, which repeats its       *)
(* once-only migrations until each is marked done and may stop anywhere.   *)
(*                                                                         *)
(* A freeze reads the settings, reads the last rowid, computes and writes  *)
(* the settings back in four statements: other requests run between them.  *)
(* The code drops the error of two of its readings: a setting that cannot  *)
(* be read is empty, and a reading of the orders that stops half-way is    *)
(* added up as if it were whole.                                           *)
(*                                                                         *)
(* A month's spend is the SET of orders it adds up: whether an order is    *)
(* counted in one month, in two or in none does not depend on its amount.  *)
(* The other frozen figures are left out.  Dates are day numbers, and every*)
(* month has MonthLength days.                                             *)
(***************************************************************************)
EXTENDS Integers, FiniteSets

CONSTANTS
    Handlers,       \* request goroutines that freeze
    Days,           \* dates of orders and invoices
    MonthLength,    \* days in a month
    SpendFrom,      \* InvoiceSpendFrom, the first day of its month
    MaxGap,         \* MaxInvoiceGap, in days
    RefreezeMonths, \* the months RefreezeInvoiceSpend recomputes
    Legacy,         \* may the database hold orders and frozen months at first
    MaxRow,         \* bound: the highest rowid
    MaxFreezes,     \* bound: the freezes under way or written
    MaxLoose        \* bound: the orders changed, raced or left unread, once each

NoDate == -1        \* an invoice date that is blank or unreadable
NoMark == -1        \* a month frozen before watermarks existed
NotFrozen == -2     \* a month the setting does not hold

ASSUME AnalyticsAssumption ==
    /\ Days \subseteq Nat
    /\ MonthLength \in Nat \ {0}
    /\ SpendFrom \in Nat /\ SpendFrom % MonthLength = 0
    /\ MaxGap \in Nat
    /\ RefreezeMonths \subseteq Nat
    /\ \A m \in RefreezeMonths : m >= SpendFrom \div MonthLength
    /\ Legacy \in BOOLEAN
    /\ MaxRow \in Nat /\ MaxFreezes \in Nat /\ MaxLoose \in Nat

VARIABLES
    po,         \* purchase_orders, by number
    frozen,     \* the setting analytics_frozen, by month
    done,       \* the migrations whose marker is set
    stage,      \* "refreeze", "marks": the start of the server; "up": it serves
    req,        \* what each freezing handler is doing
    freezes,    \* history: how many freezes were written
    loose,      \* history: orders whose dates moved, that raced a freeze or that
                \*   a failing reading left out of a figure
    stale       \* history: freezes under way whose copy is not the setting: its
                \*   reading failed, or the setting was replaced since

vars == <<po, frozen, done, stage, req, freezes, loose, stale>>

Month(day) == day \div MonthLength
Months == {Month(day) : day \in Days \cup {SpendFrom}}

Order == [row : 1..MaxRow, date : Days, inv : Days \cup {NoDate}, void : BOOLEAN]
Marks == 0..MaxRow  \* watermarks: the last rowid a month's first freeze saw
Figure == [mark : Marks \cup {NoMark, NotFrozen}, spend : SUBSET (1..MaxRow)]
Live == [mark |-> NotFrozen, spend |-> {}]
Unread == [m \in Months |-> Live]    \* the setting when its reading fails

\* A freeze: its month, the setting it read and will write, the month's watermark.
Request == [pc : {"idle", "rowid", "compute", "write"}, month : Months,
            copy : [Months -> Figure], mark : Marks]
Idle == [pc |-> "idle", month |-> Month(SpendFrom), copy |-> Unread, mark |-> 0]

-----------------------------------------------------------------------------
(* Which month an order counts in *)

SpendDate(date, inv) ==
    IF date < SpendFrom \/ inv = NoDate \/ inv - date > MaxGap \/ date - inv > MaxGap
    THEN date
    ELSE IF inv < SpendFrom THEN SpendFrom ELSE inv

\* Entered after its invoice month was frozen: counted in its PO month.
ByInvoice(o, figures) == Month(SpendDate(o.date, o.inv))
SpendMonth(o, figures) ==
    LET m == Month(SpendDate(o.date, o.inv))
    IN  IF figures[m].mark \in Marks /\ o.row > figures[m].mark
        THEN Month(o.date) ELSE m

\* The spend compute finds for one month, from the orders as they are.
Spend(m, figures) == {n \in DOMAIN po : ~po[n].void /\ SpendMonth(po[n], figures) = m}

CountRows == Cardinality(DOMAIN po)
LastRow == CHOOSE r \in {po[n].row : n \in DOMAIN po} \cup {0} :
               \A n \in DOMAIN po : po[n].row <= r

\* A reading of the orders, by rowid, stops at the first error.  Those it left out.
Unseen(m, figures, end) == {n \in Spend(m, figures) : po[n].row > end}

Loosen(orders) ==
    /\ orders \subseteq loose \/ Cardinality(loose \cup orders) <= MaxLoose
    /\ loose' = loose \cup orders

\* The months the chart shows order n in: a frozen figure replaces the live one.
Shown(n) ==
    {m \in Months :
        IF frozen[m].mark # NotFrozen THEN n \in frozen[m].spend
        ELSE ~po[n].void /\ SpendMonth(po[n], frozen) = m}

-----------------------------------------------------------------------------
\* A new database, or one from before spend followed invoice dates: orders 1..k
\* and months frozen by PO date, up to the last that is refrozen.
Init ==
    /\ \E k \in IF Legacy THEN 0..MaxRow ELSE {0} :
          \E f \in [1..k -> [date : Days, inv : Days \cup {NoDate}]] :
              po = [n \in 1..k |-> [row |-> n, date |-> f[n].date, inv |-> f[n].inv,
                                    void |-> FALSE]]
    /\ \E old \in SUBSET {m \in Months : m < Month(SpendFrom) \/ m \in RefreezeMonths} :
          /\ old # {} => Legacy
          /\ frozen = [m \in Months |->
                IF m \in old
                THEN [mark |-> NoMark, spend |-> {n \in DOMAIN po : Month(po[n].date) = m}]
                ELSE Live]
    /\ done = {} /\ stage = "refreeze"
    /\ req = [h \in Handlers |-> Idle]
    /\ freezes = 0 /\ loose = {} /\ stale = {}

-----------------------------------------------------------------------------
(* The start of the server: each migration once, and an error is only logged *)

\* A marker or a setting that cannot be read is blank: a migration may run again,
\* and may find no month frozen.
Start(next) == stage' = next /\ UNCHANGED <<po, req, freezes, stale>>
Readings == {frozen, Unread}

Done(migration) == migration \in done /\ UNCHANGED <<frozen, done, loose>>
Refrozen(read) == {m \in RefreezeMonths \cap Months : read[m].mark # NotFrozen}

RefreezeInvoiceSpend ==
    /\ stage = "refreeze" /\ Start("marks")
    /\ \/ Done("spend")
       \/ \E read \in Readings, end \in [RefreezeMonths -> 0..LastRow] :
             /\ frozen' = [m \in Months |->
                    IF m \in Refrozen(read)
                    THEN [read[m] EXCEPT
                             !.spend = Spend(m, read) \ Unseen(m, read, end[m])]
                    ELSE read[m]]
             /\ Loosen(UNION {Unseen(m, read, end[m]) : m \in Refrozen(read)})
             /\ done' = done \cup {"spend"}

Marked(read) ==
    [m \in Months |-> IF read[m].mark = NoMark THEN [read[m] EXCEPT !.mark = LastRow]
                      ELSE read[m]]
MarkFreezeWatermarks ==
    /\ stage = "marks" /\ Start("up")
    /\ \/ Done("rowid")
       \/ /\ \E read \in Readings : frozen' = Marked(read)
          /\ done' = done \cup {"rowid"} /\ UNCHANGED loose

\* A failing migration is logged, and the start goes on.
StartFails ==
    /\ \/ stage = "refreeze" /\ Start("marks")
       \/ stage = "marks" /\ Start("up")
    /\ UNCHANGED <<frozen, done, loose>>

\* The process dies, and is started again.
Restart ==
    /\ stage' = "refreeze"
    /\ req' = [h \in Handlers |-> Idle] /\ stale' = {}
    /\ UNCHANGED <<po, frozen, done, freezes, loose>>

-----------------------------------------------------------------------------
(* Freezing a month *)

Goto(h, r) == req' = [req EXCEPT ![h] = r] /\ UNCHANGED <<po, frozen, done, stage, freezes>>

\* settingsFrozen.  A month frozen before keeps its watermark.
NeverKept(figure) == FALSE
Kept(figure) == figure.mark \in Marks
ReadFrozen(h) ==
    \E m \in Months, read \in Readings :
        /\ stage = "up" /\ req[h].pc = "idle"
        /\ Goto(h, [pc |-> IF Kept(read[m]) THEN "compute" ELSE "rowid",
                    month |-> m, copy |-> read,
                    mark |-> IF Kept(read[m]) THEN read[m].mark ELSE 0])
        /\ freezes + Cardinality({k \in Handlers : req[k].pc # "idle"}) < MaxFreezes
        /\ stale' = IF read = frozen THEN stale ELSE stale \cup {h}
        /\ UNCHANGED loose

ReadRowid(h) ==
    /\ req[h].pc = "rowid"
    /\ Goto(h, [req[h] EXCEPT !.pc = "compute", !.mark = LastRow])
    /\ UNCHANGED <<loose, stale>>

ComputeSpend(h) ==
    \E end \in 0..LastRow :
        LET r == req[h]
            out == Unseen(r.month, r.copy, end)
        IN  /\ r.pc = "compute"
            /\ Goto(h, [r EXCEPT !.pc = "write",
                   !.copy[r.month] = [mark |-> r.mark,
                                      spend |-> Spend(r.month, r.copy) \ out]])
            /\ Loosen(out)
            /\ UNCHANGED stale

\* The whole setting is written back, as it was read but for one month.
WriteFrozen(h) ==
    /\ req[h].pc = "write"
    /\ frozen' = req[h].copy
    /\ req' = [req EXCEPT ![h] = Idle]
    /\ stale' = {k \in Handlers \ {h} : req[k].pc # "idle"}
    /\ freezes' = freezes + 1
    /\ UNCHANGED <<po, done, stage, loose>>

FreezeFails(h) ==
    req[h].pc # "idle" /\ Goto(h, Idle) /\ stale' = stale \ {h} /\ UNCHANGED loose

-----------------------------------------------------------------------------
(* Purchase orders *)

\* A freeze that took its watermark and has yet to look at the orders.
Racing(h) ==
    req[h].pc = "compute" /\ req[h].copy[req[h].month].mark \notin Marks

Unsettled == done # {"spend", "rowid"} \/ \E h \in Handlers : Racing(h)

Store(n, order, moved) ==
    /\ stage = "up"
    /\ moved => n \notin loose
    /\ po' = [k \in (DOMAIN po) \cup {n} |-> IF k = n THEN order ELSE po[k]]
    /\ Loosen(IF moved THEN {n} ELSE {})
    /\ UNCHANGED <<frozen, done, stage, req, freezes, stale>>

\* ValidateRequired refuses an invoice date too far from the order's.
Invoices(date) == {NoDate} \cup {d \in Days : d - date <= MaxGap /\ date - d <= MaxGap}

EnterPO(n) ==
    \E date \in Days, void \in BOOLEAN : \E inv \in Invoices(date) :
        /\ n \notin DOMAIN po /\ LastRow < MaxRow
        /\ Store(n, [row |-> LastRow + 1, date |-> date, inv |-> inv, void |-> void],
                 Unsettled)

\* The upsert keeps the row.
EditPO(n) ==
    \E date \in Days, void \in BOOLEAN : \E inv \in Invoices(date) :
        /\ n \in DOMAIN po
        /\ Store(n, [po[n] EXCEPT !.date = date, !.inv = inv, !.void = void], TRUE)

UpdateInvoiceDate(n) ==
    \E inv \in Days \cup {NoDate} :
        n \in DOMAIN po /\ Store(n, [po[n] EXCEPT !.inv = inv], TRUE)

UpdateStatus(n) ==
    n \in DOMAIN po /\ Store(n, [po[n] EXCEPT !.void = ~@], TRUE)

\* savePORow: INSERT OR REPLACE gives the row a new rowid and no invoice date.
ImportPO(n) ==
    \E date \in Days, void \in BOOLEAN :
        /\ LastRow < MaxRow
        /\ Store(n, [row |-> LastRow + 1, date |-> date, inv |-> NoDate, void |-> void],
                 n \in DOMAIN po \/ Unsettled)

-----------------------------------------------------------------------------
Next ==
    \/ RefreezeInvoiceSpend \/ MarkFreezeWatermarks \/ StartFails \/ Restart
    \/ \E h \in Handlers : ReadFrozen(h) \/ ReadRowid(h) \/ ComputeSpend(h)
                           \/ WriteFrozen(h) \/ FreezeFails(h)
    \/ \E n \in 1..MaxRow : EnterPO(n) \/ EditPO(n) \/ UpdateInvoiceDate(n)
                            \/ UpdateStatus(n) \/ ImportPO(n)

Spec == Init /\ [][Next]_vars

-----------------------------------------------------------------------------
(* Properties *)

\* Every variable keeps its shape, and no two orders share a rowid.
TypeOK ==
    /\ DOMAIN po \subseteq 1..MaxRow /\ po \in [DOMAIN po -> Order]
    /\ \A j, k \in DOMAIN po : po[j].row = po[k].row => j = k
    /\ frozen \in [Months -> Figure]
    /\ done \subseteq {"spend", "rowid"}
    /\ stage \in {"refreeze", "marks", "up"}
    /\ req \in [Handlers -> Request]
    /\ freezes \in Nat /\ loose \subseteq DOMAIN po /\ stale \subseteq Handlers

\* compute and Freeze together: an order is shown in one month, however freezes,
\* later orders and restarts fall together, "so nothing is counted twice"
\* (CHANGELOG.md:14) and nothing is lost but an order entered when the month it
\* counts in was already frozen.  Not so for an order whose dates or status were
\* changed, that was entered while a freeze looked or a migration was due, or that
\* a failing reading left out of the figure of its month.  A setting that could not
\* be read, and so was lost, leaves every other order in one month still.
Late(n) == LET m == Month(po[n].date)
           IN  frozen[m].mark \in Marks /\ po[n].row > frozen[m].mark
CountedOnce ==
    stage = "up" /\ done = {"spend", "rowid"} =>
        \A n \in DOMAIN po \ loose :
            /\ \A m1, m2 \in Shown(n) : m1 = m2
            /\ Shown(n) = {} => po[n].void \/ Late(n)

\* Once the watermarks are marked, every frozen month has one: no freeze that is
\* under way, and no restart, brings back a month without.
AllMarked ==
    "rowid" \in done => \A m \in Months : frozen[m].mark # NoMark

\* Freeze writes back every other month as it read it: a watermark "never moves"
\* (analytics.go:171) and no month is lost, unless another freeze wrote meanwhile
\* or the reading of the setting failed.
FreezeKeepsMarksUnlessDisturbed ==
    [][\A h \in Handlers :
          WriteFrozen(h) /\ h \notin stale =>
              \A m \in Months :
                  /\ frozen[m].mark \in Marks => frozen'[m].mark = frozen[m].mark
                  /\ m # req[h].month => frozen'[m] = frozen[m]]_vars
=============================================================================
