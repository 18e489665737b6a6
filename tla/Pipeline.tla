------------------------------- MODULE Pipeline -------------------------------
(***************************************************************************)
(* What is on order: internal/planning (direct orders and the incoming     *)
(* pipeline of Plan) with the two documents that feed it, purchase orders  *)
(* (internal/po) and requests for quotation (internal/rfq).                *)
(*                                                                         *)
(* Plan reads the three tables in three statements, a direct order takes   *)
(* its number in one statement and is stored in another, and a human's PO  *)
(* supersedes the direct orders it covers in a transaction that follows its*)
(* own: these are separate actions, and the other requests run between.    *)
(*                                                                         *)
(* Here a save's item checks may only refuse it (PurchaseOrders models     *)
(* them): Abort stands for that.  Quantities are left out; a date is recent*)
(* or past the 30 days of incomingExpiry.                                  *)
(***************************************************************************)
EXTENDS Integers, FiniteSets

CONSTANTS
    Handlers,       \* request goroutines
    Kinds,          \* the requests sent: a subset of AllKinds
    Items,          \* stock ids
    ItemSets,       \* the sets of items a document may carry
    Ships,          \* ship statuses in use
    StatusChoices,  \* statuses POST /api/pos/{id}/status is used with
    Dates,          \* may a form's date be recent (TRUE), or past the expiry
    Expiry,         \* may documents pass the 30 days
    LookupFails,    \* may the look-up of a number, whose error is ignored, fail
    MaxNumber,      \* bound: the highest number of each kind of document
    MaxBatches      \* bound: direct orders stored, whatever their numbers

AllKinds == {"plan", "direct", "po", "podraft", "rfq", "rfqdraft"}
Keep == -1          \* a nil linked_rfq: the save leaves the stored link alone

ASSUME PipelineAssumption ==
    /\ Kinds \subseteq AllKinds
    /\ ItemSets \subseteq SUBSET Items
    /\ {} \notin ItemSets
    /\ Dates \subseteq BOOLEAN
    /\ Expiry \in BOOLEAN
    /\ LookupFails \in BOOLEAN
    /\ MaxNumber \in [AllKinds -> Nat]
    /\ MaxBatches \in Nat

VARIABLES
    po,         \* purchase_orders, by number
    direct,     \* direct_orders rows, by <<request, stock id>>
    rfq,        \* rfq_logs, by number
    req,        \* what each handler is doing
    since,      \* history of each plan: what was incoming while it read
    taken       \* history of each request that took a number: those that went
                \* into use since, for its kind of document

tables == <<po, direct, rfq>>
vars == <<po, direct, rfq, req, since, taken>>

Entries(stage, items) == {stage} \X items

\* "link" checks the RFQ a PO names, "id" reads the highest number, "commit"
\* is the transaction, "supersede" follows a human's PO; "pos", "directs" and
\* "rfqs" are the three reads of a plan.  numbered says that "id" gave the
\* target; missed is history: the numbers a failed look-up passed over.
Request ==
    [pc : {"idle", "link", "id", "commit", "supersede", "pos", "directs", "rfqs"},
     kind : AllKinds, target : Nat, lines : SUBSET Items, link : Nat \cup {Keep},
     ship : Ships \cup {""}, recent : BOOLEAN, numbered : BOOLEAN,
     missed : SUBSET Nat, view : SUBSET ({"PO", "DIRECT"} \X Items)]

Idle == [pc |-> "idle", kind |-> "plan", target |-> 0, lines |-> {},
         link |-> Keep, ship |-> "", recent |-> TRUE, numbered |-> FALSE,
         missed |-> {}, view |-> {}]

-----------------------------------------------------------------------------
(* The pipeline: what each of the three queries returns *)

OpenPO(n) ==
    /\ po[n].ship \notin {"Received", "Delivered"}
    /\ po[n].status # "VOID"
    /\ po[n].recent

IncomingPOs == Entries("PO", UNION {po[n].lines : n \in {m \in DOMAIN po : OpenPO(m)}})

InFlight(k) == direct[k].status = "ACTIVE" /\ direct[k].recent
IncomingDirect ==
    Entries("DIRECT", {k[2] : k \in {j \in DOMAIN direct : InFlight(j)}})

\* An RFQ counts until it is closed or a recent open PO links it.
OpenRFQ(n) ==
    /\ rfq[n].recent /\ ~rfq[n].closed
    /\ ~\E m \in DOMAIN po : po[m].rfq = n /\ OpenPO(m)
IncomingRFQs == Entries("RFQ", UNION {rfq[n].lines : n \in {m \in DOMAIN rfq : OpenRFQ(m)}})

Incoming == IncomingPOs \cup IncomingDirect \cup IncomingRFQs

\* The number after the highest in use, 1 in an empty table.
CountUsed(used) == Cardinality(used)
Highest(used) == CHOOSE n \in used \cup {0} : \A m \in used : m <= n
NextNumber(used) == Highest(used) + 1

DirectIds == {direct[k].order : k \in DOMAIN direct}
Batches == {k[1] : k \in DOMAIN direct}

\* The numbers GenerateID looks through for each kind of request.
Used(kind) ==
    IF kind = "direct" THEN DirectIds ELSE IF kind = "po" THEN DOMAIN po ELSE DOMAIN rfq

-----------------------------------------------------------------------------
Nothing == [ever |-> {}, always |-> {}]

Init ==
    /\ po = [n \in {} |-> {}] /\ direct = [k \in {} |-> {}] /\ rfq = [n \in {} |-> {}]
    /\ req = [h \in Handlers |-> Idle]
    /\ since = [h \in Handlers |-> Nothing]
    /\ taken = [h \in Handlers |-> {}]

\* History of a plan under way: the entries incoming at some moment and those
\* incoming at every moment since it began.
Planning(r) == r.pc \in {"pos", "directs", "rfqs"}
Watch ==
    since' = [h \in Handlers |->
        IF ~Planning(req'[h]) THEN Nothing
        ELSE IF ~Planning(req[h])
             THEN [ever |-> Incoming', always |-> Incoming']
             ELSE [ever |-> since[h].ever \cup Incoming',
                   always |-> since[h].always \cap Incoming']]

\* History of a number handed out: what was stored under which numbers since.
HasNumber(r) == r.pc = "commit" /\ r.numbered
WatchNumbers ==
    taken' = [h \in Handlers |->
        IF ~HasNumber(req'[h]) THEN {}
        ELSE taken[h] \cup (Used(req[h].kind)' \ Used(req[h].kind))]

Goto(h, r) == req' = [req EXCEPT ![h] = r] /\ UNCHANGED tables

Answer(h) == req' = [req EXCEPT ![h] = Idle]

\* A request comes in.  A PO or an RFQ names an existing document or none (0).
ReceivePlan(h) ==
    "plan" \in Kinds /\ Goto(h, [Idle EXCEPT !.pc = "pos"])

ReceiveDirect(h) ==
    \E lines \in ItemSets :
        /\ "direct" \in Kinds
        /\ Goto(h, [Idle EXCEPT !.pc = "id", !.kind = "direct", !.lines = lines])

ReceivePO(h) ==
    \E kind \in Kinds \cap {"po", "podraft"}, n \in (DOMAIN po) \cup {0},
       lines \in ItemSets, ship \in Ships, recent \in Dates,
       link \in (DOMAIN rfq) \cup {Keep, 0} :
        /\ kind = "podraft" => n = 0
        /\ Goto(h, [Idle EXCEPT !.kind = kind, !.target = n,
                        !.lines = lines, !.ship = ship, !.recent = recent, !.link = link,
                        !.pc = IF link \in {Keep, 0}
                               THEN IF n = 0 /\ kind = "po" THEN "id" ELSE "commit"
                               ELSE "link"])

ReceiveRFQ(h) ==
    \E kind \in Kinds \cap {"rfq", "rfqdraft"}, n \in (DOMAIN rfq) \cup {0},
       lines \in ItemSets, recent \in Dates :
        /\ kind = "rfqdraft" => n = 0
        /\ Goto(h, [Idle EXCEPT !.kind = kind, !.target = n,
                        !.lines = lines, !.recent = recent,
                        !.pc = IF n = 0 /\ kind = "rfq" THEN "id" ELSE "commit"])

Receive(h) ==
    /\ req[h].pc = "idle"
    /\ ReceivePlan(h) \/ ReceiveDirect(h) \/ ReceivePO(h) \/ ReceiveRFQ(h)

\* The request ends with no (more) writes.  Before a commit nothing remains of
\* it; at "supersede" the PO is stored, and the program ignores the error.
Abort(h) == req[h].pc # "idle" /\ Answer(h) /\ UNCHANGED tables

-----------------------------------------------------------------------------
(* Purchase orders *)

\* The RFQ must exist now, or be the one this order already links.
CheckLink(h) ==
    LET r == req[h]
    IN  /\ r.pc = "link"
        /\ IF \/ r.link \in DOMAIN rfq
              \/ r.target \in DOMAIN po /\ po[r.target].rfq = r.link
           THEN Goto(h, [r EXCEPT !.pc = IF r.target = 0 /\ r.kind = "po"
                                         THEN "id" ELSE "commit"])
           ELSE Answer(h) /\ UNCHANGED tables

\* Where a save goes with its id: first the document, then the direct orders.
SupersedeFirst(r) == IF r.kind = "po" THEN "supersede" ELSE "commit"
WithId(r) == "commit"

\* GenerateID of PO and RFQ, nextDirectOrderID: read before the transaction.
\* All three ignore the errors of the query: one that fails, at once or between
\* two rows, answers one past the highest number it came to see.
TakeNumber(h, last, missed) ==
    /\ last + 1 <= MaxNumber[req[h].kind]
    /\ Goto(h, [req[h] EXCEPT !.pc = WithId(req[h]), !.target = last + 1,
                    !.numbered = TRUE, !.missed = missed])
GenerateID(h) ==
    LET used == Used(req[h].kind)
    IN  /\ req[h].pc = "id"
        /\ \/ TakeNumber(h, Highest(used), {})
           \/ /\ LookupFails
              /\ \E last \in used \cup {0} : TakeNumber(h, last, {n \in used : n > last})

\* What a save leaves in row n: a stored status and an unnamed link survive.
LinkAsSent(n, r) == r.link
LinkAfter(n, r) ==
    IF r.link # Keep THEN r.link ELSE IF n \in DOMAIN po THEN po[n].rfq ELSE 0
SavedPO(n, r) ==
    [lines |-> r.lines, ship |-> r.ship, recent |-> r.recent, rfq |-> LinkAfter(n, r),
     status |-> IF n \in DOMAIN po THEN po[n].status ELSE "Pending Approval"]

Put(table, n, row) == [m \in (DOMAIN table) \cup {n} |-> IF m = n THEN row ELSE table[m]]

\* A human's order is stored under the id it has, and the request goes on to
\* the direct orders; an assistant's takes its id inside and is answered.
CommitPO(h) ==
    LET r == req[h]
    IN  /\ r.pc = "commit" /\ r.kind = "po"
        /\ po' = Put(po, r.target, SavedPO(r.target, r))
        /\ req' = [req EXCEPT ![h] = [r EXCEPT !.pc = "supersede"]]
        /\ UNCHANGED <<direct, rfq>>

DraftPO(h) ==
    LET r == req[h]
        n == NextNumber(DOMAIN po)
    IN  /\ r.pc = "commit" /\ r.kind = "podraft" /\ n <= MaxNumber["podraft"]
        /\ po' = Put(po, n, SavedPO(n, r))
        /\ Answer(h) /\ UNCHANGED <<direct, rfq>>

\* ACTIVE rows of the order's items are resolved by it; others are left alone.
AnyStatus(k, stocks) == k[2] \in stocks
Covered(k, stocks) == direct[k].status = "ACTIVE" /\ k[2] \in stocks
SupersedeDirectOrders(h) ==
    LET r == req[h]
    IN  /\ r.pc = "supersede"
        /\ direct' = [k \in DOMAIN direct |->
              IF Covered(k, r.lines)
              THEN [direct[k] EXCEPT !.status = "SUPERSEDED", !.po = r.target]
              ELSE direct[k]]
        /\ Answer(h) /\ UNCHANGED <<po, rfq>>

UpdateStatus(n) ==
    /\ \E status \in StatusChoices : po' = [po EXCEPT ![n].status = status]
    /\ UNCHANGED <<direct, rfq, req>>
UpdateShip(n) ==
    /\ \E ship \in Ships : po' = [po EXCEPT ![n].ship = ship]
    /\ UNCHANGED <<direct, rfq, req>>

-----------------------------------------------------------------------------
(* Direct orders *)

\* One transaction inserts a row per item, all under the number read before.
MarkOrdered(h) ==
    LET r == req[h]
        rows == {Cardinality(Batches) + 1} \X r.lines
    IN  /\ r.pc = "commit" /\ r.kind = "direct" /\ Cardinality(Batches) < MaxBatches
        /\ direct' = [k \in (DOMAIN direct) \cup rows |->
              IF k \in rows THEN [order |-> r.target, status |-> "ACTIVE",
                                  po |-> 0, recent |-> TRUE]
              ELSE direct[k]]
        /\ Answer(h) /\ UNCHANGED <<po, rfq>>

Resolvable(k, order) == direct[k].order = order /\ direct[k].status = "ACTIVE"
Resolve(order, status) ==
    /\ direct' = [k \in DOMAIN direct |->
          IF Resolvable(k, order) THEN [direct[k] EXCEPT !.status = status]
          ELSE direct[k]]
    /\ UNCHANGED <<po, rfq, req>>
MarkDelivered(order) == Resolve(order, "DELIVERED")
CancelOrder(order) == Resolve(order, "CANCELLED")

-----------------------------------------------------------------------------
(* Requests for quotation *)

\* INSERT OR REPLACE, whose subselect carries closed_at over from the old row.
StillClosed(n) == n \in DOMAIN rfq /\ rfq[n].closed
CommitRFQ(h) ==
    LET r == req[h]
    IN  /\ r.pc = "commit" /\ r.kind = "rfq"
        /\ rfq' = Put(rfq, r.target, [lines |-> r.lines, recent |-> r.recent,
                                      closed |-> StillClosed(r.target)])
        /\ Answer(h) /\ UNCHANGED <<po, direct>>

DraftRFQ(h) ==
    LET r == req[h]
        n == NextNumber(DOMAIN rfq)
    IN  /\ r.pc = "commit" /\ r.kind = "rfqdraft" /\ n <= MaxNumber["rfqdraft"]
        /\ rfq' = Put(rfq, n, [lines |-> r.lines, recent |-> r.recent,
                               closed |-> FALSE])
        /\ Answer(h) /\ UNCHANGED <<po, direct>>

DeleteRFQ(n) ==
    /\ rfq' = [m \in (DOMAIN rfq) \ {n} |-> rfq[m]]
    /\ UNCHANGED <<po, direct, req>>

\* closed_at is set by a tool outside this repository.
CloseRFQ(n) ==
    /\ rfq' = [rfq EXCEPT ![n].closed = TRUE]
    /\ UNCHANGED <<po, direct, req>>

-----------------------------------------------------------------------------
(* The plan: three statements, not one snapshot *)

ReadPOs(h) ==
    /\ req[h].pc = "pos"
    /\ Goto(h, [req[h] EXCEPT !.pc = "directs", !.view = IncomingPOs])

ReadDirectOver(h) ==
    /\ req[h].pc = "directs"
    /\ Goto(h, [req[h] EXCEPT !.pc = "rfqs", !.view = IncomingDirect])
ReadDirect(h) ==
    /\ req[h].pc = "directs"
    /\ Goto(h, [req[h] EXCEPT !.pc = "rfqs", !.view = @ \cup IncomingDirect])

\* The last query; the answer is what the three returned.
Planned(h) == req[h].view \cup IncomingRFQs
ReadRFQs(h) == req[h].pc = "rfqs" /\ Answer(h) /\ UNCHANGED tables

\* Documents pass the 30 days.  A plan computes its cutoff once, at its start:
\* what expires while it reads still counts for it.
Expire ==
    /\ Expiry
    /\ \A h \in Handlers : ~Planning(req[h])
    /\ \/ \E n \in DOMAIN po : po' = [po EXCEPT ![n].recent = FALSE]
                               /\ UNCHANGED <<direct, rfq>>
       \/ \E n \in DOMAIN rfq : rfq' = [rfq EXCEPT ![n].recent = FALSE]
                                /\ UNCHANGED <<po, direct>>
       \/ \E o \in DirectIds :
             /\ direct' = [k \in DOMAIN direct |->
                   IF direct[k].order = o THEN [direct[k] EXCEPT !.recent = FALSE]
                   ELSE direct[k]]
             /\ UNCHANGED <<po, rfq>>
    /\ UNCHANGED req

-----------------------------------------------------------------------------
Step ==
    \/ \E h \in Handlers :
          \/ Receive(h) \/ Abort(h) \/ CheckLink(h) \/ GenerateID(h)
          \/ CommitPO(h) \/ DraftPO(h) \/ SupersedeDirectOrders(h)
          \/ MarkOrdered(h) \/ CommitRFQ(h) \/ DraftRFQ(h)
          \/ ReadPOs(h) \/ ReadDirect(h) \/ ReadRFQs(h)
    \/ \E n \in DOMAIN po : UpdateStatus(n) \/ UpdateShip(n)
    \/ \E o \in DirectIds : MarkDelivered(o) \/ CancelOrder(o)
    \/ \E n \in DOMAIN rfq : DeleteRFQ(n) \/ CloseRFQ(n)
    \/ Expire

Next == Step /\ Watch /\ WatchNumbers

Spec == Init /\ [][Next]_vars

-----------------------------------------------------------------------------
(* Properties *)

PO == [lines : SUBSET Items, ship : Ships, recent : BOOLEAN, rfq : Nat,
       status : {"Pending Approval"} \cup StatusChoices]
Row == [order : Nat \ {0}, status : {"ACTIVE", "DELIVERED", "CANCELLED", "SUPERSEDED"},
        po : Nat, recent : BOOLEAN]
Rfq == [lines : SUBSET Items, recent : BOOLEAN, closed : BOOLEAN]
Watched == [ever : SUBSET ({"PO", "DIRECT", "RFQ"} \X Items),
            always : SUBSET ({"PO", "DIRECT", "RFQ"} \X Items)]

\* Every variable keeps its shape, and every number in use is positive.
TypeOK ==
    /\ DOMAIN po \subseteq Nat \ {0} /\ po \in [DOMAIN po -> PO]
    /\ DOMAIN direct \subseteq (Nat \ {0}) \X Items
    /\ direct \in [DOMAIN direct -> Row]
    /\ DOMAIN rfq \subseteq Nat \ {0} /\ rfq \in [DOMAIN rfq -> Rfq]
    /\ req \in [Handlers -> Request]
    /\ since \in [Handlers -> Watched]
    /\ taken \in [Handlers -> SUBSET Nat]

\* incomingPipeline is three queries.  Whatever is written between them, the
\* plan reports no link that was incoming at no moment while it read, and it
\* misses none that was incoming, at the same stage, all the while.
PlanBounded ==
    \A h \in Handlers : req[h].pc = "rfqs" =>
        since[h].always \subseteq Planned(h) /\ Planned(h) \subseteq since[h].ever

\* A direct order is resolved once: delivery, cancellation and a covering PO may
\* meet in any order, and the first of them stands (MarkDelivered, CancelOrder,
\* SupersedeDirectOrders).
ResolvedOnce ==
    [][\A k \in DOMAIN direct :
          /\ k \in DOMAIN direct'
          /\ direct[k].status # "ACTIVE" =>
                direct'[k].status = direct[k].status /\ direct'[k].po = direct[k].po]_vars

\* A direct order is superseded only by a PO that is stored, even if the server
\* stops between the two transactions of POST /api/pos.
SupersededByStoredPO ==
    \A k \in DOMAIN direct :
        IF direct[k].status = "SUPERSEDED" THEN direct[k].po \in DOMAIN po
        ELSE direct[k].po = 0

\* The number of a direct order, a human's RFQ or a human's PO is read outside
\* the transaction that uses it, and nothing keeps two from using one.  When a
\* new document goes in, its number is in use only if another document took it
\* after the look-up, or the look-up failed and passed over it; a deletion in
\* between, or a gap it left, makes no difference.
NumberNewUnlessDisturbed ==
    \A h \in Handlers :
        LET r == req[h]
        IN  HasNumber(r) /\ r.target \in Used(r.kind)
            => r.target \in taken[h] \cup r.missed

\* CreateAssistant of an RFQ "allocates an ID at insert time and never replaces
\* an RFQ" (rfq.go:64), whatever was deleted before and runs beside it: the
\* answer to an assistant leaves every stored RFQ as it was.
DraftsReplaceNothing ==
    [][\A h \in Handlers :
          req[h].kind = "rfqdraft" /\ req[h].pc # "idle" /\ req'[h].pc = "idle"
          => \A n \in DOMAIN rfq : n \in DOMAIN rfq' /\ rfq'[n] = rfq[n]]_vars
=============================================================================
