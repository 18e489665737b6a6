---------------------------- MODULE PurchaseOrders ----------------------------
(***************************************************************************)
(* Saving purchase orders: internal/po (save, CreateAssistant, GenerateID),*)
(* with the item controls it reads (internal/core/uom.go,                  *)
(* internal/planning/eligibility.go) and the status changes of             *)
(* internal/workflow.                                                      *)
(*                                                                         *)
(* The server runs one goroutine per request over ONE database connection  *)
(* (core.Open sets SetMaxOpenConns(1)): a statement, or a transaction, is  *)
(* atomic, and everything between two statements may interleave with the   *)
(* other requests.  A human save is five kinds of statement followed by one*)
(* transaction; an assistant draft repeats its checks and allocates its id *)
(* inside that transaction.  Each is an action here.                       *)
(*                                                                         *)
(* A PO id "PO - MMYYYY - NNN" is its sequence number NNN (one month); a   *)
(* line is the stock id it names, FreeText when that is blank or unknown.  *)
(* Quantities, costs, totals, packs and dates are left out; ship_status and*)
(* linked_rfq are data no guard of this module reads.                      *)
(***************************************************************************)
EXTENDS Integers, FiniteSets

CONSTANTS
    Handlers,         \* request goroutines
    Roles,            \* who sends orders: a subset of {"HUMAN", "ASSISTANT"}
    Items,            \* stock ids of the items table
    EditedItems,      \* those whose controls change
    Acks,             \* may a user acknowledge an unavailable item: {FALSE}, ...
    FreeText,         \* a line that names no item
    Bills,            \* supplier invoice numbers
    NoBill,           \* blank bill_no
    LineSets,         \* the sets of lines a request may carry
    TypedSeqs,        \* ids a form may send (an order it edits, or one typed)
    FormStatuses,     \* statuses a save may carry ("" leaves it alone)
    StatusChoices,    \* statuses POST /api/pos/{id}/status is used with
    LookupFails,      \* may a look-up whose error save ignores fail
    MaxOrders         \* bound: orders stored or being created at a time

Statuses == {"Pending Approval", "Approved", "Pending Payment", "Paid",
             "Partial", "Void", "VOID"}

ASSUME ConstantsAssumption ==
    /\ Roles \subseteq {"HUMAN", "ASSISTANT"}
    /\ EditedItems \subseteq Items /\ FreeText \notin Items
    /\ Acks \subseteq BOOLEAN
    /\ NoBill \notin Bills
    /\ LineSets \subseteq SUBSET (Items \cup {FreeText})
    /\ TypedSeqs \subseteq Nat \ {0}
    /\ FormStatuses \subseteq Statuses \cup {""}
    /\ StatusChoices \subseteq Statuses
    /\ LookupFails \in BOOLEAN
    /\ MaxOrders \in Nat

VARIABLES
    item,       \* items: may it be bought, is it available, is its UOM pending
    po,         \* purchase_orders and their lines, by sequence number
    overrides,  \* AVAILABILITY_OVERRIDE rows of logs: <<order, item>>
    req,        \* what each handler is doing
    poMoved,    \* history: orders other saves wrote since the request came in
    itemMoved   \* history: items changed since the request came in

vars == <<item, po, overrides, req, poMoved, itemMoved>>

Lines == Items \cup {FreeText}
Order == [lines : SUBSET Lines, bill : Bills \cup {NoBill}, status : Statuses]
Controls == [buy : BOOLEAN, avail : BOOLEAN, pending : BOOLEAN]

\* Steps of save: "exists" reads the header, "lines" the stored lines, "uom"
\* and "policy" check one new line, "id" is GenerateID, "bill" looks for the
\* invoice number, "commit" is the transaction.  missed is history, no local of
\* the code: the stored orders a failed look-up of this request passed over.
Request ==
    [pc : {"idle", "exists", "lines", "uom", "policy", "id", "bill", "commit"},
     role : {"HUMAN", "ASSISTANT"}, target : Nat, lines : SUBSET Lines,
     ack : BOOLEAN, bill : Bills \cup {NoBill}, status : Statuses \cup {""},
     exists : BOOLEAN, todo : SUBSET Items,
     cur : Lines, over : SUBSET Items, missed : SUBSET Nat]

Idle == [pc |-> "idle", role |-> "HUMAN", target |-> 0, lines |-> {},
         ack |-> FALSE, bill |-> NoBill, status |-> "", exists |-> FALSE,
         todo |-> {}, cur |-> FreeText, over |-> {}, missed |-> {}]

Init ==
    /\ item = [i \in Items |-> [buy |-> TRUE, avail |-> TRUE, pending |-> FALSE]]
    /\ po = [n \in {} |-> {}]
    /\ overrides = {}
    /\ req = [h \in Handlers |-> Idle]
    /\ poMoved = [h \in Handlers |-> {}]
    /\ itemMoved = [h \in Handlers |-> {}]

-----------------------------------------------------------------------------
(* Reading the tables *)

\* MAX over the month's sequence numbers, 0 in an empty month.
Highest == CHOOSE n \in (DOMAIN po) \cup {0} : \A m \in DOMAIN po : m <= n

NextSeq == Highest + 1

\* SELECT po_id ... WHERE bill_no = ? AND po_id != ?
NoBillOwner(n, bill) == {}
BillOwners(n, bill) == {q \in (DOMAIN po) \ {n} : po[q].bill = bill}

\* Purchasable, and available unless the user acknowledged that it is not.
PurchaseUnchecked(i, ack) == item[i].avail \/ ack
PurchaseAllowed(i, ack) == item[i].buy /\ (item[i].avail \/ ack)

\* CheckPendingUOM and CheckAssistantPurchase: exact linkage, no acknowledgement.
AnyDraftLine(i) == TRUE
DraftLine(i) == i \in Items /\ ~item[i].pending /\ PurchaseAllowed(i, FALSE)

-----------------------------------------------------------------------------
(* Where a save goes next: steps without a statement are not steps. *)

AfterId(r) == IF r.bill = NoBill THEN "commit" ELSE "bill"

AlwaysCheck(r, todo) == "uom"
AfterChecks(r, todo) ==
    IF todo # {} THEN "uom"
    ELSE IF r.target = 0 THEN "id" ELSE AfterId(r)

Goto(h, r) ==
    /\ req' = [req EXCEPT ![h] = r]
    /\ UNCHANGED <<item, po, overrides, poMoved, itemMoved>>

\* The request ends without a write: an error answer, a rolled back transaction.
Refuse(h) ==
    /\ req' = [req EXCEPT ![h] = Idle]
    /\ poMoved' = [poMoved EXCEPT ![h] = {}]
    /\ itemMoved' = [itemMoved EXCEPT ![h] = {}]
    /\ UNCHANGED <<item, po, overrides>>

\* Requests that may add an order (bound only).
Starting == {h \in Handlers : req[h].pc # "idle" /\ req[h].target \notin DOMAIN po}

\* POST /api/pos.  An assistant's id, status and acknowledgements are dropped
\* or refused by CreateAssistant before anything is read.
Receive(h) ==
    /\ req[h].pc = "idle"
    /\ \E role \in Roles, target \in TypedSeqs \cup {0}, ack \in Acks,
          lines \in LineSets, bill \in Bills \cup {NoBill},
          status \in FormStatuses :
        /\ role = "ASSISTANT" => target = 0 /\ ~ack /\ status = ""
        /\ target \notin DOMAIN po =>
               Cardinality(DOMAIN po) + Cardinality(Starting) < MaxOrders
        /\ Goto(h, [Idle EXCEPT !.pc = "exists", !.role = role,
                        !.target = target, !.lines = lines, !.ack = ack,
                        !.bill = bill, !.status = status])

\* SELECT EXISTS(... po_id=?).  createOnly skips the line checks and GenerateID.
ReadExists(h) ==
    LET r == req[h]
        todo == r.lines \cap Items
        next == IF r.target \in DOMAIN po THEN "lines"
                ELSE IF r.role = "ASSISTANT" THEN AfterId(r)
                ELSE AfterChecks(r, todo)
    IN  /\ r.pc = "exists"
        /\ Goto(h, [r EXCEPT !.exists = r.target \in DOMAIN po, !.pc = next,
                        !.todo = IF r.role = "ASSISTANT" THEN {} ELSE todo])

\* The lines stored now are not checked again.
ReadLines(h) ==
    LET r == req[h]
        todo == (r.lines \cap Items) \ po[r.target].lines
    IN  /\ r.pc = "lines"
        /\ Goto(h, [r EXCEPT !.todo = todo, !.pc = AfterChecks(r, todo)])

\* CheckPendingUOM on a new line, the first of the two queries it costs.
CheckPendingUOM(h) ==
    LET r == req[h]
    IN  /\ r.pc = "uom"
        /\ \E i \in r.todo :
            IF item[i].pending
            THEN Refuse(h)
            ELSE Goto(h, [r EXCEPT !.pc = "policy", !.cur = i])

\* CheckPurchase on the same line; an unavailable item is noted for the log.
CheckPurchase(h) ==
    LET r == req[h]
        i == r.cur
        todo == r.todo \ {i}
    IN  /\ r.pc = "policy"
        /\ IF PurchaseAllowed(i, r.ack)
           THEN Goto(h, [r EXCEPT !.todo = todo, !.cur = FreeText,
                            !.pc = AfterChecks(r, todo),
                            !.over = IF item[i].avail THEN @ ELSE @ \cup {i}])
           ELSE Refuse(h)

\* The id of a new human order, read outside the transaction that uses it.  Its
\* errors are ignored: a query that fails, at once or between two rows, answers
\* one past the highest number it came to see.
GenerateID(h) ==
    LET r == req[h]
    IN  /\ r.pc = "id"
        /\ \E last \in (DOMAIN po) \cup {0} :
            /\ last = Highest \/ LookupFails
            /\ Goto(h, [r EXCEPT !.target = last + 1, !.pc = AfterId(r),
                            !.missed = {n \in DOMAIN po : n > last}])

\* "Block duplicate invoice numbers"; an assistant has no id yet (target 0).  A
\* look-up that fails finds nobody, and its error is ignored.
CheckBill(h) ==
    LET r == req[h]
        owners == BillOwners(r.target, r.bill)
        pass == Goto(h, [r EXCEPT !.pc = "commit", !.missed = @ \cup owners])
    IN  /\ r.pc = "bill"
        /\ IF owners = {} THEN pass ELSE Refuse(h) \/ (LookupFails /\ pass)

\* COALESCE(NULLIF(?, ''), purchase_orders.status), and the INSERT default.
StatusReset(n, status) == IF status # "" THEN status ELSE "Pending Approval"
StatusLost(n, status) == IF n \in DOMAIN po THEN po[n].status ELSE status
StatusAfter(n, status) ==
    IF status # "" THEN status
    ELSE IF n \in DOMAIN po THEN po[n].status ELSE "Pending Approval"

\* Row n and its lines are written, and the request is answered.
Store(h, n, order) ==
    /\ po' = [m \in (DOMAIN po) \cup {n} |-> IF m = n THEN order ELSE po[m]]
    /\ req' = [req EXCEPT ![h] = Idle]
    /\ poMoved' = [k \in Handlers |->
                      IF k = h \/ req[k].pc = "idle" THEN {}
                      ELSE poMoved[k] \cup {n}]
    /\ itemMoved' = [itemMoved EXCEPT ![h] = {}]
    /\ UNCHANGED item

\* The transaction of a human save: upsert, replace the lines, log overrides.
CommitSave(h) ==
    LET r == req[h]
    IN  /\ r.pc = "commit" /\ r.role = "HUMAN"
        /\ Store(h, r.target, [lines |-> r.lines, bill |-> r.bill,
                               status |-> StatusAfter(r.target, r.status)])
        /\ overrides' = overrides \cup ({r.target} \X r.over)

\* The transaction of an assistant draft: id, checks and a plain INSERT.
CountRows(h) == Cardinality(DOMAIN po) + 1
DraftId(h) == NextSeq
CommitDraft(h) ==
    LET r == req[h]
    IN  /\ r.pc = "commit" /\ r.role = "ASSISTANT"
        /\ IF \A i \in r.lines : DraftLine(i)
           THEN /\ Store(h, DraftId(h), [lines |-> r.lines, bill |-> r.bill,
                                         status |-> "Pending Approval"])
                /\ UNCHANGED overrides
           ELSE Refuse(h)

\* A statement fails, or the process dies: nothing of the request remains.
Abort(h) == req[h].pc # "idle" /\ Refuse(h)

-----------------------------------------------------------------------------
(* The other requests: one statement each *)

SetStatus(n, status) ==
    /\ po' = [po EXCEPT ![n].status = status]
    /\ UNCHANGED <<item, overrides, req, poMoved, itemMoved>>

Approve(n) == po[n].status = "Pending Approval" /\ SetStatus(n, "Approved")

RequestPayment(n) == po[n].status = "Approved" /\ SetStatus(n, "Pending Payment")

UpdateStatus(n) == \E status \in StatusChoices : SetStatus(n, status)

SetItem(i, controls) ==
    /\ item' = [item EXCEPT ![i] = controls]
    /\ itemMoved' = [h \in Handlers |->
                        IF req[h].pc = "idle" THEN {} ELSE itemMoved[h] \cup {i}]
    /\ UNCHANGED <<po, overrides, req, poMoved>>

\* purchase_policy or product_status edited in the item editor.
EditControls(i) ==
    \E buy, avail \in BOOLEAN :
        SetItem(i, [item[i] EXCEPT !.buy = buy, !.avail = avail])

\* A stock import whose unit differs from the stored one.
FlagUOM(i) == SetItem(i, [item[i] EXCEPT !.pending = TRUE])

ConfirmUOM(i) == item[i].pending /\ SetItem(i, [item[i] EXCEPT !.pending = FALSE])

-----------------------------------------------------------------------------
Save(h) ==
    \/ ReadExists(h) \/ ReadLines(h) \/ CheckPendingUOM(h) \/ CheckPurchase(h)
    \/ GenerateID(h) \/ CheckBill(h) \/ CommitSave(h) \/ CommitDraft(h)

Next ==
    \/ \E h \in Handlers : Receive(h) \/ Save(h) \/ Abort(h)
    \/ \E n \in DOMAIN po : Approve(n) \/ RequestPayment(n) \/ UpdateStatus(n)
    \/ \E i \in EditedItems : EditControls(i) \/ FlagUOM(i) \/ ConfirmUOM(i)

\* net/http runs a handler until it returns, and no statement waits for ever:
\* a transaction in this program never waits for another request.
Fairness == \A h \in Handlers : WF_vars(Save(h))

Spec == Init /\ [][Next]_vars /\ Fairness

-----------------------------------------------------------------------------
(* Properties *)

\* Every variable keeps its shape; every order number is a positive integer.
TypeOK ==
    /\ item \in [Items -> Controls]
    /\ DOMAIN po \subseteq Nat \ {0}
    /\ po \in [DOMAIN po -> Order]
    /\ overrides \subseteq (DOMAIN po) \X Items
    /\ req \in [Handlers -> Request]
    /\ poMoved \in [Handlers -> SUBSET (Nat \ {0})]
    /\ itemMoved \in [Handlers -> SUBSET Items]

\* po.save reads whether the order exists, then an unused number, and upserts
\* much later.  A save that takes its order for a new one finds a row under
\* that number only if another save wrote the row after this request came in,
\* or the look-up of GenerateID failed and passed over the row.
NewOrderIsNewUnlessDisturbed ==
    \A h \in Handlers :
        LET r == req[h]
        IN  (/\ r.pc \notin {"idle", "exists"}
             /\ ~r.exists
             /\ r.target \in DOMAIN po) => r.target \in poMoved[h] \cup r.missed

\* The invoice-number check of po.save happens before its transaction.  At the
\* commit another order carries the number only if a save wrote that order
\* after this request came in, or the check failed and passed over it.
InvoiceUniqueUnlessDisturbed ==
    \A h \in Handlers :
        LET r == req[h]
        IN  r.pc = "commit" /\ r.bill # NoBill =>
                \A q \in (DOMAIN po) \ {r.target} :
                    po[q].bill = r.bill => q \in poMoved[h] \cup r.missed

\* A human save exempts the lines it saw on the order and checks the others one
\* query at a time.  At the commit each of its lines is still on the order, or
\* may be bought now with any unavailability noted for the log, unless the item
\* or the order changed after the request came in.
Cleared(h, i) ==
    /\ item[i].buy /\ ~item[i].pending
    /\ item[i].avail \/ i \in req[h].over
LinesClearedUnlessRaced ==
    \A h \in Handlers :
        LET r == req[h]
        IN  r.pc = "commit" /\ r.role = "HUMAN" =>
                \A i \in r.lines \cap Items :
                    \/ i \in itemMoved[h] \/ r.target \in poMoved[h]
                    \/ r.target \in DOMAIN po /\ i \in po[r.target].lines
                    \/ Cleared(h, i)

\* CreateAssistant "cannot overwrite an existing PO" (po.go:230): whatever runs
\* beside it, the answer to an assistant leaves every stored order as it was.
DraftKeepsOrders ==
    [][\A h \in Handlers :
          req[h].role = "ASSISTANT" /\ req[h].pc # "idle" /\ req'[h].pc = "idle"
          => \A n \in DOMAIN po : n \in DOMAIN po' /\ po'[n] = po[n]]_vars

\* A draft that is stored is stored clean: an assistant's new order names only
\* known items that may be bought, are available and have no pending unit at
\* that moment, even if they changed since the request was read.
DraftStoredClean ==
    [][\A h \in Handlers :
          req[h].role = "ASSISTANT" /\ req[h].pc # "idle" /\ req'[h].pc = "idle"
          => \A n \in DOMAIN po' \ DOMAIN po : \A i \in po'[n].lines :
                /\ i \in Items
                /\ item[i] = [buy |-> TRUE, avail |-> TRUE, pending |-> FALSE]]_vars

\* Saving an order preserves its workflow state, raced or not: an order goes back
\* to "Pending Approval" only when a status update or a save names that status.
ApprovalSurvivesSaves ==
    [][\A n \in DOMAIN po :
          /\ po[n].status # "Pending Approval"
          /\ po'[n].status = "Pending Approval"
          => \/ UpdateStatus(n)
             \/ \E h \in Handlers : req[h].status = "Pending Approval"]_vars

\* The inductive invariant behind the three above: what a request knows after
\* each of its reads, for as long as nothing it read has moved, and what its
\* failed look-ups may have passed over.
HighestExists == \E n \in (DOMAIN po) \cup {0} : \A m \in DOMAIN po : m <= n

LineAccounted(h, r, i) ==
    \/ i \in r.todo \/ i \in itemMoved[h] \/ r.target \in poMoved[h]
    \/ r.target \in DOMAIN po /\ i \in po[r.target].lines
    \/ item[i].buy /\ ~item[i].pending /\ (item[i].avail \/ i \in r.over)

RequestInv(h, r) ==
    /\ r.exists => r.target \in DOMAIN po
    /\ r.pc = "lines" => r.exists
    /\ r.pc = "policy" =>
          r.cur \in r.todo /\ (item[r.cur].pending => r.cur \in itemMoved[h])
    /\ r.pc = "id" => r.target = 0
    /\ r.pc \notin {"idle", "exists"} /\ ~r.exists /\ r.target \in DOMAIN po
          => r.target \in poMoved[h] \cup r.missed
    /\ r.pc = "commit" /\ r.bill # NoBill =>
          \A q \in (DOMAIN po) \ {r.target} :
              po[q].bill = r.bill => q \in poMoved[h] \cup r.missed
    /\ r.role = "HUMAN" /\ r.pc \in {"id", "bill", "commit"} => r.todo = {}
    /\ r.role = "HUMAN" /\ r.pc \in {"bill", "commit"} => r.target # 0
    /\ r.role = "HUMAN" /\ r.pc \in {"uom", "policy", "id", "bill", "commit"}
          => \A i \in r.lines \cap Items : LineAccounted(h, r, i)

IInv == TypeOK /\ HighestExists /\ \A h \in Handlers : RequestInv(h, req[h])

\* When nothing a human save read has changed since it came in and none of its
\* look-ups passed over an order, the save is as good as one done in a single
\* step: it creates exactly when it meant to, its
\* invoice number is its own, and every line it adds may be bought, with an
\* override row for each unavailable one.
SavedAtomically(n, r) ==
    /\ r.exists <=> n \in DOMAIN po
    /\ r.bill # NoBill => \A q \in (DOMAIN po) \ {n} : po[q].bill # r.bill
    /\ \A i \in r.lines \cap Items :
          \/ n \in DOMAIN po /\ i \in po[n].lines
          \/ /\ item[i].buy /\ ~item[i].pending
             /\ item[i].avail \/ <<n, i>> \in overrides'
UndisturbedSaveIsAtomic ==
    [][\A h \in Handlers :
          /\ CommitSave(h)
          /\ poMoved[h] = {} /\ itemMoved[h] = {} /\ req[h].missed = {}
          => SavedAtomically(req[h].target, req[h])]_vars

\* While only assistants save, the order book is the one DraftBook promises.
Book == INSTANCE DraftBook WITH Items <- Items, Statuses <- Statuses, item <- item, po <- po
ImplementsDraftBook == Book!Spec

\* Every request is answered: no save waits on another, and the line checks end.
RequestsAnswered == \A h \in Handlers : []<>(req[h].pc = "idle")

\* What po.go:336 says of every save, racing or not: "Block duplicate invoice
\* numbers".
InvoiceNumbersUnique ==
    \A m, n \in DOMAIN po : m # n /\ po[m].bill = po[n].bill => po[m].bill = NoBill
=============================================================================
