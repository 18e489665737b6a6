------------------------- MODULE PurchaseOrdersProofs -------------------------
(***************************************************************************)
(* Proofs about PurchaseOrders, for any handlers, items, bills and bounds. *)
(* A step either moves one request (Goto, Refuse), stores an order (Store),*)
(* changes a status (SetStatus) or an item (SetItem): one lemma says that  *)
(* each of these shapes keeps the inductive invariant IInv, and the proof  *)
(* of an action shows which shape it has.                                  *)
(***************************************************************************)
EXTENDS PurchaseOrders, TLAPS

\* The number after the highest one is a positive number no order has.
LEMMA NextSeqFresh ==
    ASSUME TypeOK, HighestExists
    PROVE  NextSeq \in Nat \ {0} /\ NextSeq \notin DOMAIN po
<1>1. PICK n \in (DOMAIN po) \cup {0} : \A m \in DOMAIN po : m <= n
  BY DEF HighestExists
<1>2. Highest \in (DOMAIN po) \cup {0} /\ \A m \in DOMAIN po : m <= Highest
  BY <1>1 DEF Highest
<1>3. DOMAIN po \subseteq Nat \ {0}
  BY DEF TypeOK
<1>4. Highest \in Nat
  BY <1>2, <1>3
<1>5. QED
  BY <1>2, <1>3, <1>4 DEF NextSeq

\* A request that moves on keeps the invariant if its new record satisfies it.
LEMMA GotoKeeps ==
    ASSUME IInv, NEW h \in Handlers, NEW r \in Request,
           RequestInv(h, r), Goto(h, r)
    PROVE  IInv'
<1>1. TypeOK'
  BY DEF IInv, TypeOK, Goto
<1>2. HighestExists'
  BY DEF IInv, HighestExists, Goto
<1>3. ASSUME NEW k \in Handlers PROVE RequestInv(k, req[k])'
  <2>1. req'[k] = IF k = h THEN r ELSE req[k]
    BY DEF Goto, IInv, TypeOK
  <2>2. RequestInv(k, req[k])
    BY DEF IInv
  <2>3. RequestInv(k, req'[k])
    BY <2>1, <2>2
  <2>4. QED
    BY <2>3 DEF Goto, RequestInv, LineAccounted
<1>4. QED
  BY <1>1, <1>2, <1>3 DEF IInv

\* A waiting handler satisfies the invariant whatever the tables hold.
LEMMA IdleInv ==
    ASSUME NEW h \in Handlers
    PROVE  Idle \in Request /\ RequestInv(h, Idle) /\ RequestInv(h, Idle)'
BY DEF Idle, Request, RequestInv, Lines, Statuses

\* Refusing a request keeps the invariant.
LEMMA RefuseKeeps ==
    ASSUME IInv, NEW h \in Handlers, Refuse(h)
    PROVE  IInv'
<1>1. TypeOK'
  BY IdleInv DEF IInv, TypeOK, Refuse
<1>2. HighestExists'
  BY DEF IInv, HighestExists, Refuse
<1>3. ASSUME NEW k \in Handlers PROVE RequestInv(k, req[k])'
  <2>1. CASE k = h
    <3>1. req'[k] = Idle
      BY <2>1 DEF Refuse, IInv, TypeOK
    <3>2. QED
      BY <3>1, IdleInv
  <2>2. CASE k # h
    <3>1. req'[k] = req[k] /\ poMoved'[k] = poMoved[k]
             /\ itemMoved'[k] = itemMoved[k]
      BY <2>2 DEF Refuse, IInv, TypeOK
    <3>2. QED
      BY <3>1 DEF Refuse, IInv, RequestInv, LineAccounted
  <2>3. QED
    BY <2>1, <2>2
<1>4. QED
  BY <1>1, <1>2, <1>3 DEF IInv

\* Storing any well-formed order keeps the invariant: the requests it may
\* surprise see its number in poMoved.
LEMMA StoreKeeps ==
    ASSUME IInv, NEW h \in Handlers, NEW n \in Nat \ {0}, NEW order \in Order,
           Store(h, n, order), overrides' \subseteq (DOMAIN po') \X Items
    PROVE  IInv'
<1>1. DOMAIN po' = (DOMAIN po) \cup {n} /\ po'[n] = order
         /\ \A m \in (DOMAIN po) \ {n} : po'[m] = po[m]
  BY DEF Store
<1>2. TypeOK'
  <2>1. po' \in [DOMAIN po' -> Order]
    BY DEF Store, IInv, TypeOK
  <2>2. req' \in [Handlers -> Request]
    BY IdleInv DEF Store, IInv, TypeOK
  <2>3. poMoved' \in [Handlers -> SUBSET (Nat \ {0})]
    BY DEF Store, IInv, TypeOK
  <2>4. itemMoved' \in [Handlers -> SUBSET Items] /\ item' \in [Items -> Controls]
    BY DEF Store, IInv, TypeOK
  <2>5. QED
    BY <1>1, <2>1, <2>2, <2>3, <2>4 DEF IInv, TypeOK
<1>3. HighestExists'
  <2>1. PICK top \in (DOMAIN po) \cup {0} : \A m \in DOMAIN po : m <= top
    BY DEF IInv, HighestExists
  <2>2. top \in Nat /\ \A m \in DOMAIN po : m \in Nat
    BY <2>1 DEF IInv, TypeOK
  <2>3. CASE n <= top
    BY <1>1, <2>1, <2>2, <2>3 DEF HighestExists
  <2>4. CASE ~(n <= top)
    <3>1. \A m \in DOMAIN po' : m <= n
      BY <1>1, <2>1, <2>2, <2>4
    <3>2. QED
      BY <1>1, <3>1 DEF HighestExists
  <2>5. QED
    BY <2>3, <2>4
<1>4. ASSUME NEW k \in Handlers PROVE RequestInv(k, req[k])'
  <2>1. CASE k = h
    <3>1. req'[k] = Idle
      BY <2>1 DEF Store, IInv, TypeOK
    <3>2. QED
      BY <3>1, IdleInv
  <2>2. CASE k # h /\ req[k].pc = "idle"
    <3>1. req'[k] = req[k] /\ RequestInv(k, req[k])
      BY <2>2 DEF Store, IInv, TypeOK
    <3>2. QED
      BY <1>1, <2>2, <3>1 DEF RequestInv
  <2>3. CASE k # h /\ req[k].pc # "idle"
    <3>1. /\ req'[k] = req[k] /\ poMoved'[k] = poMoved[k] \cup {n}
          /\ itemMoved'[k] = itemMoved[k] /\ item' = item
          /\ RequestInv(k, req[k])
      BY <2>3 DEF Store, IInv, TypeOK
    <3>2. ASSUME NEW i \in Items, LineAccounted(k, req[k], i)
          PROVE  LineAccounted(k, req[k], i)'
      BY <1>1, <3>1, <3>2 DEF LineAccounted
    <3>3. QED
      BY <1>1, <3>1, <3>2 DEF RequestInv
  <2>4. QED
    BY <2>1, <2>2, <2>3
<1>5. QED
  BY <1>2, <1>3, <1>4 DEF IInv

\* A status change keeps the invariant: no save relies on a status it read.
LEMMA SetStatusKeeps ==
    ASSUME IInv, NEW n \in DOMAIN po, NEW status \in Statuses,
           SetStatus(n, status)
    PROVE  IInv'
<1>1. /\ DOMAIN po' = DOMAIN po
      /\ \A m \in DOMAIN po : po'[m].lines = po[m].lines /\ po'[m].bill = po[m].bill
      /\ po' \in [DOMAIN po -> Order]
  BY DEF SetStatus, IInv, TypeOK, Order
<1>2. TypeOK'
  BY <1>1 DEF SetStatus, IInv, TypeOK
<1>3. HighestExists'
  BY <1>1 DEF IInv, HighestExists
<1>4. ASSUME NEW k \in Handlers PROVE RequestInv(k, req[k])'
  <2>1. RequestInv(k, req[k])
    BY DEF IInv
  <2>2. ASSUME NEW i \in Items, LineAccounted(k, req[k], i)
        PROVE  LineAccounted(k, req[k], i)'
    BY <1>1, <2>2 DEF LineAccounted, SetStatus
  <2>3. QED
    BY <1>1, <2>1, <2>2 DEF RequestInv, SetStatus
<1>5. QED
  BY <1>2, <1>3, <1>4 DEF IInv

\* An item change keeps the invariant: the requests under way see it in itemMoved.
LEMMA SetItemKeeps ==
    ASSUME IInv, NEW i \in Items, NEW controls \in Controls,
           SetItem(i, controls)
    PROVE  IInv'
<1>1. item' \in [Items -> Controls] /\ \A j \in Items \ {i} : item'[j] = item[j]
  BY DEF SetItem, IInv, TypeOK
<1>2. itemMoved' \in [Handlers -> SUBSET Items]
  BY DEF SetItem, IInv, TypeOK
<1>3. TypeOK'
  BY <1>1, <1>2 DEF SetItem, IInv, TypeOK
<1>4. HighestExists'
  BY DEF IInv, HighestExists, SetItem
<1>5. ASSUME NEW k \in Handlers PROVE RequestInv(k, req[k])'
  <2>1. RequestInv(k, req[k]) /\ req[k] \in Request
    BY DEF IInv, TypeOK
  <2>2. CASE req[k].pc = "idle"
    BY <2>1, <2>2 DEF RequestInv, SetItem
  <2>3. CASE req[k].pc # "idle"
    <3>1. itemMoved'[k] = itemMoved[k] \cup {i}
      BY <2>3 DEF SetItem
    <3>2. ASSUME NEW j \in Items, LineAccounted(k, req[k], j)
          PROVE  LineAccounted(k, req[k], j)'
      BY <1>1, <3>1, <3>2 DEF LineAccounted, SetItem
    <3>3. req[k].pc = "policy" /\ item'[req[k].cur].pending
             => req[k].cur \in itemMoved'[k]
      BY <1>1, <2>1, <3>1 DEF RequestInv, Request
    <3>4. QED
      BY <2>1, <3>2, <3>3 DEF RequestInv, SetItem
  <2>4. QED
    BY <2>2, <2>3
<1>6. QED
  BY <1>3, <1>4, <1>5 DEF IInv

-----------------------------------------------------------------------------
(* The steps of a save *)

LEMMA ReceiveKeeps ==
    ASSUME IInv, NEW h \in Handlers, Receive(h)
    PROVE  IInv'
<1>1. PICK role \in Roles, target \in TypedSeqs \cup {0}, ack \in Acks,
           lines \in LineSets, bill \in Bills \cup {NoBill},
           status \in FormStatuses :
         Goto(h, [Idle EXCEPT !.pc = "exists", !.role = role,
                      !.target = target, !.lines = lines, !.ack = ack,
                      !.bill = bill, !.status = status])
  BY DEF Receive
<1> DEFINE r == [Idle EXCEPT !.pc = "exists", !.role = role,
                      !.target = target, !.lines = lines, !.ack = ack,
                      !.bill = bill, !.status = status]
<1>2. r \in Request
  <2>1. role \in {"HUMAN", "ASSISTANT"} /\ status \in Statuses \cup {""}
    BY ConstantsAssumption
  <2>2. target \in Nat
    <3>1. TypedSeqs \subseteq Nat \ {0}
      BY ConstantsAssumption
    <3>2. QED
      BY <3>1
  <2>3. ack \in BOOLEAN
    <3>1. Acks \subseteq BOOLEAN
      BY ConstantsAssumption
    <3>2. QED
      BY <3>1
  <2>4. lines \in SUBSET Lines
    <3>1. LineSets \subseteq SUBSET (Items \cup {FreeText})
      BY ConstantsAssumption
    <3>2. QED
      BY <3>1 DEF Lines
  <2>5. Idle \in Request
    BY IdleInv
  <2>6. QED
    BY <2>1, <2>2, <2>3, <2>4, <2>5 DEF Request
<1>3. RequestInv(h, r)
  BY DEF Idle, RequestInv
<1>4. QED
  BY <1>1, <1>2, <1>3, GotoKeeps

LEMMA ReadExistsKeeps ==
    ASSUME IInv, NEW h \in Handlers, ReadExists(h)
    PROVE  IInv'
<1> DEFINE r == req[h]
           exists == r.target \in DOMAIN po
           todo == IF r.role = "ASSISTANT" THEN {} ELSE r.lines \cap Items
           next == IF exists THEN "lines"
                   ELSE IF r.role = "ASSISTANT" THEN AfterId(r)
                   ELSE AfterChecks(r, r.lines \cap Items)
           s == [r EXCEPT !.exists = exists, !.pc = next, !.todo = todo]
<1>1. r \in Request /\ RequestInv(h, r) /\ r.pc = "exists" /\ Goto(h, s)
  BY DEF IInv, TypeOK, ReadExists
<1>2. next \in {"lines", "uom", "id", "bill", "commit"}
  BY DEF AfterId, AfterChecks
<1>3. todo \in SUBSET Items /\ exists \in BOOLEAN
  OBVIOUS
<1>4. /\ s \in Request
      /\ s.exists = exists /\ s.pc = next /\ s.todo = todo
      /\ s.target = r.target /\ s.bill = r.bill /\ s.role = r.role
      /\ s.lines = r.lines /\ s.over = r.over /\ s.missed = r.missed
  <2> HIDE DEF exists, next, todo
  <2> QED
    BY <1>1, <1>2, <1>3 DEF Request
<1>5. CASE exists
  <2>1. s.pc = "lines" /\ s.exists
    BY <1>4, <1>5
  <2>2. QED
    <3>1. RequestInv(h, s)
      BY <1>4, <1>5, <2>1 DEF RequestInv
    <3>2. QED
      BY <1>1, <1>4, <3>1, GotoKeeps
<1>6. CASE ~exists
  <2>1. ~s.exists /\ s.target \notin DOMAIN po
          /\ s.pc = (IF r.role = "ASSISTANT" THEN AfterId(r)
                     ELSE AfterChecks(r, todo))
    BY <1>4, <1>6
  <2>2. s.role = "ASSISTANT" => s.pc \in {"bill", "commit"}
    BY <1>4, <2>1 DEF AfterId
  <2>3. s.role = "HUMAN" =>
          /\ s.pc \in {"uom", "id", "bill", "commit"}
          /\ s.pc # "uom" => s.todo = {}
          /\ s.pc = "id" => s.target = 0
          /\ s.pc \in {"bill", "commit"} => s.target # 0
          /\ s.todo = s.lines \cap Items
    BY <1>4, <2>1 DEF AfterId, AfterChecks
  <2>4. s.pc = "commit" => s.bill = NoBill
    BY <1>1, <1>4, <2>1 DEF AfterId, AfterChecks
  <2>5. s.role \in {"HUMAN", "ASSISTANT"}
    BY <1>4 DEF Request
  <2>6. RequestInv(h, s)
    <3> HIDE DEF s
    <3> QED
      BY <2>1, <2>2, <2>3, <2>4, <2>5 DEF RequestInv, LineAccounted
  <2>7. QED
    BY <1>1, <1>4, <2>6, GotoKeeps
<1>7. QED
  BY <1>5, <1>6

LEMMA ReadLinesKeeps ==
    ASSUME IInv, NEW h \in Handlers, ReadLines(h)
    PROVE  IInv'
<1> DEFINE r == req[h]
           todo == (r.lines \cap Items) \ po[r.target].lines
           s == [r EXCEPT !.todo = todo, !.pc = AfterChecks(r, todo)]
<1>1. r \in Request /\ RequestInv(h, r) /\ r.pc = "lines" /\ Goto(h, s)
  BY DEF IInv, TypeOK, ReadLines
<1>2. r.exists /\ r.target \in DOMAIN po /\ r.target # 0
  BY <1>1 DEF RequestInv, IInv, TypeOK
<1>3. AfterChecks(r, todo) \in {"uom", "bill", "commit"}
  BY <1>2 DEF AfterId, AfterChecks
<1>4. s \in Request
  BY <1>1, <1>3 DEF Request
<1>5. s.exists = r.exists /\ s.pc = AfterChecks(r, todo) /\ s.todo = todo
        /\ s.target = r.target /\ s.bill = r.bill /\ s.role = r.role
        /\ s.lines = r.lines /\ s.over = r.over /\ s.missed = r.missed
  BY <1>1 DEF Request
<1>6. RequestInv(h, s)
  BY <1>1, <1>2, <1>3, <1>5 DEF RequestInv, LineAccounted, AfterId, AfterChecks
<1>7. QED
  BY <1>1, <1>4, <1>6, GotoKeeps

LEMMA CheckPendingUOMKeeps ==
    ASSUME IInv, NEW h \in Handlers, CheckPendingUOM(h)
    PROVE  IInv'
<1> DEFINE r == req[h]
<1>1. r \in Request /\ RequestInv(h, r) /\ r.pc = "uom"
  BY DEF IInv, TypeOK, CheckPendingUOM
<1>2. CASE Refuse(h)
  BY <1>2, RefuseKeeps
<1>3. ASSUME NEW i \in r.todo, ~item[i].pending,
             Goto(h, [r EXCEPT !.pc = "policy", !.cur = i])
      PROVE  IInv'
  <2> DEFINE s == [r EXCEPT !.pc = "policy", !.cur = i]
  <2>1. s \in Request
    BY <1>1 DEF Request, Lines
  <2>2. s.exists = r.exists /\ s.pc = "policy" /\ s.todo = r.todo /\ s.cur = i
          /\ s.target = r.target /\ s.bill = r.bill /\ s.role = r.role
          /\ s.lines = r.lines /\ s.over = r.over /\ s.missed = r.missed
    BY <1>1 DEF Request
  <2>3. RequestInv(h, s)
    BY <1>1, <1>3, <2>2 DEF RequestInv, LineAccounted
  <2>4. QED
    BY <1>3, <2>1, <2>3, GotoKeeps
<1>4. QED
  BY <1>2, <1>3 DEF CheckPendingUOM

LEMMA CheckPurchaseKeeps ==
    ASSUME IInv, NEW h \in Handlers, CheckPurchase(h)
    PROVE  IInv'
<1> DEFINE r == req[h]
           i == r.cur
           todo == r.todo \ {i}
           over == IF item[i].avail THEN r.over ELSE r.over \cup {i}
           s == [r EXCEPT !.todo = todo, !.cur = FreeText,
                          !.pc = AfterChecks(r, todo), !.over = over]
<1>0. r \in Request /\ RequestInv(h, r) /\ r.pc = "policy"
  BY DEF IInv, TypeOK, CheckPurchase
<1>1. i \in r.todo /\ r.todo \subseteq Items
  BY <1>0 DEF RequestInv, Request
<1>2. CASE Refuse(h)
  BY <1>2, RefuseKeeps
<1>3. CASE PurchaseAllowed(i, r.ack) /\ Goto(h, s)
  <2>1. AfterChecks(r, todo) \in {"uom", "id", "bill", "commit"}
    BY DEF AfterChecks, AfterId
  <2>2. s \in Request
    BY <1>0, <1>1, <2>1 DEF Request, Lines
  <2>3. s.exists = r.exists /\ s.pc = AfterChecks(r, todo) /\ s.todo = todo
          /\ s.target = r.target /\ s.bill = r.bill /\ s.role = r.role
          /\ s.lines = r.lines /\ s.over = over /\ s.missed = r.missed
    BY <1>0 DEF Request
  <2>4. item[i].buy /\ (~item[i].pending \/ i \in itemMoved[h])
          /\ (item[i].avail \/ i \in over)
    BY <1>0, <1>1, <1>3 DEF PurchaseAllowed, RequestInv
  <2>5. ASSUME NEW j \in r.lines \cap Items, LineAccounted(h, r, j)
        PROVE  LineAccounted(h, s, j)
    BY <1>1, <2>3, <2>4, <2>5 DEF LineAccounted
  <2>6. RequestInv(h, s)
    <3>1. s.pc \in {"uom", "id", "bill", "commit"}
            /\ (s.pc # "uom" => s.todo = {})
            /\ (s.pc = "id" => s.target = 0)
            /\ (s.pc \in {"bill", "commit"} => s.target # 0)
            /\ (s.pc = "commit" => s.bill = NoBill)
      BY <2>3 DEF AfterChecks, AfterId
    <3> HIDE DEF s
    <3>2. QED
      BY <1>0, <2>3, <2>5, <3>1 DEF RequestInv
  <2>7. QED
    BY <1>3, <2>2, <2>6, GotoKeeps
<1>4. QED
  BY <1>0, <1>2, <1>3 DEF CheckPurchase

LEMMA GenerateIDKeeps ==
    ASSUME IInv, NEW h \in Handlers, GenerateID(h)
    PROVE  IInv'
<1> DEFINE r == req[h]
           passed(last) == {n \in DOMAIN po : n > last}
           t(last) == [r EXCEPT !.target = last + 1, !.pc = AfterId(r),
                                !.missed = passed(last)]
<1>1. r \in Request /\ RequestInv(h, r) /\ r.pc = "id"
  BY DEF IInv, TypeOK, GenerateID
<1>2. PICK last \in (DOMAIN po) \cup {0} : Goto(h, t(last))
  BY DEF GenerateID
<1> DEFINE s == t(last)
<1>3. DOMAIN po \subseteq Nat \ {0} /\ last \in Nat
  BY DEF IInv, TypeOK
<1>4. passed(last) \subseteq Nat /\ last + 1 \in Nat \ {0}
        /\ (last + 1 \in DOMAIN po => last + 1 \in passed(last))
  BY <1>3
<1>5. r.target = 0 /\ 0 \notin DOMAIN po /\ 0 \notin poMoved[h] /\ ~r.exists
  BY <1>1 DEF RequestInv, IInv, TypeOK
<1>6. s \in Request
  BY <1>1, <1>4 DEF Request, AfterId
<1>7. s.exists = r.exists /\ s.pc = AfterId(r) /\ s.todo = r.todo
        /\ s.target = last + 1 /\ s.bill = r.bill /\ s.role = r.role
        /\ s.lines = r.lines /\ s.over = r.over /\ s.missed = passed(last)
  BY <1>1 DEF Request
<1>8. ASSUME NEW j \in r.lines \cap Items, LineAccounted(h, r, j)
      PROVE  LineAccounted(h, s, j)
  BY <1>5, <1>7, <1>8 DEF LineAccounted
<1>9. RequestInv(h, s)
  <2> HIDE DEF passed, s
  <2> QED
    BY <1>1, <1>4, <1>5, <1>7, <1>8 DEF RequestInv, AfterId
<1>10. QED
  BY <1>2, <1>6, <1>9, GotoKeeps

LEMMA CheckBillKeeps ==
    ASSUME IInv, NEW h \in Handlers, CheckBill(h)
    PROVE  IInv'
<1> DEFINE r == req[h]
           owners == BillOwners(r.target, r.bill)
           s == [r EXCEPT !.pc = "commit", !.missed = @ \cup owners]
<1>1. r \in Request /\ RequestInv(h, r) /\ r.pc = "bill"
  BY DEF IInv, TypeOK, CheckBill
<1>2. CASE Refuse(h)
  BY <1>2, RefuseKeeps
<1>3. CASE Goto(h, s)
  <2>1. owners \subseteq Nat
    BY DEF BillOwners, IInv, TypeOK
  <2>2. s \in Request
    BY <1>1, <2>1 DEF Request
  <2>3. s.exists = r.exists /\ s.pc = "commit" /\ s.todo = r.todo
          /\ s.target = r.target /\ s.bill = r.bill /\ s.role = r.role
          /\ s.lines = r.lines /\ s.over = r.over
          /\ s.missed = r.missed \cup owners
    BY <1>1 DEF Request
  <2>4. \A q \in (DOMAIN po) \ {s.target} : po[q].bill = s.bill => q \in s.missed
    BY <2>3 DEF BillOwners
  <2>5. RequestInv(h, s)
    <3> HIDE DEF owners, s
    <3> QED
      BY <1>1, <2>3, <2>4 DEF RequestInv, LineAccounted
  <2>6. QED
    BY <1>3, <2>2, <2>5, GotoKeeps
<1>4. QED
  BY <1>2, <1>3 DEF CheckBill

LEMMA CommitSaveKeeps ==
    ASSUME IInv, NEW h \in Handlers, CommitSave(h)
    PROVE  IInv'
<1> DEFINE r == req[h]
           order == [lines |-> r.lines, bill |-> r.bill,
                     status |-> StatusAfter(r.target, r.status)]
<1>1. r \in Request /\ RequestInv(h, r) /\ r.pc = "commit" /\ r.role = "HUMAN"
        /\ Store(h, r.target, order)
        /\ overrides' = overrides \cup ({r.target} \X r.over)
  BY DEF IInv, TypeOK, CommitSave
<1>2. r.target \in Nat \ {0}
  BY <1>1 DEF RequestInv, Request
<1>3. order \in Order
  <2>1. StatusAfter(r.target, r.status) \in Statuses
    <3>1. r.status \in Statuses \cup {""}
      BY <1>1 DEF Request
    <3>2. \A n \in DOMAIN po : po[n].status \in Statuses
      BY DEF IInv, TypeOK, Order
    <3>3. QED
      BY <3>1, <3>2 DEF StatusAfter, Statuses
  <2>2. QED
    BY <1>1, <2>1 DEF Order, Request
<1>4. overrides' \subseteq (DOMAIN po') \X Items
  <2>1. DOMAIN po' = (DOMAIN po) \cup {r.target} /\ r.over \subseteq Items
    BY <1>1 DEF Store, Request
  <2>2. QED
    BY <1>1, <2>1 DEF IInv, TypeOK
<1>5. QED
  BY <1>1, <1>2, <1>3, <1>4, StoreKeeps

LEMMA CommitDraftKeeps ==
    ASSUME IInv, NEW h \in Handlers, CommitDraft(h)
    PROVE  IInv'
<1> DEFINE r == req[h]
           order == [lines |-> r.lines, bill |-> r.bill,
                     status |-> "Pending Approval"]
<1>1. r \in Request
  BY DEF IInv, TypeOK
<1>2. CASE Refuse(h)
  BY <1>2, RefuseKeeps
<1>3. CASE Store(h, NextSeq, order) /\ UNCHANGED overrides
  <2>1. NextSeq \in Nat \ {0}
    BY NextSeqFresh DEF IInv
  <2>2. order \in Order
    BY <1>1 DEF Order, Request, Statuses
  <2>3. overrides' \subseteq (DOMAIN po') \X Items
    <3>1. DOMAIN po' = (DOMAIN po) \cup {NextSeq}
      BY <1>3 DEF Store
    <3>2. QED
      BY <1>3, <3>1 DEF IInv, TypeOK
  <2>4. QED
    BY <1>3, <2>1, <2>2, <2>3, StoreKeeps
<1>4. QED
  BY <1>2, <1>3 DEF CommitDraft, DraftId

-----------------------------------------------------------------------------
(* The other requests *)

LEMMA StatusStepKeeps ==
    ASSUME IInv, NEW n \in DOMAIN po,
           Approve(n) \/ RequestPayment(n) \/ UpdateStatus(n)
    PROVE  IInv'
<1>1. PICK status \in Statuses : SetStatus(n, status)
  BY ConstantsAssumption
     DEF Approve, RequestPayment, UpdateStatus, Statuses
<1>2. QED
  BY <1>1, SetStatusKeeps

LEMMA ItemStepKeeps ==
    ASSUME IInv, NEW i \in EditedItems,
           EditControls(i) \/ FlagUOM(i) \/ ConfirmUOM(i)
    PROVE  IInv'
<1>1. i \in Items /\ item[i] \in Controls
  BY ConstantsAssumption DEF IInv, TypeOK
<1>2. PICK controls \in Controls : SetItem(i, controls)
  BY <1>1 DEF EditControls, FlagUOM, ConfirmUOM, Controls
<1>3. QED
  BY <1>1, <1>2, SetItemKeeps

-----------------------------------------------------------------------------
(* The theorems *)

\* The invariant holds at the start and every step keeps it.
LEMMA InitInv == Init => IInv
<1> SUFFICES ASSUME Init PROVE IInv
  OBVIOUS
<1>1. DOMAIN po = {}
  BY DEF Init
<1>2. TypeOK
  BY <1>1, IdleInv DEF Init, TypeOK, Controls
<1>3. HighestExists
  BY <1>1 DEF HighestExists
<1>4. \A h \in Handlers : RequestInv(h, req[h])
  BY IdleInv DEF Init
<1>5. QED
  BY <1>2, <1>3, <1>4 DEF IInv

LEMMA NextInv == IInv /\ [Next]_vars => IInv'
<1> SUFFICES ASSUME IInv, [Next]_vars PROVE IInv'
  OBVIOUS
<1>1. ASSUME NEW h \in Handlers, Receive(h) PROVE IInv'
  BY <1>1, ReceiveKeeps
<1>2. ASSUME NEW h \in Handlers, ReadExists(h) PROVE IInv'
  BY <1>2, ReadExistsKeeps
<1>3. ASSUME NEW h \in Handlers, ReadLines(h) PROVE IInv'
  BY <1>3, ReadLinesKeeps
<1>4. ASSUME NEW h \in Handlers, CheckPendingUOM(h) PROVE IInv'
  BY <1>4, CheckPendingUOMKeeps
<1>5. ASSUME NEW h \in Handlers, CheckPurchase(h) PROVE IInv'
  BY <1>5, CheckPurchaseKeeps
<1>6. ASSUME NEW h \in Handlers, GenerateID(h) PROVE IInv'
  BY <1>6, GenerateIDKeeps
<1>7. ASSUME NEW h \in Handlers, CheckBill(h) PROVE IInv'
  BY <1>7, CheckBillKeeps
<1>8. ASSUME NEW h \in Handlers, CommitSave(h) PROVE IInv'
  BY <1>8, CommitSaveKeeps
<1>9. ASSUME NEW h \in Handlers, CommitDraft(h) PROVE IInv'
  BY <1>9, CommitDraftKeeps
<1>10. ASSUME NEW h \in Handlers, Abort(h) PROVE IInv'
  BY <1>10, RefuseKeeps DEF Abort
<1>11. ASSUME NEW n \in DOMAIN po,
              Approve(n) \/ RequestPayment(n) \/ UpdateStatus(n)
       PROVE  IInv'
  BY <1>11, StatusStepKeeps
<1>12. ASSUME NEW i \in EditedItems,
              EditControls(i) \/ FlagUOM(i) \/ ConfirmUOM(i)
       PROVE  IInv'
  BY <1>12, ItemStepKeeps
<1>13. CASE UNCHANGED vars
  BY <1>13 DEF vars, IInv, TypeOK, HighestExists, RequestInv, LineAccounted
<1>14. QED
  BY <1>1, <1>2, <1>3, <1>4, <1>5, <1>6, <1>7, <1>8, <1>9, <1>10, <1>11,
     <1>12, <1>13 DEF Next, Save

\* The inductive invariant holds in every reachable state (PurchaseOrders.tla
\* says what each of its parts means for the code).
THEOREM Invariant == Spec => []IInv
BY InitInv, NextInv, PTL DEF Spec

-----------------------------------------------------------------------------
(* What the invariant gives: the windows in which a human save may be wrong. *)

\* Every variable keeps its shape, and every stored order has a positive number.
THEOREM TypeCorrect == Spec => []TypeOK
<1>1. IInv => TypeOK
  BY DEF IInv
<1>2. QED
  BY Invariant, <1>1, PTL

\* A save that believes its order new meets a stored one only if that order was
\* written by another save after the request came in, or the failed look-up of
\* GenerateID passed over it.
THEOREM NewOrderWindow == Spec => []NewOrderIsNewUnlessDisturbed
<1>1. IInv => NewOrderIsNewUnlessDisturbed
  BY DEF IInv, RequestInv, NewOrderIsNewUnlessDisturbed
<1>2. QED
  BY Invariant, <1>1, PTL

\* At the commit another order carries the invoice number only if a save that ran
\* beside this one wrote it, or the failed check passed over it.
THEOREM InvoiceWindow == Spec => []InvoiceUniqueUnlessDisturbed
<1>1. IInv => InvoiceUniqueUnlessDisturbed
  BY DEF IInv, RequestInv, InvoiceUniqueUnlessDisturbed
<1>2. QED
  BY Invariant, <1>1, PTL

\* At the commit of a human save each of its lines is on the order already, or
\* may be bought, unless the order or the item changed meanwhile.
THEOREM LinesWindow == Spec => []LinesClearedUnlessRaced
<1>1. ASSUME IInv PROVE LinesClearedUnlessRaced
  <2> SUFFICES ASSUME NEW h \in Handlers, req[h].pc = "commit",
                      req[h].role = "HUMAN", NEW i \in req[h].lines \cap Items
               PROVE  \/ i \in itemMoved[h] \/ req[h].target \in poMoved[h]
                      \/ req[h].target \in DOMAIN po
                            /\ i \in po[req[h].target].lines
                      \/ Cleared(h, i)
    BY DEF LinesClearedUnlessRaced
  <2>1. RequestInv(h, req[h])
    BY <1>1 DEF IInv
  <2>2. req[h].todo = {} /\ LineAccounted(h, req[h], i)
    BY <2>1 DEF RequestInv
  <2>3. QED
    BY <2>2 DEF LineAccounted, Cleared
<1>2. QED
  BY Invariant, <1>1, PTL

\* A human save that nothing disturbed is as good as one done in a single step.
THEOREM UndisturbedSave == Spec => UndisturbedSaveIsAtomic
<1>1. ASSUME IInv, NEW h \in Handlers, CommitSave(h), poMoved[h] = {},
             itemMoved[h] = {}, req[h].missed = {}
      PROVE  SavedAtomically(req[h].target, req[h])
  <2>1. RequestInv(h, req[h]) /\ req[h] \in Request
    BY <1>1 DEF IInv, TypeOK
  <2>2. req[h].pc = "commit" /\ req[h].role = "HUMAN"
    BY <1>1 DEF CommitSave
  <2>3. req[h].exists <=> req[h].target \in DOMAIN po
    BY <1>1, <2>1, <2>2 DEF RequestInv, Request
  <2>4. req[h].bill # NoBill =>
           \A q \in (DOMAIN po) \ {req[h].target} : po[q].bill # req[h].bill
    BY <1>1, <2>1, <2>2 DEF RequestInv
  <2>5. ASSUME NEW i \in req[h].lines \cap Items
        PROVE  \/ req[h].target \in DOMAIN po /\ i \in po[req[h].target].lines
               \/ /\ item[i].buy /\ ~item[i].pending
                  /\ item[i].avail \/ <<req[h].target, i>> \in overrides'
    <3>1. req[h].todo = {} /\ LineAccounted(h, req[h], i)
      BY <2>1, <2>2 DEF RequestInv
    <3>2. i \in req[h].over => <<req[h].target, i>> \in overrides'
      BY <1>1 DEF CommitSave
    <3>3. QED
      BY <1>1, <3>1, <3>2 DEF LineAccounted
  <2>6. QED
    BY <2>3, <2>4, <2>5 DEF SavedAtomically
<1>2. IInv /\ [Next]_vars =>
         [\A h \in Handlers :
             /\ CommitSave(h)
             /\ poMoved[h] = {} /\ itemMoved[h] = {} /\ req[h].missed = {}
             => SavedAtomically(req[h].target, req[h])]_vars
  BY <1>1
<1>3. QED
  BY Invariant, <1>2, PTL DEF Spec, UndisturbedSaveIsAtomic

-----------------------------------------------------------------------------
(* Assistant drafts *)

\* Only the two transactions of a save change the order book.
LEMMA ReadsKeepOrders ==
    ASSUME NEW h \in Handlers,
           \/ Receive(h) \/ ReadExists(h) \/ ReadLines(h) \/ CheckPendingUOM(h)
           \/ CheckPurchase(h) \/ GenerateID(h) \/ CheckBill(h) \/ Abort(h)
    PROVE  UNCHANGED po
BY DEF Receive, ReadExists, ReadLines, CheckPendingUOM, CheckPurchase,
       GenerateID, CheckBill, Abort, Goto, Refuse

\* A step that answers an assistant leaves the book alone or is its transaction.
LEMMA DraftAnswered ==
    ASSUME IInv, [Next]_vars, NEW h \in Handlers, req[h].role = "ASSISTANT",
           req[h].pc # "idle", req'[h].pc = "idle"
    PROVE  UNCHANGED po \/ CommitDraft(h)
<1>1. ASSUME NEW k \in Handlers, Receive(k) \/ Save(k) \/ Abort(k)
      PROVE  UNCHANGED po \/ CommitDraft(h)
  <2>1. CASE CommitSave(k)
    <3>1. k # h
      BY <2>1 DEF CommitSave
    <3>2. req'[h] = req[h]
      BY <2>1, <3>1 DEF CommitSave, Store, IInv, TypeOK
    <3>3. QED
      BY <3>2
  <2>2. CASE CommitDraft(k)
    <3>1. CASE k = h
      BY <2>2, <3>1
    <3>2. CASE k # h
      <4>1. req'[h] = req[h]
        BY <2>2, <3>2 DEF CommitDraft, Store, Refuse, IInv, TypeOK
      <4>2. QED
        BY <4>1
    <3>3. QED
      BY <3>1, <3>2
  <2>3. CASE ~CommitSave(k) /\ ~CommitDraft(k)
    BY <1>1, <2>3, ReadsKeepOrders DEF Save
  <2>4. QED
    BY <2>1, <2>2, <2>3
<1>2. ASSUME NEW n \in DOMAIN po,
             Approve(n) \/ RequestPayment(n) \/ UpdateStatus(n)
      PROVE  FALSE
  BY <1>2 DEF Approve, RequestPayment, UpdateStatus, SetStatus
<1>3. ASSUME NEW i \in EditedItems,
             EditControls(i) \/ FlagUOM(i) \/ ConfirmUOM(i)
      PROVE  UNCHANGED po
  BY <1>3 DEF EditControls, FlagUOM, ConfirmUOM, SetItem
<1>4. CASE UNCHANGED vars
  BY <1>4 DEF vars
<1>5. QED
  BY <1>1, <1>2, <1>3, <1>4 DEF Next

\* A draft's transaction adds one order under a fresh number, with clean lines,
\* and leaves the others as they were; or it is refused and changes nothing.
LEMMA DraftStep ==
    ASSUME IInv, NEW h \in Handlers, CommitDraft(h)
    PROVE  \/ UNCHANGED po
           \/ /\ NextSeq \notin DOMAIN po
              /\ DOMAIN po' = (DOMAIN po) \cup {NextSeq}
              /\ \A m \in DOMAIN po : po'[m] = po[m]
              /\ po'[NextSeq].status = "Pending Approval"
              /\ \A i \in po'[NextSeq].lines : DraftLine(i)
              /\ UNCHANGED item
<1>1. NextSeq \notin DOMAIN po
  BY NextSeqFresh DEF IInv
<1>2. CASE \A i \in req[h].lines : DraftLine(i)
  <2>1. Store(h, NextSeq, [lines |-> req[h].lines, bill |-> req[h].bill,
                           status |-> "Pending Approval"])
    BY <1>2 DEF CommitDraft, DraftId
  <2>2. QED
    BY <1>1, <1>2, <2>1 DEF Store
<1>3. CASE ~(\A i \in req[h].lines : DraftLine(i))
  BY <1>3 DEF CommitDraft, Refuse
<1>4. QED
  BY <1>2, <1>3

\* A line that passes the draft's checks is a known item that may be bought, is
\* available, and has no pending unit.
LEMMA DraftLineClean ==
    ASSUME TypeOK, NEW i, DraftLine(i)
    PROVE  i \in Items
             /\ item[i] = [buy |-> TRUE, avail |-> TRUE, pending |-> FALSE]
BY DEF TypeOK, Controls, DraftLine, PurchaseAllowed

\* The answer to an assistant leaves every stored order as it was.
THEOREM DraftsKeepOrders == Spec => DraftKeepsOrders
<1>1. ASSUME IInv, [Next]_vars, NEW h \in Handlers, req[h].role = "ASSISTANT",
             req[h].pc # "idle", req'[h].pc = "idle", NEW n \in DOMAIN po
      PROVE  n \in DOMAIN po' /\ po'[n] = po[n]
  BY <1>1, DraftAnswered, DraftStep
<1>2. IInv /\ [Next]_vars =>
         [\A h \in Handlers :
             req[h].role = "ASSISTANT" /\ req[h].pc # "idle"
                /\ req'[h].pc = "idle"
             => \A n \in DOMAIN po : n \in DOMAIN po' /\ po'[n] = po[n]]_vars
  BY <1>1
<1>3. QED
  BY Invariant, <1>2, PTL DEF Spec, DraftKeepsOrders

\* A draft that is stored names only items that may be bought at that moment.
THEOREM DraftsStoredClean == Spec => DraftStoredClean
<1>1. ASSUME IInv, [Next]_vars, NEW h \in Handlers, req[h].role = "ASSISTANT",
             req[h].pc # "idle", req'[h].pc = "idle",
             NEW n \in DOMAIN po' \ DOMAIN po, NEW i \in po'[n].lines
      PROVE  i \in Items
               /\ item[i] = [buy |-> TRUE, avail |-> TRUE, pending |-> FALSE]
  BY <1>1, DraftAnswered, DraftStep, DraftLineClean DEF IInv
<1>2. IInv /\ [Next]_vars =>
         [\A h \in Handlers :
             req[h].role = "ASSISTANT" /\ req[h].pc # "idle"
                /\ req'[h].pc = "idle"
             => \A n \in DOMAIN po' \ DOMAIN po : \A i \in po'[n].lines :
                   /\ i \in Items
                   /\ item[i] = [buy |-> TRUE, avail |-> TRUE,
                                 pending |-> FALSE]]_vars
  BY <1>1
<1>3. QED
  BY Invariant, <1>2, PTL DEF Spec, DraftStoredClean

-----------------------------------------------------------------------------
(* Statuses *)

\* A save brings an order back to "Pending Approval" only by naming that status.
LEMMA SaveKeepsApproval ==
    ASSUME IInv, NEW h \in Handlers, CommitSave(h) \/ CommitDraft(h),
           NEW n \in DOMAIN po, po[n].status # "Pending Approval",
           po'[n].status = "Pending Approval"
    PROVE  req[h].status = "Pending Approval"
<1>1. CASE CommitSave(h)
  <2> DEFINE r == req[h]
             after == StatusAfter(r.target, r.status)
             order == [lines |-> r.lines, bill |-> r.bill, status |-> after]
  <2>1. po'[n] = IF n = r.target THEN order ELSE po[n]
    BY <1>1 DEF CommitSave, Store
  <2>2. n = r.target /\ po'[n] = order
    BY <2>1
  <2>3. after = "Pending Approval"
    <3>1. order.status = after
      OBVIOUS
    <3>2. QED
      BY <2>2, <3>1
  <2>4. QED
    BY <2>2, <2>3 DEF StatusAfter
<1>2. CASE CommitDraft(h)
  BY <1>2, DraftStep
<1>3. QED
  BY <1>1, <1>2

\* No save, raced or not, takes back an approval it did not name.
THEOREM ApprovalSurvives == Spec => ApprovalSurvivesSaves
<1>1. ASSUME IInv, [Next]_vars, NEW n \in DOMAIN po,
             po[n].status # "Pending Approval",
             po'[n].status = "Pending Approval"
      PROVE  \/ UpdateStatus(n)
             \/ \E h \in Handlers : req[h].status = "Pending Approval"
  <2>1. ASSUME NEW h \in Handlers, Receive(h) \/ Save(h) \/ Abort(h)
        PROVE  req[h].status = "Pending Approval"
    BY <1>1, <2>1, ReadsKeepOrders, SaveKeepsApproval DEF Save
  <2>2. ASSUME NEW m \in DOMAIN po, Approve(m) \/ RequestPayment(m)
        PROVE  FALSE
    BY <1>1, <2>2 DEF Approve, RequestPayment, SetStatus, IInv, TypeOK, Order
  <2>3. ASSUME NEW m \in DOMAIN po, UpdateStatus(m)
        PROVE  UpdateStatus(n)
    <3>1. CASE m = n
      BY <2>3, <3>1
    <3>2. CASE m # n
      <4>1. po'[n] = po[n]
        BY <2>3, <3>2 DEF UpdateStatus, SetStatus
      <4>2. QED
        BY <1>1, <4>1
    <3>3. QED
      BY <3>1, <3>2
  <2>4. ASSUME NEW i \in EditedItems,
               EditControls(i) \/ FlagUOM(i) \/ ConfirmUOM(i)
        PROVE  FALSE
    BY <1>1, <2>4 DEF EditControls, FlagUOM, ConfirmUOM, SetItem
  <2>5. CASE UNCHANGED vars
    BY <1>1, <2>5 DEF vars
  <2>6. QED
    BY <1>1, <2>1, <2>2, <2>3, <2>4, <2>5 DEF Next
<1>2. IInv /\ [Next]_vars =>
         [\A n \in DOMAIN po :
             /\ po[n].status # "Pending Approval"
             /\ po'[n].status = "Pending Approval"
             => \/ UpdateStatus(n)
                \/ \E h \in Handlers : req[h].status = "Pending Approval"]_vars
  BY <1>1
<1>3. QED
  BY Invariant, <1>2, PTL DEF Spec, ApprovalSurvivesSaves

-----------------------------------------------------------------------------
(* The refinement: with assistants alone, PurchaseOrders implements DraftBook *)

AssistantsOnly ==
    \A h \in Handlers : req[h].pc # "idle" => req[h].role = "ASSISTANT"

\* A request under way keeps its sender.
LEMMA HandlerKeepsRole ==
    ASSUME req \in [Handlers -> Request], NEW h \in Handlers,
           Save(h) \/ Abort(h)
    PROVE  req'[h].role = req[h].role \/ req'[h] = Idle
<1> DEFINE r == req[h]
<1>1. r \in Request
  OBVIOUS
<1>2. ASSUME NEW s, Goto(h, s) PROVE req'[h] = s
  BY <1>2 DEF Goto
<1>3. Refuse(h) => req'[h] = Idle
  BY DEF Refuse
<1>4. ASSUME ReadExists(h) PROVE req'[h].role = r.role
  <2>1. PICK x, pc, y : Goto(h, [r EXCEPT !.exists = x, !.pc = pc, !.todo = y])
    BY <1>4, Zenon DEF ReadExists
  <2>2. [r EXCEPT !.exists = x, !.pc = pc, !.todo = y].role = r.role
    BY <1>1 DEF Request
  <2>3. QED
    BY <1>2, <2>1, <2>2
<1>5. ASSUME ReadLines(h) PROVE req'[h].role = r.role
  <2>1. PICK y, pc : Goto(h, [r EXCEPT !.todo = y, !.pc = pc])
    BY <1>5, Zenon DEF ReadLines
  <2>2. [r EXCEPT !.todo = y, !.pc = pc].role = r.role
    BY <1>1 DEF Request
  <2>3. QED
    BY <1>2, <2>1, <2>2
<1>6. ASSUME CheckPendingUOM(h) PROVE req'[h].role = r.role \/ req'[h] = Idle
  <2>1. CASE Refuse(h)
    BY <1>3, <2>1
  <2>2. CASE ~Refuse(h)
    <3>1. PICK i : Goto(h, [r EXCEPT !.pc = "policy", !.cur = i])
      BY <1>6, <2>2 DEF CheckPendingUOM
    <3>2. [r EXCEPT !.pc = "policy", !.cur = i].role = r.role
      BY <1>1 DEF Request
    <3>3. QED
      BY <1>2, <3>1, <3>2
  <2>3. QED
    BY <2>1, <2>2
<1>7. ASSUME CheckPurchase(h) PROVE req'[h].role = r.role \/ req'[h] = Idle
  <2>1. CASE Refuse(h)
    BY <1>3, <2>1
  <2>2. CASE ~Refuse(h)
    <3>1. PICK y, x, pc, z : Goto(h, [r EXCEPT !.todo = y, !.cur = x, !.pc = pc, !.over = z])
      BY <1>7, <2>2 DEF CheckPurchase
    <3>2. [r EXCEPT !.todo = y, !.cur = x, !.pc = pc, !.over = z].role = r.role
      BY <1>1 DEF Request
    <3>3. QED
      BY <1>2, <3>1, <3>2
  <2>3. QED
    BY <2>1, <2>2
<1>8. ASSUME GenerateID(h) PROVE req'[h].role = r.role
  <2>1. PICK x, pc, y : Goto(h, [r EXCEPT !.target = x, !.pc = pc, !.missed = y])
    BY <1>8, Zenon DEF GenerateID
  <2>2. [r EXCEPT !.target = x, !.pc = pc, !.missed = y].role = r.role
    BY <1>1 DEF Request
  <2>3. QED
    BY <1>2, <2>1, <2>2
<1>9. ASSUME CheckBill(h) PROVE req'[h].role = r.role \/ req'[h] = Idle
  <2>1. CASE Refuse(h)
    BY <1>3, <2>1
  <2>2. CASE ~Refuse(h)
    <3>1. PICK pc, x : Goto(h, [r EXCEPT !.pc = pc, !.missed = x])
      BY <1>9, <2>2 DEF CheckBill
    <3>2. [r EXCEPT !.pc = pc, !.missed = x].role = r.role
      BY <1>1 DEF Request
    <3>3. QED
      BY <1>2, <3>1, <3>2
  <2>3. QED
    BY <2>1, <2>2
<1>10. CommitSave(h) \/ CommitDraft(h) \/ Abort(h) => req'[h] = Idle
  BY <1>3 DEF CommitSave, CommitDraft, Abort, Store
<1>11. QED
  BY <1>4, <1>5, <1>6, <1>7, <1>8, <1>9, <1>10 DEF Save

\* A request comes in from one of the senders there are.
LEMMA ReceiveRole ==
    ASSUME req \in [Handlers -> Request], NEW h \in Handlers, Receive(h)
    PROVE  req'[h].role \in Roles
<1>1. PICK role \in Roles, target \in TypedSeqs \cup {0}, ack \in Acks,
           lines \in LineSets, bill \in Bills \cup {NoBill},
           status \in FormStatuses :
         Goto(h, [Idle EXCEPT !.pc = "exists", !.role = role,
                      !.target = target, !.lines = lines, !.ack = ack,
                      !.bill = bill, !.status = status])
  BY DEF Receive
<1>2. [Idle EXCEPT !.pc = "exists", !.role = role, !.target = target,
                   !.lines = lines, !.ack = ack, !.bill = bill,
                   !.status = status].role = role
  BY DEF Idle
<1>3. QED
  BY <1>1, <1>2 DEF Goto

\* Where only assistants send orders, every request under way is an assistant's.
LEMMA AssistantsAlone ==
    ASSUME Roles \subseteq {"ASSISTANT"}
    PROVE  Spec => []AssistantsOnly
<1>1. ASSUME Init PROVE AssistantsOnly
  <2>1. \A h \in Handlers : req[h] = Idle
    BY <1>1 DEF Init
  <2>2. Idle.pc = "idle"
    BY DEF Idle
  <2>3. QED
    BY <2>1, <2>2 DEF AssistantsOnly
<1>2. ASSUME IInv, AssistantsOnly, [Next]_vars PROVE AssistantsOnly'
  <2> req \in [Handlers -> Request]
    BY <1>2 DEF IInv, TypeOK
  <2>1. ASSUME NEW h \in Handlers, NEW k \in Handlers,
               Receive(h) \/ Save(h) \/ Abort(h), req'[k].pc # "idle"
        PROVE  req'[k].role = "ASSISTANT"
    <3>1. CASE k # h
      <4>1. req'[k] = req[k]
        BY <2>1, <3>1 DEF Save, Abort, Receive, ReadExists, ReadLines,
           CheckPendingUOM, CheckPurchase, GenerateID, CheckBill, CommitSave,
           CommitDraft, Goto, Refuse, Store
      <4>2. QED
        BY <1>2, <2>1, <4>1 DEF AssistantsOnly
    <3>2. CASE k = h
      <4>1. Save(h) \/ Abort(h) => req'[h].role = req[h].role \/ req'[h] = Idle
        BY HandlerKeepsRole
      <4>2. Receive(h) => req'[h].role = "ASSISTANT"
        BY ReceiveRole
      <4>3. Idle.pc = "idle"
        BY DEF Idle
      <4>4. Save(h) \/ Abort(h) => req[h].pc # "idle"
        BY DEF Save, Abort, ReadExists, ReadLines, CheckPendingUOM,
           CheckPurchase, GenerateID, CheckBill, CommitSave, CommitDraft
      <4>5. QED
        BY <1>2, <2>1, <3>2, <4>1, <4>2, <4>3, <4>4 DEF AssistantsOnly
    <3>3. QED
      BY <3>1, <3>2
  <2>2. CASE UNCHANGED req
    BY <1>2, <2>2 DEF AssistantsOnly
  <2>3. QED
    BY <1>2, <2>1, <2>2 DEF Next, vars, AssistantsOnly, Approve,
       RequestPayment, UpdateStatus, SetStatus, EditControls, FlagUOM,
       ConfirmUOM, SetItem
<1>3. QED
  BY Invariant, <1>1, <1>2, PTL DEF Spec

\* Assistant drafts, whatever runs beside them, behave as the order book that
\* DraftBook promises: each adds one clean order under a number nobody has.
THEOREM DraftRefinement ==
    ASSUME Roles \subseteq {"ASSISTANT"}
    PROVE  Spec => ImplementsDraftBook
<1>1. Init => Book!Init
  BY DEF Init, Book!Init, Book!Clean
<1>2. ASSUME IInv, AssistantsOnly, [Next]_vars
      PROVE  [Book!Next]_<<item, po>>
  <2>1. ASSUME NEW h \in Handlers, CommitDraft(h)
        PROVE  Book!Draft \/ UNCHANGED <<item, po>>
    <3>1. CASE UNCHANGED po
      BY <1>2, <2>1, <3>1 DEF CommitDraft, Store, Refuse
    <3>2. CASE ~UNCHANGED po
      <4>1. /\ NextSeq \notin DOMAIN po
            /\ DOMAIN po' = (DOMAIN po) \cup {NextSeq}
            /\ \A m \in DOMAIN po : po'[m] = po[m]
            /\ po'[NextSeq].status = "Pending Approval"
            /\ \A i \in po'[NextSeq].lines : DraftLine(i)
            /\ UNCHANGED item
        BY <1>2, <2>1, <3>2, DraftStep
      <4>2. \A i \in po'[NextSeq].lines : i \in Items /\ item[i] = Book!Clean
        BY <1>2, <4>1, DraftLineClean DEF IInv, Book!Clean
      <4>3. QED
        BY <4>1, <4>2 DEF Book!Draft
    <3>3. QED
      BY <3>1, <3>2
  <2>2. ASSUME NEW h \in Handlers, Receive(h) \/ Save(h) \/ Abort(h),
               ~CommitDraft(h)
        PROVE  UNCHANGED <<item, po>>
    <3>1. ~CommitSave(h)
      BY <1>2 DEF CommitSave, AssistantsOnly
    <3>2. QED
      BY <2>2, <3>1, ReadsKeepOrders DEF Save, Receive, ReadExists, ReadLines,
         CheckPendingUOM, CheckPurchase, GenerateID, CheckBill, Abort, Goto,
         Refuse
  <2>3. ASSUME NEW n \in DOMAIN po,
               Approve(n) \/ RequestPayment(n) \/ UpdateStatus(n)
        PROVE  Book!Progress
    <3>1. \A s \in StatusChoices \cup {"Approved", "Pending Payment"} :
             s \in Statuses
      BY ConstantsAssumption DEF Statuses
    <3>2. QED
      BY <2>3, <3>1 DEF Approve, RequestPayment, UpdateStatus, SetStatus,
         Book!Progress
  <2>4. ASSUME NEW i \in EditedItems,
               EditControls(i) \/ FlagUOM(i) \/ ConfirmUOM(i)
        PROVE  Book!Reclassify
    <3>1. i \in Items /\ item \in [Items -> Controls]
      BY <1>2, ConstantsAssumption DEF IInv, TypeOK
    <3>2. PICK b, a, p \in BOOLEAN :
             SetItem(i, [buy |-> b, avail |-> a, pending |-> p])
      <4>1. PICK c \in Controls : SetItem(i, c)
        BY <2>4, <3>1 DEF EditControls, FlagUOM, ConfirmUOM, Controls
      <4>2. /\ c = [buy |-> c.buy, avail |-> c.avail, pending |-> c.pending]
            /\ c.buy \in BOOLEAN /\ c.avail \in BOOLEAN
            /\ c.pending \in BOOLEAN
        BY DEF Controls
      <4>3. QED
        BY <4>1, <4>2
    <3>3. QED
      BY <3>1, <3>2 DEF SetItem, Book!Reclassify
  <2>5. CASE UNCHANGED vars
    BY <2>5 DEF vars
  <2>6. QED
    BY <1>2, <2>1, <2>2, <2>3, <2>4, <2>5 DEF Next, Book!Next
<1>3. QED
  BY Invariant, AssistantsAlone, <1>1, <1>2, PTL
     DEF Spec, ImplementsDraftBook, Book!Spec
=============================================================================
