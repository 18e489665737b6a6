---------------------------- MODULE PipelineProofs ----------------------------
(***************************************************************************)
(* Proofs about Pipeline, for every set of handlers, of items and of ship  *)
(* statuses, for every mix of requests and for every bound.                *)
(***************************************************************************)
EXTENDS Pipeline, FiniteSetTheorems, TLAPS

\* Every set of numbers taken from S has a highest one, so that a number that
\* is read exists, after a deletion too.
HasHighest(S) == \A T \in SUBSET S : \E n \in T \cup {0} : \A m \in T : m <= n

Orders ==
    /\ DOMAIN po \subseteq Nat \ {0} /\ po \in [DOMAIN po -> PO]
    /\ HasHighest(DOMAIN po)

Rfqs ==
    /\ DOMAIN rfq \subseteq Nat \ {0} /\ rfq \in [DOMAIN rfq -> Rfq]
    /\ HasHighest(DOMAIN rfq)

\* Direct orders are numbered by the batch they came in, without a gap.
Directs ==
    /\ DOMAIN direct \subseteq (Nat \ {0}) \X Items
    /\ direct \in [DOMAIN direct -> Row]
    /\ HasHighest(DirectIds)
    /\ \E n \in Nat : Batches = 1..n

\* What a request at each of its steps carries.
Carries(h) ==
    /\ req[h].pc = "link" => req[h].kind \in {"po", "podraft"} /\ ~req[h].numbered
    /\ req[h].pc = "id" => req[h].kind \in {"direct", "po", "rfq"}
    /\ req[h].pc = "commit" => req[h].kind # "plan"
    /\ req[h].pc = "supersede" => req[h].kind = "po" /\ req[h].target \in DOMAIN po
    /\ req[h].pc # "idle" /\ req[h].kind \in {"po", "podraft"} => req[h].ship \in Ships
    /\ req[h].pc = "commit" /\ req[h].kind \in {"po", "rfq", "direct"} => req[h].target # 0
    /\ req[h].pc # "idle" /\ req[h].kind = "direct" => req[h].lines # {}

\* A number that was handed out is in use only if others took it since, or the
\* look-up passed over it.
NewOrTaken(h) ==
    HasNumber(req[h]) /\ req[h].target \in Used(req[h].kind) =>
        req[h].target \in taken[h] \cup req[h].missed

\* What a plan under way has read, against what was incoming meanwhile.
Watching(h) ==
    /\ Planning(req[h]) =>
          since[h].always \subseteq Incoming /\ Incoming \subseteq since[h].ever
    /\ req[h].pc = "directs" =>
          /\ req[h].view \subseteq since[h].ever
          /\ since[h].always \cap Entries("PO", Items) \subseteq req[h].view
    /\ req[h].pc = "rfqs" =>
          /\ req[h].view \subseteq since[h].ever
          /\ since[h].always \cap (Entries("PO", Items) \cup Entries("DIRECT", Items))
                \subseteq req[h].view

Tables == Orders /\ Rfqs /\ Directs /\ SupersededByStoredPO
Requests ==
    /\ req \in [Handlers -> Request] /\ taken \in [Handlers -> SUBSET Nat]
    /\ \A h \in Handlers : Carries(h) /\ NewOrTaken(h)
Plans ==
    /\ since \in [Handlers -> Watched]
    /\ \A h \in Handlers : Watching(h)

IInv == Tables /\ Requests /\ Plans

-----------------------------------------------------------------------------
(* Numbers *)

LEMMA NextIsNew ==
    ASSUME NEW S \in SUBSET Nat, HasHighest(S)
    PROVE  NextNumber(S) \in Nat \ {0} /\ \A n \in S : n < NextNumber(S)
<1>1. Highest(S) \in S \cup {0} /\ \A m \in S : m <= Highest(S)
  BY DEF HasHighest, Highest
<1> DEFINE top == Highest(S)
<1> HIDE DEF top
<1>2. top \in Nat /\ \A m \in S : m <= top
  <2>1. \A n \in S \cup {0} : n \in Nat
    OBVIOUS
  <2>2. top \in S \cup {0} /\ \A m \in S : m <= top
    BY <1>1, Zenon DEF top
  <2>3. QED
    BY <2>1, <2>2, Zenon
<1>3. NextNumber(S) = top + 1
  BY DEF top, NextNumber
<1>4. QED
  BY <1>2, <1>3

LEMMA HighestOfMore ==
    ASSUME NEW S \in SUBSET Nat, HasHighest(S), NEW new \in Nat
    PROVE  HasHighest(S \cup {new})
<1> SUFFICES ASSUME NEW T \in SUBSET (S \cup {new})
             PROVE  \E n \in T \cup {0} : \A m \in T : m <= n
  BY DEF HasHighest
<1>1. PICK n \in (T \ {new}) \cup {0} : \A m \in T \ {new} : m <= n
  BY DEF HasHighest
<1>2. n \in Nat
  BY <1>1
<1>3. CASE new \in T /\ n <= new
  <2>1. \A m \in T : m <= new
    BY <1>1, <1>2, <1>3
  <2>2. QED
    BY <1>3, <2>1
<1>4. CASE ~(new \in T /\ n <= new)
  <2>1. \A m \in T : m <= n
    BY <1>1, <1>2, <1>4
  <2>2. QED
    BY <1>1, <2>1
<1>5. QED
  BY <1>3, <1>4

LEMMA HighestOfFewer ==
    ASSUME NEW S, HasHighest(S), NEW T \in SUBSET S
    PROVE  HasHighest(T)
BY DEF HasHighest

\* The next batch is the one after all those there are.
LEMMA BatchesCounted ==
    ASSUME Directs
    PROVE  /\ Cardinality(Batches) \in Nat
           /\ Batches = 1..Cardinality(Batches)
<1>1. PICK n \in Nat : Batches = 1..n
  BY DEF Directs
<1>2. Cardinality(1..n) = n
  BY FS_Interval
<1>3. QED
  BY <1>1, <1>2

\* The entries of each stage.
LEMMA IncomingTyped ==
    ASSUME Orders, Rfqs, Directs
    PROVE  /\ IncomingPOs \subseteq Entries("PO", Items)
           /\ IncomingDirect \subseteq Entries("DIRECT", Items)
           /\ IncomingRFQs \subseteq Entries("RFQ", Items)
<1>1. \A n \in DOMAIN po : po[n].lines \subseteq Items
  BY DEF Orders, PO
<1>2. \A n \in DOMAIN rfq : rfq[n].lines \subseteq Items
  BY DEF Rfqs, Rfq
<1>3. \A k \in DOMAIN direct : k[2] \in Items
  BY DEF Directs
<1>4. IncomingPOs \subseteq Entries("PO", Items)
  BY <1>1 DEF IncomingPOs, Entries
<1>5. IncomingRFQs \subseteq Entries("RFQ", Items)
  BY <1>2 DEF IncomingRFQs, Entries
<1>6. IncomingDirect \subseteq Entries("DIRECT", Items)
  BY <1>3 DEF IncomingDirect, Entries
<1>7. QED
  BY <1>4, <1>5, <1>6

-----------------------------------------------------------------------------
(* Steps *)

\* A step that leaves a plan under way alone, or is no plan's, keeps what the
\* plans watch; the reads of a plan are looked at one by one.
PlanStep(h) ==
    \/ ~Planning(req'[h])
    \/ req'[h] = req[h]
    \/ ~Planning(req[h]) /\ req'[h].pc = "pos"
    \/ /\ req[h].pc = "pos" /\ req'[h].pc = "directs"
       /\ UNCHANGED tables /\ req'[h].view = IncomingPOs
    \/ /\ req[h].pc = "directs" /\ req'[h].pc = "rfqs"
       /\ UNCHANGED tables /\ req'[h].view = req[h].view \cup IncomingDirect

LEMMA PlansKeep ==
    ASSUME IInv, Tables', Watch, \A h \in Handlers : PlanStep(h)
    PROVE  Plans'
<1>1. /\ Incoming \subseteq {"PO", "DIRECT", "RFQ"} \X Items
      /\ IncomingPOs \subseteq Entries("PO", Items)
      /\ IncomingDirect \subseteq Entries("DIRECT", Items)
  BY IncomingTyped DEF IInv, Tables, Incoming, Entries
<1>2. Incoming' \subseteq {"PO", "DIRECT", "RFQ"} \X Items
  <2>1. Orders' /\ Rfqs' /\ Directs'
    BY DEF Tables
  <2>2. \A n \in DOMAIN po' : po'[n].lines \subseteq Items
    BY <2>1 DEF Orders, PO
  <2>3. \A n \in DOMAIN rfq' : rfq'[n].lines \subseteq Items
    BY <2>1 DEF Rfqs, Rfq
  <2>4. \A k \in DOMAIN direct' : k[2] \in Items
    BY <2>1 DEF Directs
  <2>5. IncomingPOs' \subseteq {"PO"} \X Items
    BY <2>2 DEF IncomingPOs, Entries
  <2>6. IncomingRFQs' \subseteq {"RFQ"} \X Items
    BY <2>3 DEF IncomingRFQs, Entries
  <2>7. IncomingDirect' \subseteq {"DIRECT"} \X Items
    BY <2>4 DEF IncomingDirect, Entries
  <2>8. QED
    BY <2>5, <2>6, <2>7 DEF Incoming
<1>3. \A h \in Handlers :
        since'[h] = IF ~Planning(req'[h]) THEN Nothing
                    ELSE IF ~Planning(req[h])
                    THEN [ever |-> Incoming', always |-> Incoming']
                    ELSE [ever |-> since[h].ever \cup Incoming',
                          always |-> since[h].always \cap Incoming']
  BY DEF Watch
<1>4. \A h \in Handlers :
        /\ since[h].ever \subseteq {"PO", "DIRECT", "RFQ"} \X Items
        /\ since[h].always \subseteq {"PO", "DIRECT", "RFQ"} \X Items
  BY DEF IInv, Plans, Watched
<1>5. since' \in [Handlers -> Watched]
  <2>1. ASSUME NEW h \in Handlers PROVE since'[h] \in Watched
    <3>1. CASE ~Planning(req'[h])
      <4>1. since'[h] = Nothing
        BY <1>3, <3>1, Zenon
      <4>2. QED
        BY <4>1 DEF Nothing, Watched
    <3>2. CASE Planning(req'[h]) /\ ~Planning(req[h])
      <4>1. since'[h] = [ever |-> Incoming', always |-> Incoming']
        BY <1>3, <3>2, Zenon
      <4>2. QED
        BY <1>2, <4>1 DEF Watched
    <3>3. CASE Planning(req'[h]) /\ Planning(req[h])
      <4>1. since'[h] = [ever |-> since[h].ever \cup Incoming',
                         always |-> since[h].always \cap Incoming']
        BY <1>3, <3>3, Zenon
      <4>2. QED
        BY <1>2, <1>4, <4>1 DEF Watched
    <3>4. QED
      BY <3>1, <3>2, <3>3
  <2>2. QED
    BY <2>1 DEF Watch
<1>6. ASSUME NEW h \in Handlers
      PROVE  Watching(h)'
  <2>1. /\ Planning(req'[h]) /\ ~Planning(req[h]) =>
              since'[h].ever = Incoming' /\ since'[h].always = Incoming'
        /\ Planning(req'[h]) /\ Planning(req[h]) =>
              /\ since'[h].ever = since[h].ever \cup Incoming'
              /\ since'[h].always = since[h].always \cap Incoming'
    <3>1. CASE Planning(req'[h]) /\ ~Planning(req[h])
      <4>1. since'[h] = [ever |-> Incoming', always |-> Incoming']
        BY <1>3, <3>1, Zenon
      <4>2. QED
        BY <3>1, <4>1
    <3>2. CASE Planning(req'[h]) /\ Planning(req[h])
      <4>1. since'[h] = [ever |-> since[h].ever \cup Incoming',
                         always |-> since[h].always \cap Incoming']
        BY <1>3, <3>2, Zenon
      <4>2. QED
        BY <3>2, <4>1
    <3>3. QED
      BY <3>1, <3>2
  <2>2. Watching(h)
    BY DEF IInv, Plans
  <2>3. CASE ~Planning(req'[h])
    BY <2>3 DEF Watching, Planning
  <2>4. CASE Planning(req'[h]) /\ req'[h] = req[h]
    BY <2>1, <2>2, <2>4 DEF Watching
  <2>5. CASE Planning(req'[h]) /\ ~Planning(req[h]) /\ req'[h].pc = "pos"
    BY <2>1, <2>5 DEF Watching
  <2>6. CASE /\ req[h].pc = "pos" /\ req'[h].pc = "directs"
             /\ UNCHANGED tables /\ req'[h].view = IncomingPOs
    <3>1. /\ Incoming' = Incoming
          /\ Planning(req[h]) /\ Planning(req'[h])
      BY <2>6 DEF tables, Incoming, IncomingPOs, IncomingDirect, IncomingRFQs,
                  OpenPO, InFlight, OpenRFQ, Planning
    <3>2. since[h].always \subseteq Incoming /\ Incoming \subseteq since[h].ever
      BY <2>2, <3>1 DEF Watching
    <3>3. Incoming \cap Entries("PO", Items) \subseteq IncomingPOs
      BY DEF Incoming, IncomingPOs, IncomingDirect, IncomingRFQs, Entries
    <3>4. IncomingPOs \subseteq since[h].ever
      BY <3>2 DEF Incoming
    <3>5. QED
      BY <2>1, <2>6, <3>1, <3>2, <3>3, <3>4 DEF Watching
  <2>7. CASE /\ req[h].pc = "directs" /\ req'[h].pc = "rfqs"
             /\ UNCHANGED tables /\ req'[h].view = req[h].view \cup IncomingDirect
    <3>1. /\ Incoming' = Incoming
          /\ Planning(req[h]) /\ Planning(req'[h])
      BY <2>7 DEF tables, Incoming, IncomingPOs, IncomingDirect, IncomingRFQs,
                  OpenPO, InFlight, OpenRFQ, Planning
    <3>2. /\ since[h].always \subseteq Incoming /\ Incoming \subseteq since[h].ever
          /\ req[h].view \subseteq since[h].ever
          /\ since[h].always \cap Entries("PO", Items) \subseteq req[h].view
      BY <2>2, <2>7, <3>1 DEF Watching
    <3>3. Incoming \cap Entries("DIRECT", Items) \subseteq IncomingDirect
      BY DEF Incoming, IncomingPOs, IncomingDirect, IncomingRFQs, Entries
    <3>4. IncomingDirect \subseteq since[h].ever
      BY <3>2 DEF Incoming
    <3>5. QED
      BY <2>1, <2>7, <3>1, <3>2, <3>3, <3>4 DEF Watching
  <2>8. QED
    BY <2>3, <2>4, <2>5, <2>6, <2>7 DEF PlanStep
<1>7. QED
  BY <1>5, <1>6 DEF Plans

\* What a request carries stays true while others write: orders are never
\* deleted, and the numbers that go into use are noted.
Grows == DOMAIN po \subseteq DOMAIN po'

LEMMA UsedTyped ==
    ASSUME Tables, NEW kind
    PROVE  Used(kind) \in SUBSET Nat /\ HasHighest(Used(kind))
<1>1. DirectIds \in SUBSET Nat
  BY DEF Tables, Directs, DirectIds, Row
<1>2. QED
  BY <1>1 DEF Tables, Orders, Rfqs, Directs, Used

LEMMA TakenTyped ==
    ASSUME IInv, Tables', WatchNumbers
    PROVE  taken' \in [Handlers -> SUBSET Nat]
<1>1. ASSUME NEW h \in Handlers PROVE Used(req[h].kind)' \subseteq Nat
  <2>1. DirectIds' \subseteq Nat
    BY DEF Tables, Directs, DirectIds, Row
  <2>2. QED
    BY <2>1 DEF Tables, Orders, Rfqs, Used
<1>2. QED
  BY <1>1 DEF WatchNumbers, IInv, Requests

LEMMA WaitingKeeps ==
    ASSUME IInv, WatchNumbers, Grows, NEW h \in Handlers, req'[h] = req[h]
    PROVE  Carries(h)' /\ NewOrTaken(h)'
<1>1. Carries(h)'
  BY DEF IInv, Requests, Carries, Grows
<1>2. NewOrTaken(h)'
  <2> SUFFICES ASSUME HasNumber(req[h]), req[h].target \in Used(req[h].kind)'
               PROVE  req[h].target \in taken'[h] \cup req[h].missed
    BY DEF NewOrTaken
  <2>1. taken'[h] = taken[h] \cup (Used(req[h].kind)' \ Used(req[h].kind))
    BY DEF WatchNumbers
  <2>2. NewOrTaken(h)
    BY DEF IInv, Requests
  <2>3. QED
    BY <2>1, <2>2 DEF NewOrTaken
<1>3. QED
  BY <1>1, <1>2

\* What one request does to itself: the others wait as they did.
LEMMA RequestKeeps ==
    ASSUME IInv, Watch, WatchNumbers, Tables', Grows, NEW h \in Handlers, NEW r \in Request,
           req' = [req EXCEPT ![h] = r],
           Carries(h)', NewOrTaken(h)', PlanStep(h)
    PROVE  IInv'
<1>1. /\ req' \in [Handlers -> Request]
      /\ \A k \in Handlers \ {h} : req'[k] = req[k]
  BY DEF IInv, Requests
<1>2. Requests'
  BY <1>1, TakenTyped, WaitingKeeps DEF Requests
<1>3. \A k \in Handlers : PlanStep(k)
  BY <1>1 DEF PlanStep
<1>4. Plans'
  BY <1>3, PlansKeep
<1>5. QED
  BY <1>2, <1>4 DEF IInv

LEMMA IdleRequest == Idle \in Request
BY DEF Idle, Request, AllKinds, Keep

\* An answered request carries nothing.
LEMMA AnswerKeeps ==
    ASSUME IInv, Watch, WatchNumbers, Tables', Grows, NEW h \in Handlers, Answer(h)
    PROVE  IInv'
<1>1. req' = [req EXCEPT ![h] = Idle] /\ req'[h] = Idle
  BY DEF Answer, IInv, Requests
<1>2. req'[h].pc = "idle" /\ req'[h].kind = "plan"
  <2>1. Idle.pc = "idle" /\ Idle.kind = "plan"
    BY DEF Idle
  <2>2. QED
    BY <1>1, <2>1
<1>3. PlanStep(h)
  BY <1>2 DEF PlanStep, Planning
<1>4. Carries(h)' /\ NewOrTaken(h)'
  BY <1>2 DEF Carries, NewOrTaken, HasNumber
<1>5. QED
  BY <1>1, <1>3, <1>4, IdleRequest, RequestKeeps

\* A step that no request takes.
LEMMA QuietKeeps ==
    ASSUME IInv, Watch, WatchNumbers, Tables', Grows, req' = req
    PROVE  IInv'
<1>1. \A k \in Handlers : req'[k] = req[k] /\ PlanStep(k)
  BY DEF PlanStep
<1>2. Requests'
  BY <1>1, TakenTyped, WaitingKeeps DEF IInv, Requests
<1>3. Plans'
  BY <1>1, PlansKeep
<1>4. QED
  BY <1>2, <1>3 DEF IInv

LEMMA SameTables ==
    ASSUME IInv, UNCHANGED tables
    PROVE  Tables' /\ Grows
<1>1. po' = po /\ direct' = direct /\ rfq' = rfq
  BY DEF tables
<1>2. Batches' = Batches /\ DirectIds' = DirectIds
  BY <1>1 DEF Batches, DirectIds
<1>3. Tables'
  BY <1>1, <1>2 DEF IInv, Tables, Orders, Rfqs, Directs, SupersededByStoredPO
<1>4. QED
  BY <1>1, <1>3 DEF Grows

\* A step of one request that writes nothing.
LEMMA GotoKeeps ==
    ASSUME IInv, Watch, WatchNumbers, NEW h \in Handlers, NEW r \in Request, Goto(h, r),
           Carries(h)', NewOrTaken(h)', PlanStep(h)
    PROVE  IInv'
<1>1. req' = [req EXCEPT ![h] = r] /\ Tables' /\ Grows
  BY SameTables DEF Goto
<1>2. QED
  BY <1>1, RequestKeeps

-----------------------------------------------------------------------------
(* Requests come in, and end *)

LEMMA ReceivePlanKeeps ==
    ASSUME IInv, Watch, WatchNumbers, NEW h \in Handlers, req[h].pc = "idle", ReceivePlan(h)
    PROVE  IInv'
<1> DEFINE r == [Idle EXCEPT !.pc = "pos"]
<1>1. Goto(h, r)
  BY DEF ReceivePlan
<1>2. r \in Request /\ r.pc = "pos" /\ r.kind = "plan"
  BY DEF Idle, Request, AllKinds, Keep
<1> HIDE DEF r
<1>3. req'[h] = r
  BY <1>1 DEF Goto, IInv, Requests
<1>4. Carries(h)' /\ NewOrTaken(h)'
  BY <1>2, <1>3 DEF Carries, NewOrTaken, HasNumber
<1>5. PlanStep(h)
  BY <1>2, <1>3 DEF PlanStep, Planning
<1>6. QED
  BY <1>1, <1>2, <1>4, <1>5, GotoKeeps

LEMMA ReceiveDirectKeeps ==
    ASSUME IInv, Watch, WatchNumbers, NEW h \in Handlers, req[h].pc = "idle",
           ReceiveDirect(h)
    PROVE  IInv'
<1>1. PICK lines \in ItemSets :
        Goto(h, [Idle EXCEPT !.pc = "id", !.kind = "direct", !.lines = lines])
  BY DEF ReceiveDirect
<1> DEFINE r == [Idle EXCEPT !.pc = "id", !.kind = "direct", !.lines = lines]
<1>2. lines \in SUBSET Items /\ lines # {}
  BY PipelineAssumption DEF PipelineAssumption
<1>3. r.pc = "id" /\ r.kind = "direct" /\ r.lines = lines
  BY DEF Idle
<1>4. r \in Request
  BY <1>2 DEF Idle, Request, AllKinds, Keep
<1> HIDE DEF r
<1>5. req'[h] = r
  BY <1>1 DEF r, Goto, IInv, Requests
<1>6. Carries(h)' /\ NewOrTaken(h)'
  BY <1>2, <1>3, <1>5 DEF Carries, NewOrTaken, HasNumber
<1>7. PlanStep(h)
  BY <1>3, <1>5 DEF PlanStep, Planning
<1>8. QED
  BY <1>1, <1>4, <1>6, <1>7, GotoKeeps DEF r

LEMMA ReceivePOKeeps ==
    ASSUME IInv, Watch, WatchNumbers, NEW h \in Handlers, req[h].pc = "idle", ReceivePO(h)
    PROVE  IInv'
<1>1. PICK kind \in Kinds \cap {"po", "podraft"}, n \in (DOMAIN po) \cup {0},
           lines \in ItemSets, ship \in Ships, recent \in Dates,
           link \in (DOMAIN rfq) \cup {Keep, 0} :
        /\ kind = "podraft" => n = 0
        /\ Goto(h, [Idle EXCEPT !.kind = kind, !.target = n,
                        !.lines = lines, !.ship = ship, !.recent = recent, !.link = link,
                        !.pc = IF link \in {Keep, 0}
                               THEN IF n = 0 /\ kind = "po" THEN "id" ELSE "commit"
                               ELSE "link"])
  BY DEF ReceivePO
<1> DEFINE pc == IF link \in {Keep, 0}
                 THEN IF n = 0 /\ kind = "po" THEN "id" ELSE "commit" ELSE "link"
           r == [Idle EXCEPT !.kind = kind, !.target = n,
                        !.lines = lines, !.ship = ship, !.recent = recent, !.link = link,
                        !.pc = pc]
<1>2. /\ pc \in {"id", "commit", "link"}
      /\ pc = "id" => kind = "po"
      /\ pc = "commit" => n # 0 \/ kind = "podraft"
      /\ kind \in {"po", "podraft"}
  BY <1>1
<1> HIDE DEF pc
<1>3. /\ n \in Nat /\ lines \in SUBSET Items /\ recent \in BOOLEAN
      /\ link \in Nat \cup {Keep}
  BY PipelineAssumption DEF PipelineAssumption, IInv, Tables, Orders, Rfqs
<1>4. r.pc = pc /\ r.kind = kind /\ r.target = n /\ r.ship = ship /\ ~r.numbered
  BY DEF Idle
<1>5. r \in Request
  BY <1>2, <1>3 DEF Idle, Request, AllKinds
<1>6. Goto(h, r)
  BY <1>1 DEF pc
<1> HIDE DEF r
<1>7. req'[h] = r
  BY <1>6 DEF Goto, IInv, Requests
<1>8. Carries(h)' /\ NewOrTaken(h)'
  BY <1>2, <1>4, <1>7 DEF Carries, NewOrTaken, HasNumber
<1>9. PlanStep(h)
  BY <1>2, <1>4, <1>7 DEF PlanStep, Planning
<1>10. QED
  BY <1>5, <1>6, <1>8, <1>9, GotoKeeps

LEMMA ReceiveRFQKeeps ==
    ASSUME IInv, Watch, WatchNumbers, NEW h \in Handlers, req[h].pc = "idle", ReceiveRFQ(h)
    PROVE  IInv'
<1>1. PICK kind \in Kinds \cap {"rfq", "rfqdraft"}, n \in (DOMAIN rfq) \cup {0},
           lines \in ItemSets, recent \in Dates :
        /\ kind = "rfqdraft" => n = 0
        /\ Goto(h, [Idle EXCEPT !.kind = kind, !.target = n,
                        !.lines = lines, !.recent = recent,
                        !.pc = IF n = 0 /\ kind = "rfq" THEN "id" ELSE "commit"])
  BY DEF ReceiveRFQ
<1> DEFINE pc == IF n = 0 /\ kind = "rfq" THEN "id" ELSE "commit"
           r == [Idle EXCEPT !.kind = kind, !.target = n,
                        !.lines = lines, !.recent = recent, !.pc = pc]
<1>2. /\ pc \in {"id", "commit"}
      /\ pc = "id" => kind = "rfq"
      /\ pc = "commit" => n # 0 \/ kind = "rfqdraft"
      /\ kind \in {"rfq", "rfqdraft"}
  BY <1>1
<1> HIDE DEF pc
<1>3. n \in Nat /\ lines \in SUBSET Items /\ recent \in BOOLEAN
  BY PipelineAssumption DEF PipelineAssumption, IInv, Tables, Rfqs
<1>4. r.pc = pc /\ r.kind = kind /\ r.target = n /\ ~r.numbered
  BY DEF Idle
<1>5. r \in Request
  BY <1>2, <1>3 DEF Idle, Request, AllKinds, Keep
<1>6. Goto(h, r)
  BY <1>1 DEF pc
<1> HIDE DEF r
<1>7. req'[h] = r
  BY <1>6 DEF Goto, IInv, Requests
<1>8. Carries(h)' /\ NewOrTaken(h)'
  BY <1>2, <1>4, <1>7 DEF Carries, NewOrTaken, HasNumber
<1>9. PlanStep(h)
  BY <1>2, <1>4, <1>7 DEF PlanStep, Planning
<1>10. QED
  BY <1>5, <1>6, <1>8, <1>9, GotoKeeps

LEMMA ReceiveKeeps == ASSUME IInv, Watch, WatchNumbers, NEW h \in Handlers, Receive(h) PROVE IInv'
BY ReceivePlanKeeps, ReceiveDirectKeeps, ReceivePOKeeps, ReceiveRFQKeeps DEF Receive

LEMMA AbortKeeps == ASSUME IInv, Watch, WatchNumbers, NEW h \in Handlers, Abort(h) PROVE IInv'
BY SameTables, AnswerKeeps DEF Abort

-----------------------------------------------------------------------------
(* What a step may do to the tables *)

\* Orders are added or rewritten, never taken away.
LEMMA OrdersWritten ==
    ASSUME IInv, UNCHANGED <<direct, rfq>>, NEW n \in Nat \ {0},
           DOMAIN po' = (DOMAIN po) \cup {n} \/ DOMAIN po' = DOMAIN po,
           po' \in [DOMAIN po' -> PO]
    PROVE  Tables' /\ Grows
<1>1. /\ HasHighest(DOMAIN po) /\ DOMAIN po \in SUBSET Nat /\ n \in Nat
      /\ DOMAIN po \subseteq Nat \ {0}
  BY DEF IInv, Tables, Orders
<1>2. HasHighest((DOMAIN po) \cup {n})
  BY <1>1, HighestOfMore
<1>3. Orders'
  BY <1>1, <1>2 DEF Orders
<1>4. DOMAIN po \subseteq DOMAIN po'
  OBVIOUS
<1>5. Batches' = Batches /\ DirectIds' = DirectIds
  BY DEF Batches, DirectIds
<1>6. Directs' /\ Rfqs' /\ SupersededByStoredPO'
  BY <1>4, <1>5 DEF IInv, Tables, Rfqs, Directs, SupersededByStoredPO
<1>7. QED
  BY <1>3, <1>4, <1>6 DEF Tables, Grows

\* Requests for quotation are added, rewritten or deleted.
LEMMA RfqsWritten ==
    ASSUME IInv, UNCHANGED <<po, direct>>, NEW n \in Nat \ {0},
           DOMAIN rfq' \subseteq (DOMAIN rfq) \cup {n}, rfq' \in [DOMAIN rfq' -> Rfq]
    PROVE  Tables' /\ Grows
<1>1. /\ HasHighest(DOMAIN rfq) /\ DOMAIN rfq \in SUBSET Nat /\ n \in Nat
      /\ DOMAIN rfq \subseteq Nat \ {0}
  BY DEF IInv, Tables, Rfqs
<1>2. HasHighest((DOMAIN rfq) \cup {n})
  BY <1>1, HighestOfMore
<1>3. HasHighest(DOMAIN rfq')
  BY <1>2, HighestOfFewer
<1>4. Rfqs'
  BY <1>1, <1>3 DEF Rfqs
<1>5. Batches' = Batches /\ DirectIds' = DirectIds
  BY DEF Batches, DirectIds
<1>6. Directs' /\ Orders' /\ SupersededByStoredPO'
  BY <1>5 DEF IInv, Tables, Orders, Directs, SupersededByStoredPO
<1>7. QED
  BY <1>4, <1>6 DEF Tables, Grows

\* Rows of direct orders change their status and date, never their number.
LEMMA DirectsWritten ==
    ASSUME IInv, UNCHANGED <<po, rfq>>,
           DOMAIN direct' = DOMAIN direct, direct' \in [DOMAIN direct -> Row],
           \A k \in DOMAIN direct :
              /\ direct'[k].order = direct[k].order
              /\ IF direct'[k].status = "SUPERSEDED" THEN direct'[k].po \in DOMAIN po
                 ELSE direct'[k].po = 0
    PROVE  Tables' /\ Grows
<1>1. Batches' = Batches
  BY DEF Batches
<1>2. DirectIds' = DirectIds
  BY DEF DirectIds
<1>3. Directs'
  BY <1>1, <1>2 DEF IInv, Tables, Directs
<1>4. Orders' /\ Rfqs' /\ SupersededByStoredPO'
  BY DEF IInv, Tables, Orders, Rfqs, SupersededByStoredPO
<1>5. QED
  BY <1>3, <1>4 DEF Tables, Grows

-----------------------------------------------------------------------------
(* Purchase orders *)

LEMMA CheckLinkKeeps == ASSUME IInv, Watch, WatchNumbers, NEW h \in Handlers, CheckLink(h) PROVE IInv'
<1>1. CASE Answer(h) /\ UNCHANGED tables
  BY <1>1, SameTables, AnswerKeeps
<1>2. CASE Goto(h, [req[h] EXCEPT !.pc = IF req[h].target = 0 /\ req[h].kind = "po"
                                         THEN "id" ELSE "commit"])
  <2> DEFINE pc == IF req[h].target = 0 /\ req[h].kind = "po" THEN "id" ELSE "commit"
             r == [req[h] EXCEPT !.pc = pc]
  <2>1. /\ req[h] \in Request /\ req[h].pc = "link" /\ req[h].kind \in {"po", "podraft"}
        /\ req[h].ship \in Ships /\ ~req[h].numbered
    BY DEF CheckLink, IInv, Requests, Carries
  <2>2. /\ pc \in {"id", "commit"}
        /\ pc = "id" => req[h].kind = "po"
        /\ pc = "commit" => req[h].target # 0 \/ req[h].kind = "podraft"
    BY <2>1
  <2>3. Goto(h, r)
    BY <1>2
  <2> HIDE DEF pc
  <2>4. /\ r.pc = pc /\ r.kind = req[h].kind /\ r.target = req[h].target
        /\ r.ship = req[h].ship /\ r.numbered = req[h].numbered
    BY <2>1 DEF Request
  <2>5. r \in Request
    BY <2>1, <2>2 DEF Request
  <2> HIDE DEF r
  <2>6. req'[h] = r
    BY <2>3 DEF Goto, IInv, Requests
  <2>7. Carries(h)' /\ NewOrTaken(h)'
    BY <2>1, <2>2, <2>4, <2>6 DEF Carries, NewOrTaken, HasNumber
  <2>8. PlanStep(h)
    BY <2>2, <2>4, <2>6 DEF PlanStep, Planning
  <2>9. QED
    BY <2>3, <2>5, <2>7, <2>8, GotoKeeps
<1>3. QED
  BY <1>1, <1>2 DEF CheckLink

\* A number that is handed out is that of no stored document the look-up saw.
LEMMA TakeNumberKeeps ==
    ASSUME IInv, Watch, WatchNumbers, NEW h \in Handlers, req[h].pc = "id",
           NEW last \in Nat, NEW missed \in SUBSET Nat, TakeNumber(h, last, missed),
           last + 1 \in Used(req[h].kind) => last + 1 \in missed
    PROVE  IInv'
<1> DEFINE r == [req[h] EXCEPT !.pc = "commit", !.target = last + 1,
                               !.numbered = TRUE, !.missed = missed]
<1>1. /\ req[h] \in Request /\ req[h].kind \in {"direct", "po", "rfq"}
      /\ req[h].kind = "po" => req[h].ship \in Ships
      /\ req[h].kind = "direct" => req[h].lines # {}
  BY DEF IInv, Requests, Carries
<1>2. Goto(h, r)
  BY DEF TakeNumber, WithId
<1>3. /\ r.pc = "commit" /\ r.kind = req[h].kind /\ r.target = last + 1
      /\ r.ship = req[h].ship /\ r.lines = req[h].lines /\ r.missed = missed
  BY <1>1 DEF Request
<1>4. r \in Request
  <2>1. last + 1 \in Nat
    OBVIOUS
  <2>2. QED
    BY <1>1, <2>1 DEF Request
<1> HIDE DEF r
<1>5. req'[h] = r /\ UNCHANGED tables
  BY <1>2 DEF Goto, IInv, Requests
<1>6. last + 1 # 0
  OBVIOUS
<1>7. Carries(h)'
  BY <1>1, <1>3, <1>5, <1>6 DEF Carries
<1>8. NewOrTaken(h)'
  <2>1. DirectIds' = DirectIds /\ DOMAIN po' = DOMAIN po /\ DOMAIN rfq' = DOMAIN rfq
    BY <1>5 DEF tables, DirectIds
  <2>2. req'[h].kind = req[h].kind /\ req'[h].target = last + 1 /\ req'[h].missed = missed
    BY <1>3, <1>5
  <2>3. Used(req[h].kind)' = Used(req[h].kind)
    BY <2>1, <2>2 DEF Used
  <2>4. QED
    BY <2>2, <2>3 DEF NewOrTaken
<1>9. PlanStep(h)
  BY <1>3, <1>5 DEF PlanStep, Planning
<1>10. QED
  BY <1>2, <1>4, <1>7, <1>8, <1>9, GotoKeeps

LEMMA GenerateIDKeeps ==
    ASSUME IInv, Watch, WatchNumbers, NEW h \in Handlers, GenerateID(h)
    PROVE  IInv'
<1> DEFINE used == Used(req[h].kind)
<1>1. req[h].pc = "id"
  BY DEF GenerateID
<1>2. used \in SUBSET Nat /\ HasHighest(used)
  BY UsedTyped DEF IInv
<1>3. CASE TakeNumber(h, Highest(used), {})
  <2>1. Highest(used) \in Nat /\ Highest(used) + 1 \notin used
    <3>1. Highest(used) \in used \cup {0} /\ \A m \in used : m <= Highest(used)
      BY <1>2 DEF HasHighest, Highest
    <3> DEFINE top == Highest(used)
    <3> HIDE DEF top
    <3>2. top \in used \cup {0} /\ \A m \in used : m <= top
      BY <3>1 DEF top
    <3> HIDE DEF used
    <3>3. top \in Nat
      BY <1>2, <3>2
    <3>4. top + 1 \notin used
      BY <3>2, <3>3
    <3>5. QED
      BY <3>3, <3>4 DEF top
  <2>2. QED
    BY <1>1, <1>3, <2>1, TakeNumberKeeps
<1>4. ASSUME NEW last \in used \cup {0}, TakeNumber(h, last, {n \in used : n > last})
      PROVE  IInv'
  <2>1. last \in Nat
    BY <1>2
  <2>2. {n \in used : n > last} \in SUBSET Nat
    BY <1>2
  <2>3. last + 1 \in used => last + 1 \in {n \in used : n > last}
    BY <2>1
  <2>4. QED
    BY <1>1, <1>4, <2>1, <2>2, <2>3, TakeNumberKeeps
<1>5. QED
  BY <1>3, <1>4 DEF GenerateID

\* The row a save stores.
LEMMA SavedOrder ==
    ASSUME IInv, NEW h \in Handlers, NEW n, req[h].ship \in Ships
    PROVE  SavedPO(n, req[h]) \in PO
<1>1. /\ req[h].lines \in SUBSET Items /\ req[h].recent \in BOOLEAN
      /\ req[h].link \in Nat \cup {Keep}
  BY DEF IInv, Requests, Request
<1>2. n \in DOMAIN po => /\ po[n].rfq \in Nat
                         /\ po[n].status \in {"Pending Approval"} \cup StatusChoices
  BY DEF IInv, Tables, Orders, PO
<1>3. LinkAfter(n, req[h]) \in Nat
  BY <1>1, <1>2 DEF LinkAfter
<1>4. QED
  BY <1>1, <1>2, <1>3 DEF SavedPO, PO

LEMMA PutOrder ==
    ASSUME IInv, UNCHANGED <<direct, rfq>>, NEW n \in Nat \ {0}, NEW row \in PO,
           po' = Put(po, n, row)
    PROVE  Tables' /\ Grows /\ n \in DOMAIN po'
<1>1. DOMAIN po' = (DOMAIN po) \cup {n}
  BY DEF Put
<1>2. \A m \in DOMAIN po : po[m] \in PO
  BY DEF IInv, Tables, Orders
<1>3. po' \in [DOMAIN po' -> PO]
  BY <1>1, <1>2 DEF Put
<1>4. QED
  BY <1>1, <1>3, OrdersWritten

LEMMA CommitPOKeeps == ASSUME IInv, Watch, WatchNumbers, NEW h \in Handlers, CommitPO(h) PROVE IInv'
<1> DEFINE r == [req[h] EXCEPT !.pc = "supersede"]
<1>1. /\ req[h].pc = "commit" /\ req[h].kind = "po" /\ req[h].ship \in Ships
      /\ req[h].target \in Nat \ {0} /\ req[h] \in Request
  BY DEF CommitPO, IInv, Requests, Request, Carries
<1>2. /\ po' = Put(po, req[h].target, SavedPO(req[h].target, req[h]))
      /\ req' = [req EXCEPT ![h] = r] /\ UNCHANGED <<direct, rfq>>
  BY DEF CommitPO
<1>3. Tables' /\ Grows /\ req[h].target \in DOMAIN po'
  BY <1>1, <1>2, SavedOrder, PutOrder
<1>4. r.pc = "supersede" /\ r.kind = "po" /\ r.target = req[h].target /\ r.ship = req[h].ship
  BY <1>1 DEF Request
<1>5. r \in Request
  BY <1>1 DEF Request
<1> HIDE DEF r
<1>6. req'[h] = r
  BY <1>2 DEF IInv, Requests
<1>7. Carries(h)' /\ NewOrTaken(h)'
  BY <1>1, <1>3, <1>4, <1>6 DEF Carries, NewOrTaken, HasNumber
<1>8. PlanStep(h)
  BY <1>4, <1>6 DEF PlanStep, Planning
<1>9. QED
  BY <1>2, <1>3, <1>5, <1>7, <1>8, RequestKeeps

LEMMA DraftPOKeeps == ASSUME IInv, Watch, WatchNumbers, NEW h \in Handlers, DraftPO(h) PROVE IInv'
<1> DEFINE n == NextNumber(DOMAIN po)
<1>1. req[h].ship \in Ships
  BY DEF DraftPO, IInv, Requests, Carries
<1>2. n \in Nat \ {0}
  BY NextIsNew DEF IInv, Tables, Orders
<1>3. po' = Put(po, n, SavedPO(n, req[h])) /\ UNCHANGED <<direct, rfq>> /\ Answer(h)
  BY DEF DraftPO
<1> HIDE DEF n
<1>4. Tables' /\ Grows
  BY <1>1, <1>2, <1>3, SavedOrder, PutOrder
<1>5. QED
  BY <1>3, <1>4, AnswerKeeps

\* Only rows still ACTIVE are resolved, by an order that is stored.
LEMMA SupersedeDirectOrdersKeeps ==
    ASSUME IInv, Watch, WatchNumbers, NEW h \in Handlers, SupersedeDirectOrders(h) PROVE IInv'
<1>1. req[h].target \in DOMAIN po /\ req[h].target \in Nat
  BY DEF SupersedeDirectOrders, IInv, Requests, Request, Carries
<1>2. /\ direct' = [k \in DOMAIN direct |->
              IF Covered(k, req[h].lines)
              THEN [direct[k] EXCEPT !.status = "SUPERSEDED", !.po = req[h].target]
              ELSE direct[k]]
      /\ Answer(h) /\ UNCHANGED <<po, rfq>>
  BY DEF SupersedeDirectOrders
<1>3. ASSUME NEW k \in DOMAIN direct
      PROVE  /\ direct'[k] \in Row /\ direct'[k].order = direct[k].order
             /\ IF direct'[k].status = "SUPERSEDED" THEN direct'[k].po \in DOMAIN po
                ELSE direct'[k].po = 0
  <2>1. direct[k] \in Row
    BY DEF IInv, Tables, Directs
  <2>2. CASE Covered(k, req[h].lines)
    <3>1. direct'[k] = [direct[k] EXCEPT !.status = "SUPERSEDED", !.po = req[h].target]
      BY <1>2, <2>2
    <3>2. QED
      BY <1>1, <2>1, <3>1 DEF Row
  <2>3. CASE ~Covered(k, req[h].lines)
    <3>1. direct'[k] = direct[k]
      BY <1>2, <2>3
    <3>2. QED
      BY <2>1, <3>1 DEF IInv, Tables, SupersededByStoredPO
  <2>4. QED
    BY <2>2, <2>3
<1>4. DOMAIN direct' = DOMAIN direct /\ direct' \in [DOMAIN direct -> Row]
  BY <1>2, <1>3
<1>5. Tables' /\ Grows
  BY <1>2, <1>3, <1>4, DirectsWritten
<1>6. QED
  BY <1>2, <1>5, AnswerKeeps

\* A status or a ship status is changed in place.
LEMMA UpdateStatusKeeps == ASSUME IInv, Watch, WatchNumbers, NEW n \in DOMAIN po, UpdateStatus(n) PROVE IInv'
<1>1. PICK status \in StatusChoices : po' = [po EXCEPT ![n].status = status]
  BY DEF UpdateStatus
<1>2. /\ po \in [DOMAIN po -> PO] /\ n \in Nat \ {0}
      /\ UNCHANGED <<direct, rfq, req>>
  BY DEF UpdateStatus, IInv, Tables, Orders
<1>3. [po[n] EXCEPT !.status = status] \in PO
  BY <1>2 DEF PO
<1>4. DOMAIN po' = DOMAIN po /\ po' \in [DOMAIN po -> PO]
  BY <1>1, <1>2, <1>3
<1>5. Tables' /\ Grows
  BY <1>2, <1>4, OrdersWritten
<1>6. QED
  BY <1>2, <1>5, QuietKeeps

LEMMA UpdateShipKeeps == ASSUME IInv, Watch, WatchNumbers, NEW n \in DOMAIN po, UpdateShip(n) PROVE IInv'
<1>1. PICK ship \in Ships : po' = [po EXCEPT ![n].ship = ship]
  BY DEF UpdateShip
<1>2. /\ po \in [DOMAIN po -> PO] /\ n \in Nat \ {0}
      /\ UNCHANGED <<direct, rfq, req>>
  BY DEF UpdateShip, IInv, Tables, Orders
<1>3. [po[n] EXCEPT !.ship = ship] \in PO
  BY <1>2 DEF PO
<1>4. DOMAIN po' = DOMAIN po /\ po' \in [DOMAIN po -> PO]
  BY <1>1, <1>2, <1>3
<1>5. Tables' /\ Grows
  BY <1>2, <1>4, OrdersWritten
<1>6. QED
  BY <1>2, <1>5, QuietKeeps

-----------------------------------------------------------------------------
(* Direct orders *)

\* The rows of an order are a new batch, after those there are.
LEMMA MarkOrderedKeeps == ASSUME IInv, Watch, WatchNumbers, NEW h \in Handlers, MarkOrdered(h) PROVE IInv'
<1> DEFINE c == Cardinality(Batches)
           rows == {c + 1} \X req[h].lines
           new == [order |-> req[h].target, status |-> "ACTIVE", po |-> 0, recent |-> TRUE]
<1>1. /\ req[h].lines \in SUBSET Items /\ req[h].lines # {}
      /\ req[h].target \in Nat \ {0}
  BY DEF MarkOrdered, IInv, Requests, Request, Carries
<1>2. c \in Nat /\ Batches = 1..c
  BY BatchesCounted DEF IInv, Tables
<1>3. /\ direct' = [k \in (DOMAIN direct) \cup rows |-> IF k \in rows THEN new ELSE direct[k]]
      /\ Answer(h) /\ UNCHANGED <<po, rfq>>
  BY DEF MarkOrdered
<1>4. new \in Row /\ new.order = req[h].target /\ new.status = "ACTIVE" /\ new.po = 0
  BY <1>1 DEF Row
<1> HIDE DEF c, new
<1>5. \A k \in DOMAIN direct : k \notin rows /\ k[1] \in 1..c
  <2>1. \A k \in DOMAIN direct : k[1] \in 1..c
    BY <1>2 DEF Batches
  <2>2. \A k \in rows : k[1] = c + 1
    OBVIOUS
  <2>3. QED
    BY <1>2, <2>1, <2>2
<1>6. /\ DOMAIN direct' = (DOMAIN direct) \cup rows
      /\ \A k \in DOMAIN direct : direct'[k] = direct[k]
      /\ \A k \in rows : direct'[k] = new
  BY <1>3, <1>5
<1>7. Batches' = 1..(c + 1)
  <2>1. PICK i : i \in req[h].lines
    BY <1>1
  <2>2. <<c + 1, i>> \in rows
    BY <2>1
  <2>3. {k[1] : k \in rows} = {c + 1}
    BY <2>2
  <2>4. Batches' = Batches \cup {k[1] : k \in rows}
    BY <1>6 DEF Batches
  <2>5. QED
    BY <1>2, <2>3, <2>4
<1>8. DirectIds' \subseteq DirectIds \cup {req[h].target}
  BY <1>4, <1>6 DEF DirectIds
<1>9. Directs'
  <2>1. DirectIds \in SUBSET Nat /\ HasHighest(DirectIds)
    BY DEF IInv, Tables, Directs, DirectIds, Row
  <2>2. HasHighest(DirectIds')
    BY <1>1, <1>8, <2>1, HighestOfMore, HighestOfFewer
  <2>3. DOMAIN direct' \subseteq (Nat \ {0}) \X Items
    BY <1>1, <1>2, <1>6 DEF IInv, Tables, Directs
  <2>4. \A k \in DOMAIN direct' : direct'[k] \in Row
    BY <1>4, <1>6 DEF IInv, Tables, Directs
  <2>5. direct' \in [DOMAIN direct' -> Row]
    BY <1>3, <2>4
  <2>6. c + 1 \in Nat
    BY <1>2
  <2>7. QED
    BY <1>7, <2>2, <2>3, <2>5, <2>6 DEF Directs
<1>10. SupersededByStoredPO'
  <2>1. \A k \in DOMAIN direct :
          IF direct'[k].status = "SUPERSEDED" THEN direct'[k].po \in DOMAIN po'
          ELSE direct'[k].po = 0
    BY <1>3, <1>6 DEF IInv, Tables, SupersededByStoredPO
  <2>2. \A k \in rows : direct'[k].status = "ACTIVE" /\ direct'[k].po = 0
    BY <1>4, <1>6
  <2>3. QED
    BY <1>6, <2>1, <2>2 DEF SupersededByStoredPO
<1>11. Tables'
  BY <1>3, <1>9, <1>10 DEF IInv, Tables, Orders, Rfqs
<1>12. Grows
  BY <1>3 DEF Grows
<1>13. QED
  BY <1>3, <1>11, <1>12, AnswerKeeps

LEMMA ResolveKeeps ==
    ASSUME IInv, Watch, WatchNumbers, NEW o, NEW status \in {"DELIVERED", "CANCELLED"}, Resolve(o, status)
    PROVE  IInv'
<1>1. /\ direct' = [k \in DOMAIN direct |->
             IF Resolvable(k, o) THEN [direct[k] EXCEPT !.status = status] ELSE direct[k]]
      /\ UNCHANGED <<po, rfq, req>>
  BY DEF Resolve
<1>2. ASSUME NEW k \in DOMAIN direct
      PROVE  /\ direct'[k] \in Row /\ direct'[k].order = direct[k].order
             /\ IF direct'[k].status = "SUPERSEDED" THEN direct'[k].po \in DOMAIN po
                ELSE direct'[k].po = 0
  <2>1. /\ direct[k] \in Row
        /\ IF direct[k].status = "SUPERSEDED" THEN direct[k].po \in DOMAIN po
           ELSE direct[k].po = 0
    BY DEF IInv, Tables, Directs, SupersededByStoredPO
  <2>2. CASE Resolvable(k, o)
    <3>1. direct'[k] = [direct[k] EXCEPT !.status = status] /\ direct[k].status = "ACTIVE"
      BY <1>1, <2>2 DEF Resolvable
    <3>2. QED
      BY <2>1, <3>1 DEF Row
  <2>3. CASE ~Resolvable(k, o)
    <3>1. direct'[k] = direct[k]
      BY <1>1, <2>3
    <3>2. QED
      BY <2>1, <3>1
  <2>4. QED
    BY <2>2, <2>3
<1>3. DOMAIN direct' = DOMAIN direct /\ direct' \in [DOMAIN direct -> Row]
  BY <1>1, <1>2
<1>4. Tables' /\ Grows
  BY <1>1, <1>2, <1>3, DirectsWritten
<1>5. QED
  BY <1>1, <1>4, QuietKeeps

-----------------------------------------------------------------------------
(* Requests for quotation *)

LEMMA PutRfq ==
    ASSUME IInv, UNCHANGED <<po, direct>>, NEW n \in Nat \ {0}, NEW row \in Rfq,
           rfq' = Put(rfq, n, row)
    PROVE  Tables' /\ Grows
<1>1. DOMAIN rfq' = (DOMAIN rfq) \cup {n}
  BY DEF Put
<1>2. \A m \in DOMAIN rfq : rfq[m] \in Rfq
  BY DEF IInv, Tables, Rfqs
<1>3. rfq' \in [DOMAIN rfq' -> Rfq]
  BY <1>1, <1>2 DEF Put
<1>4. QED
  BY <1>1, <1>3, RfqsWritten

LEMMA CommitRFQKeeps == ASSUME IInv, Watch, WatchNumbers, NEW h \in Handlers, CommitRFQ(h) PROVE IInv'
<1> DEFINE row == [lines |-> req[h].lines, recent |-> req[h].recent,
                   closed |-> StillClosed(req[h].target)]
<1>1. /\ req[h].target \in Nat \ {0}
      /\ req[h].lines \in SUBSET Items /\ req[h].recent \in BOOLEAN
  BY DEF CommitRFQ, IInv, Requests, Request, Carries
<1>2. StillClosed(req[h].target) \in BOOLEAN
  BY DEF StillClosed, IInv, Tables, Rfqs, Rfq
<1>3. row \in Rfq
  BY <1>1, <1>2 DEF Rfq
<1>4. rfq' = Put(rfq, req[h].target, row) /\ Answer(h) /\ UNCHANGED <<po, direct>>
  BY DEF CommitRFQ
<1>5. Tables' /\ Grows
  BY <1>1, <1>3, <1>4, PutRfq
<1>6. QED
  BY <1>4, <1>5, AnswerKeeps

LEMMA DraftRFQKeeps == ASSUME IInv, Watch, WatchNumbers, NEW h \in Handlers, DraftRFQ(h) PROVE IInv'
<1> DEFINE n == NextNumber(DOMAIN rfq)
           row == [lines |-> req[h].lines, recent |-> req[h].recent, closed |-> FALSE]
<1>1. req[h].lines \in SUBSET Items /\ req[h].recent \in BOOLEAN
  BY DEF IInv, Requests, Request
<1>2. row \in Rfq
  BY <1>1 DEF Rfq
<1>3. n \in Nat \ {0}
  BY NextIsNew DEF IInv, Tables, Rfqs
<1>4. rfq' = Put(rfq, n, row) /\ Answer(h) /\ UNCHANGED <<po, direct>>
  BY DEF DraftRFQ
<1> HIDE DEF n, row
<1>5. Tables' /\ Grows
  BY <1>2, <1>3, <1>4, PutRfq
<1>6. QED
  BY <1>4, <1>5, AnswerKeeps

LEMMA DeleteRFQKeeps == ASSUME IInv, Watch, WatchNumbers, NEW n \in DOMAIN rfq, DeleteRFQ(n) PROVE IInv'
<1>1. /\ rfq' = [m \in (DOMAIN rfq) \ {n} |-> rfq[m]]
      /\ UNCHANGED <<po, direct, req>> /\ n \in Nat \ {0}
  BY DEF DeleteRFQ, IInv, Tables, Rfqs
<1>2. DOMAIN rfq' \subseteq DOMAIN rfq /\ rfq' \in [DOMAIN rfq' -> Rfq]
  BY <1>1 DEF IInv, Tables, Rfqs
<1>3. Tables' /\ Grows
  BY <1>1, <1>2, RfqsWritten
<1>4. QED
  BY <1>1, <1>3, QuietKeeps

LEMMA CloseRFQKeeps == ASSUME IInv, Watch, WatchNumbers, NEW n \in DOMAIN rfq, CloseRFQ(n) PROVE IInv'
<1>1. /\ rfq' = [rfq EXCEPT ![n].closed = TRUE]
      /\ UNCHANGED <<po, direct, req>> /\ n \in Nat \ {0} /\ rfq \in [DOMAIN rfq -> Rfq]
  BY DEF CloseRFQ, IInv, Tables, Rfqs
<1>2. [rfq[n] EXCEPT !.closed = TRUE] \in Rfq
  BY <1>1 DEF Rfq
<1>3. DOMAIN rfq' = DOMAIN rfq /\ rfq' \in [DOMAIN rfq -> Rfq]
  BY <1>1, <1>2
<1>4. Tables' /\ Grows
  BY <1>1, <1>3, RfqsWritten
<1>5. QED
  BY <1>1, <1>4, QuietKeeps

-----------------------------------------------------------------------------
(* The reads of a plan, and the passing of time *)

LEMMA ReadKeeps ==
    ASSUME IInv, Watch, WatchNumbers, NEW h \in Handlers, NEW pc \in {"directs", "rfqs"},
           NEW view \in SUBSET ({"PO", "DIRECT"} \X Items),
           req[h].pc \in {"pos", "directs"},
           Goto(h, [req[h] EXCEPT !.pc = pc, !.view = view]),
           \/ req[h].pc = "pos" /\ pc = "directs" /\ view = IncomingPOs
           \/ req[h].pc = "directs" /\ pc = "rfqs" /\ view = req[h].view \cup IncomingDirect
    PROVE  IInv'
<1> DEFINE r == [req[h] EXCEPT !.pc = pc, !.view = view]
<1>1. req[h] \in Request /\ Carries(h)
  BY DEF IInv, Requests
<1>2. /\ r.pc = pc /\ r.view = view /\ r.kind = req[h].kind /\ r.ship = req[h].ship
      /\ r.lines = req[h].lines
  BY <1>1 DEF Request
<1>3. r \in Request
  BY <1>1 DEF Request
<1>4. Goto(h, r)
  OBVIOUS
<1> HIDE DEF r
<1>5. req'[h] = r /\ UNCHANGED tables
  BY <1>4 DEF Goto, IInv, Requests
<1>6. Carries(h)'
  BY <1>1, <1>2, <1>5 DEF Carries
<1>7. NewOrTaken(h)'
  BY <1>2, <1>5 DEF NewOrTaken, HasNumber
<1>8. PlanStep(h)
  BY <1>2, <1>5 DEF PlanStep
<1>9. QED
  BY <1>3, <1>4, <1>6, <1>7, <1>8, GotoKeeps

LEMMA ReadPOsKeeps == ASSUME IInv, Watch, WatchNumbers, NEW h \in Handlers, ReadPOs(h) PROVE IInv'
<1>1. IncomingPOs \in SUBSET ({"PO", "DIRECT"} \X Items)
  BY IncomingTyped DEF IInv, Tables, Entries
<1>2. /\ req[h].pc = "pos"
      /\ Goto(h, [req[h] EXCEPT !.pc = "directs", !.view = IncomingPOs])
  BY DEF ReadPOs
<1>3. QED
  BY <1>1, <1>2, ReadKeeps

LEMMA ReadDirectKeeps == ASSUME IInv, Watch, WatchNumbers, NEW h \in Handlers, ReadDirect(h) PROVE IInv'
<1> DEFINE view == req[h].view \cup IncomingDirect
<1>1. view \in SUBSET ({"PO", "DIRECT"} \X Items)
  BY IncomingTyped DEF IInv, Tables, Entries, Requests, Request
<1>2. /\ req[h].pc = "directs"
      /\ Goto(h, [req[h] EXCEPT !.pc = "rfqs", !.view = view])
  BY DEF ReadDirect
<1>3. QED
  BY <1>1, <1>2, ReadKeeps

LEMMA ReadRFQsKeeps == ASSUME IInv, Watch, WatchNumbers, NEW h \in Handlers, ReadRFQs(h) PROVE IInv'
BY SameTables, AnswerKeeps DEF ReadRFQs

LEMMA ExpireKeeps == ASSUME IInv, Watch, WatchNumbers, Expire PROVE IInv'
<1>1. ASSUME NEW n \in DOMAIN po, po' = [po EXCEPT ![n].recent = FALSE],
             UNCHANGED <<direct, rfq, req>>
      PROVE  IInv'
  <2>1. po \in [DOMAIN po -> PO] /\ n \in Nat \ {0}
    BY DEF IInv, Tables, Orders
  <2>2. [po[n] EXCEPT !.recent = FALSE] \in PO
    BY <2>1 DEF PO
  <2>3. DOMAIN po' = DOMAIN po /\ po' \in [DOMAIN po -> PO]
    BY <1>1, <2>1, <2>2
  <2>4. Tables' /\ Grows
    BY <1>1, <2>1, <2>3, OrdersWritten
  <2>5. QED
    BY <1>1, <2>4, QuietKeeps
<1>2. ASSUME NEW n \in DOMAIN rfq, rfq' = [rfq EXCEPT ![n].recent = FALSE],
             UNCHANGED <<po, direct, req>>
      PROVE  IInv'
  <2>1. rfq \in [DOMAIN rfq -> Rfq] /\ n \in Nat \ {0}
    BY DEF IInv, Tables, Rfqs
  <2>2. [rfq[n] EXCEPT !.recent = FALSE] \in Rfq
    BY <2>1 DEF Rfq
  <2>3. DOMAIN rfq' = DOMAIN rfq /\ rfq' \in [DOMAIN rfq -> Rfq]
    BY <1>2, <2>1, <2>2
  <2>4. Tables' /\ Grows
    BY <1>2, <2>1, <2>3, RfqsWritten
  <2>5. QED
    BY <1>2, <2>4, QuietKeeps
<1>3. ASSUME NEW o, UNCHANGED <<po, rfq, req>>,
             direct' = [k \in DOMAIN direct |->
                 IF direct[k].order = o THEN [direct[k] EXCEPT !.recent = FALSE]
                 ELSE direct[k]]
      PROVE  IInv'
  <2>1. ASSUME NEW k \in DOMAIN direct
        PROVE  /\ direct'[k] \in Row /\ direct'[k].order = direct[k].order
               /\ direct'[k].status = direct[k].status /\ direct'[k].po = direct[k].po
    <3>1. direct[k] \in Row
      BY DEF IInv, Tables, Directs
    <3>2. CASE direct[k].order = o
      <4>1. direct'[k] = [direct[k] EXCEPT !.recent = FALSE]
        BY <1>3, <3>2
      <4>2. QED
        BY <3>1, <4>1 DEF Row
    <3>3. CASE direct[k].order # o
      BY <1>3, <3>1, <3>3
    <3>4. QED
      BY <3>2, <3>3
  <2>2. \A k \in DOMAIN direct :
          IF direct'[k].status = "SUPERSEDED" THEN direct'[k].po \in DOMAIN po
          ELSE direct'[k].po = 0
    BY <2>1 DEF IInv, Tables, SupersededByStoredPO
  <2>3. DOMAIN direct' = DOMAIN direct /\ direct' \in [DOMAIN direct -> Row]
    BY <1>3, <2>1
  <2>4. Tables' /\ Grows
    BY <1>3, <2>1, <2>2, <2>3, DirectsWritten
  <2>5. QED
    BY <1>3, <2>4, QuietKeeps
<1>4. QED
  BY <1>1, <1>2, <1>3 DEF Expire

-----------------------------------------------------------------------------
LEMMA InitIInv == Init => IInv
<1> SUFFICES ASSUME Init PROVE IInv
  OBVIOUS
<1>1. /\ DOMAIN po = {} /\ DOMAIN direct = {} /\ DOMAIN rfq = {}
      /\ po = [n \in {} |-> {}] /\ direct = [k \in {} |-> {}] /\ rfq = [n \in {} |-> {}]
  BY DEF Init
<1>2. HasHighest({})
  BY DEF HasHighest
<1>3. DirectIds = {} /\ Batches = {} /\ 1..0 = {}
  BY <1>1 DEF DirectIds, Batches
<1>4. Orders /\ Rfqs
  BY <1>1, <1>2 DEF Orders, Rfqs
<1>5. Directs
  BY <1>1, <1>2, <1>3 DEF Directs
<1>6. SupersededByStoredPO
  BY <1>1 DEF SupersededByStoredPO
<1>7. \A h \in Handlers : req[h] = Idle
  BY DEF Init
<1>8. Idle.pc = "idle" /\ Idle.kind = "plan"
  BY DEF Idle
<1>9. Requests
  BY <1>7, <1>8, IdleRequest DEF Init, Requests, Carries, NewOrTaken, HasNumber
<1>10. Plans
  <2>1. Nothing \in Watched
    BY DEF Nothing, Watched
  <2>2. QED
    BY <1>7, <1>8, <2>1 DEF Init, Plans, Watching, Planning
<1>11. QED
  BY <1>4, <1>5, <1>6, <1>9, <1>10 DEF IInv, Tables

LEMMA NextIInv == IInv /\ [Next]_vars => IInv'
<1> SUFFICES ASSUME IInv, [Next]_vars PROVE IInv'
  OBVIOUS
<1>1. CASE UNCHANGED vars
  <2>1. /\ po' = po /\ direct' = direct /\ rfq' = rfq /\ req' = req
        /\ since' = since /\ taken' = taken
    BY <1>1 DEF vars
  <2>2. Batches' = Batches /\ DirectIds' = DirectIds /\ Incoming' = Incoming
    BY <2>1 DEF Batches, DirectIds, Incoming, IncomingPOs, IncomingDirect, IncomingRFQs,
                OpenPO, InFlight, OpenRFQ
  <2>3. Tables'
    BY <2>1, <2>2 DEF IInv, Tables, Orders, Rfqs, Directs, SupersededByStoredPO
  <2>4. Requests'
    BY <2>1, <2>2 DEF IInv, Requests, Carries, NewOrTaken, Used
  <2>5. Plans'
    BY <2>1, <2>2 DEF IInv, Plans, Watching
  <2>6. QED
    BY <2>3, <2>4, <2>5 DEF IInv
<1>2. CASE Next
  <2>1. Watch /\ WatchNumbers /\ Step
    BY <1>2 DEF Next
  <2>2. ASSUME NEW h \in Handlers,
               \/ Receive(h) \/ Abort(h) \/ CheckLink(h) \/ GenerateID(h)
               \/ CommitPO(h) \/ DraftPO(h) \/ SupersedeDirectOrders(h)
               \/ MarkOrdered(h) \/ CommitRFQ(h) \/ DraftRFQ(h)
               \/ ReadPOs(h) \/ ReadDirect(h) \/ ReadRFQs(h)
        PROVE  IInv'
    BY <2>1, <2>2, ReceiveKeeps, AbortKeeps, CheckLinkKeeps, GenerateIDKeeps,
       CommitPOKeeps, DraftPOKeeps, SupersedeDirectOrdersKeeps, MarkOrderedKeeps,
       CommitRFQKeeps, DraftRFQKeeps, ReadPOsKeeps, ReadDirectKeeps, ReadRFQsKeeps
  <2>3. ASSUME NEW n \in DOMAIN po, UpdateStatus(n) \/ UpdateShip(n)
        PROVE  IInv'
    BY <2>1, <2>3, UpdateStatusKeeps, UpdateShipKeeps
  <2>4. ASSUME NEW o \in DirectIds, MarkDelivered(o) \/ CancelOrder(o)
        PROVE  IInv'
    BY <2>1, <2>4, ResolveKeeps DEF MarkDelivered, CancelOrder
  <2>5. ASSUME NEW n \in DOMAIN rfq, DeleteRFQ(n) \/ CloseRFQ(n)
        PROVE  IInv'
    BY <2>1, <2>5, DeleteRFQKeeps, CloseRFQKeeps
  <2>6. CASE Expire
    BY <2>1, <2>6, ExpireKeeps
  <2>7. QED
    BY <2>1, <2>2, <2>3, <2>4, <2>5, <2>6 DEF Step
<1>3. QED
  BY <1>1, <1>2

\* The invariant the safety of the pipeline rests on holds at all times.
THEOREM Invariant == Spec => []IInv
BY InitIInv, NextIInv, PTL DEF Spec

\* Every document, row and request keeps its shape.
THEOREM TypeCorrect == Spec => []TypeOK
<1>1. IInv => TypeOK
  BY DEF IInv, Tables, Orders, Rfqs, Directs, Requests, Plans, TypeOK
<1>2. QED
  BY <1>1, Invariant, PTL

\* A direct order is superseded only by an order that is stored.
THEOREM SupersededRightly == Spec => []SupersededByStoredPO
<1>1. IInv => SupersededByStoredPO
  BY DEF IInv, Tables
<1>2. QED
  BY <1>1, Invariant, PTL

\* A number that was handed out is in use only if another document took it since,
\* or the look-up failed and passed over it.
THEOREM NumberWindow == Spec => []NumberNewUnlessDisturbed
<1>1. IInv => NumberNewUnlessDisturbed
  BY DEF IInv, Requests, NewOrTaken, NumberNewUnlessDisturbed
<1>2. QED
  BY <1>1, Invariant, PTL

\* A plan reports nothing that was never incoming while it read, and misses
\* nothing that was incoming, at one stage, all the while.
THEOREM PlansAreBounded == Spec => []PlanBounded
<1>1. ASSUME IInv PROVE PlanBounded
  <2> SUFFICES ASSUME NEW h \in Handlers, req[h].pc = "rfqs"
               PROVE  /\ since[h].always \subseteq Planned(h)
                      /\ Planned(h) \subseteq since[h].ever
    BY DEF PlanBounded
  <2>1. Watching(h) /\ Planning(req[h])
    BY <1>1 DEF IInv, Plans, Planning
  <2>2. /\ since[h].always \subseteq Incoming /\ Incoming \subseteq since[h].ever
        /\ req[h].view \subseteq since[h].ever
        /\ since[h].always \cap (Entries("PO", Items) \cup Entries("DIRECT", Items))
              \subseteq req[h].view
    BY <2>1 DEF Watching
  <2>3. /\ IncomingPOs \subseteq Entries("PO", Items)
        /\ IncomingDirect \subseteq Entries("DIRECT", Items)
    BY <1>1, IncomingTyped DEF IInv, Tables
  <2>4. QED
    BY <2>2, <2>3 DEF Planned, Incoming
<1>2. QED
  BY <1>1, Invariant, PTL

-----------------------------------------------------------------------------
(* What a step may never do *)

\* Of the rows there are, those resolved already stay as they are.
LEMMA StepResolvesOnce ==
    ASSUME IInv, Next, NEW k \in DOMAIN direct
    PROVE  /\ k \in DOMAIN direct'
           /\ direct[k].status # "ACTIVE" =>
                 direct'[k].status = direct[k].status /\ direct'[k].po = direct[k].po
<1> DEFINE Stays == /\ k \in DOMAIN direct'
                    /\ direct[k].status # "ACTIVE" =>
                         direct'[k].status = direct[k].status /\ direct'[k].po = direct[k].po
<1>1. ASSUME direct' = direct PROVE Stays
  BY <1>1
<1>2. ASSUME NEW h \in Handlers, SupersedeDirectOrders(h)
      PROVE  Stays
  BY <1>2 DEF SupersedeDirectOrders, Covered
<1>3. ASSUME NEW h \in Handlers, MarkOrdered(h)
      PROVE  Stays
  <2>1. k[1] # Cardinality(Batches) + 1
    <3>1. Cardinality(Batches) \in Nat /\ k[1] \in 1..Cardinality(Batches)
      BY BatchesCounted DEF IInv, Tables, Batches
    <3>2. QED
      BY <3>1
  <2>2. k \notin {Cardinality(Batches) + 1} \X req[h].lines
    BY <2>1
  <2>3. k \in DOMAIN direct' /\ direct'[k] = direct[k]
    BY <1>3, <2>2 DEF MarkOrdered
  <2>4. QED
    BY <2>3
<1>4. ASSUME NEW o, NEW status, Resolve(o, status)
      PROVE  Stays
  BY <1>4 DEF Resolve, Resolvable
<1>5. ASSUME Expire
      PROVE  Stays
  <2>1. CASE direct' = direct
    BY <2>1
  <2>2. ASSUME NEW o, direct' = [j \in DOMAIN direct |->
                          IF direct[j].order = o THEN [direct[j] EXCEPT !.recent = FALSE]
                          ELSE direct[j]]
        PROVE  Stays
    <3>1. k \in DOMAIN direct' /\ direct[k] \in Row
      BY <2>2 DEF IInv, Tables, Directs
    <3>2. CASE direct[k].order = o
      <4>1. direct'[k] = [direct[k] EXCEPT !.recent = FALSE]
        BY <2>2, <3>2
      <4>2. QED
        BY <3>1, <4>1 DEF Row
    <3>3. CASE direct[k].order # o
      BY <2>2, <3>1, <3>3
    <3>4. QED
      BY <3>2, <3>3
  <2>3. QED
    BY <1>5, <2>1, <2>2 DEF Expire
<1>6. ASSUME NEW h \in Handlers, Receive(h)
      PROVE  direct' = direct
  BY <1>6 DEF Receive, ReceivePlan, ReceiveDirect, ReceivePO, ReceiveRFQ, Goto, tables
<1>7. ASSUME NEW h \in Handlers,
             \/ Abort(h) \/ CheckLink(h) \/ GenerateID(h) \/ CommitPO(h) \/ DraftPO(h)
             \/ CommitRFQ(h) \/ DraftRFQ(h) \/ ReadPOs(h) \/ ReadDirect(h) \/ ReadRFQs(h)
      PROVE  direct' = direct
  BY <1>7 DEF Abort, CheckLink, GenerateID, CommitPO, DraftPO, CommitRFQ, DraftRFQ,
              ReadPOs, ReadDirect, ReadRFQs, Goto, TakeNumber, tables
<1>8. ASSUME NEW n, UpdateStatus(n) \/ UpdateShip(n) \/ DeleteRFQ(n) \/ CloseRFQ(n)
      PROVE  direct' = direct
  BY <1>8 DEF UpdateStatus, UpdateShip, DeleteRFQ, CloseRFQ
<1> HIDE DEF Stays
<1>9. Stays
  BY <1>1, <1>2, <1>3, <1>4, <1>5, <1>6, <1>7, <1>8
  DEF Next, Step, MarkDelivered, CancelOrder
<1>10. QED
  BY <1>9 DEF Stays

\* A direct order is resolved once.
THEOREM DirectsResolvedOnce == Spec => ResolvedOnce
<1>1. IInv /\ [Next]_vars =>
        [\A k \in DOMAIN direct :
            /\ k \in DOMAIN direct'
            /\ direct[k].status # "ACTIVE" =>
                  direct'[k].status = direct[k].status /\ direct'[k].po = direct[k].po]_vars
  BY StepResolvesOnce
<1>2. QED
  BY <1>1, Invariant, PTL DEF Spec, ResolvedOnce

\* The answer to an assistant's draft of an RFQ.
LEMMA StepReplacesNothing ==
    ASSUME IInv, Next, NEW h \in Handlers, req[h].kind = "rfqdraft",
           req[h].pc # "idle", req'[h].pc = "idle"
    PROVE  \A n \in DOMAIN rfq : n \in DOMAIN rfq' /\ rfq'[n] = rfq[n]
<1> DEFINE Kept == \A n \in DOMAIN rfq : n \in DOMAIN rfq' /\ rfq'[n] = rfq[n]
<1>1. ASSUME rfq' = rfq PROVE Kept
  BY <1>1
<1>2. ASSUME NEW k \in Handlers, CommitRFQ(k)
      PROVE  FALSE
  <2>1. k # h
    BY <1>2 DEF CommitRFQ
  <2>2. req'[h] = req[h]
    BY <1>2, <2>1 DEF CommitRFQ, Answer, IInv, Requests
  <2>3. QED
    BY <2>2
<1>3. ASSUME NEW k \in Handlers, DraftRFQ(k)
      PROVE  Kept
  <2>1. \A n \in DOMAIN rfq : n # NextNumber(DOMAIN rfq)
    <3>1. DOMAIN rfq \in SUBSET Nat /\ HasHighest(DOMAIN rfq)
      BY DEF IInv, Tables, Rfqs
    <3>2. NextNumber(DOMAIN rfq) \in Nat /\ \A n \in DOMAIN rfq : n < NextNumber(DOMAIN rfq)
      BY <3>1, NextIsNew
    <3>3. QED
      BY <3>1, <3>2
  <2>2. \A n \in DOMAIN rfq : n # NextNumber(DOMAIN rfq) =>
            n \in DOMAIN rfq' /\ rfq'[n] = rfq[n]
    BY <1>3 DEF DraftRFQ, Put
  <2>3. QED
    BY <2>1, <2>2
<1>4. ASSUME NEW k \in Handlers,
             \/ Receive(k) \/ Abort(k) \/ CheckLink(k) \/ GenerateID(k)
             \/ CommitPO(k) \/ DraftPO(k) \/ SupersedeDirectOrders(k) \/ MarkOrdered(k)
             \/ ReadPOs(k) \/ ReadDirect(k) \/ ReadRFQs(k)
      PROVE  rfq' = rfq
  <2>1. CASE Receive(k)
    BY <2>1 DEF Receive, ReceivePlan, ReceiveDirect, ReceivePO, ReceiveRFQ, Goto, tables
  <2>2. QED
    BY <1>4, <2>1 DEF Abort, CheckLink, GenerateID, CommitPO, DraftPO,
       SupersedeDirectOrders, MarkOrdered, ReadPOs, ReadDirect, ReadRFQs, Goto,
       TakeNumber, tables
<1>5. ASSUME \/ \E n \in DOMAIN po : UpdateStatus(n) \/ UpdateShip(n)
             \/ \E o \in DirectIds : MarkDelivered(o) \/ CancelOrder(o)
             \/ \E n \in DOMAIN rfq : DeleteRFQ(n) \/ CloseRFQ(n)
             \/ Expire
      PROVE  FALSE
  <2>1. req' = req
    BY <1>5 DEF UpdateStatus, UpdateShip, MarkDelivered, CancelOrder, Resolve,
                DeleteRFQ, CloseRFQ, Expire
  <2>2. QED
    BY <2>1
<1> HIDE DEF Kept
<1>6. Kept
  BY <1>1, <1>2, <1>3, <1>4, <1>5 DEF Next, Step
<1>7. QED
  BY <1>6 DEF Kept

\* A draft of an assistant replaces no RFQ.
THEOREM DraftsAdd == Spec => DraftsReplaceNothing
<1>1. IInv /\ [Next]_vars =>
        [\A h \in Handlers :
            req[h].kind = "rfqdraft" /\ req[h].pc # "idle" /\ req'[h].pc = "idle"
            => \A n \in DOMAIN rfq : n \in DOMAIN rfq' /\ rfq'[n] = rfq[n]]_vars
  BY StepReplacesNothing
<1>2. QED
  BY <1>1, Invariant, PTL DEF Spec, DraftsReplaceNothing
=============================================================================
