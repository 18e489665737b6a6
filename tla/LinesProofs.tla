----------------------------- MODULE LinesProofs -----------------------------
(***************************************************************************)
(* Proofs about Lines, for every set of handlers, orders, names and stock  *)
(* ids, for every file and for every bound.                                *)
(***************************************************************************)
EXTENDS Lines, SequenceTheorems, FiniteSetTheorems, TLAPS

\* Ids were given, once each.
IdsOnce ==
    /\ \A o \in Orders : \A i \in DOMAIN line[o] : line[o][i].id <= lastId
    /\ \A o, p \in Orders : \A i \in DOMAIN line[o], j \in DOMAIN line[p] :
          line[o][i].id = line[p][j].id => o = p

\* A form not overtaken is the order's JSON.
FormFresh(h) == req[h].pc = "form" /\ ~req[h].moved => req[h].form = raw[req[h].order]

\* A line with the id a person chose has the name the page showed.
PageFresh(h) ==
    /\ req[h].pc \in {"find", "link"} =>
          /\ req[h].id <= lastId
          /\ \A o \in Orders : \A i \in DOMAIN line[o] :
                line[o][i].id = req[h].id => line[o][i].name = req[h].known
    /\ req[h].pc \in {"link", "alias"} => req[h].found \in {req[h].known, None}

\* A name of the catalogue whose meaning did not move means what the index says.
NamesFresh(h) ==
    req[h].pc = "aliases" =>
        \A n \in Names \ req[h].doubtful :
            IF Named(n) = {} THEN req[h].index[n] = None ELSE req[h].index[n] \in Named(n)

IndexFresh(h) ==
    req[h].pc = "row" =>
        \A n \in Names \ req[h].doubtful :
            IF alias[n] # None THEN req[h].index[n] = alias[n]
            ELSE IF Named(n) # {} THEN req[h].index[n] \in Named(n)
            ELSE req[h].index[n] = None

Fresh(h) == FormFresh(h) /\ PageFresh(h) /\ NamesFresh(h) /\ IndexFresh(h)

IInv ==
    /\ TypeOK /\ CopiesAgree /\ IdsOnce
    /\ \A h \in Handlers : Fresh(h)

-----------------------------------------------------------------------------
(* Sequences *)

LEMMA FunctionSeq ==
    ASSUME NEW S, NEW n \in Nat, NEW f \in [1..n -> S]
    PROVE  f \in Seq(S) /\ Len(f) = n /\ DOMAIN f = 1..n
<1>1. f \in Seq(S)
  BY SeqDef
<1>2. DOMAIN f = 1..n /\ DOMAIN f = 1..Len(f) /\ Len(f) \in Nat
  BY <1>1, LenProperties
<1>3. QED
  BY <1>1, <1>2

\* A form with a line taken out.
LEMMA WithoutLine ==
    ASSUME NEW S, NEW s \in Seq(S), NEW i \in 1..Len(s)
    PROVE  /\ Without(s, i) \in Seq(S)
           /\ Len(Without(s, i)) = Len(s) - 1
           /\ \A j \in 1..(i - 1) : Without(s, i)[j] = s[j]
           /\ \A j \in (i + 1)..Len(s) : Without(s, i)[j - 1] = s[j]
<1> DEFINE a == SubSeq(s, 1, i - 1)
           b == SubSeq(s, i + 1, Len(s))
<1>1. Len(s) \in Nat /\ \A j \in 1..Len(s) : s[j] \in S
  BY LenProperties
<1>2. /\ a \in Seq(S) /\ Len(a) = i - 1
      /\ \A j \in 1..(i - 1) : a[j] = s[j]
  <2>1. \A j \in 1..(i - 1) : s[j] \in S
    BY <1>1
  <2>2. i - 1 \in Int /\ 1 \in Int
    BY <1>1
  <2>3. /\ a \in Seq(S) /\ Len(a) = IF 1 <= i - 1 THEN (i - 1) - 1 + 1 ELSE 0
        /\ \A j \in 1..((i - 1) - 1 + 1) : a[j] = s[1 + j - 1]
    BY <2>1, <2>2, SubSeqProperties
  <2> HIDE DEF a
  <2>4. \A j \in 1..(i - 1) : 1 + j - 1 = j
    BY <1>1
  <2>5. QED
    BY <1>1, <2>3, <2>4
<1>3. /\ b \in Seq(S) /\ Len(b) = Len(s) - i
      /\ \A j \in 1..(Len(s) - i) : b[j] = s[i + j]
  <2>1. \A j \in (i + 1)..Len(s) : s[j] \in S
    BY <1>1
  <2>2. i + 1 \in Int /\ Len(s) \in Int
    BY <1>1
  <2>3. /\ b \in Seq(S) /\ Len(b) = IF i + 1 <= Len(s) THEN Len(s) - (i + 1) + 1 ELSE 0
        /\ \A j \in 1..(Len(s) - (i + 1) + 1) : b[j] = s[(i + 1) + j - 1]
    BY <2>1, <2>2, SubSeqProperties
  <2> HIDE DEF b
  <2>4. \A j \in 1..(Len(s) - i) : (i + 1) + j - 1 = i + j
    BY <1>1
  <2>5. QED
    BY <1>1, <2>3, <2>4
<1> DEFINE c == Without(s, i)
<1>4. c = a \o b
  BY DEF Without
<1> HIDE DEF a, b, c
<1>5. /\ c \in Seq(S) /\ Len(c) = Len(a) + Len(b)
      /\ \A j \in 1..(Len(a) + Len(b)) : c[j] = IF j <= Len(a) THEN a[j] ELSE b[j - Len(a)]
  BY <1>2, <1>3, <1>4, ConcatProperties
<1>6. \A j \in 1..(i - 1) : c[j] = s[j]
  BY <1>1, <1>2, <1>3, <1>5
<1>7. \A j \in (i + 1)..Len(s) : c[j - 1] = s[j]
  <2> SUFFICES ASSUME NEW j \in (i + 1)..Len(s) PROVE c[j - 1] = s[j]
    OBVIOUS
  <2>1. c[j - 1] = b[(j - 1) - (i - 1)]
    <3>1. j - 1 \in 1..(Len(a) + Len(b)) /\ ~(j - 1 <= Len(a)) /\ Len(a) = i - 1
      BY <1>1, <1>2, <1>3
    <3>2. c[j - 1] = b[(j - 1) - Len(a)]
      BY <1>5, <3>1
    <3>3. QED
      BY <3>1, <3>2
  <2>2. (j - 1) - (i - 1) \in 1..(Len(s) - i) /\ i + ((j - 1) - (i - 1)) = j
    BY <1>1
  <2>3. QED
    BY <1>3, <2>1, <2>2
<1>8. Len(c) = Len(s) - 1
  BY <1>1, <1>2, <1>3, <1>5
<1>9. QED
  BY <1>5, <1>6, <1>7, <1>8 DEF c

-----------------------------------------------------------------------------
(* The requests that wait while one proceeds *)

LEMMA NamesMoved ==
    ASSUME itemName \in Catalogue, itemName' \in Catalogue
    PROVE  (Renamed \cup Taught) \ {None} \in SUBSET Names
<1>1. Renamed \subseteq Names \cup {None}
  <2> SUFFICES ASSUME NEW n \in Renamed PROVE n \in Names \cup {None}
    OBVIOUS
  <2>1. PICK s \in Stocks : n \in {itemName[s], itemName'[s]}
    BY Zenon DEF Renamed
  <2>2. itemName[s] \in Names \cup {None} /\ itemName'[s] \in Names \cup {None}
    BY DEF Catalogue
  <2>3. QED
    BY <2>1, <2>2
<1>2. Taught \subseteq Names
  BY DEF Taught
<1>3. QED
  BY <1>1, <1>2

\* A waiting request keeps what it read; it is told what moved.
LEMMA Waiting ==
    ASSUME req \in [Handlers -> Request], itemName \in Catalogue, itemName' \in Catalogue,
           NEW h \in Handlers, NEW r \in Request, Proceed(h, r)
    PROVE  /\ req' \in [Handlers -> Request]
           /\ req'[h] = r
           /\ \A k \in Handlers \ {h} :
                 /\ req'[k].pc = req[k].pc /\ req'[k].order = req[k].order
                 /\ req'[k].form = req[k].form /\ req'[k].id = req[k].id
                 /\ req'[k].known = req[k].known /\ req'[k].found = req[k].found
                 /\ req'[k].index = req[k].index
                 /\ ~req'[k].moved =>
                       /\ ~req[k].moved
                       /\ req[k].pc = "form" => raw'[req[k].order] = raw[req[k].order]
                 /\ req[k].pc \in {"aliases", "row"} =>
                       \A n \in Names \ req'[k].doubtful :
                          n \notin req[k].doubtful /\ n \notin Renamed /\ n \notin Taught
<1> DEFINE Y == (Renamed \cup Taught) \ {None}
           M(k) == req[k].moved \/ (req[k].pc = "form" /\ raw'[req[k].order] # raw[req[k].order])
           N(k) == IF req[k].pc \in {"aliases", "row"} THEN req[k].doubtful \cup Y
                   ELSE req[k].doubtful
<1>1. Y \in SUBSET Names
  BY NamesMoved
<1>2. req' = [k \in Handlers |->
                 IF k = h THEN r
                 ELSE [req[k] EXCEPT !.moved = M(k), !.doubtful = N(k)]]
  BY Zenon DEF Proceed
<1>3. req'[h] = r
  BY <1>2
<1>4. \A k \in Handlers \ {h} : req'[k] = [req[k] EXCEPT !.moved = M(k), !.doubtful = N(k)]
  <2> HIDE DEF M, N
  <2> QED
    BY <1>2
<1>5. \A k \in Handlers : req[k].moved \in BOOLEAN /\ req[k].doubtful \in SUBSET Names
                          /\ req[k] \in Request
  BY DEF Request
<1>6. ASSUME NEW k \in Handlers \ {h}
      PROVE  /\ req'[k] \in Request
             /\ req'[k].pc = req[k].pc /\ req'[k].order = req[k].order
             /\ req'[k].form = req[k].form /\ req'[k].id = req[k].id
             /\ req'[k].known = req[k].known /\ req'[k].found = req[k].found
             /\ req'[k].index = req[k].index
             /\ req'[k].moved = M(k) /\ req'[k].doubtful = N(k)
  <2>1. M(k) \in BOOLEAN
    BY <1>5, Zenon
  <2>2. N(k) \in SUBSET Names
    BY <1>1, <1>5
  <2>3. req[k] \in Request /\ req'[k] = [req[k] EXCEPT !.moved = M(k), !.doubtful = N(k)]
    BY <1>4, <1>5
  <2> HIDE DEF M, N
  <2>4. PICK m \in BOOLEAN, S \in SUBSET Names : m = M(k) /\ S = N(k)
    BY <2>1, <2>2, Zenon
  <2>5. req'[k] = [req[k] EXCEPT !.moved = m, !.doubtful = S]
    BY <2>3, <2>4, Zenon
  <2>6. req'[k] \in Request
    BY <2>3, <2>5 DEF Request
  <2>7. QED
    BY <2>3, <2>4, <2>5, <2>6 DEF Request
<1>7. req' \in [Handlers -> Request]
  <2>1. \A k \in Handlers : req'[k] \in Request
    BY <1>3, <1>6
  <2>2. req' = [k \in Handlers |-> req'[k]]
    <3> HIDE DEF M, N
    <3> QED
      BY <1>2
  <2>3. QED
    BY <2>1, <2>2
<1>8. ASSUME NEW k \in Handlers \ {h}, ~req'[k].moved
      PROVE  ~req[k].moved /\ (req[k].pc = "form" => raw'[req[k].order] = raw[req[k].order])
  BY <1>6, <1>8, Zenon
<1>9. ASSUME NEW k \in Handlers \ {h}, req[k].pc \in {"aliases", "row"},
             NEW n \in Names \ req'[k].doubtful
      PROVE  n \notin req[k].doubtful /\ n \notin Renamed /\ n \notin Taught
  <2>1. n \notin N(k)
    BY <1>6
  <2>2. n # None
    BY LinesAssumption
  <2>3. QED
    BY <1>9, <2>1, <2>2
<1>10. QED
  BY <1>3, <1>6, <1>7, <1>8, <1>9, Zenon

\* A name no item took or lost means the same items.
LEMMA NamedStays ==
    ASSUME NEW n, n \notin Renamed
    PROVE  Named(n)' = Named(n)
<1>1. ASSUME NEW s \in Stocks
      PROVE  itemName'[s] = n <=> itemName[s] = n
  <2>1. CASE itemName'[s] = itemName[s]
    BY <2>1
  <2>2. CASE itemName'[s] # itemName[s]
    <3>1. n \notin {itemName[s], itemName'[s]}
      BY <2>2, Zenon DEF Renamed
    <3>2. QED
      BY <3>1
  <2>3. QED
    BY <2>1, <2>2
<1>2. QED
  BY <1>1, Zenon DEF Named

\* Every line was there under its id and name, or is new.
OldOrNew ==
    /\ lastId' >= lastId
    /\ \A o \in Orders : \A i \in DOMAIN line'[o] :
          \/ line'[o][i].id > lastId
          \/ \E j \in DOMAIN line[o] :
                line[o][j].id = line'[o][i].id /\ line[o][j].name = line'[o][i].name

LEMMA OthersFresh ==
    ASSUME IInv, lastId' \in Nat, itemName' \in Catalogue,
           NEW h \in Handlers, NEW r \in Request, Proceed(h, r), OldOrNew
    PROVE  req' \in [Handlers -> Request] /\ req'[h] = r /\ \A k \in Handlers \ {h} : Fresh(k)'
<1>1. req \in [Handlers -> Request] /\ itemName \in Catalogue /\ lastId \in Nat
  BY DEF IInv, TypeOK
<1>2. /\ req' \in [Handlers -> Request]
      /\ req'[h] = r
      /\ \A k \in Handlers \ {h} :
            /\ req'[k].pc = req[k].pc /\ req'[k].order = req[k].order
            /\ req'[k].form = req[k].form /\ req'[k].id = req[k].id
            /\ req'[k].known = req[k].known /\ req'[k].found = req[k].found
            /\ req'[k].index = req[k].index
            /\ ~req'[k].moved =>
                  /\ ~req[k].moved
                  /\ req[k].pc = "form" => raw'[req[k].order] = raw[req[k].order]
            /\ req[k].pc \in {"aliases", "row"} =>
                  \A n \in Names \ req'[k].doubtful :
                     n \notin req[k].doubtful /\ n \notin Renamed /\ n \notin Taught
  BY <1>1, Waiting
<1>3. ASSUME NEW k \in Handlers \ {h} PROVE Fresh(k)'
  <2>1. FormFresh(k) /\ PageFresh(k) /\ NamesFresh(k) /\ IndexFresh(k)
    BY DEF IInv, Fresh
  <2>2. FormFresh(k)'
    BY <1>2, <2>1, Zenon DEF FormFresh
  <2>3. PageFresh(k)'
    <3>1. ASSUME req'[k].pc \in {"find", "link"}
          PROVE  /\ req'[k].id <= lastId'
                 /\ \A o \in Orders : \A i \in DOMAIN line'[o] :
                       line'[o][i].id = req'[k].id => line'[o][i].name = req'[k].known
      <4>1. /\ req[k].id <= lastId
            /\ \A o \in Orders : \A i \in DOMAIN line[o] :
                  line[o][i].id = req[k].id => line[o][i].name = req[k].known
        BY <1>2, <2>1, <3>1 DEF PageFresh
      <4>2. req[k].id \in Nat
        BY <1>1 DEF Request
      <4>3. req'[k].id <= lastId'
        BY <1>1, <1>2, <4>1, <4>2 DEF OldOrNew
      <4>4. ASSUME NEW o \in Orders, NEW i \in DOMAIN line'[o], line'[o][i].id = req'[k].id
            PROVE  line'[o][i].name = req'[k].known
        <5>1. ~(line'[o][i].id > lastId)
          BY <1>1, <1>2, <4>1, <4>2, <4>4
        <5>2. PICK j \in DOMAIN line[o] :
                 line[o][j].id = line'[o][i].id /\ line[o][j].name = line'[o][i].name
          BY <5>1 DEF OldOrNew
        <5>3. QED
          BY <1>2, <4>1, <4>4, <5>2
      <4>5. QED
        BY <4>3, <4>4
    <3>2. req'[k].pc \in {"link", "alias"} => req'[k].found \in {req'[k].known, None}
      BY <1>2, <2>1 DEF PageFresh
    <3>3. QED
      BY <3>1, <3>2 DEF PageFresh
  <2>4. NamesFresh(k)'
    <3> SUFFICES ASSUME req'[k].pc = "aliases", NEW n \in Names \ req'[k].doubtful
                 PROVE  IF Named(n)' = {} THEN req'[k].index[n] = None
                        ELSE req'[k].index[n] \in Named(n)'
      BY Zenon DEF NamesFresh
    <3>1. req[k].pc = "aliases" /\ n \in Names \ req[k].doubtful /\ n \notin Renamed
      BY <1>2
    <3>2. IF Named(n) = {} THEN req[k].index[n] = None ELSE req[k].index[n] \in Named(n)
      BY <2>1, <3>1, Zenon DEF NamesFresh
    <3>3. Named(n)' = Named(n)
      BY <3>1, NamedStays
    <3>4. QED
      BY <1>2, <3>2, <3>3
  <2>5. IndexFresh(k)'
    <3> SUFFICES ASSUME req'[k].pc = "row", NEW n \in Names \ req'[k].doubtful
                 PROVE  IF alias'[n] # None THEN req'[k].index[n] = alias'[n]
                        ELSE IF Named(n)' # {} THEN req'[k].index[n] \in Named(n)'
                        ELSE req'[k].index[n] = None
      BY Zenon DEF IndexFresh
    <3>1. /\ req[k].pc = "row" /\ n \in Names \ req[k].doubtful /\ n \notin Renamed
          /\ n \notin Taught
      BY <1>2
    <3>2. IF alias[n] # None THEN req[k].index[n] = alias[n]
          ELSE IF Named(n) # {} THEN req[k].index[n] \in Named(n)
          ELSE req[k].index[n] = None
      BY <2>1, <3>1, Zenon DEF IndexFresh
    <3>3. Named(n)' = Named(n) /\ alias'[n] = alias[n]
      BY <3>1, NamedStays DEF Taught
    <3>4. QED
      BY <1>2, <3>2, <3>3
  <2>6. QED
    BY <2>2, <2>3, <2>4, <2>5, Zenon DEF Fresh
<1>4. QED
  BY <1>2, <1>3, Zenon

-----------------------------------------------------------------------------
(* What every step keeps *)

Growing(o) == \A i, j \in DOMAIN line[o] : i < j => line[o][i].id < line[o][j].id

Agree(o) ==
    /\ Len(raw[o]) = Len(line[o])
    /\ \A i \in DOMAIN line[o] : SameLine(line[o][i], raw[o][i])

LEMMA Parts ==
    ASSUME IInv
    PROVE  /\ line \in [Orders -> Seq(Line)] /\ raw \in [Orders -> Seq(Entry)]
           /\ lastId \in Nat /\ itemName \in Catalogue /\ alias \in Index
           /\ req \in [Handlers -> Request]
           /\ \A o \in Orders : Growing(o) /\ Agree(o)
           /\ \A o \in Orders : DOMAIN line[o] = 1..Len(line[o]) /\ DOMAIN raw[o] = 1..Len(raw[o])
           /\ \A o \in Orders : Len(line[o]) \in Nat /\ Len(raw[o]) \in Nat
           /\ \A o \in Orders : \A i \in DOMAIN line[o] :
                 line[o][i] \in Line /\ raw[o][i] \in Entry
<1>1. /\ line \in [Orders -> Seq(Line)] /\ raw \in [Orders -> Seq(Entry)]
      /\ lastId \in Nat /\ itemName \in Catalogue /\ alias \in Index
      /\ req \in [Handlers -> Request]
  BY DEF IInv, TypeOK
<1>2. \A o \in Orders : Growing(o)
  BY Zenon DEF IInv, TypeOK, Growing
<1>3. \A o \in Orders : Agree(o)
  BY Zenon DEF IInv, CopiesAgree, Agree
<1>4. \A o \in Orders : line[o] \in Seq(Line) /\ raw[o] \in Seq(Entry)
  BY <1>1
<1>5. ASSUME NEW o \in Orders
      PROVE  /\ DOMAIN line[o] = 1..Len(line[o]) /\ DOMAIN raw[o] = 1..Len(raw[o])
             /\ Len(line[o]) \in Nat /\ Len(raw[o]) \in Nat
  BY <1>4, LenProperties
<1>6. ASSUME NEW o \in Orders, NEW i \in DOMAIN line[o]
      PROVE  line[o][i] \in Line /\ raw[o][i] \in Entry
  <2>1. i \in 1..Len(line[o]) /\ i \in 1..Len(raw[o])
    BY <1>3, <1>5 DEF Agree
  <2>2. QED
    BY <1>4, <2>1, ElementOfSeq
<1>7. QED
  BY <1>1, <1>2, <1>3, <1>5, <1>6

LEMMA Step ==
    ASSUME IInv, NEW h \in Handlers, NEW r \in Request, Proceed(h, r),
           line' \in [Orders -> Seq(Line)], raw' \in [Orders -> Seq(Entry)],
           lastId' \in Nat, itemName' \in Catalogue, alias' \in Index,
           OldOrNew, IdsOnce', \A o \in Orders : Growing(o)' /\ Agree(o)',
           Fresh(h)'
    PROVE  IInv'
<1>1. req' \in [Handlers -> Request] /\ \A k \in Handlers \ {h} : Fresh(k)'
  BY OthersFresh
<1>2. TypeOK'
  BY <1>1, Zenon DEF TypeOK, Growing
<1>3. CopiesAgree'
  BY Zenon DEF CopiesAgree, Agree
<1>4. \A k \in Handlers : Fresh(k)'
  BY <1>1
<1>5. QED
  BY <1>2, <1>3, <1>4, Zenon DEF IInv

LEMMA KeepLines ==
    ASSUME IInv, NEW h \in Handlers, NEW r \in Request, Proceed(h, r),
           UNCHANGED <<line, raw, lastId>>, itemName' \in Catalogue, alias' \in Index,
           Fresh(h)'
    PROVE  IInv'
<1>1. OldOrNew
  BY Parts DEF OldOrNew
<1>2. IdsOnce'
  BY DEF IInv, IdsOnce
<1>3. \A o \in Orders : Growing(o)' /\ Agree(o)'
  <2>1. \A o \in Orders : Growing(o) /\ Agree(o)
    BY Parts
  <2>2. QED
    BY <2>1 DEF Growing, Agree
<1>4. /\ line' \in [Orders -> Seq(Line)] /\ raw' \in [Orders -> Seq(Entry)]
      /\ lastId' \in Nat
  BY Parts
<1>5. QED
  BY <1>1, <1>2, <1>3, <1>4, Step

LEMMA Proceeds ==
    ASSUME IInv, NEW h \in Handlers, NEW r \in Request, Proceed(h, r), itemName' \in Catalogue
    PROVE  req'[h] = r
BY Parts, Waiting

LEMMA IdleFacts ==
    /\ Idle \in Request /\ Idle.pc = "idle" /\ ~Idle.moved /\ Idle.doubtful = {}
    /\ Idle.found = None
<1>1. (CHOOSE o \in Orders : TRUE) \in Orders
  BY LinesAssumption
<1>2. (CHOOSE s \in Stocks : TRUE) \in Stocks
  BY LinesAssumption
<1>3. <<>> \in Seq(Entry)
  BY EmptySeq
<1>4. [n \in Names |-> None] \in Index
  BY DEF Index
<1>5. Idle \in Request
  BY <1>1, <1>2, <1>3, <1>4 DEF Idle, Request
<1>6. QED
  BY <1>5 DEF Idle

LEMMA IdleFresh ==
    ASSUME NEW h \in Handlers, req'[h].pc = "idle"
    PROVE  Fresh(h)'
BY DEF Fresh, FormFresh, PageFresh, NamesFresh, IndexFresh

\* An answer that changes no line.
LEMMA Answered ==
    ASSUME IInv, NEW h \in Handlers, Answer(h), UNCHANGED <<line, raw, lastId>>,
           itemName' \in Catalogue, alias' \in Index
    PROVE  IInv'
<1>1. Idle \in Request /\ Proceed(h, Idle)
  BY IdleFacts DEF Answer
<1>2. Fresh(h)'
  BY <1>1, Proceeds, IdleFacts, IdleFresh
<1>3. QED
  BY <1>1, <1>2, KeepLines

-----------------------------------------------------------------------------
(* Steps that only read *)

LEMMA ReadSteps ==
    ASSUME IInv, NEW h \in Handlers,
           OpenForm(h) \/ OpenUnlinked(h) \/ FindName(h) \/ ReceiveImport(h)
             \/ ReadNames(h) \/ ReadAliases(h) \/ RememberAlias(h) \/ Abort(h)
    PROVE  IInv'
<1> DEFINE q == req[h]
<1>1. q \in Request
  BY Parts
<1>2. line \in [Orders -> Seq(Line)] /\ raw \in [Orders -> Seq(Entry)] /\ lastId \in Nat
      /\ itemName \in Catalogue /\ alias \in Index
  BY Parts
<1>3. FormFresh(h) /\ PageFresh(h) /\ NamesFresh(h) /\ IndexFresh(h)
  BY DEF IInv, Fresh
<1>4. CASE OpenForm(h)
  <2>1. PICK o \in Orders :
           Proceed(h, [Idle EXCEPT !.pc = "form", !.order = o, !.form = raw[o]])
    BY <1>4 DEF OpenForm
  <2> DEFINE r == [Idle EXCEPT !.pc = "form", !.order = o, !.form = raw[o]]
  <2>2. r \in Request
    BY <1>2, IdleFacts DEF Request
  <2>3. r.pc = "form" /\ r.order = o /\ r.form = raw[o]
    BY IdleFacts DEF Request
  <2>4. Proceed(h, r) /\ UNCHANGED <<line, raw, lastId, itemName, alias>>
    BY <1>4, <2>1 DEF OpenForm
  <2> HIDE DEF r
  <2>5. req'[h] = r
    BY <1>2, <2>2, <2>4, Proceeds
  <2>6. Fresh(h)'
    BY <2>3, <2>4, <2>5 DEF Fresh, FormFresh, PageFresh, NamesFresh, IndexFresh
  <2>7. QED
    BY <1>2, <2>2, <2>4, <2>6, KeepLines
<1>5. CASE OpenUnlinked(h)
  <2>1. PICK l \in AllLines, s \in Stocks :
           Proceed(h, [Idle EXCEPT !.pc = "find", !.id = l.id, !.known = l.name, !.stock = s])
    BY <1>5 DEF OpenUnlinked
  <2>2. PICK p \in Orders : \E j \in DOMAIN line[p] : l = line[p][j]
    BY <2>1, Zenon DEF AllLines, LinesOf
  <2>3. PICK j \in DOMAIN line[p] : l = line[p][j]
    BY <2>2
  <2>4. l \in Line
    BY <2>3, Parts
  <2> DEFINE r == [Idle EXCEPT !.pc = "find", !.id = l.id, !.known = l.name, !.stock = s]
  <2>5. r \in Request
    BY <2>4, IdleFacts DEF Request, Line
  <2>6. r.pc = "find" /\ r.id = l.id /\ r.known = l.name
    BY IdleFacts DEF Request
  <2>7. Proceed(h, r) /\ UNCHANGED <<line, raw, lastId, itemName, alias>>
    BY <1>5, <2>1 DEF OpenUnlinked
  <2> HIDE DEF r
  <2>8. req'[h] = r
    BY <1>2, <2>5, <2>7, Proceeds
  <2>9. l.id <= lastId
    BY <2>3 DEF IInv, IdsOnce
  <2>10. ASSUME NEW o \in Orders, NEW i \in DOMAIN line[o], line[o][i].id = l.id
         PROVE  line[o][i].name = l.name
    <3>1. o = p
      BY <2>3, <2>10 DEF IInv, IdsOnce
    <3>2. Growing(p) /\ i \in Nat /\ j \in Nat /\ line[p][i].id \in Nat
      BY <3>1, Parts DEF Line
    <3>3. i = j
      BY <2>3, <2>10, <3>1, <3>2 DEF Growing
    <3>4. QED
      BY <2>3, <3>1, <3>3
  <2>11. PageFresh(h)'
    <3>1. req'[h].id <= lastId'
      BY <2>6, <2>7, <2>8, <2>9
    <3>2. \A o \in Orders : \A i \in DOMAIN line'[o] :
             line'[o][i].id = req'[h].id => line'[o][i].name = req'[h].known
      BY <2>6, <2>7, <2>8, <2>10
    <3>3. req'[h].pc = "find"
      BY <2>6, <2>8
    <3>4. QED
      BY <3>1, <3>2, <3>3 DEF PageFresh
  <2>12. Fresh(h)'
    BY <2>6, <2>8, <2>11 DEF Fresh, FormFresh, NamesFresh, IndexFresh
  <2>13. QED
    BY <1>2, <2>5, <2>7, <2>12, KeepLines
<1>6. CASE FindName(h)
  <2> DEFINE here == {l \in AllLines : l.id = q.id /\ l.stock = None}
             f == IF here = {} THEN None ELSE (CHOOSE l \in here : TRUE).name
             r == [q EXCEPT !.pc = "link", !.found = f]
  <2>1. Proceed(h, r) /\ UNCHANGED <<line, raw, lastId, itemName, alias>> /\ q.pc = "find"
    BY <1>6 DEF FindName
  <2>2. f \in {q.known, None}
    <3>1. CASE here = {}
      BY <3>1
    <3>2. CASE here # {}
      <4>1. PICK l \in here : l = CHOOSE m \in here : TRUE
        BY <3>2
      <4>2. PICK p \in Orders : \E j \in DOMAIN line[p] : l = line[p][j]
        BY Zenon DEF AllLines, LinesOf
      <4>3. l.name = q.known
        BY <1>3, <2>1, <4>2 DEF PageFresh
      <4>4. f = l.name
        BY <3>2, <4>1
      <4>5. QED
        BY <4>3, <4>4
    <3>3. QED
      BY <3>1, <3>2
  <2>3. f \in Names \cup {None}
    BY <1>1, <2>2 DEF Request
  <2> HIDE DEF here, f
  <2>4. r \in Request
    BY <1>1, <2>3 DEF Request
  <2>5. r.pc = "link" /\ r.found = f /\ r.id = q.id /\ r.known = q.known
    BY <1>1 DEF Request
  <2> HIDE DEF r
  <2>6. req'[h] = r
    BY <1>2, <2>1, <2>4, Proceeds
  <2>7. PageFresh(h)'
    BY <1>3, <2>1, <2>2, <2>5, <2>6 DEF PageFresh
  <2>8. Fresh(h)'
    BY <2>5, <2>6, <2>7 DEF Fresh, FormFresh, NamesFresh, IndexFresh
  <2>9. QED
    BY <1>2, <2>1, <2>4, <2>8, KeepLines
<1>7. CASE ReceiveImport(h)
  <2> DEFINE r == [Idle EXCEPT !.pc = "names"]
  <2>1. r \in Request /\ r.pc = "names"
    BY IdleFacts DEF Request
  <2>2. Proceed(h, r) /\ UNCHANGED <<line, raw, lastId, alias>>
    BY <1>7 DEF ReceiveImport
  <2>3. itemName' \in Catalogue
    <3>1. PICK names \in {itemName} \cup {[itemName EXCEPT ![s] = n] : s \in Stocks, n \in Names} :
             itemName' = names
      BY <1>7 DEF ReceiveImport
    <3>2. QED
      BY <1>2, <3>1 DEF Catalogue
  <2> HIDE DEF r
  <2>4. req'[h] = r
    BY <2>1, <2>2, <2>3, Proceeds
  <2>5. Fresh(h)'
    BY <2>1, <2>4 DEF Fresh, FormFresh, PageFresh, NamesFresh, IndexFresh
  <2>6. QED
    BY <1>2, <2>1, <2>2, <2>3, <2>5, KeepLines
<1>8. CASE ReadNames(h)
  <2>1. PICK index \in Index :
           /\ \A n \in Names : index[n] \in Named(n) \cup {None}
           /\ Proceed(h, [req[h] EXCEPT !.pc = "aliases", !.index = index,
                  !.doubtful = {n \in Names : Named(n) # {} /\ index[n] = None}])
    BY <1>8, Zenon DEF ReadNames
  <2> DEFINE lost == {n \in Names : Named(n) # {} /\ index[n] = None}
             r == [q EXCEPT !.pc = "aliases", !.index = index, !.doubtful = lost]
  <2>2. lost \in SUBSET Names
    OBVIOUS
  <2>3. \A n \in Names \ lost :
           IF Named(n) = {} THEN index[n] = None ELSE index[n] \in Named(n)
    BY <2>1
  <2>4. Proceed(h, r) /\ UNCHANGED <<line, raw, lastId, itemName, alias>>
    BY <1>8, <2>1 DEF ReadNames
  <2> HIDE DEF lost
  <2>5. r \in Request
    BY <1>1, <2>2 DEF Request
  <2>6. r.pc = "aliases" /\ r.index = index /\ r.doubtful = lost
    BY <1>1 DEF Request
  <2> HIDE DEF r
  <2>7. req'[h] = r
    BY <1>2, <2>4, <2>5, Proceeds
  <2>8. \A n \in Names : Named(n)' = Named(n)
    BY <2>4 DEF Named
  <2>9. NamesFresh(h)'
    BY <2>3, <2>6, <2>7, <2>8 DEF NamesFresh
  <2>10. Fresh(h)'
    BY <2>6, <2>7, <2>9 DEF Fresh, FormFresh, PageFresh, IndexFresh
  <2>11. QED
    BY <1>2, <2>4, <2>5, <2>10, KeepLines
<1>9. CASE ReadAliases(h)
  <2>0. PICK unread \in SUBSET Aliased :
           Proceed(h, [req[h] EXCEPT !.pc = "row",
              !.index = [n \in Names |-> IF n \in unread THEN q.index[n]
                                         ELSE Winner(q.index[n], alias[n])],
              !.doubtful = (q.doubtful \ Aliased) \cup unread])
    BY <1>9 DEF ReadAliases
  <2> DEFINE index == [n \in Names |-> IF n \in unread THEN q.index[n]
                                       ELSE Winner(q.index[n], alias[n])]
             moved == (q.doubtful \ Aliased) \cup unread
             r == [q EXCEPT !.pc = "row", !.index = index, !.doubtful = moved]
  <2>1. Proceed(h, r) /\ UNCHANGED <<line, raw, lastId, itemName, alias>> /\ q.pc = "aliases"
    BY <1>9, <2>0 DEF ReadAliases
  <2>2. index \in Index
    BY <1>1, <1>2 DEF Request, Index, Winner
  <2>3. moved \in SUBSET Names
    BY <1>1 DEF Request, Aliased
  <2>4. \A n \in Names \ moved :
           index[n] = IF alias[n] = None THEN q.index[n] ELSE alias[n]
    BY DEF Winner
  <2>5. \A n \in Names \ moved : alias[n] # None \/ n \in Names \ q.doubtful
    BY DEF Aliased
  <2> HIDE DEF index, moved
  <2>6. r \in Request
    BY <1>1, <2>2, <2>3 DEF Request
  <2>7. r.pc = "row" /\ r.index = index /\ r.doubtful = moved
    BY <1>1 DEF Request
  <2> HIDE DEF r
  <2>8. req'[h] = r
    BY <1>2, <2>1, <2>6, Proceeds
  <2>9. \A n \in Names : Named(n)' = Named(n)
    BY <2>1 DEF Named
  <2>10. IndexFresh(h)'
    <3> SUFFICES ASSUME NEW n \in Names \ req'[h].doubtful
                 PROVE  IF alias'[n] # None THEN req'[h].index[n] = alias'[n]
                        ELSE IF Named(n)' # {} THEN req'[h].index[n] \in Named(n)'
                        ELSE req'[h].index[n] = None
      BY Zenon DEF IndexFresh
    <3>1. n \in Names \ moved /\ index[n] = req'[h].index[n]
      BY <2>7, <2>8
    <3>2. CASE alias[n] # None
      BY <2>1, <2>4, <3>1, <3>2
    <3>3. CASE alias[n] = None
      <4>1. n \in Names \ q.doubtful /\ index[n] = q.index[n]
        BY <2>4, <2>5, <3>1, <3>3
      <4>2. IF Named(n) = {} THEN index[n] = None ELSE index[n] \in Named(n)
        BY <1>3, <2>1, <4>1 DEF NamesFresh
      <4>3. QED
        BY <2>1, <2>9, <3>1, <3>3, <4>2
    <3>4. QED
      BY <3>2, <3>3
  <2>11. Fresh(h)'
    BY <2>7, <2>8, <2>10 DEF Fresh, FormFresh, PageFresh, NamesFresh
  <2>12. QED
    BY <1>2, <2>1, <2>6, <2>11, KeepLines
<1>10. CASE RememberAlias(h)
  <2>1. Answer(h) /\ UNCHANGED <<line, raw, lastId, itemName>>
    BY <1>10 DEF RememberAlias
  <2>2. alias' \in Index
    BY <1>1, <1>2, <1>10 DEF RememberAlias, Index, Request
  <2>3. QED
    BY <1>2, <2>1, <2>2, Answered
<1>11. CASE Abort(h)
  <2>1. Answer(h) /\ UNCHANGED <<line, raw, lastId, itemName, alias>>
    BY <1>11 DEF Abort
  <2>2. QED
    BY <1>2, <2>1, Answered
<1>12. QED
  BY <1>4, <1>5, <1>6, <1>7, <1>8, <1>9, <1>10, <1>11

-----------------------------------------------------------------------------
(* Steps that store lines *)

StoredEntry == [name : Names \cup {None}, stock : Stocks \cup {None}, auto : BOOLEAN]

\* The rows of a stored order get new ids, in the order of its lines.
LEMMA StoredLines ==
    ASSUME IInv, NEW o \in Orders, NEW lines \in Seq(StoredEntry), Stored(o, lines)
    PROVE  /\ line' \in [Orders -> Seq(Line)] /\ lastId' \in Nat
           /\ OldOrNew /\ IdsOnce' /\ \A p \in Orders : Growing(p)'
           /\ \A p \in Orders \ {o} : line'[p] = line[p]
           /\ DOMAIN line'[o] = 1..Len(lines) /\ Len(line'[o]) = Len(lines)
           /\ \A i \in 1..Len(lines) :
                 /\ line'[o][i].name = lines[i].name /\ line'[o][i].stock = lines[i].stock
                 /\ line'[o][i].auto = lines[i].auto
<1> DEFINE n == Len(lines)
           F(i) == [id |-> NextId + i - 1, name |-> lines[i].name,
                    stock |-> lines[i].stock, auto |-> lines[i].auto]
           f == [i \in 1..n |-> F(i)]
<1>1. n \in Nat /\ DOMAIN lines = 1..n /\ \A i \in 1..n : lines[i] \in StoredEntry
  BY LenProperties, ElementOfSeq
<1>2. lastId \in Nat /\ line \in [Orders -> Seq(Line)]
  BY Parts
<1>3. line' = [line EXCEPT ![o] = f] /\ lastId' = lastId + n
  BY <1>1 DEF Stored
<1>4. \A i \in 1..n : /\ F(i) \in Line /\ F(i).id = lastId + i /\ F(i).name = lines[i].name
                      /\ F(i).stock = lines[i].stock /\ F(i).auto = lines[i].auto
  <2> SUFFICES ASSUME NEW i \in 1..n
               PROVE  /\ F(i) \in Line /\ F(i).id = lastId + i /\ F(i).name = lines[i].name
                      /\ F(i).stock = lines[i].stock /\ F(i).auto = lines[i].auto
    OBVIOUS
  <2>1. lines[i] \in StoredEntry
    BY <1>1
  <2>2. NextId + i - 1 = lastId + i /\ lastId + i \in Nat \ {0}
    BY <1>1, <1>2 DEF NextId
  <2>3. QED
    BY <2>1, <2>2 DEF StoredEntry, Line
<1> HIDE DEF F
<1>5. f \in [1..n -> Line]
  BY <1>4
<1>6. f \in Seq(Line) /\ Len(f) = n /\ DOMAIN f = 1..n
  BY <1>1, <1>5, FunctionSeq
<1>7. \A i \in 1..n : /\ f[i].id = lastId + i /\ f[i].name = lines[i].name
                      /\ f[i].stock = lines[i].stock /\ f[i].auto = lines[i].auto
  BY <1>4
<1> HIDE DEF f
<1>8. line'[o] = f /\ \A p \in Orders \ {o} : line'[p] = line[p]
  BY <1>2, <1>3
<1>9. line' \in [Orders -> Seq(Line)] /\ lastId' \in Nat
  BY <1>1, <1>2, <1>3, <1>6
<1>10. OldOrNew
  <2>1. lastId' >= lastId
    BY <1>1, <1>2, <1>3
  <2>2. ASSUME NEW p \in Orders, NEW i \in DOMAIN line'[p]
        PROVE  \/ line'[p][i].id > lastId
               \/ \E j \in DOMAIN line[p] :
                     line[p][j].id = line'[p][i].id /\ line[p][j].name = line'[p][i].name
    <3>1. CASE p = o
      <4>1. i \in 1..n /\ line'[p][i].id = lastId + i
        BY <1>6, <1>7, <1>8, <3>1
      <4>2. QED
        BY <1>2, <4>1
    <3>2. CASE p # o
      BY <1>8, <3>2
    <3>3. QED
      BY <3>1, <3>2
  <2>3. QED
    BY <2>1, <2>2 DEF OldOrNew
<1>11. IdsOnce'
  <2>1. ASSUME NEW p \in Orders \ {o}, NEW i \in DOMAIN line'[p]
        PROVE  line'[p][i].id \in Nat /\ line'[p][i].id <= lastId
    BY <1>8, Parts DEF IInv, IdsOnce, Line
  <2>2. ASSUME NEW i \in DOMAIN line'[o]
        PROVE  line'[o][i].id \in Nat /\ line'[o][i].id > lastId /\ line'[o][i].id <= lastId + n
    <3>1. i \in 1..n /\ line'[o][i].id = lastId + i
      BY <1>6, <1>7, <1>8
    <3>2. QED
      BY <1>1, <1>2, <3>1
  <2>3. ASSUME NEW p \in Orders, NEW i \in DOMAIN line'[p]
        PROVE  line'[p][i].id <= lastId'
    BY <1>1, <1>2, <1>3, <2>1, <2>2
  <2>4. ASSUME NEW p \in Orders, NEW m \in Orders, NEW i \in DOMAIN line'[p],
               NEW j \in DOMAIN line'[m], line'[p][i].id = line'[m][j].id
        PROVE  p = m
    <3>1. CASE p = o \/ m = o
      BY <1>2, <2>1, <2>2, <2>4, <3>1
    <3>2. CASE p # o /\ m # o
      BY <1>8, <2>4, <3>2 DEF IInv, IdsOnce
    <3>3. QED
      BY <3>1, <3>2
  <2>5. QED
    BY <2>3, <2>4 DEF IdsOnce
<1>12. ASSUME NEW p \in Orders PROVE Growing(p)'
  <2>1. CASE p = o
    <3>1. ASSUME NEW i \in DOMAIN line'[o], NEW j \in DOMAIN line'[o], i < j
          PROVE  line'[o][i].id < line'[o][j].id
      <4>1. i \in 1..n /\ j \in 1..n /\ line'[o][i].id = lastId + i /\ line'[o][j].id = lastId + j
        BY <1>6, <1>7, <1>8
      <4>2. QED
        BY <1>2, <3>1, <4>1
    <3>2. QED
      BY <2>1, <3>1 DEF Growing
  <2>2. CASE p # o
    <3>1. Growing(p) /\ line'[p] = line[p]
      BY <1>8, <2>2, Parts
    <3>2. QED
      BY <3>1 DEF Growing
  <2>3. QED
    BY <2>1, <2>2
<1>13. DOMAIN line'[o] = 1..Len(lines) /\ Len(line'[o]) = Len(lines)
  BY <1>6, <1>8
<1>14. QED
  BY <1>7, <1>8, <1>9, <1>10, <1>11, <1>12, <1>13

LEMMA EditedForm ==
    ASSUME NEW form \in Seq(Entry), NEW items \in Edited(form)
    PROVE  items \in Seq(Entry)
<1>1. CASE items = form
  BY <1>1
<1>2. ASSUME NEW i \in DOMAIN form, items = Without(form, i) PROVE items \in Seq(Entry)
  <2>1. i \in 1..Len(form)
    BY LenProperties
  <2>2. QED
    BY <1>2, <2>1, WithoutLine
<1>3. ASSUME NEW entry \in Additions, items = Append(form, entry) PROVE items \in Seq(Entry)
  <2>1. entry \in Entry
    BY LinesAssumption
  <2>2. QED
    BY <1>3, <2>1, AppendProperties
<1>4. QED
  BY <1>1, <1>2, <1>3 DEF Edited

\* What CommitSave stores.
Saves(h, o, items) ==
    /\ o = req[h].order /\ items \in Edited(req[h].form)
    /\ raw' = [raw EXCEPT ![o] = items]
    /\ line' \in [Orders -> Seq(Line)] /\ lastId' \in Nat
    /\ OldOrNew /\ IdsOnce' /\ \A p \in Orders : Growing(p)'
    /\ \A p \in Orders \ {o} : line'[p] = line[p]
    /\ DOMAIN line'[o] = 1..Len(items) /\ Len(line'[o]) = Len(items)
    /\ \A i \in 1..Len(items) : line'[o][i].name = items[i].name
                                /\ line'[o][i].stock = items[i].stock

LEMMA SavedLines ==
    ASSUME IInv, NEW h \in Handlers, CommitSave(h)
    PROVE  \E o \in Orders, items \in Seq(Entry) : Saves(h, o, items)
<1>1. req[h].order \in Orders /\ req[h].form \in Seq(Entry)
  <2>1. req[h] \in Request
    BY Parts
  <2>2. QED
    BY <2>1 DEF Request
<1>2. PICK o \in Orders : o = req[h].order
  BY <1>1
<1>3. PICK items \in Edited(req[h].form) :
         /\ raw' = [raw EXCEPT ![o] = items]
         /\ Stored(o, [i \in DOMAIN items |->
                [name |-> items[i].name, stock |-> items[i].stock, auto |-> FALSE]])
  BY <1>2 DEF CommitSave
<1>4. items \in Seq(Entry) /\ Len(items) \in Nat /\ DOMAIN items = 1..Len(items)
  BY <1>1, <1>3, EditedForm, LenProperties
<1>5. \A i \in 1..Len(items) : items[i] \in Entry
  BY <1>4, ElementOfSeq
<1> DEFINE n == Len(items)
           lines == [i \in 1..n |-> [name |-> items[i].name, stock |-> items[i].stock,
                                     auto |-> FALSE]]
<1>6. lines \in [1..n -> StoredEntry]
  BY <1>5 DEF Entry, StoredEntry
<1>7. \A i \in 1..n : lines[i].name = items[i].name /\ lines[i].stock = items[i].stock
  OBVIOUS
<1>8. Stored(o, lines)
  BY <1>3, <1>4
<1> HIDE DEF lines
<1>9. lines \in Seq(StoredEntry) /\ Len(lines) = n
  BY <1>4, <1>6, FunctionSeq
<1>10. /\ line' \in [Orders -> Seq(Line)] /\ lastId' \in Nat
       /\ OldOrNew /\ IdsOnce' /\ \A p \in Orders : Growing(p)'
       /\ \A p \in Orders \ {o} : line'[p] = line[p]
       /\ DOMAIN line'[o] = 1..n /\ Len(line'[o]) = n
       /\ \A i \in 1..n : line'[o][i].name = lines[i].name /\ line'[o][i].stock = lines[i].stock
  BY <1>8, <1>9, StoredLines
<1>11. \A i \in 1..n : line'[o][i].name = items[i].name /\ line'[o][i].stock = items[i].stock
  BY <1>7, <1>10
<1>12. Saves(h, o, items)
  BY <1>2, <1>3, <1>10, <1>11 DEF Saves
<1>13. QED
  BY <1>4, <1>12

LEMMA CommitSaveStep ==
    ASSUME IInv, NEW h \in Handlers, CommitSave(h)
    PROVE  IInv'
<1>1. PICK o \in Orders, items \in Seq(Entry) : Saves(h, o, items)
  BY SavedLines, Zenon
<1>2. UNCHANGED <<itemName, alias>> /\ Proceed(h, Idle) /\ Idle \in Request
  BY IdleFacts DEF CommitSave, Answer
<1>3. /\ raw' \in [Orders -> Seq(Entry)] /\ raw'[o] = items
      /\ \A p \in Orders \ {o} : raw'[p] = raw[p]
  BY <1>1, Parts DEF Saves
<1>4. ASSUME NEW p \in Orders PROVE Agree(p)'
  <2>1. CASE p = o
    BY <1>1, <1>3, <2>1 DEF Agree, Saves, SameLine
  <2>2. CASE p # o
    <3>1. Agree(p) /\ line'[p] = line[p] /\ raw'[p] = raw[p]
      BY <1>1, <1>3, <2>2, Parts DEF Saves
    <3>2. QED
      BY <3>1 DEF Agree
  <2>3. QED
    BY <2>1, <2>2
<1>5. itemName' \in Catalogue /\ alias' \in Index
  BY <1>2, Parts
<1>6. Fresh(h)'
  BY <1>2, <1>5, Proceeds, IdleFacts, IdleFresh
<1>7. QED
  BY <1>1, <1>2, <1>3, <1>4, <1>5, <1>6, Step DEF Saves

LEMMA SavePORowStep ==
    ASSUME IInv, NEW h \in Handlers, SavePORow(h)
    PROVE  IInv'
<1> DEFINE index == req[h].index
<1>1. req[h] \in Request /\ req[h].pc = "row"
  BY Parts DEF SavePORow
<1>2. index \in Index
  BY <1>1 DEF Request
<1>3. PICK o \in Orders, row \in Rows :
         /\ raw' = [raw EXCEPT ![o] =
                [i \in DOMAIN row |-> Read(row[i])]]
         /\ Stored(o, [i \in DOMAIN row |-> Imported(row[i], index)])
  BY DEF SavePORow
<1>4. UNCHANGED <<itemName, alias>> /\ Proceed(h, req[h])
  BY DEF SavePORow
<1> HIDE DEF index
<1>5. row \in Seq(FileEntry)
  BY LinesAssumption
<1>6. Len(row) \in Nat /\ DOMAIN row = 1..Len(row) /\ \A i \in 1..Len(row) : row[i] \in FileEntry
  BY <1>5, LenProperties, ElementOfSeq
<1> DEFINE n == Len(row)
           lines == [i \in 1..n |-> Imported(row[i], index)]
           entries == [i \in 1..n |-> Read(row[i])]
<1>7. ASSUME NEW i \in 1..n
      PROVE  /\ lines[i] \in StoredEntry /\ entries[i] \in Entry
             /\ SameLine(lines[i], entries[i])
  <2> DEFINE name == IF row[i].long THEN None ELSE row[i].name
             auto == row[i].id = None /\ name # None
             stock == IF auto THEN index[name] ELSE row[i].id
             marked == auto /\ index[name] # None
             read == IF row[i].long THEN row[i].stock ELSE row[i].id
  <2>1. row[i] \in FileEntry
    BY <1>6
  <2>2. /\ name \in Names \cup {None} /\ row[i].name \in Names /\ row[i].name # None
        /\ row[i].stock \in Stocks \cup {None} /\ row[i].id \in Stocks \cup {None}
    BY <2>1, LinesAssumption DEF FileEntry
  <2>3. lines[i] = [name |-> name, stock |-> stock, auto |-> marked]
    BY DEF Imported
  <2>4. entries[i] = [name |-> row[i].name, stock |-> read]
    BY DEF Read
  <2>5. stock \in Stocks \cup {None} /\ read \in Stocks \cup {None}
    BY <1>2, <2>2 DEF Index
  <2>6. marked \in BOOLEAN
    BY Zenon
  <2>7. \/ name = row[i].name /\ (stock = read \/ (marked /\ read = None))
        \/ name = None /\ row[i].name # None
    <3>1. CASE row[i].long
      BY <2>2, <3>1
    <3>2. CASE ~row[i].long
      BY <2>2, <3>2
    <3>3. QED
      BY <3>1, <3>2
  <2> HIDE DEF name, stock, marked, read, lines, entries
  <2>8. lines[i] \in StoredEntry
    BY <2>2, <2>3, <2>5, <2>6 DEF StoredEntry
  <2>9. entries[i] \in Entry
    BY <2>2, <2>4, <2>5 DEF Entry
  <2>10. lines[i].name = name /\ lines[i].stock = stock /\ lines[i].auto = marked
    BY <2>3
  <2>11. entries[i].name = row[i].name /\ entries[i].stock = read
    BY <2>4
  <2>12. SameLine(lines[i], entries[i])
    BY <2>7, <2>10, <2>11 DEF SameLine, TakenLong
  <2>13. QED
    BY <2>8, <2>9, <2>12
<1>8. lines \in [1..n -> StoredEntry] /\ entries \in [1..n -> Entry]
  BY <1>7
<1>9. Stored(o, lines) /\ raw' = [raw EXCEPT ![o] = entries]
  BY <1>3, <1>6
<1> HIDE DEF lines, entries
<1>10. /\ lines \in Seq(StoredEntry) /\ Len(lines) = n
       /\ entries \in Seq(Entry) /\ Len(entries) = n
  BY <1>6, <1>8, FunctionSeq
<1>11. /\ line' \in [Orders -> Seq(Line)] /\ lastId' \in Nat
       /\ OldOrNew /\ IdsOnce' /\ \A p \in Orders : Growing(p)'
       /\ \A p \in Orders \ {o} : line'[p] = line[p]
       /\ DOMAIN line'[o] = 1..n /\ Len(line'[o]) = n
       /\ \A i \in 1..n :
             /\ line'[o][i].name = lines[i].name /\ line'[o][i].stock = lines[i].stock
             /\ line'[o][i].auto = lines[i].auto
  BY <1>9, <1>10, StoredLines
<1>12. /\ raw' \in [Orders -> Seq(Entry)] /\ raw'[o] = entries
       /\ \A p \in Orders \ {o} : raw'[p] = raw[p]
  BY <1>9, <1>10, Parts
<1>13. ASSUME NEW p \in Orders PROVE Agree(p)'
  <2>1. CASE p = o
    BY <1>7, <1>10, <1>11, <1>12, <2>1 DEF Agree, SameLine, TakenLong
  <2>2. CASE p # o
    <3>1. Agree(p) /\ line'[p] = line[p] /\ raw'[p] = raw[p]
      BY <1>11, <1>12, <2>2, Parts
    <3>2. QED
      BY <3>1 DEF Agree
  <2>3. QED
    BY <2>1, <2>2
<1>14. itemName' \in Catalogue /\ alias' \in Index
  BY <1>4, Parts
<1>15. Fresh(h)'
  <2>1. req'[h] = req[h]
    BY <1>1, <1>4, <1>14, Proceeds
  <2>2. IndexFresh(h)
    BY DEF IInv, Fresh
  <2>3. \A m \in Names : Named(m)' = Named(m)
    BY <1>4 DEF Named
  <2>4. IndexFresh(h)'
    BY <1>4, <2>1, <2>2, <2>3 DEF IndexFresh
  <2>5. QED
    BY <1>1, <2>1, <2>4 DEF Fresh, FormFresh, PageFresh, NamesFresh
<1>16. QED
  BY <1>1, <1>4, <1>11, <1>12, <1>13, <1>14, <1>15, Step

-----------------------------------------------------------------------------
(* Linking a line *)

\* The position LinkLine counts is the place of the row.
LEMMA PositionIsPlace ==
    ASSUME IInv, NEW o \in Orders, NEW id \in {l.id : l \in LinesOf(o)}
    PROVE  /\ At(o, id) \in DOMAIN line[o] /\ line[o][At(o, id)].id = id
           /\ Position(o, id) = At(o, id)
<1> DEFINE i == At(o, id)
           before == {j \in DOMAIN line[o] : line[o][j].id < id}
<1>1. i \in DOMAIN line[o] /\ line[o][i].id = id
  <2>1. \E j \in DOMAIN line[o] : line[o][j].id = id
    BY Zenon DEF LinesOf
  <2>2. QED
    BY <2>1, Zenon DEF At
<1> HIDE DEF i
<1>2. /\ Growing(o) /\ DOMAIN line[o] = 1..Len(line[o]) /\ Len(line[o]) \in Nat
      /\ \A j \in DOMAIN line[o] : line[o][j].id \in Nat
  BY Parts DEF Line
<1>3. ASSUME NEW j \in DOMAIN line[o]
      PROVE  line[o][j].id < id <=> j < i
  BY <1>1, <1>2 DEF Growing
<1>4. before = 1..(i - 1)
  BY <1>1, <1>2, <1>3
<1>5. Cardinality(1..(i - 1)) = i - 1
  <2>1. i - 1 \in Int /\ i \in Nat /\ i >= 1
    BY <1>1, <1>2
  <2>2. Cardinality(1..(i - 1)) = IF 1 > i - 1 THEN 0 ELSE (i - 1) - 1 + 1
    BY <2>1, FS_Interval
  <2>3. QED
    BY <2>1, <2>2
<1>6. Position(o, id) = 1 + (i - 1)
  BY <1>4, <1>5, Zenon DEF Position
<1>7. QED
  BY <1>1, <1>2, <1>6 DEF i

\* What LinkLine changes.
LEMMA LinkLineChange ==
    ASSUME IInv, NEW h \in Handlers, LinkLine(h)
    PROVE  \E o \in Orders : \E i \in DOMAIN line[o] :
              /\ line[o][i].name = raw[o][i].name
              /\ raw' = [raw EXCEPT ![o] = [raw[o] EXCEPT
                            ![i] = [raw[o][i] EXCEPT !.stock = req[h].stock]]]
              /\ line' = [line EXCEPT ![o] = [line[o] EXCEPT
                            ![i] = [line[o][i] EXCEPT !.stock = req[h].stock, !.auto = FALSE]]]
<1>1. PICK o \in Orders :
         /\ req[h].id \in {l.id : l \in LinesOf(o)}
         /\ raw[o][Position(o, req[h].id)].name = line[o][At(o, req[h].id)].name
         /\ raw' = [raw EXCEPT ![o][Position(o, req[h].id)] = Linked(@, req[h].stock)]
         /\ line' = [line EXCEPT ![o][At(o, req[h].id)] =
                        [@ EXCEPT !.stock = req[h].stock, !.auto = FALSE]]
  BY Zenon DEF LinkLine
<1> DEFINE i == At(o, req[h].id)
<1>2. i \in DOMAIN line[o] /\ Position(o, req[h].id) = i
  BY <1>1, PositionIsPlace
<1> HIDE DEF i
<1>3. line[o][i].name = raw[o][i].name
  BY <1>1, <1>2 DEF i
<1>4. raw' = [raw EXCEPT ![o] = [raw[o] EXCEPT
                 ![i] = [raw[o][i] EXCEPT !.stock = req[h].stock]]]
  BY <1>1, <1>2, Zenon DEF Linked
<1>5. line' = [line EXCEPT ![o] = [line[o] EXCEPT
                 ![i] = [line[o][i] EXCEPT !.stock = req[h].stock, !.auto = FALSE]]]
  BY <1>1, Zenon DEF i
<1>6. QED
  BY <1>2, <1>3, <1>4, <1>5, Zenon

LEMMA LinkLineStep ==
    ASSUME IInv, NEW h \in Handlers, LinkLine(h)
    PROVE  IInv'
<1>1. req[h] \in Request /\ req[h].pc = "link" /\ UNCHANGED <<lastId, itemName, alias>>
  BY Parts DEF LinkLine
<1>2. PICK s \in Stocks : s = req[h].stock
  BY <1>1 DEF Request
<1>3. PICK o \in Orders : \E i \in DOMAIN line[o] :
              /\ line[o][i].name = raw[o][i].name
              /\ raw' = [raw EXCEPT ![o] = [raw[o] EXCEPT
                            ![i] = [raw[o][i] EXCEPT !.stock = req[h].stock]]]
              /\ line' = [line EXCEPT ![o] = [line[o] EXCEPT
                            ![i] = [line[o][i] EXCEPT !.stock = req[h].stock, !.auto = FALSE]]]
  BY LinkLineChange, Zenon
<1>4. PICK i \in DOMAIN line[o] :
              /\ line[o][i].name = raw[o][i].name
              /\ raw' = [raw EXCEPT ![o] = [raw[o] EXCEPT
                            ![i] = [raw[o][i] EXCEPT !.stock = req[h].stock]]]
              /\ line' = [line EXCEPT ![o] = [line[o] EXCEPT
                            ![i] = [line[o][i] EXCEPT !.stock = req[h].stock, !.auto = FALSE]]]
  BY <1>3, Zenon
<1>5. /\ line \in [Orders -> Seq(Line)] /\ raw \in [Orders -> Seq(Entry)]
      /\ line[o] \in Seq(Line) /\ raw[o] \in Seq(Entry)
      /\ line[o][i] \in Line /\ raw[o][i] \in Entry
      /\ Len(raw[o]) = Len(line[o]) /\ Len(line[o]) \in Nat
      /\ DOMAIN line[o] = 1..Len(line[o]) /\ DOMAIN raw[o] = 1..Len(raw[o])
  BY Parts DEF Agree
<1>6. PICK l : l = [line[o][i] EXCEPT !.stock = s, !.auto = FALSE]
  OBVIOUS
<1>7. PICK e : e = [raw[o][i] EXCEPT !.stock = s]
  OBVIOUS
<1>8. l \in Line /\ l.id = line[o][i].id /\ l.name = line[o][i].name /\ l.stock = s
  BY <1>5, <1>6 DEF Line
<1>9. e \in Entry /\ e.name = raw[o][i].name /\ e.stock = s
  BY <1>5, <1>7 DEF Entry
<1>10. /\ raw' = [raw EXCEPT ![o] = [raw[o] EXCEPT ![i] = e]]
       /\ line' = [line EXCEPT ![o] = [line[o] EXCEPT ![i] = l]]
  BY <1>2, <1>4, <1>6, <1>7
<1>11. PICK f : f = [line[o] EXCEPT ![i] = l]
  OBVIOUS
<1>11a. /\ f \in Seq(Line) /\ Len(f) = Len(line[o]) /\ DOMAIN f = DOMAIN line[o]
       /\ \A j \in 1..Len(line[o]) : f[j] = IF j = i THEN l ELSE line[o][j]
  <2>1. \A j \in 1..Len(line[o]) : line[o][j] \in Line
    BY <1>5, ElementOfSeq
  <2>2. DOMAIN f = 1..Len(line[o])
    BY <1>5, <1>11
  <2>3. \A j \in 1..Len(line[o]) : f[j] = IF j = i THEN l ELSE line[o][j]
    BY <1>5, <1>11
  <2>4. f = [j \in DOMAIN f |-> f[j]]
    BY <1>11
  <2>5. f \in [1..Len(line[o]) -> Line]
    BY <1>8, <2>1, <2>2, <2>3, <2>4
  <2>6. f \in Seq(Line) /\ Len(f) = Len(line[o])
    BY <1>5, <2>5, FunctionSeq
  <2>7. QED
    BY <1>5, <2>2, <2>3, <2>6
<1>12. PICK g : g = [raw[o] EXCEPT ![i] = e]
  OBVIOUS
<1>12a. /\ g \in Seq(Entry) /\ Len(g) = Len(raw[o]) /\ DOMAIN g = DOMAIN raw[o]
       /\ \A j \in 1..Len(raw[o]) : g[j] = IF j = i THEN e ELSE raw[o][j]
  <2>1. \A j \in 1..Len(raw[o]) : raw[o][j] \in Entry
    BY <1>5, ElementOfSeq
  <2>2. DOMAIN g = 1..Len(raw[o])
    BY <1>5, <1>12
  <2>3. \A j \in 1..Len(raw[o]) : g[j] = IF j = i THEN e ELSE raw[o][j]
    BY <1>5, <1>12
  <2>4. g = [j \in DOMAIN g |-> g[j]]
    BY <1>12
  <2>5. g \in [1..Len(raw[o]) -> Entry]
    BY <1>9, <2>1, <2>2, <2>3, <2>4
  <2>6. g \in Seq(Entry) /\ Len(g) = Len(raw[o])
    BY <1>5, <2>5, FunctionSeq
  <2>7. QED
    BY <1>5, <2>2, <2>3, <2>6
<1>13. /\ line' \in [Orders -> Seq(Line)] /\ line'[o] = f
       /\ \A p \in Orders \ {o} : line'[p] = line[p]
  BY <1>5, <1>10, <1>11, <1>11a
<1>14. /\ raw' \in [Orders -> Seq(Entry)] /\ raw'[o] = g
       /\ \A p \in Orders \ {o} : raw'[p] = raw[p]
  BY <1>5, <1>10, <1>12, <1>12a
<1>16. ASSUME NEW p \in Orders
       PROVE  /\ DOMAIN line'[p] = DOMAIN line[p]
              /\ \A j \in DOMAIN line[p] : /\ line'[p][j].id = line[p][j].id
                                           /\ line'[p][j].name = line[p][j].name
  <2>1. CASE p = o
    BY <1>5, <1>8, <1>11a, <1>13, <2>1
  <2>2. CASE p # o
    BY <1>13, <2>2
  <2>3. QED
    BY <2>1, <2>2
<1>17. OldOrNew
  BY <1>1, <1>16, Parts DEF OldOrNew
<1>18. IdsOnce'
  BY <1>1, <1>16 DEF IInv, IdsOnce
<1>19. ASSUME NEW p \in Orders PROVE Growing(p)'
  <2>1. Growing(p)
    BY Parts
  <2>2. QED
    BY <1>16, <2>1 DEF Growing
<1>20. ASSUME NEW p \in Orders PROVE Agree(p)'
  <2>1. Agree(p)
    BY Parts
  <2>2. CASE p = o
    <3>1. SameLine(l, e)
      BY <1>4, <1>8, <1>9 DEF SameLine
    <3>2. \A j \in 1..Len(line[o]) : SameLine(f[j], g[j])
      BY <1>5, <1>11a, <1>12a, <2>1, <2>2, <3>1 DEF Agree
    <3>3. Len(g) = Len(f) /\ DOMAIN f = 1..Len(line[o])
      BY <1>5, <1>11a, <1>12a
    <3>4. QED
      BY <1>13, <1>14, <2>2, <3>2, <3>3 DEF Agree
  <2>3. CASE p # o
    BY <1>13, <1>14, <2>1, <2>3 DEF Agree
  <2>4. QED
    BY <2>2, <2>3
<1>21. /\ lastId' \in Nat /\ itemName' \in Catalogue /\ alias' \in Index
  BY <1>1, Parts
<1>22. CASE req[h].found = None
  <2>1. Proceed(h, Idle) /\ Idle \in Request
    BY <1>22, IdleFacts DEF LinkLine, Answer
  <2>2. Fresh(h)'
    BY <1>21, <2>1, Proceeds, IdleFacts, IdleFresh
  <2>3. QED
    BY <1>13, <1>14, <1>17, <1>18, <1>19, <1>20, <1>21, <2>1, <2>2, Step
<1>23. CASE req[h].found # None
  <2> DEFINE r == [req[h] EXCEPT !.pc = "alias"]
  <2>1. Proceed(h, r)
    BY <1>23 DEF LinkLine
  <2>2. r \in Request
    BY <1>1 DEF Request
  <2>3. r.pc = "alias" /\ r.found = req[h].found /\ r.known = req[h].known
    BY <1>1 DEF Request
  <2> HIDE DEF r
  <2>4. req'[h] = r
    BY <1>21, <2>1, <2>2, Proceeds
  <2>5. req[h].found \in {req[h].known, None}
    BY <1>1 DEF IInv, Fresh, PageFresh
  <2>6. Fresh(h)'
    BY <2>3, <2>4, <2>5 DEF Fresh, FormFresh, PageFresh, NamesFresh, IndexFresh
  <2>7. QED
    BY <1>13, <1>14, <1>17, <1>18, <1>19, <1>20, <1>21, <2>1, <2>2, <2>6, Step
<1>24. QED
  BY <1>22, <1>23

-----------------------------------------------------------------------------
(* The invariant and what follows *)

LEMMA InitHolds == Init => IInv
<1> SUFFICES ASSUME Init PROVE IInv
  OBVIOUS
<1>1. Idle \in Request /\ Idle.pc = "idle"
  BY IdleFacts
<1>2. \A h \in Handlers : req[h] = Idle
  BY DEF Init
<1>3. \A o \in Orders : line[o] = <<>> /\ raw[o] = <<>> /\ Len(line[o]) = 0 /\ Len(raw[o]) = 0
                        /\ DOMAIN line[o] = {}
  BY DEF Init
<1>4. TypeOK
  <2>1. line \in [Orders -> Seq(Line)] /\ raw \in [Orders -> Seq(Entry)]
    BY EmptySeq DEF Init
  <2>2. lastId \in Nat /\ itemName \in Catalogue /\ alias \in Index
    BY DEF Init, Catalogue, Index
  <2>3. req \in [Handlers -> Request]
    BY <1>1 DEF Init
  <2>4. QED
    BY <1>3, <2>1, <2>2, <2>3 DEF TypeOK
<1>5. CopiesAgree
  BY <1>3 DEF CopiesAgree
<1>6. IdsOnce
  BY <1>3 DEF IdsOnce
<1>7. \A h \in Handlers : Fresh(h)
  BY <1>1, <1>2 DEF Fresh, FormFresh, PageFresh, NamesFresh, IndexFresh
<1>8. QED
  BY <1>4, <1>5, <1>6, <1>7 DEF IInv

LEMMA NextKeeps == IInv /\ [Next]_vars => IInv'
<1> SUFFICES ASSUME IInv, [Next]_vars PROVE IInv'
  OBVIOUS
<1>1. CASE Next
  <2>1. PICK h \in Handlers : Serve(h)
    BY <1>1 DEF Next
  <2>2. CASE CommitSave(h)
    BY <2>2, CommitSaveStep
  <2>3. CASE LinkLine(h)
    BY <2>3, LinkLineStep
  <2>4. CASE SavePORow(h)
    BY <2>4, SavePORowStep
  <2>5. CASE OpenForm(h) \/ OpenUnlinked(h) \/ FindName(h) \/ ReceiveImport(h)
               \/ ReadNames(h) \/ ReadAliases(h) \/ RememberAlias(h) \/ Abort(h)
    BY <2>5, ReadSteps
  <2>6. QED
    BY <2>1, <2>2, <2>3, <2>4, <2>5, Zenon DEF Serve
<1>2. CASE UNCHANGED vars
  <2>1. \A n : Named(n)' = Named(n)
    BY <1>2 DEF vars, Named
  <2>2. TypeOK' /\ CopiesAgree' /\ IdsOnce'
    BY <1>2 DEF IInv, vars, TypeOK, CopiesAgree, IdsOnce
  <2>3. ASSUME NEW h \in Handlers PROVE Fresh(h)'
    <3>1. FormFresh(h) /\ PageFresh(h) /\ NamesFresh(h) /\ IndexFresh(h)
      BY DEF IInv, Fresh
    <3>2. FormFresh(h)' /\ PageFresh(h)'
      BY <1>2, <3>1 DEF vars, FormFresh, PageFresh
    <3>3. NamesFresh(h)' /\ IndexFresh(h)'
      BY <1>2, <2>1, <3>1 DEF vars, NamesFresh, IndexFresh
    <3>4. QED
      BY <3>2, <3>3, Zenon DEF Fresh
  <2>4. QED
    BY <2>2, <2>3, Zenon DEF IInv
<1>3. QED
  BY <1>1, <1>2

\* The invariant that the rest follows from: ids are given once and grow, and what a
\* request holds is told stale or still true.
THEOREM Invariant == Spec => []IInv
<1>1. QED
  BY InitHolds, NextKeeps, PTL DEF Spec

\* TypeOK holds in every reachable state: the tables keep their shape, and ids grow
\* along the lines an order has.
THEOREM TypeCorrect == Spec => []TypeOK
<1>1. IInv => TypeOK
  BY DEF IInv
<1>2. QED
  BY <1>1, Invariant, PTL

\* The rows and the JSON of an order agree but for what an import makes of them,
\* whatever is saved, linked and imported in whatever order: the position LinkLine
\* counts finds the same line in both.
THEOREM CopiesStayEqual == Spec => []CopiesAgree
<1>1. IInv => CopiesAgree
  BY DEF IInv
<1>2. QED
  BY <1>1, Invariant, PTL

\* A link from an old page reaches the line that was chosen or none: no id is given
\* twice, and no line changes its name.
THEOREM OldPagesTell == Spec => []PageTells
<1>1. ASSUME IInv PROVE PageTells
  <2> SUFFICES ASSUME NEW h \in Handlers
               PROVE  /\ req[h].pc \in {"find", "link"} =>
                            \A l \in AllLines : l.id = req[h].id => l.name = req[h].known
                      /\ req[h].pc \in {"link", "alias"} => req[h].found \in {req[h].known, None}
    BY Zenon DEF PageTells
  <2>1. PageFresh(h)
    BY <1>1 DEF IInv, Fresh
  <2>2. ASSUME req[h].pc \in {"find", "link"}, NEW l \in AllLines, l.id = req[h].id
        PROVE  l.name = req[h].known
    <3>1. PICK p \in Orders : \E j \in DOMAIN line[p] : l = line[p][j]
      BY Zenon DEF AllLines, LinesOf
    <3>2. QED
      BY <2>1, <2>2, <3>1 DEF PageFresh
  <2>3. QED
    BY <2>1, <2>2 DEF PageFresh
<1>2. QED
  BY <1>1, Invariant, PTL

\* An index read in two statements still means what it says for every name that was
\* read, and was not renamed or taught since the statement that read it.
THEOREM IndexesTell == Spec => []IndexTells
<1>1. ASSUME IInv PROVE IndexTells
  <2> SUFFICES ASSUME NEW h \in Handlers, req[h].pc = "row",
                      NEW n \in Names \ req[h].doubtful
               PROVE  CASE alias[n] # None -> req[h].index[n] = alias[n]
                        [] alias[n] = None /\ Named(n) # {} -> req[h].index[n] \in Named(n)
                        [] OTHER -> req[h].index[n] = None
    BY Zenon DEF IndexTells
  <2>1. IF alias[n] # None THEN req[h].index[n] = alias[n]
        ELSE IF Named(n) # {} THEN req[h].index[n] \in Named(n)
        ELSE req[h].index[n] = None
    BY <1>1 DEF IInv, Fresh, IndexFresh
  <2>2. QED
    BY <2>1
<1>2. QED
  BY <1>1, Invariant, PTL

\* What a save from the last version of an order does to the links of its lines.
Kept(before, entries, after, gone) ==
    /\ IF gone = 0 THEN Len(after) >= Len(before) ELSE Len(after) = Len(before) - 1
    /\ \A i \in (DOMAIN before) \ {gone} :
          ByPerson(before[i], entries[i]) =>
             after[IF gone # 0 /\ i > gone THEN i - 1 ELSE i].stock = before[i].stock

LEMMA SaveKeeps ==
    ASSUME IInv, NEW h \in Handlers, CommitSave(h), ~req[h].moved
    PROVE  \E gone \in {0} \cup DOMAIN line[req[h].order] :
              Kept(line[req[h].order], raw[req[h].order], line'[req[h].order], gone)
<1>1. PICK o \in Orders, items \in Seq(Entry) : Saves(h, o, items)
  BY SavedLines, Zenon
<1>2. /\ o = req[h].order /\ items \in Edited(req[h].form)
      /\ Len(line'[o]) = Len(items)
      /\ \A i \in 1..Len(items) : line'[o][i].stock = items[i].stock
  BY <1>1 DEF Saves
<1>3. req[h].form = raw[o]
  BY <1>2 DEF IInv, Fresh, FormFresh, CommitSave
<1>4. PICK n \in Nat : n = Len(line[o])
  BY Parts
<1>5. /\ raw[o] \in Seq(Entry) /\ Len(raw[o]) = n /\ DOMAIN line[o] = 1..n /\ DOMAIN raw[o] = 1..n
      /\ \A i \in 1..n : ByPerson(line[o][i], raw[o][i]) => raw[o][i].stock = line[o][i].stock
  BY <1>4, Parts DEF Agree, SameLine, ByPerson
<1>6. CASE items = raw[o]
  <2>1. Kept(line[o], raw[o], line'[o], 0)
    BY <1>2, <1>4, <1>5, <1>6 DEF Kept
  <2>2. QED
    BY <1>2, <2>1
<1>7. ASSUME NEW entry \in Additions, items = Append(raw[o], entry)
      PROVE  Kept(line[o], raw[o], line'[o], 0)
  <2>1. entry \in Entry
    BY LinesAssumption
  <2>2. Len(items) = n + 1 /\ \A i \in 1..n : items[i] = raw[o][i]
    BY <1>5, <1>7, <2>1, AppendProperties
  <2>3. \A i \in 1..n : line'[o][i].stock = raw[o][i].stock
    <3>1. \A i \in 1..n : i \in 1..Len(items)
      BY <2>2
    <3>2. QED
      BY <1>2, <2>2, <3>1
  <2>4. Len(line'[o]) = n + 1
    BY <1>2, <2>2
  <2>5. QED
    BY <1>4, <1>5, <2>3, <2>4 DEF Kept
<1>8. ASSUME NEW j \in DOMAIN raw[o], items = Without(raw[o], j)
      PROVE  j \in DOMAIN line[o] /\ Kept(line[o], raw[o], line'[o], j)
  <2>1. j \in DOMAIN line[o] /\ j \in 1..n
    BY <1>5
  <2>2. /\ Len(items) = n - 1
        /\ \A i \in 1..(j - 1) : items[i] = raw[o][i]
        /\ \A i \in (j + 1)..n : items[i - 1] = raw[o][i]
    BY <1>5, <1>8, <2>1, WithoutLine
  <2>3. ASSUME NEW i \in (1..n) \ {j}, ByPerson(line[o][i], raw[o][i])
        PROVE  line'[o][IF j # 0 /\ i > j THEN i - 1 ELSE i].stock = line[o][i].stock
    <3>1. CASE i > j
      <4>1. i \in (j + 1)..n /\ i - 1 \in 1..Len(items)
        BY <2>1, <2>2, <3>1
      <4>2. line'[o][i - 1].stock = raw[o][i].stock
        BY <1>2, <2>2, <4>1
      <4>3. QED
        BY <1>5, <2>1, <2>3, <3>1, <4>2
    <3>2. CASE ~(i > j)
      <4>1. i \in 1..(j - 1) /\ i \in 1..Len(items)
        BY <2>1, <2>2, <3>2
      <4>2. line'[o][i].stock = raw[o][i].stock
        BY <1>2, <2>2, <4>1
      <4>3. QED
        BY <1>5, <2>3, <3>2, <4>2
    <3>3. QED
      BY <3>1, <3>2
  <2>4. Len(line'[o]) = n - 1 /\ j # 0
    BY <1>2, <2>1, <2>2
  <2>5. QED
    BY <1>4, <1>5, <2>1, <2>3, <2>4 DEF Kept
<1>9. \/ items = raw[o]
      \/ \E j \in DOMAIN raw[o] : items = Without(raw[o], j)
      \/ \E entry \in Additions : items = Append(raw[o], entry)
  BY <1>2, <1>3 DEF Edited
<1>10. QED
  BY <1>2, <1>6, <1>7, <1>8, <1>9, Zenon

\* A save from a form that holds the order's last version keeps every link a person
\* made, on every line the person kept.
THEOREM LinksKept == Spec => SaveKeepsLinks
<1>1. ASSUME IInv, [Next]_vars
      PROVE  [\A h \in Handlers : CommitSave(h) /\ ~req[h].moved =>
                LET before == line[req[h].order]
                    after == line'[req[h].order]
                IN  \E gone \in {0} \cup DOMAIN before :
                       /\ IF gone = 0 THEN Len(after) >= Len(before)
                                      ELSE Len(after) = Len(before) - 1
                       /\ \A i \in (DOMAIN before) \ {gone} :
                             ByPerson(before[i], raw[req[h].order][i]) =>
                                after[IF gone # 0 /\ i > gone THEN i - 1 ELSE i].stock
                                   = before[i].stock]_vars
  BY <1>1, SaveKeeps, Zenon DEF Kept
<1>2. QED
  BY <1>1, Invariant, PTL DEF Spec, SaveKeepsLinks
=============================================================================
