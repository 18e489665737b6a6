-------------------------------- MODULE Lines --------------------------------
(***************************************************************************)
(* The lines of purchase orders and the links from them to the catalogue:  *)
(* internal/po/audit.go, the lines that internal/po saves and internal/    *)
(* import replaces, and the index by which an import links lines itself.   *)
(*                                                                         *)
(* An order's lines are stored twice: as rows of purchase_order_items,     *)
(* which planning reads, and as JSON in raw_po_json, which the pages load  *)
(* into the edit form.  Saving, linking and importing change both, each in *)
(* one transaction; pages and indexes are read long before they are used.  *)
(*                                                                         *)
(* Names are equal here when normKey makes them so.  Quantities, prices and*)
(* packs are left out, as are the checks of a save, which may only refuse  *)
(* it (PurchaseOrders models them).  The schema in this repository has no  *)
(* table item_aliases: where the database lacks it, every RememberAlias is *)
(* an Abort, and alias stays empty.                                        *)
(***************************************************************************)
EXTENDS Integers, Sequences, FiniteSets

CONSTANTS
    Handlers,   \* request goroutines, with the page each one is sent from
    Orders,     \* PO ids
    Names,      \* line and item names
    Stocks,     \* stock ids
    Additions,  \* lines a person adds to a form: entries
    Rows,       \* what an import's PO row may hold: sequences of file entries
    MaxLines,   \* bound: lines of one order
    MaxId       \* bound: rows ever stored in purchase_order_items

None == ""
Entry == [name : Names \cup {None}, stock : Stocks \cup {None}]
\* long tells the spelling of a file's entry: its name is under item_name, or under
\* n.  Its link may be under id and, in the long spelling, under stock_id.
FileEntry == [name : Names, id : Stocks \cup {None}, stock : Stocks \cup {None},
              long : BOOLEAN]

Index == [Names -> Stocks \cup {None}]

ASSUME LinesAssumption ==
    /\ None \notin Names \cup Stocks /\ Orders # {} /\ Stocks # {}
    /\ Additions \subseteq Entry
    /\ Rows \subseteq Seq(FileEntry)
    /\ MaxLines \in Nat /\ MaxId \in Nat

VARIABLES
    line,       \* purchase_order_items, by order, in the order of their ids
    raw,        \* raw_po_json, by order
    lastId,     \* sqlite_sequence: the highest id ever given to a line
    itemName,   \* items.item_name, by stock id
    alias,      \* item_aliases: the stock id last taught for a name
    req         \* what each handler is doing

vars == <<line, raw, lastId, itemName, alias, req>>

\* auto: linked by an import, in this row and not in the JSON.
\* The route takes id 0 for none.
Line == [id : Nat \ {0}, name : Names \cup {None}, stock : Stocks \cup {None}, auto : BOOLEAN]
Catalogue == [Stocks -> Names \cup {None}]

\* A form: "form" until it is saved.  A link: "find", "link", "alias".  An
\* import: "names", "aliases", "row".  known is the name the page showed, found
\* the one the handler looked up; moved (history) tells that the order changed since
\* the form was loaded, doubtful which names changed meaning since the index read
\* them, or were not read.
Request == [pc : {"idle", "form", "find", "link", "alias", "names", "aliases", "row"},
            order : Orders, form : Seq(Entry), id : Nat, stock : Stocks,
            known : Names \cup {None}, found : Names \cup {None},
            index : Index, moved : BOOLEAN, doubtful : SUBSET Names]

Idle == [pc |-> "idle", order |-> CHOOSE o \in Orders : TRUE, form |-> <<>>, id |-> 0,
         stock |-> CHOOSE s \in Stocks : TRUE, known |-> None, found |-> None,
         index |-> [n \in Names |-> None], moved |-> FALSE, doubtful |-> {}]

-----------------------------------------------------------------------------
LinesOf(o) == {line[o][i] : i \in DOMAIN line[o]}
AllLines == UNION {LinesOf(o) : o \in Orders}

Init ==
    /\ line = [o \in Orders |-> <<>>] /\ raw = [o \in Orders |-> <<>>]
    /\ lastId = 0
    /\ itemName = [s \in Stocks |-> None]
    /\ alias = [n \in Names |-> None]
    /\ req = [h \in Handlers |-> Idle]

\* The names whose meaning a change of the catalogue touches.
Renamed == UNION {{itemName[s], itemName'[s]} : s \in {t \in Stocks : itemName'[t] # itemName[t]}}
Taught == {n \in Names : alias'[n] # alias[n]}

\* h goes on as r; forms of a changed order and indexes of changed names are stale.
Proceed(h, r) ==
    req' = [k \in Handlers |->
        IF k = h THEN r
        ELSE [req[k] EXCEPT
            !.moved = @ \/ (req[k].pc = "form" /\ raw'[req[k].order] # raw[req[k].order]),
            !.doubtful = IF req[k].pc \in {"aliases", "row"}
                           THEN @ \cup ((Renamed \cup Taught) \ {None}) ELSE @]]

Answer(h) == Proceed(h, Idle)

-----------------------------------------------------------------------------
(* Saving an order from its form *)

\* The page loads the order from its JSON: GetByID and List.
OpenForm(h) ==
    /\ req[h].pc = "idle"
    /\ UNCHANGED <<line, raw, lastId, itemName, alias>>
    /\ \E o \in Orders :
          Proceed(h, [Idle EXCEPT !.pc = "form", !.order = o, !.form = raw[o]])

Without(s, i) == SubSeq(s, 1, i - 1) \o SubSeq(s, i + 1, Len(s))

\* What a person may make of a form: nothing new, a line less, a line more.
Edited(form) ==
    {form} \cup {Without(form, i) : i \in DOMAIN form}
           \cup {Append(form, entry) : entry \in Additions}

\* purchase_order_items.id is AUTOINCREMENT: an id is never given twice.
Highest(ids) == CHOOSE n \in ids \cup {0} : \A m \in ids : m <= n
NextFreeId == Highest({l.id : l \in AllLines}) + 1
LastIdAgain == lastId
NextId == lastId + 1

Stored(o, lines) ==
    /\ Len(lines) <= MaxLines /\ lastId + Len(lines) <= MaxId
    /\ line' = [line EXCEPT ![o] =
           [i \in DOMAIN lines |-> [id |-> NextId + i - 1, name |-> lines[i].name,
                                    stock |-> lines[i].stock, auto |-> lines[i].auto]]]
    /\ lastId' = lastId + Len(lines)

\* The transaction of po.save: JSON and lines are replaced by the form's.
CommitSave(h) ==
    LET o == req[h].order
    IN  /\ req[h].pc = "form"
        /\ \E items \in Edited(req[h].form) :
              /\ raw' = [raw EXCEPT ![o] = items]
              /\ Stored(o, [i \in DOMAIN items |->
                     [name |-> items[i].name, stock |-> items[i].stock, auto |-> FALSE]])
        /\ UNCHANGED <<itemName, alias>>
        /\ Answer(h)

-----------------------------------------------------------------------------
(* Linking a line, from the page of unlinked lines *)

OpenUnlinked(h) ==
    /\ req[h].pc = "idle"
    /\ UNCHANGED <<line, raw, lastId, itemName, alias>>
    /\ \E l \in AllLines, s \in Stocks :
          /\ l.stock = None
          /\ Proceed(h, [Idle EXCEPT !.pc = "find", !.id = l.id, !.known = l.name,
                                     !.stock = s])

\* The handler looks the line's name up among the lines still unlinked.
FindName(h) ==
    LET here == {l \in AllLines : l.id = req[h].id /\ l.stock = None}
    IN  /\ req[h].pc = "find"
        /\ UNCHANGED <<line, raw, lastId, itemName, alias>>
        /\ Proceed(h, [req[h] EXCEPT !.pc = "link",
               !.found = IF here = {} THEN None ELSE (CHOOSE l \in here : TRUE).name])

\* The row with this id, and how many lines of the order come before it.
At(o, id) == CHOOSE i \in DOMAIN line[o] : line[o][i].id = id
PositionOfFirst(o, id) == 1
Position(o, id) == 1 + Cardinality({i \in DOMAIN line[o] : line[o][i].id < id})

\* Both spellings of the stock id are written, "id" and "stock_id": an entry in the
\* short spelling is read by the first.
LongKeyAlone(entry, s) == entry
Linked(entry, s) == [entry EXCEPT !.stock = s]

\* The transaction of LinkLine: the row, and the entry at its position, which must
\* have its name.
LinkLine(h) ==
    LET r == req[h]
    IN  /\ r.pc = "link"
        /\ \E o \in Orders :
              /\ r.id \in {l.id : l \in LinesOf(o)}
              /\ LET i == At(o, r.id)
                     p == Position(o, r.id)
                 IN  /\ p <= Len(raw[o])
                     /\ raw[o][p].name = line[o][i].name
                     /\ raw' = [raw EXCEPT ![o][p] = Linked(@, r.stock)]
                     /\ line' = [line EXCEPT ![o][i] =
                                    [@ EXCEPT !.stock = r.stock, !.auto = FALSE]]
        /\ UNCHANGED <<lastId, itemName, alias>>
        /\ IF r.found = None THEN Answer(h) ELSE Proceed(h, [r EXCEPT !.pc = "alias"])

\* RememberAlias; its error is ignored (Abort).
RememberAlias(h) ==
    /\ req[h].pc = "alias"
    /\ alias' = [alias EXCEPT ![req[h].found] = req[h].stock]
    /\ UNCHANGED <<line, raw, lastId, itemName>>
    /\ Answer(h)

-----------------------------------------------------------------------------
(* Importing an order *)

\* The file's items were stored in a transaction of their own; then buildNameIndex
\* reads the names and, in a second statement, the aliases, which win.
ReceiveImport(h) ==
    /\ req[h].pc = "idle"
    /\ \E names \in {itemName} \cup {[itemName EXCEPT ![s] = n] : s \in Stocks, n \in Names} :
          itemName' = names
    /\ UNCHANGED <<line, raw, lastId, alias>>
    /\ Proceed(h, [Idle EXCEPT !.pc = "names"])

Named(n) == {s \in Stocks : itemName[s] = n}

\* Both readings drop their errors: of a query that fails, or stops half-way, the
\* index lacks the rest, and the import goes on with it.
ReadNames(h) ==
    /\ req[h].pc = "names"
    /\ UNCHANGED <<line, raw, lastId, itemName, alias>>
    /\ \E index \in Index :
          /\ \A n \in Names : index[n] \in Named(n) \cup {None}
          /\ Proceed(h, [req[h] EXCEPT !.pc = "aliases", !.index = index,
                 !.doubtful = {n \in Names : Named(n) # {} /\ index[n] = None}])

NameWins(byName, byAlias) == IF byName = None THEN byAlias ELSE byName
Winner(byName, byAlias) == IF byAlias = None THEN byName ELSE byAlias
Aliased == {n \in Names : alias[n] # None}
ReadAliases(h) ==
    /\ req[h].pc = "aliases"
    /\ UNCHANGED <<line, raw, lastId, itemName, alias>>
    /\ \E unread \in SUBSET Aliased :
          Proceed(h, [req[h] EXCEPT !.pc = "row",
              !.index = [n \in Names |-> IF n \in unread THEN @[n]
                                         ELSE Winner(@[n], alias[n])],
              !.doubtful = (@ \ Aliased) \cup unread])

\* The form's reader (Item.UnmarshalJSON) takes the link of a long entry from
\* stock_id, that of a short one from id.
Read(entry) ==
    [name |-> entry.name, stock |-> IF entry.long THEN entry.stock ELSE entry.id]

\* savePORow reads the keys n and id: of a long entry it finds no name, and the link
\* only if it is under id too.  A line without an id is linked by its name.
Imported(entry, index) ==
    LET name == IF entry.long THEN None ELSE entry.name
        auto == entry.id = None /\ name # None
    IN  [name |-> name,
         stock |-> IF auto THEN index[name] ELSE entry.id,
         auto |-> auto /\ index[name] # None]

\* One transaction for a row: the JSON is stored as it came, and the lines with it.
SavePORow(h) ==
    /\ req[h].pc = "row"
    /\ \E o \in Orders, row \in Rows :
          /\ raw' = [raw EXCEPT ![o] = [i \in DOMAIN row |-> Read(row[i])]]
          /\ Stored(o, [i \in DOMAIN row |-> Imported(row[i], req[h].index)])
    /\ UNCHANGED <<itemName, alias>>
    /\ Proceed(h, req[h])

-----------------------------------------------------------------------------
\* A page is closed, a request refused; a statement fails; the import is over.
Abort(h) ==
    /\ req[h].pc # "idle"
    /\ UNCHANGED <<line, raw, lastId, itemName, alias>>
    /\ Answer(h)

Serve(h) ==
    \/ OpenForm(h) \/ CommitSave(h)
    \/ OpenUnlinked(h) \/ FindName(h) \/ LinkLine(h) \/ RememberAlias(h)
    \/ ReceiveImport(h) \/ ReadNames(h) \/ ReadAliases(h) \/ SavePORow(h)
    \/ Abort(h)

Next == \E h \in Handlers : Serve(h)

Spec == Init /\ [][Next]_vars

-----------------------------------------------------------------------------
(* Properties *)

\* Every variable keeps its shape, and ids grow along an order's lines.
TypeOK ==
    /\ line \in [Orders -> Seq(Line)]
    /\ raw \in [Orders -> Seq(Entry)]
    /\ lastId \in Nat /\ itemName \in Catalogue /\ alias \in Index
    /\ req \in [Handlers -> Request]
    /\ \A o \in Orders : \A i, j \in DOMAIN line[o] :
          i < j => line[o][i].id < line[o][j].id

\* The two copies of an order's lines agree, entry by entry, except in what an
\* import makes of them: a link it found itself is in the row alone, and the row of
\* an entry in the long spelling has no name, and the link that is under id.
TakenLong(l, e) == l.name = None /\ e.name # None
SameLine(l, e) ==
    \/ l.name = e.name /\ (l.stock = e.stock \/ (l.auto /\ e.stock = None))
    \/ TakenLong(l, e)
CopiesAgree ==
    \A o \in Orders :
        /\ Len(raw[o]) = Len(line[o])
        /\ \A i \in DOMAIN line[o] : SameLine(line[o][i], raw[o][i])

\* The page of unlinked lines may be old.  The line a person chose on it either has
\* the name it showed or is gone: a link never goes to another line.  And what the
\* handler goes on to teach was the name of that line.
PageTells ==
    \A h \in Handlers :
        /\ req[h].pc \in {"find", "link"} =>
              \A l \in AllLines : l.id = req[h].id => l.name = req[h].known
        /\ req[h].pc \in {"link", "alias"} => req[h].found \in {req[h].known, None}

\* The index is read in two statements before the rows it is used for, and is not
\* read again.  A name that was read, and that nobody renamed or taught in between,
\* still means what the index says: the stock id last taught for it or, if none was,
\* an item of that name.
IndexTells ==
    \A h \in Handlers : req[h].pc = "row" =>
        \A n \in Names \ req[h].doubtful :
            LET s == req[h].index[n]
            IN  CASE alias[n] # None -> s = alias[n]
                  [] alias[n] = None /\ Named(n) # {} -> s \in Named(n)
                  [] OTHER -> s = None

\* Saving a form that was loaded after the order's last change loses no link that a
\* person made: every line kept has the stock id it had, unless an import linked it
\* or took it from an entry in the long spelling.
ByPerson(l, e) == l.stock # None /\ ~l.auto /\ ~TakenLong(l, e)
SaveKeepsLinks ==
    [][\A h \in Handlers : CommitSave(h) /\ ~req[h].moved =>
          LET before == line[req[h].order]
              after == line'[req[h].order]
          IN  \E gone \in {0} \cup DOMAIN before :
                 /\ IF gone = 0 THEN Len(after) >= Len(before)
                                ELSE Len(after) = Len(before) - 1
                 /\ \A i \in (DOMAIN before) \ {gone} :
                       ByPerson(before[i], raw[req[h].order][i]) =>
                          after[IF gone # 0 /\ i > gone THEN i - 1 ELSE i].stock
                             = before[i].stock]_vars
=============================================================================
