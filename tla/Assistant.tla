------------------------------ MODULE Assistant ------------------------------
(***************************************************************************)
(* The assistant extension and the server behind it: an order is previewed,*)
(* the user replies, and a tool call saves it through HTTP, over a network *)
(* that loses and delays requests and replies (extension/guard.ts,         *)
(* orders.ts, client.ts, index.ts).                                        *)
(*                                                                         *)
(* A call is JavaScript: everything between two awaits is one step.  Its   *)
(* queries of the database are separate processes.  Contents stands for an *)
(* order's lines and date, Details for what is copied of its items: name,  *)
(* unit and cost.  All orders here are POs of one supplier; an RFQ goes    *)
(* the same way without a status.  Item edits have the same previews and   *)
(* are left out, as is an RFQ's deletion.                                  *)
(***************************************************************************)
EXTENDS Integers, Sequences, FiniteSets

CONSTANTS
    Calls,      \* calls of procura_create_order that may run at once
    Sessions,   \* conversations
    Previews,   \* preview ids; they are random and taken to be distinct
    Contents, Details,
    Recent,     \* how many documents a lost reply makes the call look through
    MaxDocs     \* bound: documents

ASSUME AssistantAssumption == Recent \in Nat /\ MaxDocs \in Nat /\ Details # {}

Other == "other"        \* stored for somebody else
ASSUME OtherAssumption == Other \notin Previews

VARIABLES
    item,       \* the items of the orders: may they be bought, and their details
    preview,    \* PreviewStore, kept in memory
    call,       \* the calls
    way,        \* previews whose request is on its way or being served
    reply,      \* the server's reply to each preview's request, while a call waits
    doc,        \* the documents, oldest first
    answer      \* what each preview's call said to the user

vars == <<item, preview, call, way, reply, doc, answer>>

\* "read": the items were read, the preview is not stored yet.  "gone": it
\* expired, or the service was restarted.  replies: the sessions in which the user
\* wrote since.  held (history): the item had these details at some moment since
\* the reply in the preview's session.
Preview == [state : {"unmade", "read", "open", "used", "gone"}, session : Sessions,
            contents : Contents, details : Details,
            replies : SUBSET Sessions, held : BOOLEAN]

\* upto (history): how many documents there were when the call listed them.
Call == [pc : {"idle", "recheck", "send", "wait", "resend", "rewait",
               "readback", "list", "look"},
         preview : Previews \cup {Other}, id : 0..MaxDocs,
         ids : Seq(1..MaxDocs), seen : Seq(Contents), upto : 0..MaxDocs]

Doc == [contents : Contents, from : Previews \cup {Other}, edited : BOOLEAN]
Reply == [kind : {"none", "stored", "refused", "rejected"}, id : 0..MaxDocs]
Said == [says : {"none", "blocked", "refused", "http", "failed", "saved", "problem",
                 "matched", "notfound"},
         id : 0..MaxDocs, upto : 0..MaxDocs]

NoCall == [pc |-> "idle", preview |-> Other, id |-> 0, ids |-> <<>>, seen |-> <<>>, upto |-> 0]
NoReply == [kind |-> "none", id |-> 0]
Nothing == [says |-> "none", id |-> 0, upto |-> 0]

Init ==
    /\ item = [clean |-> TRUE, details |-> CHOOSE d \in Details : TRUE]
    /\ preview \in [Previews -> [state : {"unmade"}, session : Sessions, contents : Contents,
           details : {item.details}, replies : {{}}, held : {FALSE}]]
    /\ call = [c \in Calls |-> NoCall]
    /\ way = {} /\ reply = [p \in Previews |-> NoReply]
    /\ doc = <<>>
    /\ answer = [p \in Previews |-> Nothing]

-----------------------------------------------------------------------------
(* Previews *)

\* procura_preview_order: reads the items; a blocker ends it and stores nothing.
ReadItems(p) ==
    /\ preview[p].state = "unmade" /\ item.clean
    /\ preview' = [preview EXCEPT ![p] = [@ EXCEPT !.state = "read", !.details = item.details]]
    /\ UNCHANGED <<item, call, way, reply, doc, answer>>

Offer(p) ==
    /\ preview[p].state = "read"
    /\ preview' = [preview EXCEPT ![p].state = "open"]
    /\ UNCHANGED <<item, call, way, reply, doc, answer>>

\* Did the user write in the preview's own session since it was offered?
Replied(p) == preview[p].session \in preview[p].replies

\* A message of the user in a session is newer than every preview open by then.
UserReplies(s) ==
    /\ preview' = [p \in Previews |->
           IF preview[p].state = "open"
           THEN [preview[p] EXCEPT !.replies = @ \cup {s},
                     !.held = @ \/ (preview[p].session = s /\ preview[p].details = item.details)]
           ELSE preview[p]]
    /\ UNCHANGED <<item, call, way, reply, doc, answer>>

\* PREVIEW_TTL_MS
Expire(p) ==
    /\ preview[p].state = "open"
    /\ preview' = [preview EXCEPT ![p].state = "gone"]
    /\ UNCHANGED <<item, call, way, reply, doc, answer>>

\* PreviewStore.take, called from session s with the entries of that session.
Takable(p, s) ==
    /\ preview[p].state = "open" /\ preview[p].session = s /\ s \in preview[p].replies

-----------------------------------------------------------------------------
(* A call of procura_create_order *)

Goes(c, r) == call' = [call EXCEPT ![c] = r]
At(c, pc) == [call[c] EXCEPT !.pc = pc]

Says(c, what, id) ==
    /\ answer' = [answer EXCEPT ![call[c].preview] =
                     [says |-> what, id |-> id, upto |-> call[c].upto]]
    /\ Goes(c, NoCall)

\* The preview is marked before the first await of the save.
MarkLater(record) == record
MarkUsed(record) == [record EXCEPT !.state = "used"]

Take(c) ==
    /\ call[c].pc = "idle"
    /\ \E p \in Previews, s \in Sessions :
          /\ Takable(p, s)
          /\ preview' = [preview EXCEPT ![p] = MarkUsed(@)]
          /\ Goes(c, [NoCall EXCEPT !.pc = "recheck", !.preview = p])
    /\ UNCHANGED <<item, way, reply, doc, answer>>

\* createOrder previews again: the checks must pass and give the same payload.
StillTrue(p) == item.clean /\ item.details = preview[p].details

Recheck(c) ==
    /\ call[c].pc = "recheck"
    /\ IF StillTrue(call[c].preview)
       THEN Goes(c, At(c, "send")) /\ UNCHANGED answer
       ELSE Says(c, "blocked", 0)
    /\ UNCHANGED <<item, preview, way, reply, doc>>

\* Logs in where there is no token, and posts the preview's payload.
Send(c) ==
    /\ call[c].pc \in {"send", "resend"}
    /\ way' = way \cup {call[c].preview}
    /\ Goes(c, At(c, IF call[c].pc = "send" THEN "wait" ELSE "rewait"))
    /\ UNCHANGED <<item, preview, reply, doc, answer>>

Waiting(c) == call[c].pc \in {"wait", "rewait"}
StopsWaiting(c) == reply' = [reply EXCEPT ![call[c].preview] = NoReply]

\* A rejected session is retried once; the id of a stored order is read back.
Receive(c) ==
    LET r == reply[call[c].preview]
    IN  /\ Waiting(c)
        /\ \/ r.kind = "stored" /\ Goes(c, [At(c, "readback") EXCEPT !.id = r.id])
              /\ UNCHANGED answer
           \/ r.kind = "rejected" /\ call[c].pc = "wait" /\ Goes(c, At(c, "resend"))
              /\ UNCHANGED answer
           \/ r.kind = "rejected" /\ call[c].pc = "rewait" /\ Says(c, "refused", 0)
           \/ r.kind = "refused" /\ Says(c, "refused", 0)
        /\ StopsWaiting(c)
        /\ UNCHANGED <<item, preview, way, doc>>

\* The connection breaks after the status: a body that cannot be read has no
\* "success", and the text is "Procura refused the PO: HTTP 200".
ReceiveCut(c) ==
    /\ Waiting(c)
    /\ reply[call[c].preview].kind = "stored" /\ Says(c, "http", 0)
    /\ StopsWaiting(c)
    /\ UNCHANGED <<item, preview, way, doc>>

\* REQUEST_TIMEOUT_MS, or a connection that breaks: an AmbiguousOutcomeError.
GiveUp(c) ==
    /\ Waiting(c) /\ Goes(c, At(c, "list")) /\ StopsWaiting(c)
    /\ UNCHANGED <<item, preview, way, doc, answer>>

Smaller(a, b) == IF a < b THEN a ELSE b
\* recentPos: ORDER BY rowid DESC LIMIT 5.  An edit keeps the rowid.
Oldest(n) == [k \in 1..Smaller(n, Recent) |-> k]
All(n) == [k \in 1..n |-> n + 1 - k]
Newest(n) == [k \in 1..Smaller(n, Recent) |-> n + 1 - k]

List(c) ==
    /\ call[c].pc = "list"
    /\ Goes(c, [At(c, "look") EXCEPT !.ids = Newest(Len(doc)), !.upto = Len(doc)])
    /\ UNCHANGED <<item, preview, way, reply, doc, answer>>

Look(c) ==
    LET k == Len(call[c].seen) + 1
    IN  /\ call[c].pc = "look" /\ k <= Len(call[c].ids)
        /\ Goes(c, [call[c] EXCEPT !.seen = Append(@, doc[call[c].ids[k]].contents)])
        /\ UNCHANGED <<item, preview, way, reply, doc, answer>>

Decide(c) ==
    LET r == call[c]
        same == {k \in DOMAIN r.seen : r.seen[k] = preview[r.preview].contents}
    IN  /\ r.pc = "look" /\ Len(r.seen) = Len(r.ids)
        /\ \/ same = {} /\ Says(c, "notfound", 0)
           \/ \E k \in same : (\A j \in same : k <= j) /\ Says(c, "matched", r.ids[k])
        /\ UNCHANGED <<item, preview, way, reply, doc>>

\* An edit may also have moved the status on from Pending Approval.
ReadBack(c) ==
    LET d == doc[call[c].id]
    IN  /\ call[c].pc = "readback"
        /\ \/ d.contents = preview[call[c].preview].contents /\ Says(c, "saved", call[c].id)
           \/ (d.contents # preview[call[c].preview].contents \/ d.edited)
              /\ Says(c, "problem", call[c].id)
        /\ UNCHANGED <<item, preview, way, reply, doc>>

\* A query or the login fails: the tool reports the error and nothing more.
Fail(c) ==
    /\ call[c].pc \notin {"idle", "wait", "rewait"}
    /\ Says(c, "failed", 0)
    /\ UNCHANGED <<item, preview, way, reply, doc>>

\* The service dies with its previews and calls; its requests are under way.
Restart ==
    /\ preview' = [p \in Previews |->
           IF preview[p].state = "unmade" THEN preview[p]
           ELSE [preview[p] EXCEPT !.state = "gone"]]
    /\ call' = [c \in Calls |-> NoCall] /\ reply' = [p \in Previews |-> NoReply]
    /\ UNCHANGED <<item, way, doc, answer>>

-----------------------------------------------------------------------------
(* The server, which does not notice that a client has gone *)

Replies(p, kind, id) ==
    /\ way' = way \ {p}
    /\ reply' = [reply EXCEPT ![p] =
           IF \E c \in Calls : Waiting(c) /\ call[c].preview = p
           THEN [kind |-> kind, id |-> id] ELSE NoReply]

\* CreateAssistant in one transaction (PurchaseOrders), or its error; Middleware
\* rejects a session before any handler runs.  A request that is lost stays here.
Store(p) ==
    /\ p \in way /\ item.clean /\ Len(doc) < MaxDocs
    /\ doc' = Append(doc, [contents |-> preview[p].contents, from |-> p, edited |-> FALSE])
    /\ Replies(p, "stored", Len(doc) + 1)
    /\ UNCHANGED <<item, preview, call, answer>>

Refuse(p) ==
    /\ p \in way
    /\ \E kind \in {"refused", "rejected"} : Replies(p, kind, 0)
    /\ UNCHANGED <<item, preview, call, doc, answer>>

-----------------------------------------------------------------------------
(* Other people *)

ChangeItem ==
    /\ \E clean \in BOOLEAN, d \in Details :
          /\ item' = [clean |-> clean, details |-> d]
          /\ preview' = [p \in Previews |->
                 [preview[p] EXCEPT !.held = @ \/ (Replied(p) /\ preview[p].details = d)]]
    /\ UNCHANGED <<call, way, reply, doc, answer>>

StoreOther ==
    /\ Len(doc) < MaxDocs
    /\ \E o \in Contents :
          doc' = Append(doc, [contents |-> o, from |-> Other, edited |-> FALSE])
    /\ UNCHANGED <<item, preview, call, way, reply, answer>>

EditDoc ==
    /\ \E i \in DOMAIN doc, o \in Contents :
          doc' = [doc EXCEPT ![i] = [@ EXCEPT !.contents = o, !.edited = TRUE]]
    /\ UNCHANGED <<item, preview, call, way, reply, answer>>

-----------------------------------------------------------------------------
Continue(c) ==
    \/ Recheck(c) \/ Send(c) \/ Receive(c) \/ ReceiveCut(c) \/ GiveUp(c)
    \/ List(c) \/ Look(c) \/ Decide(c) \/ ReadBack(c) \/ Fail(c)

Next ==
    \/ \E p \in Previews :
          ReadItems(p) \/ Offer(p) \/ Expire(p) \/ Store(p) \/ Refuse(p)
    \/ \E s \in Sessions : UserReplies(s)
    \/ \E c \in Calls : Take(c) \/ Continue(c)
    \/ Restart \/ ChangeItem \/ StoreOther \/ EditDoc

Spec == Init /\ [][Next]_vars

-----------------------------------------------------------------------------
(* Properties *)

\* Every variable keeps its shape; a look after a lost reply is short.
TypeOK ==
    /\ item \in [clean : BOOLEAN, details : Details]
    /\ preview \in [Previews -> Preview]
    /\ call \in [Calls -> Call] /\ \A c \in Calls : Len(call[c].ids) <= Recent
    /\ way \subseteq Previews /\ reply \in [Previews -> Reply]
    /\ doc \in Seq(Doc) /\ answer \in [Previews -> Said]

\* What is said where a reply was lost: "no matching PO was found" is not said of an
\* order that was there before the look began, among the latest and as it was sent;
\* and what is said to be it holds, or held, what was sent.
LookTells ==
    \A p \in Previews :
        /\ answer[p].says = "notfound" =>
              \A i \in DOMAIN doc :
                  doc[i].from = p /\ ~doc[i].edited =>
                     i > answer[p].upto \/ i <= answer[p].upto - Recent
        /\ answer[p].says \in {"matched", "saved"} =>
              LET d == doc[answer[p].id]
              IN  d.edited \/ d.contents = preview[p].contents

\* The calls implement Errands: a preview is stored once at most, after a reply of
\* the user and with details that held since, though calls overlap, requests come
\* late and the service restarts.  "Saved" and "not saved" are said of what is so and
\* stays so; "treat it as saved" where some order has these lines, or was edited since
\* it had, which may be another's; and "Procura refused the PO: HTTP 200", which is false, of a stored
\* order alone.  A failure ("procura_create_order failed") and a look that found
\* nothing leave it open.
Alike(p) == \E i \in DOMAIN doc : doc[i].edited \/ doc[i].contents = preview[p].contents
Errand == INSTANCE Errands WITH
    Previews <- Previews,
    confirmed <- {p \in Previews : Replied(p) /\ preview[p].held},
    alike <- {p \in Previews : Alike(p)},
    stored <- [p \in Previews |-> Cardinality({i \in DOMAIN doc : doc[i].from = p})],
    answer <- [p \in Previews |->
        CASE answer[p].says = "none" -> "none"
          [] answer[p].says \in {"saved", "problem"} -> "saved"
          [] answer[p].says \in {"blocked", "refused"} -> "notSaved"
          [] answer[p].says = "matched" -> "treat"
          [] answer[p].says = "http" -> "refused200"
          [] answer[p].says \in {"failed", "notfound"} -> "unknown"]
ImplementsErrands == Errand!Spec
=============================================================================
