--------------------------- MODULE AssistantProofs ---------------------------
(***************************************************************************)
(* Proofs that the assistant's calls implement Errands and that a look     *)
(* after a lost reply tells the truth, for any calls, sessions, previews   *)
(* and documents.                                                          *)
(*                                                                         *)
(* The argument: a preview that a call took is nobody else's, so that what *)
(* a call knows of it (no request under way, nothing stored, or this       *)
(* document) is changed by its own request alone.                          *)
(***************************************************************************)
EXTENDS Assistant, SequenceTheorems, FiniteSetTheorems, TLAPS

Busy(c) == call[c].pc # "idle"
DocsOf(p) == {i \in DOMAIN doc : doc[i].from = p}

\* Before a call takes it, nothing has come of a preview.
Untouched ==
    \A p \in Previews : preview[p].state \in {"unmade", "read", "open"} =>
        /\ p \notin way /\ DocsOf(p) = {} /\ answer[p] = Nothing
        /\ \A c \in Calls : Busy(c) => call[c].preview # p

\* Nobody answers what was not offered; and if the details are those of the preview
\* after the reply, held knows.
Unreplied == \A p \in Previews : preview[p].state \in {"unmade", "read"} => preview[p].replies = {}
HeldKnows ==
    \A p \in Previews : Replied(p) /\ preview[p].details = item.details => preview[p].held

OneCall ==
    \A c, d \in Calls : Busy(c) /\ Busy(d) /\ call[c].preview = call[d].preview => c = d

\* A reply that is kept is waited for.
Awaited ==
    \A p \in Previews : reply[p] # NoReply => \E c \in Calls : Waiting(c) /\ call[c].preview = p

\* A request under way was confirmed and has stored nothing yet; the user was told
\* nothing of it, or nothing definite.
WayInv ==
    \A p \in way :
        /\ Replied(p) /\ preview[p].held /\ DocsOf(p) = {}
        /\ answer[p].says \notin {"saved", "problem", "blocked", "refused", "http"}

\* A preview has one document at most, which holds what was previewed until it is
\* edited.
DocsBounded == Len(doc) <= MaxDocs
Once == \A i, j \in DOMAIN doc : doc[i].from = doc[j].from /\ doc[i].from # Other => i = j
AsSent ==
    \A i \in DOMAIN doc : doc[i].from # Other /\ ~doc[i].edited
                          => doc[i].contents = preview[doc[i].from].contents

\* What a waiting call will find in a reply is so.
ReplyInv(p) ==
    /\ reply[p].kind = "stored" => p \notin way /\ reply[p].id \in DocsOf(p)
    /\ reply[p].kind \in {"refused", "rejected"} => p \notin way
    /\ reply[p].kind # "stored" => DocsOf(p) = {}

\* What a look has seen is there still, or was edited.
LookInv(r) ==
    /\ r.ids = Newest(r.upto) /\ r.upto <= Len(doc) /\ Len(r.seen) <= Len(r.ids)
    /\ \A k \in DOMAIN r.seen : doc[r.ids[k]].edited \/ doc[r.ids[k]].contents = r.seen[k]

\* What a call knows of its preview p, at each of its steps.
CallInv(r, p) ==
    /\ p \in Previews /\ Replied(p) /\ answer[p] = Nothing
    /\ r.pc # "recheck" => preview[p].held
    /\ r.pc \in {"recheck", "send", "resend"} => p \notin way /\ DocsOf(p) = {}
    /\ r.pc \in {"wait", "rewait"} => ReplyInv(p)
    /\ r.pc = "readback" => p \notin way /\ r.id \in DocsOf(p)
    /\ IF r.pc = "look" THEN LookInv(r) ELSE r.seen = <<>> /\ r.upto = 0
CallsInv == \A c \in Calls : Busy(c) => CallInv(call[c], call[c].preview)

\* What was said names documents there are, and what was looked through.
AnswersInv ==
    \A p \in Previews :
        /\ answer[p].says \in {"matched", "saved"} => answer[p].id \in DOMAIN doc
        /\ answer[p].says = "notfound" => answer[p].upto <= Len(doc)

IInv ==
    /\ TypeOK /\ Untouched /\ Unreplied /\ HeldKnows /\ OneCall /\ Awaited /\ WayInv
    /\ DocsBounded /\ Once /\ AsSent /\ CallsInv /\ AnswersInv /\ LookTells

-----------------------------------------------------------------------------
(* Shapes *)

LEMMA NewestType ==
    ASSUME NEW n \in 0..MaxDocs
    PROVE  /\ Newest(n) \in Seq(1..MaxDocs) /\ Len(Newest(n)) = Smaller(n, Recent)
           /\ Len(Newest(n)) <= Recent
           /\ Smaller(n, Recent) \in Nat /\ Smaller(n, Recent) <= n
<1>1. Smaller(n, Recent) \in Nat /\ Smaller(n, Recent) <= n /\ Smaller(n, Recent) <= Recent
  BY AssistantAssumption DEF Smaller
<1>2. \A k \in 1..Smaller(n, Recent) : n + 1 - k \in 1..MaxDocs
  BY <1>1, AssistantAssumption
<1>3. Newest(n) \in [1..Smaller(n, Recent) -> 1..MaxDocs]
  BY <1>2 DEF Newest
<1>4. Newest(n) \in Seq(1..MaxDocs)
  <2>1. Newest(n) \in UNION {[1..m -> 1..MaxDocs] : m \in Nat}
    BY <1>1, <1>3
  <2>2. QED
    BY <2>1, SeqDef
<1>5. Len(Newest(n)) = Smaller(n, Recent)
  <2>1. Len(Newest(n)) \in Nat /\ DOMAIN Newest(n) = 1..Len(Newest(n))
    BY <1>4, LenProperties
  <2>2. 1..Len(Newest(n)) = 1..Smaller(n, Recent)
    BY <1>3, <2>1
  <2>3. QED
    BY <1>1, <2>1, <2>2
<1>6. QED
  BY <1>1, <1>4, <1>5

LEMMA CallType ==
    ASSUME TypeOK, NEW c \in Calls
    PROVE  /\ call[c] \in Call /\ Len(call[c].ids) <= Recent
           /\ \A pc \in {"recheck", "send", "wait", "resend", "rewait", "readback", "list", "look"} :
                 At(c, pc) \in Call /\ At(c, pc).ids = call[c].ids
           /\ NoCall \in Call /\ Len(NoCall.ids) <= Recent
<1>1. call[c] \in Call /\ Len(call[c].ids) <= Recent
  BY DEF TypeOK
<1>2. \A pc \in {"recheck", "send", "wait", "resend", "rewait", "readback", "list", "look"} :
         At(c, pc) \in Call /\ At(c, pc).ids = call[c].ids
  BY <1>1 DEF At, Call
<1>3. NoCall \in Call /\ Len(NoCall.ids) <= Recent
  BY AssistantAssumption DEF NoCall, Call
<1>4. QED
  BY <1>1, <1>2, <1>3

LEMMA GoesType ==
    ASSUME TypeOK, NEW c \in Calls, NEW r \in Call, Len(r.ids) <= Recent, Goes(c, r)
    PROVE  call' \in [Calls -> Call] /\ \A d \in Calls : Len(call'[d].ids) <= Recent
  BY DEF Goes, TypeOK

LEMMA SaysType ==
    ASSUME TypeOK, NEW c \in Calls, NEW what, NEW id \in 0..MaxDocs, Says(c, what, id),
           what \in {"blocked", "refused", "http", "failed", "saved", "problem", "matched",
                     "notfound"}
    PROVE  /\ call' \in [Calls -> Call] /\ \A d \in Calls : Len(call'[d].ids) <= Recent
           /\ answer' \in [Previews -> Said]
<1>1. call[c] \in Call
  BY DEF TypeOK
<1>2. [says |-> what, id |-> id, upto |-> call[c].upto] \in Said
  BY <1>1 DEF Call, Said
<1>3. answer' \in [Previews -> Said]
  BY <1>2 DEF Says, TypeOK
<1>4. QED
  BY <1>3, CallType, GoesType DEF Says

\* A look's ids are those of documents, newest first.
LEMMA SeenThere ==
    ASSUME TypeOK, NEW r \in Call, LookInv(r)
    PROVE  /\ DOMAIN r.ids = 1..Smaller(r.upto, Recent) /\ DOMAIN r.seen \subseteq DOMAIN r.ids
           /\ \A k \in DOMAIN r.ids : r.ids[k] = r.upto + 1 - k /\ r.ids[k] \in DOMAIN doc
           /\ \A k \in DOMAIN r.seen : r.ids[k] \in DOMAIN doc
<1>1. r.seen \in Seq(Contents) /\ r.ids \in Seq(1..MaxDocs) /\ r.upto \in 0..MaxDocs
  BY DEF Call
<1>2. /\ DOMAIN r.ids = 1..Len(r.ids) /\ DOMAIN r.seen = 1..Len(r.seen)
      /\ Len(r.ids) \in Nat /\ Len(r.seen) \in Nat
      /\ DOMAIN doc = 1..Len(doc) /\ Len(doc) \in Nat
  BY <1>1, LenProperties DEF TypeOK
<1>3. /\ Len(r.ids) = Smaller(r.upto, Recent) /\ Smaller(r.upto, Recent) <= r.upto
      /\ Len(r.seen) <= Len(r.ids) /\ r.upto <= Len(doc) /\ r.ids = Newest(r.upto)
  BY <1>1, NewestType DEF LookInv
<1>4. \A k \in 1..Smaller(r.upto, Recent) : r.ids[k] = r.upto + 1 - k
  BY <1>3 DEF Newest
<1>5. \A k \in 1..Smaller(r.upto, Recent) : r.upto + 1 - k \in 1..Len(doc)
  BY <1>1, <1>2, <1>3, AssistantAssumption
<1>6. QED
  BY <1>2, <1>3, <1>4, <1>5

-----------------------------------------------------------------------------
(* What a step may change *)

PreviewGrows(p) ==
    /\ preview'[p].session = preview[p].session
    /\ preview'[p].contents = preview[p].contents
    /\ preview[p].replies \subseteq preview'[p].replies
    /\ preview[p].held => preview'[p].held
    /\ preview'[p].state \in {"unmade", "read", "open"} =>
          preview[p].state \in {"unmade", "read", "open"}
    /\ preview'[p].state \in {"unmade", "read"} =>
          preview[p].state \in {"unmade", "read"} /\ preview'[p].replies = preview[p].replies
PreviewsGrow == preview' \in [Previews -> Preview] /\ \A p \in Previews : PreviewGrows(p)

LEMMA StateChanges ==
    ASSUME TypeOK, NEW p \in Previews, NEW x \in {"read", "open", "used", "gone"},
           preview' = [preview EXCEPT ![p].state = x],
           x = "open" => preview[p].state \in {"read", "open"},
           x = "read" => preview[p].state = "unmade",
           HeldKnows, item' = item
    PROVE  PreviewsGrow /\ HeldKnows'
<1>1. preview \in [Previews -> Preview] /\ DOMAIN preview' = Previews
  BY DEF TypeOK
<1>2. \A q \in Previews : q # p => preview'[q] = preview[q]
  BY <1>1
<1>3. preview'[p] = [preview[p] EXCEPT !.state = x]
  BY <1>1
<1>4. /\ preview'[p] \in Preview /\ preview'[p].state = x
      /\ preview'[p].session = preview[p].session /\ preview'[p].contents = preview[p].contents
      /\ preview'[p].replies = preview[p].replies /\ preview'[p].held = preview[p].held
      /\ preview'[p].details = preview[p].details
  BY <1>1, <1>3 DEF Preview
<1>5. \A q \in Previews : PreviewGrows(q)
  <2>1. PreviewGrows(p)
    BY <1>4 DEF PreviewGrows
  <2>2. ASSUME NEW q \in Previews, q # p PROVE PreviewGrows(q)
    BY <1>2, <2>2 DEF PreviewGrows
  <2>3. QED
    BY <2>1, <2>2
<1>6. preview' \in [Previews -> Preview]
  BY <1>1, <1>2, <1>4
<1>7. HeldKnows'
  BY <1>2, <1>4 DEF HeldKnows, Replied
<1>8. QED
  BY <1>5, <1>6, <1>7 DEF PreviewsGrow

LEMMA ReadFrame ==
    ASSUME TypeOK, Unreplied, HeldKnows, NEW p \in Previews, ReadItems(p)
    PROVE  PreviewsGrow /\ HeldKnows'
<1>1. preview[p] \in Preview /\ item.details \in Details /\ item' = item
  BY DEF TypeOK, ReadItems
<1>2. preview'[p] = [preview[p] EXCEPT !.state = "read", !.details = item.details]
  BY DEF ReadItems, TypeOK
<1>3. /\ preview'[p] \in Preview /\ preview'[p].state = "read"
      /\ preview'[p].session = preview[p].session /\ preview'[p].contents = preview[p].contents
      /\ preview'[p].replies = preview[p].replies /\ preview'[p].held = preview[p].held
  BY <1>1, <1>2 DEF Preview
<1>4. \A q \in Previews : q # p => preview'[q] = preview[q]
  BY DEF ReadItems, TypeOK
<1>5. DOMAIN preview' = Previews /\ preview' = [q \in Previews |-> preview'[q]]
  BY DEF ReadItems, TypeOK
<1>6. preview[p].state = "unmade" /\ preview'[p].replies = {}
  BY <1>3 DEF ReadItems, Unreplied
<1>7. \A q \in Previews : PreviewGrows(q)
  BY <1>3, <1>4, <1>6 DEF PreviewGrows
<1>8. \A q \in Previews : preview'[q] \in Preview
  BY <1>3, <1>4 DEF TypeOK
<1>9. PreviewsGrow
  BY <1>5, <1>7, <1>8 DEF PreviewsGrow
<1>10. HeldKnows'
  BY <1>1, <1>3, <1>4, <1>6 DEF HeldKnows, Replied
<1>11. QED
  BY <1>9, <1>10

LEMMA ReplyFrame ==
    ASSUME TypeOK, HeldKnows, NEW s \in Sessions, UserReplies(s)
    PROVE  PreviewsGrow /\ HeldKnows'
<1>1. ASSUME NEW p \in Previews, preview[p].state = "open"
      PROVE  /\ preview'[p] \in Preview /\ PreviewGrows(p)
             /\ Replied(p)' /\ preview'[p].details = item.details => preview'[p].held
  <2> DEFINE h == preview[p].held \/ (preview[p].session = s /\ preview[p].details = item.details)
             t == preview[p].replies \cup {s}
  <2>1. preview'[p] = [preview[p] EXCEPT !.replies = t, !.held = h]
    BY <1>1, Zenon DEF UserReplies
  <2>2. preview[p] \in Preview
    BY DEF TypeOK
  <2>3. h \in BOOLEAN /\ t \in SUBSET Sessions
    <3>1. h \in BOOLEAN
      BY Zenon
    <3>2. t \in SUBSET Sessions
      BY <2>2 DEF Preview
    <3>3. QED
      BY <3>1, <3>2
  <2> HIDE DEF h, t
  <2>4. /\ preview'[p] \in Preview /\ preview'[p].state = "open"
        /\ preview'[p].details = preview[p].details /\ preview'[p].replies = t
        /\ preview'[p].held = h /\ preview'[p].session = preview[p].session
        /\ preview'[p].contents = preview[p].contents
    BY <1>1, <2>1, <2>2, <2>3 DEF Preview
  <2>5. preview[p].held => h
    BY DEF h
  <2>6. PreviewGrows(p)
    BY <1>1, <2>4, <2>5 DEF PreviewGrows, t
  <2>7. ASSUME Replied(p)', preview'[p].details = item.details PROVE h
    <3>1. Replied(p) \/ preview[p].session = s
      BY <2>4, <2>7 DEF Replied, t
    <3>2. QED
      BY <2>4, <2>7, <3>1, Zenon DEF HeldKnows, h
  <2>8. QED
    BY <2>4, <2>6, <2>7
<1>2. ASSUME NEW p \in Previews, preview[p].state # "open"
      PROVE  preview'[p] = preview[p]
  BY <1>2 DEF UserReplies
<1>3. preview' \in [Previews -> Preview]
  <2>1. \A p \in Previews : preview'[p] \in Preview
    BY <1>1, <1>2 DEF TypeOK
  <2>2. preview' = [p \in Previews |-> preview'[p]]
    BY DEF UserReplies
  <2>3. QED
    BY <2>1, <2>2
<1>4. \A p \in Previews : PreviewGrows(p)
  <2>1. ASSUME NEW p \in Previews, preview[p].state # "open" PROVE PreviewGrows(p)
    BY <1>2, <2>1 DEF PreviewGrows
  <2>2. QED
    BY <1>1, <2>1
<1>5. HeldKnows'
  <2>1. ASSUME NEW p \in Previews, preview[p].state # "open", Replied(p)',
               preview'[p].details = item'.details
        PROVE  preview'[p].held
    BY <1>2, <2>1 DEF HeldKnows, Replied, UserReplies
  <2>2. item' = item
    BY DEF UserReplies
  <2>3. QED
    BY <1>1, <2>1, <2>2 DEF HeldKnows
<1>6. QED
  BY <1>3, <1>4, <1>5 DEF PreviewsGrow

LEMMA ChangeFrame ==
    ASSUME TypeOK, ChangeItem
    PROVE  PreviewsGrow /\ HeldKnows'
<1>1. PICK d \in Details :
          /\ item'.details = d
          /\ preview' = [p \in Previews |->
                 [preview[p] EXCEPT !.held = @ \/ (Replied(p) /\ preview[p].details = d)]]
  BY DEF ChangeItem
<1>2. ASSUME NEW p \in Previews
      PROVE  /\ preview'[p] \in Preview /\ PreviewGrows(p)
             /\ Replied(p)' /\ preview'[p].details = d => preview'[p].held
  <2> DEFINE h == preview[p].held \/ (Replied(p) /\ preview[p].details = d)
  <2>1. preview'[p] = [preview[p] EXCEPT !.held = h]
    BY <1>1, Zenon
  <2>2. preview[p] \in Preview
    BY DEF TypeOK
  <2>3. h \in BOOLEAN
    BY Zenon
  <2> HIDE DEF h
  <2>4. /\ preview'[p] \in Preview /\ preview'[p].state = preview[p].state
        /\ preview'[p].details = preview[p].details
        /\ preview'[p].replies = preview[p].replies
        /\ preview'[p].held = h /\ preview'[p].session = preview[p].session
        /\ preview'[p].contents = preview[p].contents
    BY <2>1, <2>2, <2>3 DEF Preview
  <2>5. preview[p].held => h
    BY DEF h
  <2>6. PreviewGrows(p)
    BY <2>4, <2>5 DEF PreviewGrows
  <2>7. Replied(p)' /\ preview'[p].details = d => h
    <3>1. Replied(p)' => Replied(p)
      BY <2>4 DEF Replied
    <3>2. QED
      BY <2>4, <3>1 DEF h
  <2>8. QED
    BY <2>4, <2>6, <2>7
<1>3. preview' \in [Previews -> Preview]
  BY <1>1, <1>2
<1>4. QED
  BY <1>1, <1>2, <1>3 DEF PreviewsGrow, HeldKnows

LEMMA RestartFrame ==
    ASSUME TypeOK, HeldKnows, Restart
    PROVE  PreviewsGrow /\ HeldKnows'
<1>1. ASSUME NEW p \in Previews
      PROVE  /\ preview'[p] \in Preview /\ PreviewGrows(p)
             /\ preview'[p].details = preview[p].details
             /\ preview'[p].replies = preview[p].replies
             /\ preview'[p].held = preview[p].held
             /\ preview'[p].session = preview[p].session
  <2>1. preview[p] \in Preview
    BY DEF TypeOK
  <2>2. CASE preview[p].state = "unmade"
    BY <2>1, <2>2 DEF Restart, PreviewGrows
  <2>3. CASE preview[p].state # "unmade"
    <3>1. preview'[p] = [preview[p] EXCEPT !.state = "gone"]
      BY <2>3 DEF Restart
    <3>2. /\ preview'[p] \in Preview /\ preview'[p].state = "gone"
          /\ preview'[p].details = preview[p].details
          /\ preview'[p].replies = preview[p].replies
          /\ preview'[p].held = preview[p].held
          /\ preview'[p].session = preview[p].session
          /\ preview'[p].contents = preview[p].contents
      BY <2>1, <3>1 DEF Preview
    <3>3. QED
      BY <3>2 DEF PreviewGrows
  <2>4. QED
    BY <2>2, <2>3
<1>2. preview' \in [Previews -> Preview] /\ item' = item
  BY <1>1 DEF Restart
<1>3. QED
  BY <1>1, <1>2 DEF PreviewsGrow, HeldKnows, Replied

LEMMA PreviewFrame ==
    ASSUME TypeOK, Unreplied, HeldKnows, [Next]_vars
    PROVE  PreviewsGrow /\ HeldKnows'
<1>1. ASSUME UNCHANGED preview, UNCHANGED item PROVE PreviewsGrow /\ HeldKnows'
  BY <1>1 DEF PreviewsGrow, PreviewGrows, TypeOK, HeldKnows, Replied
<1>2. ASSUME NEW p \in Previews, ReadItems(p) PROVE PreviewsGrow /\ HeldKnows'
  BY <1>2, ReadFrame
<1>3. ASSUME NEW p \in Previews, Offer(p) \/ Expire(p) PROVE PreviewsGrow /\ HeldKnows'
  BY <1>3, StateChanges DEF Offer, Expire
<1>4. ASSUME NEW s \in Sessions, UserReplies(s) PROVE PreviewsGrow /\ HeldKnows'
  BY <1>4, ReplyFrame
<1>5. ASSUME NEW c \in Calls, Take(c) PROVE PreviewsGrow /\ HeldKnows'
  BY <1>5, StateChanges DEF Take, MarkUsed
<1>6. CASE Restart
  BY <1>6, RestartFrame
<1>7. CASE ChangeItem
  BY <1>7, ChangeFrame
<1>8. ASSUME NEW c \in Calls, Continue(c) PROVE UNCHANGED preview /\ UNCHANGED item
  BY <1>8 DEF Continue, Recheck, Send, Receive, ReceiveCut, GiveUp, List, Look, Decide,
              ReadBack, Fail
<1>9. ASSUME NEW p \in Previews, Store(p) \/ Refuse(p)
      PROVE  UNCHANGED preview /\ UNCHANGED item
  BY <1>9 DEF Store, Refuse
<1>10. ASSUME StoreOther \/ EditDoc PROVE UNCHANGED preview /\ UNCHANGED item
  BY <1>10 DEF StoreOther, EditDoc
<1>11. QED
  BY <1>1, <1>2, <1>3, <1>4, <1>5, <1>6, <1>7, <1>8, <1>9, <1>10 DEF Next, vars

\* A document stays, and stays as it is until it is edited; only Store adds one for a
\* preview.
DocsGrow ==
    /\ doc' \in Seq(Doc) /\ Len(doc) <= Len(doc') /\ Len(doc') \in 0..MaxDocs
    /\ \A i \in DOMAIN doc : /\ i \in DOMAIN doc' /\ doc'[i].from = doc[i].from
                             /\ doc'[i] = doc[i] \/ doc'[i].edited
NewDoc(d) == doc' = Append(doc, d)

LEMMA AppendGrows ==
    ASSUME TypeOK, NEW d \in Doc, NewDoc(d), Len(doc) < MaxDocs
    PROVE  /\ DocsGrow /\ DOMAIN doc' = DOMAIN doc \cup {Len(doc) + 1}
           /\ doc'[Len(doc) + 1] = d /\ \A i \in DOMAIN doc : doc'[i] = doc[i]
           /\ Len(doc) + 1 \notin DOMAIN doc
<1>1. doc \in Seq(Doc) /\ Len(doc) \in Nat /\ DOMAIN doc = 1..Len(doc)
  BY LenProperties DEF TypeOK
<1>2. /\ doc' \in Seq(Doc) /\ Len(doc') = Len(doc) + 1 /\ doc'[Len(doc) + 1] = d
      /\ \A i \in 1..Len(doc) : doc'[i] = doc[i]
  BY <1>1, AppendProperties DEF NewDoc
<1>3. DOMAIN doc' = 1..Len(doc) + 1
  BY <1>2, LenProperties
<1>4. QED
  BY <1>1, <1>2, <1>3, AssistantAssumption DEF DocsGrow

LEMMA DocFrame ==
    ASSUME TypeOK, DocsBounded, [Next]_vars
    PROVE  /\ DocsGrow
           /\ \A p \in Previews : DocsOf(p)' = DocsOf(p) \/ (Store(p) /\ p \in way)
<1>1. doc \in Seq(Doc) /\ Len(doc) \in 0..MaxDocs /\ DOMAIN doc = 1..Len(doc)
  BY LenProperties, AssistantAssumption DEF TypeOK, DocsBounded
<1>2. CASE UNCHANGED doc
  BY <1>1, <1>2 DEF DocsGrow, DocsOf
<1>3. ASSUME NEW q \in Previews, Store(q)
      PROVE  DocsGrow /\ \A p \in Previews : DocsOf(p)' = DocsOf(p) \/ (Store(p) /\ p \in way)
  <2> DEFINE d == [contents |-> preview[q].contents, from |-> q, edited |-> FALSE]
  <2>1. d \in Doc /\ d.from = q
    BY DEF TypeOK, Preview, Doc
  <2>2. NewDoc(d) /\ Len(doc) < MaxDocs /\ q \in way
    BY <1>3 DEF Store, NewDoc
  <2>3. /\ DocsGrow /\ DOMAIN doc' = DOMAIN doc \cup {Len(doc) + 1}
        /\ doc'[Len(doc) + 1] = d /\ \A i \in DOMAIN doc : doc'[i] = doc[i]
    BY <2>1, <2>2, AppendGrows
  <2>4. \A p \in Previews \ {q} : DocsOf(p)' = DocsOf(p)
    BY <2>1, <2>3 DEF DocsOf
  <2>5. QED
    BY <1>3, <2>2, <2>3, <2>4
<1>4. CASE StoreOther
  <2>1. PICK o \in Contents : NewDoc([contents |-> o, from |-> Other, edited |-> FALSE])
    BY <1>4 DEF StoreOther, NewDoc
  <2> DEFINE d == [contents |-> o, from |-> Other, edited |-> FALSE]
  <2>2. d \in Doc /\ d.from = Other /\ Len(doc) < MaxDocs
    BY <1>4 DEF Doc, StoreOther
  <2>3. /\ DocsGrow /\ DOMAIN doc' = DOMAIN doc \cup {Len(doc) + 1}
        /\ doc'[Len(doc) + 1] = d /\ \A i \in DOMAIN doc : doc'[i] = doc[i]
    BY <2>1, <2>2, AppendGrows
  <2>4. \A p \in Previews : DocsOf(p)' = DocsOf(p)
    BY <2>2, <2>3, OtherAssumption DEF DocsOf
  <2>5. QED
    BY <2>3, <2>4
<1>5. CASE EditDoc
  <2>1. PICK i \in DOMAIN doc, o \in Contents :
            doc' = [doc EXCEPT ![i] = [@ EXCEPT !.contents = o, !.edited = TRUE]]
    BY <1>5 DEF EditDoc
  <2>2. [doc[i] EXCEPT !.contents = o, !.edited = TRUE] \in Doc
    <3>1. doc[i] \in Doc
      BY <1>1, ElementOfSeq
    <3>2. QED
      BY <3>1 DEF Doc
  <2>3. doc' \in Seq(Doc) /\ Len(doc') = Len(doc) /\ DOMAIN doc' = DOMAIN doc
    BY <1>1, <2>1, <2>2, ExceptSeq
  <2>4. \A j \in DOMAIN doc : doc'[j].from = doc[j].from /\ (doc'[j] = doc[j] \/ doc'[j].edited)
    BY <1>1, <2>1 DEF Doc
  <2>5. QED
    BY <1>1, <2>3, <2>4 DEF DocsGrow, DocsOf
<1>6. ASSUME NEW c \in Calls, Take(c) \/ Continue(c) PROVE UNCHANGED doc
  BY <1>6 DEF Take, Continue, Recheck, Send, Receive, ReceiveCut, GiveUp, List, Look, Decide,
              ReadBack, Fail
<1>7. ASSUME NEW p \in Previews, ReadItems(p) \/ Offer(p) \/ Expire(p) \/ Refuse(p)
      PROVE  UNCHANGED doc
  BY <1>7 DEF ReadItems, Offer, Expire, Refuse
<1>8. ASSUME NEW s \in Sessions, UserReplies(s) PROVE UNCHANGED doc
  BY <1>8 DEF UserReplies
<1>9. ASSUME Restart \/ ChangeItem PROVE UNCHANGED doc
  BY <1>9 DEF Restart, ChangeItem
<1>10. QED
  BY <1>2, <1>3, <1>4, <1>5, <1>6, <1>7, <1>8, <1>9 DEF Next, vars

-----------------------------------------------------------------------------
(* What a step of a call may change *)

\* A step of one call leaves the other calls alone, and what is not of its preview.
LEMMA ContinueFrame ==
    ASSUME TypeOK, NEW c \in Calls, Continue(c)
    PROVE  /\ UNCHANGED <<item, preview, doc>> /\ Busy(c)
           /\ \A d \in Calls : d # c => call'[d] = call[d]
           /\ call'[c] = NoCall \/ (call'[c].preview = call[c].preview /\ answer' = answer)
           /\ \A q \in Previews : q # call[c].preview =>
                 answer'[q] = answer[q] /\ reply'[q] = reply[q] /\ (q \in way' => q \in way)
           /\ way' = way \/ Send(c)
           /\ Waiting(c) => reply'[call[c].preview] = NoReply \/ call[c].preview \notin Previews
           /\ ~Waiting(c) => reply' = reply
<1>1. call[c] \in Call /\ DOMAIN call = Calls /\ DOMAIN answer = Previews /\ DOMAIN reply = Previews
  BY DEF TypeOK
<1>2. /\ UNCHANGED <<item, preview, doc>> /\ Busy(c)
  BY DEF Continue, Recheck, Send, Receive, ReceiveCut, GiveUp, List, Look, Decide, ReadBack,
         Fail, Busy, Waiting
<1>3. \A r : Goes(c, r) => call'[c] = r /\ \A d \in Calls : d # c => call'[d] = call[d]
  BY <1>1 DEF Goes
<1>4. \A what, id : Says(c, what, id) =>
          /\ call'[c] = NoCall /\ \A d \in Calls : d # c => call'[d] = call[d]
          /\ \A q \in Previews : q # call[c].preview => answer'[q] = answer[q]
  BY <1>1, <1>3 DEF Says
<1>5. \A pc : At(c, pc).preview = call[c].preview
  BY <1>1 DEF At, Call
<1>6. StopsWaiting(c) => /\ reply'[call[c].preview] = NoReply \/ call[c].preview \notin Previews
                         /\ \A q \in Previews : q # call[c].preview => reply'[q] = reply[q]
  BY <1>1 DEF StopsWaiting
<1> DEFINE Done ==
           /\ \A d \in Calls : d # c => call'[d] = call[d]
           /\ call'[c] = NoCall \/ (call'[c].preview = call[c].preview /\ answer' = answer)
           /\ \A q \in Previews : q # call[c].preview =>
                 answer'[q] = answer[q] /\ reply'[q] = reply[q] /\ (q \in way' => q \in way)
           /\ way' = way \/ Send(c)
           /\ Waiting(c) => reply'[call[c].preview] = NoReply \/ call[c].preview \notin Previews
           /\ ~Waiting(c) => reply' = reply
<1> SUFFICES Done
  BY <1>2
<1>7. CASE Recheck(c)
  BY <1>3, <1>4, <1>5, <1>7 DEF Recheck, Waiting
<1>8. CASE Send(c)
  BY <1>3, <1>5, <1>8 DEF Send, Waiting
<1>9. CASE Receive(c)
  <2>1. Waiting(c) /\ StopsWaiting(c) /\ way' = way
    BY <1>9 DEF Receive
  <2>2. CASE Goes(c, [At(c, "readback") EXCEPT !.id = reply[call[c].preview].id]) /\ UNCHANGED answer
    <3>1. [At(c, "readback") EXCEPT !.id = reply[call[c].preview].id].preview = call[c].preview
      BY <1>1 DEF At, Call
    <3>2. QED
      BY <1>3, <1>6, <2>1, <2>2, <3>1
  <2>3. CASE Goes(c, At(c, "resend")) /\ UNCHANGED answer
    BY <1>3, <1>5, <1>6, <2>1, <2>3
  <2>4. CASE Says(c, "refused", 0)
    BY <1>4, <1>6, <2>1, <2>4
  <2>5. QED
    BY <1>9, <2>2, <2>3, <2>4 DEF Receive
<1>10. CASE ReceiveCut(c)
  BY <1>4, <1>6, <1>10 DEF ReceiveCut
<1>11. CASE GiveUp(c)
  BY <1>3, <1>5, <1>6, <1>11 DEF GiveUp
<1>12. CASE List(c)
  <2>1. [At(c, "look") EXCEPT !.ids = Newest(Len(doc)), !.upto = Len(doc)].preview
        = call[c].preview
    BY <1>1 DEF At, Call
  <2>2. QED
    BY <1>3, <1>12, <2>1 DEF List, Waiting
<1>13. CASE Look(c)
  <2>1. \A o : [call[c] EXCEPT !.seen = Append(@, o)].preview = call[c].preview
    BY <1>1 DEF Call
  <2>2. QED
    BY <1>3, <1>13, <2>1 DEF Look, Waiting
<1>14. CASE Decide(c)
  BY <1>4, <1>14 DEF Decide, Waiting
<1>15. CASE ReadBack(c)
  BY <1>4, <1>15 DEF ReadBack, Waiting
<1>16. CASE Fail(c)
  BY <1>4, <1>16 DEF Fail, Waiting
<1>17. QED
  BY <1>2, <1>7, <1>8, <1>9, <1>10, <1>11, <1>12, <1>13, <1>14, <1>15, <1>16 DEF Continue

\* A call takes a preview that is open, for itself.
LEMMA TakeFrame ==
    ASSUME TypeOK, NEW c \in Calls, Take(c)
    PROVE  /\ UNCHANGED <<item, way, reply, doc, answer>> /\ ~Busy(c)
           /\ \A d \in Calls : d # c => call'[d] = call[d]
           /\ \E p \in Previews :
                 /\ call'[c] = [NoCall EXCEPT !.pc = "recheck", !.preview = p]
                 /\ preview[p].state = "open" /\ Replied(p) /\ preview'[p].state = "used"
<1>1. PICK p \in Previews, s \in Sessions :
          /\ Takable(p, s) /\ preview' = [preview EXCEPT ![p] = MarkUsed(@)]
          /\ Goes(c, [NoCall EXCEPT !.pc = "recheck", !.preview = p])
  BY DEF Take
<1>2. preview'[p].state = "used"
  BY <1>1 DEF TypeOK, Preview, MarkUsed
<1>3. call'[c] = [NoCall EXCEPT !.pc = "recheck", !.preview = p]
      /\ \A d \in Calls : d # c => call'[d] = call[d]
  BY <1>1 DEF TypeOK, Goes
<1>4. QED
  BY <1>1, <1>2, <1>3 DEF Take, Takable, Replied, Busy

\* A step that no call takes and that is no restart leaves the calls alone; of what
\* they wait for it changes only what the server replies to.
Elsewhere ==
    \/ \E p \in Previews : ReadItems(p) \/ Offer(p) \/ Expire(p) \/ Store(p) \/ Refuse(p)
    \/ \E s \in Sessions : UserReplies(s)
    \/ ChangeItem \/ StoreOther \/ EditDoc \/ UNCHANGED vars

LEMMA ElsewhereFrame ==
    ASSUME TypeOK, Elsewhere
    PROVE  /\ UNCHANGED <<call, answer>> /\ way' \subseteq way
           /\ \A p \in Previews : reply'[p] = reply[p] \/ Store(p) \/ Refuse(p)
<1>1. ASSUME NEW p \in Previews, ReadItems(p) \/ Offer(p) \/ Expire(p)
      PROVE  UNCHANGED <<call, answer, way, reply>>
  BY <1>1 DEF ReadItems, Offer, Expire
<1>2. ASSUME NEW p \in Previews, Store(p) \/ Refuse(p)
      PROVE  /\ UNCHANGED <<call, answer>> /\ way' \subseteq way
             /\ \A q \in Previews : q # p => reply'[q] = reply[q]
  BY <1>2 DEF Store, Refuse, Replies, TypeOK
<1>3. ASSUME NEW s \in Sessions, UserReplies(s) PROVE UNCHANGED <<call, answer, way, reply>>
  BY <1>3 DEF UserReplies
<1>4. ASSUME ChangeItem \/ StoreOther \/ EditDoc \/ UNCHANGED vars
      PROVE  UNCHANGED <<call, answer, way, reply>>
  BY <1>4 DEF ChangeItem, StoreOther, EditDoc, vars
<1>5. QED
  BY <1>1, <1>2, <1>3, <1>4 DEF Elsewhere

LEMMA Kinds ==
    ASSUME [Next]_vars
    PROVE  \/ Elsewhere \/ Restart
           \/ \E c \in Calls : Take(c) \/ Continue(c)
  BY DEF Next, Elsewhere

-----------------------------------------------------------------------------
(* The parts of the invariant that every step keeps for the same reason *)

LEMMA Frames ==
    ASSUME IInv, [Next]_vars
    PROVE  /\ PreviewsGrow /\ HeldKnows' /\ DocsGrow
           /\ \A p \in Previews : DocsOf(p)' = DocsOf(p) \/ (Store(p) /\ p \in way)
  BY PreviewFrame, DocFrame DEF IInv

LEMMA UntouchedStep == ASSUME IInv, [Next]_vars PROVE Untouched'
<1>1. SUFFICES ASSUME NEW p \in Previews, preview'[p].state \in {"unmade", "read", "open"}
               PROVE  /\ p \notin way' /\ DocsOf(p)' = {} /\ answer'[p] = Nothing
                      /\ \A c \in Calls : Busy(c)' => call'[c].preview # p
  BY <1>1 DEF Untouched
<1>2. preview[p].state \in {"unmade", "read", "open"}
  BY <1>1, Frames DEF PreviewsGrow, PreviewGrows
<1>3. /\ p \notin way /\ DocsOf(p) = {} /\ answer[p] = Nothing
      /\ \A c \in Calls : Busy(c) => call[c].preview # p
  BY <1>2 DEF IInv, Untouched
<1>4. DocsOf(p)' = {}
  BY <1>3, Frames
<1>5. CASE Elsewhere
  <2>1. UNCHANGED <<call, answer>> /\ way' \subseteq way
    BY <1>5, ElsewhereFrame DEF IInv
  <2>2. QED
    BY <1>3, <1>4, <2>1 DEF Busy
<1>6. CASE Restart
  BY <1>3, <1>4, <1>6 DEF Restart, Busy, NoCall
<1>7. ASSUME NEW c \in Calls, Take(c)
      PROVE  /\ p \notin way' /\ answer'[p] = Nothing
             /\ \A d \in Calls : Busy(d)' => call'[d].preview # p
  <2>1. /\ UNCHANGED <<way, answer>>
        /\ \A d \in Calls : d # c => call'[d] = call[d]
    BY <1>7, TakeFrame DEF IInv
  <2>2. PICK q \in Previews :
            /\ call'[c] = [NoCall EXCEPT !.pc = "recheck", !.preview = q]
            /\ preview'[q].state = "used"
    BY <1>7, TakeFrame DEF IInv
  <2>3. call'[c].preview = q /\ q # p
    BY <1>1, <2>2 DEF NoCall
  <2>4. QED
    BY <1>3, <2>1, <2>3 DEF Busy
<1>8. ASSUME NEW c \in Calls, Continue(c)
      PROVE  /\ p \notin way' /\ answer'[p] = Nothing
             /\ \A d \in Calls : Busy(d)' => call'[d].preview # p
  <2>1. /\ Busy(c) /\ \A d \in Calls : d # c => call'[d] = call[d]
        /\ call'[c] = NoCall \/ call'[c].preview = call[c].preview
        /\ \A q \in Previews : q # call[c].preview =>
              answer'[q] = answer[q] /\ (q \in way' => q \in way)
    BY <1>8, ContinueFrame DEF IInv
  <2>2. call[c].preview # p
    BY <1>3, <2>1
  <2>3. Busy(c)' => call'[c].preview # p
    BY <2>1, <2>2 DEF Busy, NoCall
  <2>4. QED
    BY <1>3, <2>1, <2>2, <2>3 DEF Busy
<1>9. QED
  BY <1>4, <1>5, <1>6, <1>7, <1>8, Kinds

LEMMA OneCallStep == ASSUME IInv, [Next]_vars PROVE OneCall'
<1>1. SUFFICES ASSUME NEW c \in Calls, NEW d \in Calls, c # d, Busy(c)', Busy(d)',
                      call'[c].preview = call'[d].preview
               PROVE  FALSE
  BY <1>1 DEF OneCall
<1>2. Busy(c) /\ Busy(d) => call[c].preview # call[d].preview
  BY <1>1 DEF IInv, OneCall
<1>3. CASE Elsewhere
  BY <1>1, <1>2, <1>3, ElsewhereFrame DEF IInv, Busy
<1>4. CASE Restart
  BY <1>1, <1>4 DEF Restart, Busy, NoCall
<1>5. ASSUME NEW e \in Calls, Take(e) PROVE FALSE
  <2>1. \A b \in Calls : b # e => call'[b] = call[b]
    BY <1>5, TakeFrame DEF IInv
  <2>2. PICK q \in Previews :
            call'[e] = [NoCall EXCEPT !.pc = "recheck", !.preview = q]
            /\ preview[q].state = "open"
    BY <1>5, TakeFrame DEF IInv
  <2>3. call'[e].preview = q /\ \A b \in Calls : Busy(b) => call[b].preview # q
    BY <2>2 DEF NoCall, IInv, Untouched
  <2>4. QED
    BY <1>1, <1>2, <2>1, <2>3 DEF Busy
<1>6. ASSUME NEW e \in Calls, Continue(e) PROVE FALSE
  <2>1. /\ Busy(e) /\ \A b \in Calls : b # e => call'[b] = call[b]
        /\ call'[e] = NoCall \/ call'[e].preview = call[e].preview
    BY <1>6, ContinueFrame DEF IInv
  <2>2. QED
    BY <1>1, <1>2, <2>1 DEF Busy, NoCall
<1>7. QED
  BY <1>3, <1>4, <1>5, <1>6, Kinds

LEMMA AwaitedStep == ASSUME IInv, [Next]_vars PROVE Awaited'
<1>1. SUFFICES ASSUME NEW p \in Previews, reply'[p] # NoReply
               PROVE  \E c \in Calls : Waiting(c)' /\ call'[c].preview = p
  BY <1>1 DEF Awaited
<1>2. reply[p] # NoReply => \E c \in Calls : Waiting(c) /\ call[c].preview = p
  BY DEF IInv, Awaited
<1>3. CASE Elsewhere
  <2>1. call' = call /\ (reply'[p] = reply[p] \/ Store(p) \/ Refuse(p))
    BY <1>3, ElsewhereFrame DEF IInv
  <2>2. ASSUME Store(p) \/ Refuse(p) PROVE \E c \in Calls : Waiting(c) /\ call[c].preview = p
    <3>1. PICK kind, id : Replies(p, kind, id)
      BY <2>2 DEF Store, Refuse
    <3>2. QED
      BY <1>1, <3>1 DEF Replies, IInv, TypeOK
  <2>3. QED
    BY <1>1, <1>2, <2>1, <2>2 DEF Waiting
<1>4. CASE Restart
  BY <1>1, <1>4 DEF Restart
<1>5. ASSUME NEW e \in Calls, Take(e)
      PROVE  \E c \in Calls : Waiting(c)' /\ call'[c].preview = p
  <2>1. reply' = reply /\ ~Busy(e) /\ \A b \in Calls : b # e => call'[b] = call[b]
    BY <1>5, TakeFrame DEF IInv
  <2>2. PICK c \in Calls : Waiting(c) /\ call[c].preview = p
    BY <1>1, <1>2, <2>1
  <2>3. c # e
    BY <2>1, <2>2 DEF Busy, Waiting
  <2>4. QED
    BY <2>1, <2>2, <2>3 DEF Waiting
<1>6. ASSUME NEW e \in Calls, Continue(e)
      PROVE  \E c \in Calls : Waiting(c)' /\ call'[c].preview = p
  <2>1. /\ Busy(e) /\ \A b \in Calls : b # e => call'[b] = call[b]
        /\ \A q \in Previews : q # call[e].preview => reply'[q] = reply[q]
        /\ Waiting(e) => reply'[call[e].preview] = NoReply \/ call[e].preview \notin Previews
        /\ ~Waiting(e) => reply' = reply
    BY <1>6, ContinueFrame DEF IInv
  <2>2. ~(Waiting(e) /\ call[e].preview = p)
    BY <1>1, <2>1
  <2>3. reply'[p] = reply[p]
    BY <2>1, <2>2
  <2>4. PICK c \in Calls : Waiting(c) /\ call[c].preview = p
    BY <1>1, <1>2, <2>3
  <2>5. QED
    BY <2>1, <2>2, <2>4 DEF Waiting
<1>7. QED
  BY <1>3, <1>4, <1>5, <1>6, Kinds

LEMMA UnrepliedStep == ASSUME IInv, [Next]_vars PROVE Unreplied'
  BY Frames DEF IInv, Unreplied, PreviewsGrow, PreviewGrows

\* A document is of a preview only by Store, while none was.
LEMMA OnceStep == ASSUME IInv, [Next]_vars PROVE Once' /\ AsSent'
<1>1. ASSUME NEW p \in Previews, Store(p) PROVE Once' /\ AsSent'
  <2> DEFINE d == [contents |-> preview[p].contents, from |-> p, edited |-> FALSE]
  <2>1. d \in Doc /\ d.from = p /\ d.contents = preview[p].contents
    BY DEF IInv, TypeOK, Preview, Doc
  <2>2. NewDoc(d) /\ Len(doc) < MaxDocs /\ p \in way /\ preview' = preview
    BY <1>1 DEF Store, NewDoc
  <2>3. /\ DOMAIN doc' = DOMAIN doc \cup {Len(doc) + 1}
        /\ doc'[Len(doc) + 1] = d /\ \A i \in DOMAIN doc : doc'[i] = doc[i]
        /\ Len(doc) + 1 \notin DOMAIN doc
    BY <2>1, <2>2, AppendGrows DEF IInv
  <2>4. \A i \in DOMAIN doc : doc[i].from # p
    BY <2>2 DEF IInv, WayInv, DocsOf
  <2> HIDE DEF d
  <2>5. Once'
    BY <2>1, <2>3, <2>4 DEF IInv, Once
  <2>6. AsSent'
    BY <2>1, <2>2, <2>3 DEF IInv, AsSent
  <2>7. QED
    BY <2>5, <2>6
<1>2. ASSUME StoreOther PROVE Once' /\ AsSent'
  <2>1. PICK o \in Contents : NewDoc([contents |-> o, from |-> Other, edited |-> FALSE])
    BY <1>2 DEF StoreOther, NewDoc
  <2> DEFINE d == [contents |-> o, from |-> Other, edited |-> FALSE]
  <2>2. d \in Doc /\ d.from = Other /\ Len(doc) < MaxDocs /\ preview' = preview
    BY <1>2 DEF Doc, StoreOther
  <2>3. /\ DOMAIN doc' = DOMAIN doc \cup {Len(doc) + 1}
        /\ doc'[Len(doc) + 1] = d /\ \A i \in DOMAIN doc : doc'[i] = doc[i]
        /\ Len(doc) + 1 \notin DOMAIN doc
    BY <2>1, <2>2, AppendGrows DEF IInv
  <2> HIDE DEF d
  <2>4. Once' /\ AsSent'
    BY <2>2, <2>3 DEF IInv, Once, AsSent
  <2>5. QED
    BY <2>4
<1>3. ASSUME EditDoc PROVE Once' /\ AsSent'
  <2>1. PICK i \in DOMAIN doc, o \in Contents :
            doc' = [doc EXCEPT ![i] = [@ EXCEPT !.contents = o, !.edited = TRUE]]
    BY <1>3 DEF EditDoc
  <2>2. DOMAIN doc' = DOMAIN doc /\ preview' = preview
    BY <1>3, <2>1 DEF EditDoc
  <2>3. \A j \in DOMAIN doc : doc'[j].from = doc[j].from /\ (doc'[j] = doc[j] \/ doc'[j].edited)
    BY Frames DEF DocsGrow
  <2>4. QED
    BY <2>2, <2>3 DEF IInv, Once, AsSent
<1>4. ASSUME UNCHANGED doc PROVE Once' /\ AsSent'
  <2>1. Once'
    BY <1>4 DEF IInv, Once
  <2>2. \A i \in DOMAIN doc : doc[i].from \in Previews \cup {Other}
    <3>1. ASSUME NEW i \in DOMAIN doc PROVE doc[i] \in Doc
      <4>1. doc \in Seq(Doc) /\ i \in 1..Len(doc)
        BY LenProperties DEF IInv, TypeOK
      <4>2. QED
        BY <4>1, ElementOfSeq
    <3>2. QED
      BY <3>1 DEF Doc
  <2>3. AsSent'
    BY <1>4, <2>2, Frames DEF IInv, AsSent, PreviewsGrow, PreviewGrows
  <2>4. QED
    BY <2>1, <2>3
<1>5. UNCHANGED doc \/ EditDoc \/ StoreOther \/ \E p \in Previews : Store(p)
  <2>1. ASSUME NEW c \in Calls, Take(c) \/ Continue(c) PROVE UNCHANGED doc
    BY <2>1 DEF Take, Continue, Recheck, Send, Receive, ReceiveCut, GiveUp, List, Look, Decide,
                ReadBack, Fail
  <2>2. CASE Restart
    BY <2>2 DEF Restart
  <2>3. CASE Elsewhere
    BY <2>3 DEF Elsewhere, ReadItems, Offer, Expire, Refuse, UserReplies, ChangeItem, vars
  <2>4. QED
    BY <2>1, <2>2, <2>3, Kinds
<1>6. QED
  BY <1>1, <1>2, <1>3, <1>4, <1>5

-----------------------------------------------------------------------------
(* What is said *)

\* What was said of preview p is so.
SaidTruly(a, p) ==
    /\ a.says \in {"blocked", "refused"} => p \notin way /\ DocsOf(p) = {}
    /\ a.says \in {"saved", "problem"} => p \notin way /\ a.id \in DocsOf(p)
    /\ a.says = "http" => p \notin way /\ DocsOf(p) # {}
    /\ a.says \in {"matched", "saved"} =>
          a.id \in DOMAIN doc /\ (doc[a.id].edited \/ doc[a.id].contents = preview[p].contents)
    /\ a.says = "notfound" =>
          /\ a.upto <= Len(doc)
          /\ \A i \in DOMAIN doc :
                doc[i].from = p /\ ~doc[i].edited => i > a.upto \/ i <= a.upto - Recent

LEMMA LooksTruly ==
    ASSUME IInv, NEW c \in Calls, Decide(c), answer'[call[c].preview] # answer[call[c].preview]
    PROVE  SaidTruly(answer'[call[c].preview], call[c].preview)
<1> DEFINE r == call[c]
           p == r.preview
           same == {k \in DOMAIN r.seen : r.seen[k] = preview[p].contents}
<1>1. r \in Call /\ DOMAIN answer = Previews /\ r.pc = "look" /\ Len(r.seen) = Len(r.ids)
  BY DEF IInv, TypeOK, Decide
<1>2. p \in Previews /\ LookInv(r)
  BY <1>1 DEF IInv, CallsInv, CallInv, Busy
<1>3. /\ r.upto \in 0..MaxDocs /\ r.seen \in Seq(Contents) /\ r.ids \in Seq(1..MaxDocs)
      /\ r.ids = Newest(r.upto) /\ r.upto <= Len(doc)
  BY <1>1, <1>2 DEF Call, LookInv
<1>4. DOMAIN r.seen = 1..Smaller(r.upto, Recent) /\ DOMAIN r.ids = DOMAIN r.seen
      /\ DOMAIN doc = 1..Len(doc) /\ Len(doc) \in Nat
      /\ Smaller(r.upto, Recent) \in Nat
  BY <1>1, <1>3, NewestType, LenProperties DEF IInv, TypeOK
<1>5. \A k \in DOMAIN r.seen : r.ids[k] = r.upto + 1 - k /\ r.ids[k] \in DOMAIN doc
  <2>1. \A k \in DOMAIN r.seen : r.ids[k] = r.upto + 1 - k
    BY <1>3, <1>4 DEF Newest
  <2>2. Smaller(r.upto, Recent) <= r.upto
    BY <1>3, NewestType
  <2>3. \A k \in 1..Smaller(r.upto, Recent) : r.upto + 1 - k \in 1..Len(doc)
    BY <1>3, <1>4, <2>2, AssistantAssumption
  <2>4. QED
    BY <1>4, <2>1, <2>3
<1>6. \A k \in DOMAIN r.seen : doc[r.ids[k]].edited \/ doc[r.ids[k]].contents = r.seen[k]
  BY <1>2 DEF LookInv
<1>7. CASE same = {} /\ Says(c, "notfound", 0)
  <2>1. answer'[p] = [says |-> "notfound", id |-> 0, upto |-> r.upto]
    BY <1>1, <1>2, <1>7 DEF Says
  <2>2. ASSUME NEW i \in DOMAIN doc, doc[i].from = p, ~doc[i].edited,
               ~(i > r.upto), ~(i <= r.upto - Recent)
        PROVE  FALSE
    <3> DEFINE k == r.upto + 1 - i
    <3>1. k \in 1..Smaller(r.upto, Recent)
      BY <1>3, <1>4, <2>2, AssistantAssumption DEF Smaller
    <3>2. k \in DOMAIN r.seen /\ r.ids[k] = i
      BY <1>3, <1>4, <1>5, <3>1, AssistantAssumption
    <3>3. doc[i].contents = preview[p].contents
      BY <1>2, <2>2, OtherAssumption DEF IInv, AsSent
    <3>4. r.seen[k] = preview[p].contents
      BY <1>6, <2>2, <3>2, <3>3
    <3>5. QED
      BY <1>7, <3>2, <3>4
  <2>3. QED
    BY <1>3, <2>1, <2>2 DEF SaidTruly
<1>8. CASE \E k \in same : Says(c, "matched", r.ids[k])
  <2>1. PICK k \in same : Says(c, "matched", r.ids[k])
    BY <1>8
  <2>2. answer'[p] = [says |-> "matched", id |-> r.ids[k], upto |-> r.upto]
    BY <1>1, <1>2, <2>1 DEF Says
  <2>3. QED
    BY <1>5, <1>6, <2>2 DEF SaidTruly
<1>9. QED
  BY <1>7, <1>8 DEF Decide

LEMMA Tells ==
    ASSUME IInv, NEW c \in Calls, Continue(c)
    PROVE  /\ call[c].preview \in Previews
           /\ \/ answer'[call[c].preview] = answer[call[c].preview]
              \/ /\ SaidTruly(answer'[call[c].preview], call[c].preview)
                 /\ answer[call[c].preview] = Nothing /\ way' = way
<1> DEFINE p == call[c].preview
<1>1. Busy(c) /\ CallInv(call[c], p) /\ p \in Previews /\ DOMAIN answer = Previews
  BY ContinueFrame DEF IInv, CallsInv, CallInv, TypeOK
<1>2. SUFFICES ASSUME answer'[p] # answer[p]
               PROVE  SaidTruly(answer'[p], p) /\ way' = way
  BY <1>1, <1>2 DEF CallInv
<1>3. CASE Recheck(c)
  <2>1. Says(c, "blocked", 0) /\ call[c].pc = "recheck" /\ way' = way
    BY <1>2, <1>3 DEF Recheck
  <2>2. p \notin way /\ DocsOf(p) = {}
    BY <1>1, <2>1 DEF CallInv
  <2>3. answer'[p].says = "blocked"
    BY <1>1, <2>1 DEF Says
  <2>4. QED
    BY <2>1, <2>2, <2>3 DEF SaidTruly
<1>4. CASE Send(c) \/ GiveUp(c) \/ List(c) \/ Look(c)
  BY <1>2, <1>4 DEF Send, GiveUp, List, Look
<1>5. CASE Receive(c)
  <2>1. Waiting(c) /\ way' = way
    BY <1>5 DEF Receive
  <2>2. reply[p].kind \in {"refused", "rejected"} /\ Says(c, "refused", 0)
    BY <1>2, <1>5 DEF Receive
  <2>3. p \notin way /\ DocsOf(p) = {}
    BY <1>1, <2>1, <2>2 DEF CallInv, ReplyInv, Waiting
  <2>4. QED
    <3>1. answer'[p].says = "refused"
      BY <1>1, <2>2 DEF Says
    <3>2. QED
      BY <2>1, <2>3, <3>1 DEF SaidTruly
<1>6. CASE ReceiveCut(c)
  <2>1. Says(c, "http", 0) /\ way' = way
    BY <1>6 DEF ReceiveCut
  <2>2. answer'[p].says = "http"
    BY <1>1, <2>1 DEF Says
  <2>3. p \notin way /\ DocsOf(p) # {}
    BY <1>1, <1>6 DEF ReceiveCut, CallInv, ReplyInv, Waiting
  <2>4. QED
    BY <2>1, <2>2, <2>3 DEF SaidTruly
<1>7. CASE Decide(c)
  BY <1>2, <1>7, LooksTruly DEF Decide
<1>8. CASE ReadBack(c)
  <2>1. call[c].pc = "readback" /\ way' = way
    BY <1>8 DEF ReadBack
  <2>2. p \notin way /\ call[c].id \in DocsOf(p) /\ call[c].id \in DOMAIN doc
    BY <1>1, <2>1 DEF CallInv, DocsOf
  <2>3. CASE Says(c, "problem", call[c].id)
    <3>1. answer'[p].says = "problem" /\ answer'[p].id = call[c].id
      BY <1>1, <2>3 DEF Says
    <3>2. QED
      BY <2>1, <2>2, <2>3, <3>1 DEF SaidTruly
  <2>4. CASE doc[call[c].id].contents = preview[p].contents /\ Says(c, "saved", call[c].id)
    <3>1. answer'[p].says = "saved" /\ answer'[p].id = call[c].id
      BY <1>1, <2>4 DEF Says
    <3>2. QED
      BY <2>1, <2>2, <2>4, <3>1 DEF SaidTruly
  <2>5. QED
    BY <1>8, <2>3, <2>4 DEF ReadBack
<1>9. CASE Fail(c)
  <2>1. Says(c, "failed", 0) /\ way' = way
    BY <1>9 DEF Fail
  <2>2. answer'[p].says = "failed"
    BY <1>1, <2>1 DEF Says
  <2>3. QED
    BY <2>1, <2>2 DEF SaidTruly
<1>10. QED
  BY <1>3, <1>4, <1>5, <1>6, <1>7, <1>8, <1>9 DEF Continue

\* What is said stays true; and a request under way has had no definite answer.
LEMMA AnswersStep == ASSUME IInv, [Next]_vars PROVE WayInv' /\ AnswersInv' /\ LookTells'
<1>1. ASSUME NEW p \in Previews
      PROVE  \/ answer'[p] = answer[p]
             \/ SaidTruly(answer'[p], p) /\ answer[p] = Nothing /\ way' = way /\ doc' = doc
  <2>1. CASE Elsewhere
    BY <2>1, ElsewhereFrame DEF IInv
  <2>2. CASE Restart
    BY <2>2 DEF Restart
  <2>3. ASSUME NEW c \in Calls, Take(c) PROVE answer'[p] = answer[p]
    BY <2>3 DEF Take
  <2>4. ASSUME NEW c \in Calls, Continue(c)
        PROVE  \/ answer'[p] = answer[p]
               \/ SaidTruly(answer'[p], p) /\ answer[p] = Nothing /\ way' = way /\ doc' = doc
    <3>1. CASE p = call[c].preview
      BY <2>4, <3>1, Tells, ContinueFrame DEF IInv
    <3>2. CASE p # call[c].preview
      BY <2>4, <3>2, ContinueFrame DEF IInv
    <3>3. QED
      BY <3>1, <3>2
  <2>5. QED
    BY <2>1, <2>2, <2>3, <2>4, Kinds
<1>2. /\ DOMAIN doc = 1..Len(doc) /\ Len(doc) \in Nat
      /\ DOMAIN doc' = 1..Len(doc') /\ Len(doc') \in Nat /\ Len(doc) <= Len(doc')
      /\ \A i \in DOMAIN doc : doc'[i].from = doc[i].from /\ (doc'[i] = doc[i] \/ doc'[i].edited)
      /\ \A p \in Previews : preview'[p].contents = preview[p].contents
  <2>1. DocsGrow /\ PreviewsGrow /\ doc \in Seq(Doc)
    BY Frames DEF IInv, TypeOK
  <2>2. QED
    BY <2>1, LenProperties DEF DocsGrow, PreviewsGrow, PreviewGrows
<1>3. WayInv'
  <2>1. SUFFICES ASSUME NEW p \in way'
                 PROVE  /\ Replied(p)' /\ preview'[p].held /\ DocsOf(p)' = {}
                        /\ answer'[p].says \notin {"saved", "problem", "blocked", "refused", "http"}
    BY <2>1 DEF WayInv
  <2>2. CASE p \in way
    <3>1. /\ p \in Previews /\ Replied(p) /\ preview[p].held /\ DocsOf(p) = {}
          /\ answer[p].says \notin {"saved", "problem", "blocked", "refused", "http"}
      BY <2>2 DEF IInv, WayInv, TypeOK
    <3>2. Replied(p)' /\ preview'[p].held
      BY <3>1, Frames DEF PreviewsGrow, PreviewGrows, Replied
    <3>3. ~Store(p)
      BY <2>1 DEF Store, Replies
    <3>4. DocsOf(p)' = {}
      BY <3>1, <3>3, Frames
    <3>5. answer'[p].says \notin {"saved", "problem", "blocked", "refused", "http"}
      BY <1>1, <2>2, <3>1 DEF SaidTruly
    <3>6. QED
      BY <3>2, <3>4, <3>5
  <2>3. CASE p \notin way
    <3>1. PICK c \in Calls : Send(c) /\ call[c].preview = p
      <4>1. CASE Elsewhere
        BY <2>1, <2>3, <4>1, ElsewhereFrame DEF IInv
      <4>2. CASE Restart
        BY <2>1, <2>3, <4>2 DEF Restart
      <4>3. ASSUME NEW c \in Calls, Take(c) PROVE FALSE
        BY <2>1, <2>3, <4>3 DEF Take
      <4>4. ASSUME NEW c \in Calls, Continue(c) PROVE Send(c) /\ call[c].preview = p
        <5>1. Send(c)
          BY <2>1, <2>3, <4>4, ContinueFrame DEF IInv
        <5>2. QED
          BY <2>1, <2>3, <5>1 DEF Send
      <4>5. QED
        BY <4>1, <4>2, <4>3, <4>4, Kinds
    <3>2. CallInv(call[c], p) /\ call[c].pc \in {"send", "resend"}
      BY <3>1 DEF Send, IInv, CallsInv, Busy
    <3>3. /\ p \in Previews /\ Replied(p) /\ preview[p].held /\ DocsOf(p) = {} /\ answer[p] = Nothing
      BY <3>2 DEF CallInv
    <3>4. UNCHANGED <<preview, doc, answer>>
      BY <3>1 DEF Send
    <3>5. QED
      BY <3>3, <3>4 DEF Replied, DocsOf, Nothing
  <2>4. QED
    BY <2>2, <2>3
<1>4. AnswersInv'
  <2>1. SUFFICES ASSUME NEW p \in Previews
                 PROVE  /\ answer'[p].says \in {"matched", "saved"} => answer'[p].id \in DOMAIN doc'
                        /\ answer'[p].says = "notfound" => answer'[p].upto <= Len(doc')
    BY <2>1 DEF AnswersInv
  <2>3. CASE answer'[p] = answer[p]
    <3>1. answer[p].upto \in 0..MaxDocs
      BY DEF IInv, TypeOK, Said
    <3>2. QED
      BY <1>2, <2>3, <3>1, AssistantAssumption DEF IInv, AnswersInv
  <2>4. CASE SaidTruly(answer'[p], p) /\ doc' = doc
    BY <2>4 DEF SaidTruly
  <2>5. QED
    BY <1>1, <2>3, <2>4
<1>5. LookTells'
  <2>1. SUFFICES ASSUME NEW p \in Previews
                 PROVE  /\ answer'[p].says = "notfound" =>
                              \A i \in DOMAIN doc' :
                                 doc'[i].from = p /\ ~doc'[i].edited =>
                                    i > answer'[p].upto \/ i <= answer'[p].upto - Recent
                        /\ answer'[p].says \in {"matched", "saved"} =>
                              \/ doc'[answer'[p].id].edited
                              \/ doc'[answer'[p].id].contents = preview'[p].contents
    BY <2>1 DEF LookTells
  <2>2. CASE answer'[p] = answer[p]
    <3>1. answer[p].upto \in 0..MaxDocs
      BY DEF IInv, TypeOK, Said
    <3>2. answer[p].says = "notfound" => answer[p].upto <= Len(doc)
      BY DEF IInv, AnswersInv
    <3>3. ASSUME answer[p].says = "notfound", NEW i \in DOMAIN doc', doc'[i].from = p, ~doc'[i].edited
          PROVE  i > answer[p].upto \/ i <= answer[p].upto - Recent
      <4>1. CASE i \in DOMAIN doc
        BY <1>2, <3>3, <4>1 DEF IInv, LookTells
      <4>2. CASE i \notin DOMAIN doc
        BY <1>2, <3>1, <3>2, <3>3, <4>2, AssistantAssumption
      <4>3. QED
        BY <4>1, <4>2
    <3>4. ASSUME answer[p].says \in {"matched", "saved"}
          PROVE  \/ doc'[answer[p].id].edited
                 \/ doc'[answer[p].id].contents = preview'[p].contents
      <4>1. answer[p].id \in DOMAIN doc
        BY <3>4 DEF IInv, AnswersInv
      <4>2. doc[answer[p].id].edited \/ doc[answer[p].id].contents = preview[p].contents
        BY <3>4 DEF IInv, LookTells
      <4>3. QED
        BY <1>2, <4>1, <4>2
    <3>5. QED
      BY <2>2, <3>3, <3>4
  <2>3. CASE SaidTruly(answer'[p], p) /\ doc' = doc
    BY <1>2, <2>3 DEF SaidTruly
  <2>4. QED
    BY <1>1, <2>2, <2>3
<1>6. QED
  BY <1>3, <1>4, <1>5

-----------------------------------------------------------------------------
(* Types *)

LEMMA CallsTyped ==
    ASSUME IInv, [Next]_vars
    PROVE  /\ call' \in [Calls -> Call] /\ \A d \in Calls : Len(call'[d].ids) <= Recent
           /\ answer' \in [Previews -> Said]
<1> DEFINE Typed == /\ call' \in [Calls -> Call] /\ \A d \in Calls : Len(call'[d].ids) <= Recent
                    /\ answer' \in [Previews -> Said]
<1>1. TypeOK /\ answer \in [Previews -> Said] /\ 0 \in 0..MaxDocs
  BY AssistantAssumption DEF IInv, TypeOK
<1>2. ASSUME NEW c \in Calls, NEW r \in Call, Len(r.ids) <= Recent, Goes(c, r), UNCHANGED answer
      PROVE  Typed
  BY <1>1, <1>2, GoesType
<1>3. CASE Elsewhere
  BY <1>1, <1>3, ElsewhereFrame DEF TypeOK
<1>4. CASE Restart
  <2>1. call' = [c \in Calls |-> NoCall] /\ answer' = answer
    BY <1>4 DEF Restart
  <2>2. NoCall \in Call /\ Len(NoCall.ids) <= Recent
    BY AssistantAssumption DEF NoCall, Call
  <2>3. QED
    BY <1>1, <2>1, <2>2
<1>5. ASSUME NEW c \in Calls, Take(c) PROVE Typed
  <2>1. PICK p \in Previews : Goes(c, [NoCall EXCEPT !.pc = "recheck", !.preview = p])
    BY <1>5 DEF Take
  <2>2. /\ [NoCall EXCEPT !.pc = "recheck", !.preview = p] \in Call
        /\ Len([NoCall EXCEPT !.pc = "recheck", !.preview = p].ids) <= Recent
    BY <1>1, CallType DEF Call
  <2>3. QED
    BY <1>2, <1>5, <2>1, <2>2 DEF Take
<1>6. ASSUME NEW c \in Calls, Recheck(c) PROVE Typed
  <2>1. CASE Goes(c, At(c, "send")) /\ UNCHANGED answer
    BY <1>1, <1>2, <2>1, CallType
  <2>2. CASE Says(c, "blocked", 0)
    BY <1>1, <2>2, SaysType
  <2>3. QED
    BY <1>6, <2>1, <2>2 DEF Recheck
<1>7. ASSUME NEW c \in Calls, Send(c) PROVE Typed
  <2>1. Goes(c, At(c, "wait")) \/ Goes(c, At(c, "rewait"))
    BY <1>7 DEF Send
  <2>2. QED
    BY <1>1, <1>2, <1>7, <2>1, CallType DEF Send
<1>8. ASSUME NEW c \in Calls, Receive(c) PROVE Typed
  <2> DEFINE r == reply[call[c].preview]
             back == [At(c, "readback") EXCEPT !.id = r.id]
  <2>1. CASE r.kind = "stored" /\ Goes(c, back) /\ UNCHANGED answer
    <3>1. call[c].preview \in Previews
      BY <1>8, ContinueFrame, Tells DEF Continue
    <3>2. r.id \in 0..MaxDocs
      BY <1>1, <3>1 DEF TypeOK, Reply
    <3>3. back \in Call /\ back.ids = call[c].ids
      <4>1. At(c, "readback") \in Call /\ At(c, "readback").ids = call[c].ids
        BY <1>1, CallType
      <4>2. QED
        BY <3>2, <4>1 DEF Call
    <3>4. QED
      BY <1>1, <1>2, <2>1, <3>3, CallType
  <2>2. CASE Goes(c, At(c, "resend")) /\ UNCHANGED answer
    BY <1>1, <1>2, <2>2, CallType
  <2>3. CASE Says(c, "refused", 0)
    BY <1>1, <2>3, SaysType
  <2>4. QED
    BY <1>8, <2>1, <2>2, <2>3 DEF Receive
<1>9. ASSUME NEW c \in Calls, ReceiveCut(c) \/ Fail(c) PROVE Typed
  <2>1. Says(c, "http", 0) \/ Says(c, "failed", 0)
    BY <1>9 DEF ReceiveCut, Fail
  <2>2. QED
    BY <1>1, <2>1, SaysType
<1>10. ASSUME NEW c \in Calls, GiveUp(c) PROVE Typed
  BY <1>1, <1>2, <1>10, CallType DEF GiveUp
<1>11. ASSUME NEW c \in Calls, List(c) PROVE Typed
  <2> DEFINE r == [At(c, "look") EXCEPT !.ids = Newest(Len(doc)), !.upto = Len(doc)]
  <2>1. Len(doc) \in 0..MaxDocs
    BY LenProperties, AssistantAssumption DEF IInv, TypeOK, DocsBounded
  <2>2. Newest(Len(doc)) \in Seq(1..MaxDocs) /\ Len(Newest(Len(doc))) <= Recent
    BY <2>1, NewestType
  <2>3. At(c, "look") \in Call
    BY <1>1, CallType
  <2>4. r \in Call /\ r.ids = Newest(Len(doc))
    BY <2>1, <2>2, <2>3 DEF Call
  <2>5. QED
    BY <1>2, <1>11, <2>2, <2>4 DEF List
<1>12. ASSUME NEW c \in Calls, Look(c) PROVE Typed
  <2> DEFINE o == doc[call[c].ids[Len(call[c].seen) + 1]].contents
             r == [call[c] EXCEPT !.seen = Append(@, o)]
  <2>1. call[c] \in Call /\ Len(call[c].ids) <= Recent
    BY <1>1, CallType
  <2>2. o \in Contents
    <3>1. LookInv(call[c])
      BY <1>12 DEF Look, IInv, CallsInv, CallInv, Busy
    <3>2. call[c].seen \in Seq(Contents) /\ call[c].ids \in Seq(1..MaxDocs) /\ call[c].upto \in 0..MaxDocs
      BY <2>1 DEF Call
    <3> DEFINE k == Len(call[c].seen) + 1
    <3>3. k \in DOMAIN call[c].ids
      <4>1. Len(call[c].seen) \in Nat /\ k <= Len(call[c].ids)
        BY <1>12, <3>2, LenProperties DEF Look
      <4>2. QED
        BY <3>2, <4>1, LenProperties
    <3>4. call[c].ids[k] \in DOMAIN doc
      BY <1>1, <2>1, <3>1, <3>3, SeenThere
    <3>5. call[c].ids[k] \in 1..Len(doc)
      BY <1>1, <3>4, LenProperties DEF TypeOK
    <3>6. doc[call[c].ids[k]] \in Doc
      BY <1>1, <3>5, ElementOfSeq DEF TypeOK
    <3>7. QED
      BY <3>6 DEF Doc
  <2>3. Append(call[c].seen, o) \in Seq(Contents)
    BY <2>1, <2>2, AppendProperties DEF Call
  <2>4. r \in Call /\ r.ids = call[c].ids
    BY <2>1, <2>3 DEF Call
  <2>5. QED
    BY <1>2, <1>12, <2>1, <2>4 DEF Look
<1>13. ASSUME NEW c \in Calls, Decide(c) PROVE Typed
  <2>1. Says(c, "notfound", 0)
        \/ \E k \in DOMAIN call[c].seen : Says(c, "matched", call[c].ids[k])
    BY <1>13 DEF Decide
  <2>2. \A k \in DOMAIN call[c].seen : call[c].ids[k] \in 0..MaxDocs
    <3>1. call[c].seen \in Seq(Contents) /\ call[c].ids \in Seq(1..MaxDocs)
      BY <1>1, CallType DEF Call
    <3>2. Len(call[c].seen) = Len(call[c].ids)
      BY <1>13 DEF Decide
    <3>3. \A k \in DOMAIN call[c].seen : call[c].ids[k] \in 1..MaxDocs
      BY <3>1, <3>2, LenProperties, ElementOfSeq
    <3>4. QED
      BY <3>3, AssistantAssumption
  <2>3. QED
    BY <1>1, <2>1, <2>2, SaysType
<1>14. ASSUME NEW c \in Calls, ReadBack(c) PROVE Typed
  <2>1. call[c].id \in 0..MaxDocs
    BY <1>1, CallType DEF Call
  <2>2. Says(c, "saved", call[c].id) \/ Says(c, "problem", call[c].id)
    BY <1>14 DEF ReadBack
  <2>3. QED
    BY <1>1, <2>1, <2>2, SaysType
<1>15. QED
  BY <1>3, <1>4, <1>5, <1>6, <1>7, <1>8, <1>9, <1>10, <1>11, <1>12, <1>13, <1>14, Kinds
     DEF Continue

LEMMA TypeStep == ASSUME IInv, [Next]_vars PROVE TypeOK' /\ DocsBounded'
<1>1. TypeOK /\ Len(doc) \in Nat
  BY LenProperties DEF IInv, TypeOK
<1>2. item' \in [clean : BOOLEAN, details : Details]
  <2>1. CASE ChangeItem
    BY <2>1 DEF ChangeItem
  <2>2. ASSUME NEW c \in Calls, Take(c) \/ Continue(c) PROVE item' = item
    BY <1>1, <2>2, TakeFrame, ContinueFrame
  <2>3. ASSUME Restart PROVE item' = item
    BY <2>3 DEF Restart
  <2>4. ASSUME Elsewhere, ~ChangeItem PROVE item' = item
    BY <2>4 DEF Elsewhere, ReadItems, Offer, Expire, Store, Refuse, UserReplies, StoreOther,
                EditDoc, vars
  <2>5. QED
    BY <1>1, <2>1, <2>2, <2>3, <2>4, Kinds DEF TypeOK
<1>3. way' \subseteq Previews /\ reply' \in [Previews -> Reply]
  <2>1. ASSUME NEW p \in Previews, Store(p) \/ Refuse(p)
        PROVE  way' \subseteq Previews /\ reply' \in [Previews -> Reply]
    <3>1. PICK kind \in {"stored", "refused", "rejected"}, id \in 0..MaxDocs : Replies(p, kind, id)
      BY <1>1, <2>1, AssistantAssumption DEF Store, Refuse
    <3>2. [kind |-> kind, id |-> id] \in Reply /\ NoReply \in Reply
      BY AssistantAssumption DEF Reply, NoReply
    <3>3. QED
      BY <1>1, <3>1, <3>2 DEF Replies, TypeOK
  <2>2. ASSUME Elsewhere, ~\E p \in Previews : Store(p) \/ Refuse(p) PROVE UNCHANGED <<way, reply>>
    BY <2>2 DEF Elsewhere, ReadItems, Offer, Expire, UserReplies, ChangeItem, StoreOther, EditDoc,
                vars
  <2>3. CASE Restart
    <3>1. NoReply \in Reply
      BY AssistantAssumption DEF Reply, NoReply
    <3>2. QED
      BY <1>1, <2>3, <3>1 DEF Restart, TypeOK
  <2>4. ASSUME NEW c \in Calls, Take(c) PROVE UNCHANGED <<way, reply>>
    BY <2>4 DEF Take
  <2>5. ASSUME NEW c \in Calls, Continue(c)
        PROVE  way' \subseteq Previews /\ reply' \in [Previews -> Reply]
    <3>1. call[c].preview \in Previews
      BY <2>5, Tells
    <3>2. way' = way \/ way' = way \cup {call[c].preview}
      BY <1>1, <2>5, ContinueFrame DEF Send
    <3>3. reply' = reply \/ StopsWaiting(c)
      BY <2>5 DEF Continue, Recheck, Send, Receive, ReceiveCut, GiveUp, List, Look, Decide,
                  ReadBack, Fail
    <3>4. NoReply \in Reply
      BY AssistantAssumption DEF Reply, NoReply
    <3>5. QED
      BY <1>1, <3>1, <3>2, <3>3, <3>4 DEF TypeOK, StopsWaiting
  <2>6. QED
    BY <1>1, <2>1, <2>2, <2>3, <2>4, <2>5, Kinds DEF TypeOK
<1>4. DocsBounded' /\ doc' \in Seq(Doc)
  BY Frames, AssistantAssumption DEF DocsBounded, DocsGrow
<1>5. QED
  BY <1>2, <1>3, <1>4, CallsTyped, Frames DEF TypeOK, PreviewsGrow

-----------------------------------------------------------------------------
(* What a call knows *)

\* What a call knows stays so while others act: nobody else has its preview.
LEMMA Others ==
    ASSUME IInv, [Next]_vars, NEW c \in Calls, Busy(c), call'[c] = call[c],
           answer'[call[c].preview] = answer[call[c].preview],
           call[c].preview \in way' => call[c].preview \in way,
           \/ reply'[call[c].preview] = reply[call[c].preview]
           \/ Store(call[c].preview) \/ Refuse(call[c].preview)
    PROVE  CallInv(call[c], call[c].preview)'
<1> DEFINE p == call[c].preview
<1>1. CallInv(call[c], p) /\ p \in Previews
  BY DEF IInv, CallsInv, CallInv
<1>2. Replied(p)' /\ (preview[p].held => preview'[p].held)
  BY <1>1, Frames DEF PreviewsGrow, PreviewGrows, CallInv, Replied
<1>3. p \notin way => DocsOf(p)' = DocsOf(p) /\ p \notin way'
  BY <1>1, Frames
<1>4. call[c].pc \in {"wait", "rewait"} => ReplyInv(p)'
  <2>1. SUFFICES ASSUME call[c].pc \in {"wait", "rewait"} PROVE ReplyInv(p)'
    OBVIOUS
  <2>2. ReplyInv(p) /\ Waiting(c)
    BY <1>1, <2>1 DEF CallInv, Waiting
  <2>3. CASE Store(p)
    <3> DEFINE d == [contents |-> preview[p].contents, from |-> p, edited |-> FALSE]
    <3>1. p \in way /\ p \notin way' /\ DocsOf(p) = {}
      BY <2>3 DEF Store, Replies, IInv, WayInv
    <3>2. reply'[p] = [kind |-> "stored", id |-> Len(doc) + 1]
      BY <1>1, <2>2, <2>3 DEF Store, Replies, IInv, TypeOK
    <3>3. d \in Doc /\ NewDoc(d) /\ Len(doc) < MaxDocs /\ d.from = p
      BY <1>1, <2>3 DEF Store, NewDoc, IInv, TypeOK, Preview, Doc
    <3>4. DOMAIN doc' = DOMAIN doc \cup {Len(doc) + 1} /\ doc'[Len(doc) + 1].from = p
      BY <3>3, AppendGrows DEF IInv
    <3>5. Len(doc) + 1 \in DocsOf(p)'
      BY <3>4 DEF DocsOf
    <3>6. QED
      BY <3>1, <3>2, <3>5 DEF ReplyInv
  <2>4. CASE Refuse(p)
    <3>1. p \in way /\ p \notin way' /\ DocsOf(p) = {} /\ doc' = doc
      BY <2>4 DEF Refuse, Replies, IInv, WayInv
    <3>2. reply'[p].kind \in {"refused", "rejected"}
      <4>1. PICK kind \in {"refused", "rejected"} : Replies(p, kind, 0)
        BY <2>4 DEF Refuse
      <4>2. reply'[p] = [kind |-> kind, id |-> 0]
        BY <1>1, <2>2, <4>1 DEF Replies, IInv, TypeOK
      <4>3. QED
        BY <4>2
    <3>3. DocsOf(p)' = {}
      BY <3>1 DEF DocsOf
    <3>4. QED
      BY <3>1, <3>2, <3>3 DEF ReplyInv
  <2>5. CASE reply'[p] = reply[p] /\ ~Store(p)
    <3>1. DocsOf(p)' = DocsOf(p)
      BY <1>1, <2>5, Frames
    <3>2. QED
      BY <2>2, <2>5, <3>1 DEF ReplyInv
  <2>6. QED
    BY <2>3, <2>4, <2>5
<1>5. call[c].pc = "look" => LookInv(call[c])'
  <2>1. SUFFICES ASSUME call[c].pc = "look" PROVE LookInv(call[c])'
    OBVIOUS
  <2> DEFINE r == call[c]
  <2>2. LookInv(r) /\ r \in Call
    BY <1>1, <2>1 DEF CallInv, IInv, TypeOK
  <2>3. r.upto <= Len(doc')
    <3>1. r.upto \in Nat /\ Len(doc) \in Nat /\ Len(doc) <= Len(doc') /\ Len(doc') \in Nat
      BY <2>2, Frames, LenProperties, AssistantAssumption DEF IInv, TypeOK, Call, DocsGrow
    <3>2. QED
      BY <2>2, <3>1 DEF LookInv
  <2>4. ASSUME NEW k \in DOMAIN r.seen
        PROVE  doc'[r.ids[k]].edited \/ doc'[r.ids[k]].contents = r.seen[k]
    <3>1. doc[r.ids[k]].edited \/ doc[r.ids[k]].contents = r.seen[k]
      BY <2>2 DEF LookInv
    <3>2. r.ids[k] \in DOMAIN doc
      BY <2>2, <2>4, SeenThere DEF IInv
    <3>3. QED
      BY <3>1, <3>2, Frames DEF DocsGrow
  <2>5. QED
    BY <2>2, <2>3, <2>4 DEF LookInv
<1>6. QED
  BY <1>1, <1>2, <1>3, <1>4, <1>5 DEF CallInv

\* What a call knows after a step of its own.
LEMMA Own ==
    ASSUME IInv, [Next]_vars, NEW c \in Calls, Continue(c), Busy(c)'
    PROVE  CallInv(call[c], call[c].preview)'
<1> DEFINE p == call[c].preview
           r == call'[c]
<1>1. /\ UNCHANGED <<item, preview, doc, answer>> /\ Busy(c) /\ r.preview = p
      /\ r # NoCall /\ r.pc # "idle"
  BY ContinueFrame DEF IInv, Busy, NoCall
<1>2. /\ p \in Previews /\ Replied(p) /\ answer[p] = Nothing /\ CallInv(call[c], p)
      /\ call[c] \in Call
  BY <1>1 DEF IInv, CallsInv, CallInv, TypeOK
<1>3. Replied(p)' /\ DocsOf(p)' = DocsOf(p) /\ answer'[p] = Nothing
  BY <1>1, <1>2 DEF Replied, DocsOf
<1>4. \A x : Goes(c, x) => r = x
  BY DEF Goes, IInv, TypeOK
<1>5. ASSUME NEW what, NEW id, Says(c, what, id) PROVE FALSE
  BY <1>1, <1>5 DEF Says, Goes, IInv, TypeOK
<1>6. \A pc : /\ At(c, pc).pc = pc /\ At(c, pc).seen = call[c].seen
              /\ At(c, pc).upto = call[c].upto /\ At(c, pc).ids = call[c].ids
  BY <1>2 DEF At, Call
<1> SUFFICES /\ r.pc # "recheck" => preview[p].held
             /\ r.pc \in {"recheck", "send", "resend"} => p \notin way' /\ DocsOf(p) = {}
             /\ r.pc \in {"wait", "rewait"} => ReplyInv(p)'
             /\ r.pc = "readback" => p \notin way' /\ r.id \in DocsOf(p)
             /\ IF r.pc = "look" THEN LookInv(call[c])' ELSE r.seen = <<>> /\ r.upto = 0
  BY <1>1, <1>2, <1>3 DEF CallInv
<1>7. CASE Recheck(c)
  <2>1. call[c].pc = "recheck" /\ StillTrue(p) /\ r = At(c, "send") /\ way' = way
    BY <1>4, <1>5, <1>7 DEF Recheck
  <2>2. preview[p].held
    BY <1>2, <2>1 DEF StillTrue, IInv, HeldKnows
  <2>3. r.pc = "send" /\ r.seen = <<>> /\ r.upto = 0 /\ p \notin way /\ DocsOf(p) = {}
    BY <1>2, <1>6, <2>1 DEF CallInv
  <2>4. QED
    BY <2>1, <2>2, <2>3
<1>8. CASE Send(c)
  <2>1. call[c].pc \in {"send", "resend"} /\ reply' = reply
    BY <1>8 DEF Send
  <2>2. r = At(c, "wait") \/ r = At(c, "rewait")
    BY <1>4, <1>8 DEF Send
  <2>3. reply[p] = NoReply
    <3>1. \A d \in Calls : ~(Waiting(d) /\ call[d].preview = p)
      <4>1. ~Waiting(c)
        BY <2>1 DEF Waiting
      <4>2. QED
        BY <1>1, <4>1 DEF IInv, OneCall, Waiting, Busy
    <3>2. QED
      BY <1>2, <3>1 DEF IInv, Awaited
  <2>4. preview[p].held /\ DocsOf(p) = {} /\ call[c].seen = <<>> /\ call[c].upto = 0
    BY <1>2, <2>1 DEF CallInv
  <2>5. ReplyInv(p)'
    BY <1>1, <1>3, <2>1, <2>3, <2>4 DEF ReplyInv, NoReply
  <2>6. r.pc \in {"wait", "rewait"} /\ r.seen = <<>> /\ r.upto = 0
    BY <1>6, <2>2, <2>4
  <2>7. QED
    BY <2>4, <2>5, <2>6
<1>9. CASE Receive(c)
  <2>1. Waiting(c) /\ way' = way
    BY <1>9 DEF Receive
  <2>2. preview[p].held /\ ReplyInv(p) /\ call[c].seen = <<>> /\ call[c].upto = 0
    BY <1>2, <2>1 DEF CallInv, Waiting
  <2>3. CASE reply[p].kind = "stored" /\ Goes(c, [At(c, "readback") EXCEPT !.id = reply[p].id])
    <3>1. r = [At(c, "readback") EXCEPT !.id = reply[p].id]
      BY <1>4, <2>3
    <3>2. /\ r.pc = "readback" /\ r.id = reply[p].id /\ r.seen = call[c].seen
          /\ r.upto = call[c].upto
      BY <1>2, <3>1 DEF At, Call
    <3>3. QED
      BY <2>1, <2>2, <2>3, <3>2 DEF ReplyInv
  <2>4. CASE reply[p].kind = "rejected" /\ Goes(c, At(c, "resend"))
    <3>1. r.pc = "resend" /\ r.seen = <<>> /\ r.upto = 0
      BY <1>4, <1>6, <2>2, <2>4
    <3>2. QED
      BY <2>1, <2>2, <2>4, <3>1 DEF ReplyInv
  <2>5. QED
    BY <1>5, <1>9, <2>3, <2>4 DEF Receive
<1>10. CASE GiveUp(c)
  <2>1. Waiting(c) /\ r = At(c, "list")
    BY <1>4, <1>10 DEF GiveUp
  <2>2. preview[p].held /\ call[c].seen = <<>> /\ call[c].upto = 0
    BY <1>2, <2>1 DEF CallInv, Waiting
  <2>3. r.pc = "list" /\ r.seen = <<>> /\ r.upto = 0
    BY <1>6, <2>1, <2>2
  <2>4. QED
    BY <2>2, <2>3
<1>11. CASE List(c)
  <2>1. /\ call[c].pc = "list"
        /\ r = [At(c, "look") EXCEPT !.ids = Newest(Len(doc)), !.upto = Len(doc)]
    BY <1>4, <1>11 DEF List
  <2>2. preview[p].held /\ call[c].seen = <<>>
    BY <1>2, <2>1 DEF CallInv
  <2>3. r.pc = "look" /\ r.ids = Newest(Len(doc)) /\ r.upto = Len(doc) /\ r.seen = <<>>
    BY <1>2, <2>1, <2>2 DEF At, Call
  <2>4. Len(doc) \in 0..MaxDocs
    BY LenProperties, AssistantAssumption DEF IInv, TypeOK, DocsBounded
  <2>5. Len(Newest(Len(doc))) \in Nat
    BY <2>4, NewestType
  <2>6. LookInv(call[c])'
    BY <1>1, <2>3, <2>4, <2>5, AssistantAssumption DEF LookInv
  <2>7. QED
    BY <2>2, <2>3, <2>6
<1>12. CASE Look(c)
  <2> DEFINE k == Len(call[c].seen) + 1
             o == doc[call[c].ids[k]].contents
  <2>1. /\ call[c].pc = "look" /\ k <= Len(call[c].ids)
        /\ r = [call[c] EXCEPT !.seen = Append(@, o)]
    BY <1>4, <1>12 DEF Look
  <2>2. preview[p].held /\ LookInv(call[c])
    BY <1>2, <2>1 DEF CallInv
  <2>3. /\ r.pc = "look" /\ r.ids = call[c].ids /\ r.upto = call[c].upto
        /\ r.seen = Append(call[c].seen, o)
    BY <1>2, <2>1 DEF Call
  <2>4. call[c].seen \in Seq(Contents) /\ call'[c] \in Call
    BY <1>2, CallsTyped DEF Call
  <2>5. r.seen \in Seq(Contents)
    BY <2>4 DEF Call
  <2>6. /\ Len(r.seen) = k /\ DOMAIN r.seen = 1..k /\ k \in Nat
        /\ r.seen[k] = o /\ \A j \in 1..Len(call[c].seen) : r.seen[j] = call[c].seen[j]
        /\ Len(call[c].seen) \in Nat /\ DOMAIN call[c].seen = 1..Len(call[c].seen)
    <3>1. o \in Contents
      <4>1. doc[call[c].ids[k]] \in Doc
        <5>1. k \in 1..Len(call[c].ids) /\ 1..Len(call[c].ids) = DOMAIN call[c].ids
          BY <1>2, <2>1, <2>4, LenProperties DEF Call
        <5>2. call[c].ids[k] \in DOMAIN doc
          BY <1>2, <2>2, <5>1, SeenThere DEF IInv
        <5>3. doc \in Seq(Doc) /\ DOMAIN doc = 1..Len(doc)
          BY LenProperties DEF IInv, TypeOK
        <5>4. QED
          BY <5>2, <5>3, ElementOfSeq
      <4>2. QED
        BY <4>1 DEF Doc
    <3>2. /\ Len(r.seen) = k /\ r.seen[k] = o
          /\ \A j \in 1..Len(call[c].seen) : r.seen[j] = call[c].seen[j]
      BY <2>3, <2>4, <3>1, AppendProperties
    <3>3. QED
      BY <2>4, <2>5, <3>2, LenProperties
  <2>7. \A j \in DOMAIN r.seen : doc[r.ids[j]].edited \/ doc[r.ids[j]].contents = r.seen[j]
    <3>1. \A j \in DOMAIN call[c].seen :
             doc[call[c].ids[j]].edited \/ doc[call[c].ids[j]].contents = call[c].seen[j]
      BY <2>2 DEF LookInv
    <3>2. r.ids[k] = call[c].ids[k] /\ doc[r.ids[k]].contents = r.seen[k]
      BY <2>3, <2>6
    <3>3. \A j \in 1..k : j = k \/ j \in DOMAIN call[c].seen
      BY <2>6
    <3> HIDE DEF k, o
    <3>4. QED
      BY <2>3, <2>6, <3>1, <3>2, <3>3
  <2>8. LookInv(call[c])'
    <3>1. Len(r.seen) <= Len(r.ids)
      BY <2>1, <2>3, <2>6
    <3> HIDE DEF k, o
    <3>2. QED
      BY <1>1, <2>2, <2>3, <2>7, <3>1 DEF LookInv
  <2>9. QED
    BY <2>2, <2>3, <2>8
<1>13. CASE ReceiveCut(c) \/ Decide(c) \/ ReadBack(c) \/ Fail(c)
  BY <1>5, <1>13 DEF ReceiveCut, Decide, ReadBack, Fail
<1>14. QED
  BY <1>7, <1>8, <1>9, <1>10, <1>11, <1>12, <1>13 DEF Continue

LEMMA CallsStep == ASSUME IInv, [Next]_vars PROVE CallsInv'
<1>1. SUFFICES ASSUME NEW c \in Calls, Busy(c)'
               PROVE  CallInv(call[c], call[c].preview)'
  BY <1>1 DEF CallsInv
<1>2. CASE Elsewhere
  <2>1. /\ call' = call /\ answer' = answer /\ way' \subseteq way /\ Busy(c)
        /\ \A p \in Previews : reply'[p] = reply[p] \/ Store(p) \/ Refuse(p)
    BY <1>1, <1>2, ElsewhereFrame DEF IInv, Busy
  <2>2. call[c].preview \in Previews
    BY <2>1 DEF IInv, CallsInv, CallInv
  <2>3. QED
    BY <2>1, <2>2, Others
<1>3. CASE Restart
  BY <1>1, <1>3 DEF Restart, Busy, NoCall
<1>4. ASSUME NEW d \in Calls, Take(d), d # c PROVE CallInv(call[c], call[c].preview)'
  BY <1>1, <1>4, TakeFrame, Others DEF IInv, Busy
<1>5. ASSUME Take(c) PROVE CallInv(call[c], call[c].preview)'
  <2>1. PICK p \in Previews :
            /\ call'[c] = [NoCall EXCEPT !.pc = "recheck", !.preview = p]
            /\ preview[p].state = "open" /\ Replied(p)
    BY <1>5, TakeFrame DEF IInv
  <2>2. p \notin way /\ DocsOf(p) = {} /\ answer[p] = Nothing
    BY <2>1 DEF IInv, Untouched
  <2>3. UNCHANGED <<way, doc, answer>>
    BY <1>5 DEF Take
  <2>4. Replied(p)'
    BY <2>1, Frames DEF PreviewsGrow, PreviewGrows, Replied
  <2>5. /\ call'[c].pc = "recheck" /\ call'[c].preview = p /\ call'[c].seen = <<>>
        /\ call'[c].upto = 0
    BY <2>1 DEF NoCall
  <2>6. DocsOf(p)' = {}
    BY <2>2, <2>3 DEF DocsOf
  <2>7. QED
    BY <2>1, <2>2, <2>3, <2>4, <2>5, <2>6 DEF CallInv
<1>6. ASSUME NEW d \in Calls, Continue(d), d # c PROVE CallInv(call[c], call[c].preview)'
  <2>1. /\ Busy(d) /\ call'[c] = call[c] /\ Busy(c)
        /\ \A q \in Previews : q # call[d].preview =>
              answer'[q] = answer[q] /\ reply'[q] = reply[q] /\ (q \in way' => q \in way)
    BY <1>1, <1>6, ContinueFrame DEF IInv, Busy
  <2>2. call[c].preview # call[d].preview /\ call[c].preview \in Previews
    BY <1>6, <2>1 DEF IInv, OneCall, CallsInv, CallInv
  <2>3. QED
    BY <2>1, <2>2, Others
<1>7. ASSUME Continue(c) PROVE CallInv(call[c], call[c].preview)'
  BY <1>1, <1>7, Own
<1>8. QED
  BY <1>2, <1>3, <1>4, <1>5, <1>6, <1>7, Kinds

-----------------------------------------------------------------------------
(* The theorems *)

LEMMA InitIInv == ASSUME Init PROVE IInv
<1>1. item = [clean |-> TRUE, details |-> CHOOSE d \in Details : TRUE]
      /\ (CHOOSE d \in Details : TRUE) \in Details
  BY AssistantAssumption DEF Init
<1>2. preview \in [Previews -> [state : {"unmade"}, session : Sessions, contents : Contents,
                                details : {item.details}, replies : {{}}, held : {FALSE}]]
  BY DEF Init
<1>3. \A p \in Previews : /\ preview[p] \in Preview /\ preview[p].state = "unmade"
                          /\ preview[p].replies = {}
  BY <1>1, <1>2 DEF Preview
<1>4. /\ call = [c \in Calls |-> NoCall] /\ way = {} /\ reply = [p \in Previews |-> NoReply]
      /\ doc = <<>> /\ answer = [p \in Previews |-> Nothing]
  BY DEF Init
<1>5. NoCall \in Call /\ NoCall.ids = <<>> /\ NoCall.pc = "idle"
  BY AssistantAssumption DEF NoCall, Call
<1>6. NoReply \in Reply /\ Nothing \in Said /\ Nothing.says = "none"
  BY AssistantAssumption DEF NoReply, Reply, Nothing, Said
<1>7. TypeOK
  <2>1. preview \in [Previews -> Preview]
    BY <1>2, <1>3
  <2>2. item \in [clean : BOOLEAN, details : Details]
    BY <1>1
  <2>3. QED
    BY <1>4, <1>5, <1>6, <2>1, <2>2, AssistantAssumption DEF TypeOK
<1>8. Len(doc) = 0 /\ DOMAIN doc = {}
  BY <1>4
<1>9. \A c \in Calls : ~Busy(c)
  BY <1>4, <1>5 DEF Busy
<1>10. \A p \in Previews : DocsOf(p) = {} /\ answer[p] = Nothing /\ reply[p] = NoReply
  BY <1>4, <1>8 DEF DocsOf
<1>11. Untouched /\ Unreplied /\ HeldKnows
  BY <1>3, <1>4, <1>9, <1>10 DEF Untouched, Unreplied, HeldKnows, Replied
<1>12. OneCall /\ Awaited /\ WayInv /\ CallsInv
  BY <1>4, <1>9, <1>10 DEF OneCall, Awaited, WayInv, CallsInv
<1>13. DocsBounded /\ Once /\ AsSent
  BY <1>8, AssistantAssumption DEF DocsBounded, Once, AsSent
<1>14. AnswersInv /\ LookTells
  BY <1>6, <1>10 DEF AnswersInv, LookTells
<1>15. QED
  BY <1>7, <1>11, <1>12, <1>13, <1>14 DEF IInv

LEMMA NextIInv == ASSUME IInv, [Next]_vars PROVE IInv'
  BY TypeStep, UntouchedStep, UnrepliedStep, OneCallStep, AwaitedStep, AnswersStep, OnceStep,
     CallsStep, Frames DEF IInv

\* What the calls know, of what is under way, what is stored and what was said, in
\* every reachable state (orders.ts, guard.ts).
THEOREM Invariant == Spec => []IInv
<1>1. Init => IInv
  BY InitIInv
<1>2. IInv /\ [Next]_vars => IInv'
  BY NextIInv
<1>3. QED
  BY <1>1, <1>2, PTL DEF Spec

\* Every variable keeps its shape; a look after a lost reply is short.
THEOREM TypeCorrect == Spec => []TypeOK
<1>1. IInv => TypeOK
  BY DEF IInv
<1>2. QED
  BY <1>1, Invariant, PTL

\* "No matching PO was found" is not said of an order that was there before the look
\* began, among the latest and as it was sent; and what is said to be it holds, or
\* held, what was sent (orders.ts, the search after an ambiguous outcome).
THEOREM LooksTell == Spec => []LookTells
<1>1. IInv => LookTells
  BY DEF IInv
<1>2. QED
  BY <1>1, Invariant, PTL

-----------------------------------------------------------------------------
(* The calls implement Errands *)

Confirmed == {p \in Previews : Replied(p) /\ preview[p].held}
Stored == [p \in Previews |-> Cardinality(DocsOf(p))]
AlikeOnes == {p \in Previews : Alike(p)}
Claim(a) ==
    CASE a.says = "none" -> "none"
      [] a.says \in {"saved", "problem"} -> "saved"
      [] a.says \in {"blocked", "refused"} -> "notSaved"
      [] a.says = "matched" -> "treat"
      [] a.says = "http" -> "refused200"
      [] a.says \in {"failed", "notfound"} -> "unknown"
Claims == [p \in Previews |-> Claim(answer[p])]

LEMMA ClaimOf ==
    ASSUME NEW a \in Said
    PROVE  /\ Claim(a) = "none" \/ Claim(a) \in Errand!Answers
           /\ Claim(a) = "none" <=> a.says = "none"
           /\ Claim(a) = "saved" <=> a.says \in {"saved", "problem"}
           /\ Claim(a) = "notSaved" <=> a.says \in {"blocked", "refused"}
           /\ Claim(a) = "treat" <=> a.says = "matched"
           /\ Claim(a) = "refused200" <=> a.says = "http"
<1>1. CASE a.says = "none"
  BY <1>1 DEF Claim
<1>2. CASE a.says \in {"saved", "problem"}
  BY <1>2 DEF Claim, Errand!Answers
<1>3. CASE a.says \in {"blocked", "refused"}
  BY <1>3 DEF Claim, Errand!Answers
<1>4. CASE a.says = "matched"
  BY <1>4 DEF Claim, Errand!Answers
<1>5. CASE a.says = "http"
  BY <1>5 DEF Claim, Errand!Answers
<1>6. CASE a.says \in {"failed", "notfound"}
  BY <1>6 DEF Claim, Errand!Answers
<1>7. QED
  BY <1>1, <1>2, <1>3, <1>4, <1>5, <1>6 DEF Said

LEMMA Counted ==
    ASSUME NEW p \in Previews
    PROVE  /\ DocsOf(p) = {} => Stored[p] = 0
           /\ (\E i : DocsOf(p) = {i}) => Stored[p] = 1
  BY FS_EmptySet, FS_Singleton DEF Stored

\* An order has the lines it has, or is edited, for ever; one that was stored for a
\* preview began with its lines.
LEMMA AlikeGrows == ASSUME IInv, [Next]_vars PROVE AlikeOnes \subseteq AlikeOnes'
<1>1. SUFFICES ASSUME NEW p \in Previews, Alike(p) PROVE Alike(p)'
  BY <1>1 DEF AlikeOnes
<1>2. PICK i \in DOMAIN doc : doc[i].edited \/ doc[i].contents = preview[p].contents
  BY <1>1 DEF Alike
<1>3. /\ i \in DOMAIN doc' /\ (doc'[i] = doc[i] \/ doc'[i].edited)
      /\ preview'[p].contents = preview[p].contents
  BY Frames DEF DocsGrow, PreviewsGrow, PreviewGrows
<1>4. QED
  BY <1>2, <1>3 DEF Alike

LEMMA StoredAlike == ASSUME IInv, NEW p \in Previews, DocsOf(p) # {} PROVE p \in AlikeOnes
<1>1. PICK i \in DOMAIN doc : doc[i].from = p
  BY DEF DocsOf
<1>2. doc[i].edited \/ doc[i].contents = preview[p].contents
  BY <1>1, OtherAssumption DEF IInv, AsSent
<1>3. QED
  BY <1>2 DEF Alike, AlikeOnes

\* A step that tells nothing and stores nothing for a preview confirms at most.
LEMMA Quiet ==
    ASSUME IInv, [Next]_vars, ~\E p \in Previews : Store(p), answer' = answer
    PROVE  Confirmed \subseteq Confirmed' /\ Confirmed' \subseteq Previews
           /\ AlikeOnes \subseteq AlikeOnes' /\ AlikeOnes' \subseteq Previews
           /\ Stored' = Stored /\ Claims' = Claims
<1>1. Confirmed \subseteq Confirmed' /\ Confirmed' \subseteq Previews
  BY Frames DEF Confirmed, Replied, PreviewsGrow, PreviewGrows
<1>2. Stored' = Stored
  BY Frames DEF Stored
<1>3. AlikeOnes \subseteq AlikeOnes' /\ AlikeOnes' \subseteq Previews
  BY AlikeGrows DEF AlikeOnes
<1>4. QED
  BY <1>1, <1>2, <1>3 DEF Claims

LEMMA StoreOnce ==
    ASSUME IInv, NEW p \in Previews, Store(p)
    PROVE  /\ p \in Confirmed /\ Stored[p] = 0
           /\ Claims[p] \notin {"notSaved", "saved", "refused200"}
           /\ Stored' = [Stored EXCEPT ![p] = 1] /\ AlikeOnes \cup {p} \subseteq AlikeOnes'
           /\ AlikeOnes' \subseteq Previews /\ Confirmed' = Confirmed /\ Claims' = Claims
<1> DEFINE d == [contents |-> preview[p].contents, from |-> p, edited |-> FALSE]
<1>1. /\ p \in way /\ Replied(p) /\ preview[p].held /\ DocsOf(p) = {}
      /\ answer[p].says \notin {"saved", "problem", "blocked", "refused", "http"}
  BY DEF Store, IInv, WayInv
<1>2. d \in Doc /\ NewDoc(d) /\ Len(doc) < MaxDocs /\ d.from = p
  BY DEF Store, NewDoc, IInv, TypeOK, Preview, Doc
<1>3. /\ DOMAIN doc' = DOMAIN doc \cup {Len(doc) + 1} /\ doc'[Len(doc) + 1].from = p
      /\ \A i \in DOMAIN doc : doc'[i] = doc[i]
  BY <1>2, AppendGrows DEF IInv
<1>4. DocsOf(p)' = {Len(doc) + 1} /\ \A q \in Previews : q # p => DocsOf(q)' = DocsOf(q)
  BY <1>1, <1>3 DEF DocsOf
<1>5. Stored'[p] = 1 /\ \A q \in Previews : q # p => Stored'[q] = Stored[q]
  BY <1>4, FS_Singleton DEF Stored
<1>6. Stored' = [Stored EXCEPT ![p] = 1]
  BY <1>5 DEF Stored
<1>7. Claims[p] \notin {"notSaved", "saved", "refused200"}
  BY <1>1, ClaimOf DEF Claims, IInv, TypeOK
<1>8. Confirmed' = Confirmed /\ Claims' = Claims
  BY DEF Store, Confirmed, Claims, Replied
<1>9. AlikeOnes \cup {p} \subseteq AlikeOnes' /\ AlikeOnes' \subseteq Previews
  <2>1. doc'[Len(doc) + 1] = d
    BY <1>2, AppendGrows DEF Store, IInv
  <2>2. p \in AlikeOnes'
    BY <1>3, <2>1 DEF Store, Alike, AlikeOnes
  <2>3. AlikeOnes \subseteq AlikeOnes'
    BY AlikeGrows DEF Next
  <2>4. QED
    BY <2>2, <2>3 DEF AlikeOnes
<1>10. QED
  BY <1>1, <1>6, <1>7, <1>8, <1>9, Counted DEF Confirmed

LEMMA AnswerOnce ==
    ASSUME IInv, NEW c \in Calls, Continue(c), Claims' # Claims
    PROVE  /\ Confirmed' = Confirmed /\ AlikeOnes' = AlikeOnes /\ Stored' = Stored
           /\ \E p \in Previews, says \in Errand!Answers :
                 /\ Claims[p] = "none"
                 /\ says \in {"saved", "refused200"} => Stored[p] = 1
                 /\ says = "notSaved" => Stored[p] = 0
                 /\ says \in {"saved", "treat"} => p \in AlikeOnes
                 /\ Claims' = [Claims EXCEPT ![p] = says]
<1> DEFINE p == call[c].preview
           says == Claim(answer'[p])
<1>1. UNCHANGED <<preview, doc>> /\ \A q \in Previews : q # p => answer'[q] = answer[q]
  BY ContinueFrame DEF IInv
<1>2. Confirmed' = Confirmed /\ AlikeOnes' = AlikeOnes /\ Stored' = Stored
  BY <1>1 DEF Confirmed, Stored, Replied, DocsOf, AlikeOnes, Alike
<1>3. p \in Previews /\ (answer'[p] = answer[p] \/ (SaidTruly(answer'[p], p) /\ answer[p] = Nothing))
  BY Tells
<1>0. answer'[p] \in Said /\ answer[p] \in Said
  BY <1>3, TypeStep DEF IInv, TypeOK, Next
<1>4. \A q \in Previews : Claims[q] = Claim(answer[q]) /\ Claims'[q] = Claim(answer'[q])
  BY DEF Claims
<1>5. Claims' = [Claims EXCEPT ![p] = says]
  BY <1>1, <1>3, <1>4 DEF Claims
<1>6. Claims'[p] # Claims[p]
  BY <1>1, <1>3, <1>4 DEF Claims
<1>7. SaidTruly(answer'[p], p) /\ Claims[p] = "none"
  BY <1>0, <1>3, <1>4, <1>6, ClaimOf DEF Nothing
<1>8. says \in Errand!Answers
  BY <1>0, <1>3, <1>4, <1>6, <1>7, ClaimOf
<1>9. says = "saved" => Stored[p] = 1
  <2>1. SUFFICES ASSUME says = "saved" PROVE Stored[p] = 1
    OBVIOUS
  <2>2. answer'[p].id \in DocsOf(p)
    BY <1>0, <1>7, <2>1, ClaimOf DEF SaidTruly
  <2>3. DocsOf(p) = {answer'[p].id}
    BY <1>3, <2>2, OtherAssumption DEF DocsOf, IInv, Once
  <2>4. QED
    BY <1>3, <2>3, Counted
<1>10. says = "notSaved" => Stored[p] = 0
  <2>1. SUFFICES ASSUME says = "notSaved" PROVE Stored[p] = 0
    OBVIOUS
  <2>2. DocsOf(p) = {}
    BY <1>0, <1>7, <2>1, ClaimOf DEF SaidTruly
  <2>3. QED
    BY <1>3, <2>2, Counted
<1>11. says = "refused200" => Stored[p] = 1
  <2>1. SUFFICES ASSUME says = "refused200" PROVE Stored[p] = 1
    OBVIOUS
  <2>2. PICK i : i \in DocsOf(p)
    BY <1>0, <1>7, <2>1, ClaimOf DEF SaidTruly
  <2>3. DocsOf(p) = {i}
    BY <1>3, <2>2, OtherAssumption DEF DocsOf, IInv, Once
  <2>4. QED
    BY <1>3, <2>3, Counted
<1>12. says \in {"saved", "treat"} => p \in AlikeOnes
  <2>1. CASE says = "saved"
    <3>1. DocsOf(p) # {}
      BY <1>0, <1>7, <2>1, ClaimOf DEF SaidTruly
    <3>2. QED
      BY <1>3, <3>1, StoredAlike
  <2>2. CASE says = "treat"
    <3>1. Alike(p)
      BY <1>0, <1>7, <2>2, ClaimOf DEF SaidTruly, Alike
    <3>2. QED
      BY <1>3, <3>1 DEF AlikeOnes
  <2>3. QED
    BY <2>1, <2>2
<1> HIDE DEF p, says
<1>13. QED
  BY <1>2, <1>3, <1>5, <1>7, <1>8, <1>9, <1>10, <1>11, <1>12

LEMMA ErrandInit == ASSUME Init PROVE Errand!Init
<1>1. IInv /\ \A p \in Previews : preview[p].replies = {} /\ answer[p] = Nothing /\ DocsOf(p) = {}
  <2>1. IInv
    BY InitIInv
  <2>2. \A p \in Previews : preview[p].replies = {}
    BY DEF Init
  <2>3. \A p \in Previews : answer[p] = Nothing
    BY DEF Init
  <2>4. DOMAIN doc = {}
    BY DEF Init
  <2>5. QED
    BY <2>1, <2>2, <2>3, <2>4 DEF DocsOf
<1>2. Confirmed = {} /\ AlikeOnes = {}
  <2>1. DOMAIN doc = {}
    BY DEF Init
  <2>2. QED
    BY <1>1, <2>1 DEF Confirmed, Replied, AlikeOnes, Alike
<1>3. Stored = [p \in Previews |-> 0]
  BY <1>1, FS_EmptySet DEF Stored
<1>4. Claims = [p \in Previews |-> "none"]
  BY <1>1 DEF Claims, Claim, Nothing
<1>5. QED
  BY <1>2, <1>3, <1>4 DEF Errand!Init, Confirmed, AlikeOnes, Stored, Claims, Claim, DocsOf

LEMMA ErrandStep ==
    ASSUME IInv, [Next]_vars
    PROVE  \/ Errand!Next
           \/ Confirmed' = Confirmed /\ AlikeOnes' = AlikeOnes /\ Stored' = Stored
              /\ Claims' = Claims
<1>1. ASSUME NEW p \in Previews, Store(p) PROVE Errand!Next
  <2>1. /\ \E q \in Confirmed :
              /\ Stored[q] = 0 /\ Claims[q] \notin {"notSaved", "saved", "refused200"}
              /\ Stored' = [Stored EXCEPT ![q] = 1]
              /\ AlikeOnes \cup {q} \subseteq AlikeOnes' /\ AlikeOnes' \subseteq Previews
        /\ UNCHANGED <<Confirmed, Claims>>
    BY <1>1, StoreOnce
  <2>2. Errand!Store
    BY <2>1 DEF Errand!Store, Confirmed, AlikeOnes, Stored, Claims, Claim, DocsOf
  <2>3. QED
    BY <2>2 DEF Errand!Next
<1>2. ASSUME answer' = answer, ~\E p \in Previews : Store(p) PROVE Errand!Next
  <2>1. /\ Confirmed \subseteq Confirmed' /\ Confirmed' \subseteq Previews
        /\ AlikeOnes \subseteq AlikeOnes' /\ AlikeOnes' \subseteq Previews
        /\ UNCHANGED <<Stored, Claims>>
    BY <1>2, Quiet
  <2>2. Errand!World
    BY <2>1 DEF Errand!World, Confirmed, AlikeOnes, Stored, Claims, Claim, DocsOf
  <2>3. QED
    BY <2>2 DEF Errand!Next
<1>3. ASSUME NEW c \in Calls, Continue(c), Claims' # Claims PROVE Errand!Next
  <2>1. /\ \E p \in Previews, says \in Errand!Answers :
              /\ Claims[p] = "none"
              /\ says \in {"saved", "refused200"} => Stored[p] = 1
              /\ says = "notSaved" => Stored[p] = 0
              /\ says \in {"saved", "treat"} => p \in AlikeOnes
              /\ Claims' = [Claims EXCEPT ![p] = says]
        /\ UNCHANGED <<Confirmed, AlikeOnes, Stored>>
    BY <1>3, AnswerOnce
  <2>2. Errand!Answer
    BY <2>1 DEF Errand!Answer, Confirmed, AlikeOnes, Stored, Claims, Claim, DocsOf
  <2>3. QED
    BY <2>2 DEF Errand!Next
<1>4. ASSUME NEW c \in Calls, Continue(c), Claims' = Claims
      PROVE  Confirmed' = Confirmed /\ AlikeOnes' = AlikeOnes /\ Stored' = Stored
  BY <1>4, ContinueFrame DEF IInv, Confirmed, AlikeOnes, Alike, Stored, Replied, DocsOf
<1>5. answer' = answer \/ \E c \in Calls : Continue(c)
  <2>1. CASE Elsewhere
    BY <2>1, ElsewhereFrame DEF IInv
  <2>2. CASE Restart
    BY <2>2 DEF Restart
  <2>3. ASSUME NEW c \in Calls, Take(c) PROVE answer' = answer
    BY <2>3 DEF Take
  <2>4. QED
    BY <2>1, <2>2, <2>3, Kinds
<1>6. QED
  BY <1>1, <1>2, <1>3, <1>4, <1>5

\* A preview is stored once at most, after a reply of the user and with details that
\* held since, whatever the network, the service and other calls do (guard.ts:1,
\* index.ts:347).  "Saved" and "not saved" are true and stay true; "treat it as saved"
\* may be about another's order; "Procura refused the PO: HTTP 200" is always false.
THEOREM ErrandsImplemented == Spec => ImplementsErrands
<1>1. Init => Errand!Init
  BY ErrandInit
<1>2. IInv /\ [Next]_vars => [Errand!Next]_(Errand!vars)
  <2>1. SUFFICES ASSUME IInv, [Next]_vars PROVE Errand!Next \/ Errand!vars' = Errand!vars
    OBVIOUS
  <2>2. CASE Errand!Next
    BY <2>2
  <2>3. CASE Confirmed' = Confirmed /\ AlikeOnes' = AlikeOnes /\ Stored' = Stored
             /\ Claims' = Claims
    BY <2>3 DEF Errand!vars, Confirmed, AlikeOnes, Stored, Claims, Claim, DocsOf
  <2>4. QED
    BY <2>1, <2>2, <2>3, ErrandStep
<1>3. QED
  BY <1>1, <1>2, Invariant, PTL DEF Spec, ImplementsErrands, Errand!Spec
=============================================================================
