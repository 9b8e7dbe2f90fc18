----------------------------- MODULE ChatProofs -----------------------------
(***************************************************************************)
(* Chat, proved for every number of documents, requests and messages and   *)
(* for every pipe, limit and word the tools write: what leaves the         *)
(* computer was confirmed, once and to the letter, and is on record; and   *)
(* of a provider that is a command line tool, no process outlives its run  *)
(* and no answer is shown that is not clean.                               *)
(***************************************************************************)
EXTENDS ChatConsent, CliCall, WellFoundedInduction, TLAPS

----------------------------------------------------------------------------
(* Types.                                                                  *)

SlotsTypeOK ==
  /\ slot \in [Slots -> Handler \cup {Free}]
  /\ \A s \in Slots :
       slot[s].stage \notin {"free", "records", "contexts"} =>
         DOMAIN slot[s].texts = slot[s].outgoing.docs

\* A handler that is not free has all its fields.
LEMMA Occupied ==
  ASSUME slot \in [Slots -> Handler \cup {Free}], NEW s \in Slots,
         slot[s].stage # "free"
  PROVE  slot[s] \in Handler
BY DEF Free

LEMMA NearTyped ==
  ASSUME NEW doc \in DocStates, NEW new \in Near(doc) PROVE new \in DocStates
<1>1. /\ doc.shown \in Texts \cup {NoText} /\ doc.shared \in Texts \cup {NoText}
      /\ doc.audited \subseteq Texts
  BY DEF DocStates
<1>2. /\ new = [phase |-> new.phase, shown |-> new.shown,
                shared |-> new.shared, audited |-> new.audited]
      /\ new.phase \in {"working", "review", "approved", "rejected", "failed", "gone"}
      /\ new.shown \in {doc.shown, doc.shared, NoText}
      /\ new.shared \in doc.audited \cup {doc.shared, NoText}
      /\ new.audited \in {doc.audited \cup heard : heard \in SUBSET Texts}
  BY DEF Near
<1>3. new.audited \subseteq Texts
  BY <1>1, <1>2
<1>4. QED
  BY <1>1, <1>2, <1>3 DEF DocStates

LEMMA RequestTyped ==
  ASSUME NEW kind \in {"ask", "consent", "inspect"}, NEW out \in Outgoing,
         NEW consent \in Nat, NEW hash \in Payloads \cup {NoHash}
  PROVE  Request(kind, out, consent, hash) \in Handler
<1>1. out.docs \subseteq Docs
  BY DEF Outgoing, Scopes
<1>2. << >> \in [{} -> Texts]
  OBVIOUS
<1>3. << >> \in UNION {[some -> Texts] : some \in SUBSET Docs}
  BY <1>2
<1>4. QED
  BY <1>1, <1>3 DEF Request, Handler, Stages

LEMMA PostTyped ==
  ASSUME ChatTypeOK,
         NEW kind \in {"ask", "consent", "inspect"}, NEW out \in Outgoing,
         NEW consent \in Nat, NEW hash \in Payloads \cup {NoHash},
         Post(kind, out, consent, hash)
  PROVE  SlotsTypeOK'
<1>1. PICK s \in Slots : slot' = [slot EXCEPT ![s] = Request(kind, out, consent, hash)]
  BY DEF Post
<1>2. Request(kind, out, consent, hash) \in Handler
  BY RequestTyped
<1>3. Request(kind, out, consent, hash).stage = "records"
  BY DEF Request
<1>4. QED
  BY <1>1, <1>2, <1>3 DEF ChatTypeOK, SlotsTypeOK

\* A step of one handler keeps the types if the new handler has them.
LEMMA SetTyped ==
  ASSUME ChatTypeOK, NEW s \in Slots, NEW handler \in Handler \cup {Free},
         handler.stage \notin {"free", "records", "contexts"} =>
           DOMAIN handler.texts = handler.outgoing.docs,
         Set(s, handler)
  PROVE  SlotsTypeOK'
BY DEF ChatTypeOK, SlotsTypeOK, Set

LEMMA ReplyTyped ==
  ASSUME ChatTypeOK, NEW s \in Slots, NEW after,
         after \in Tabs,
         Reply(s, after)
  PROVE  /\ SlotsTypeOK'
         /\ tab' \in Tabs
<1>1. SlotsTypeOK'
  BY SetTyped DEF Reply, Free
<1>2. /\ [after EXCEPT !.waiting = FALSE] \in Tabs
      /\ [after EXCEPT !.previewing = FALSE] \in Tabs
  BY DEF Tabs
<1>3. tab' \in {after, [after EXCEPT !.waiting = FALSE],
                [after EXCEPT !.previewing = FALSE]}
  BY DEF Reply
<1>4. QED
  BY <1>1, <1>2, <1>3

LEMMA PreparedTyped ==
  ASSUME ChatTypeOK, NEW s \in Slots,
         slot[s].stage \notin {"free", "records", "contexts"}
  PROVE  Prepared(s) \in Payloads
<1>1. slot[s] \in Handler /\ DOMAIN slot[s].texts = slot[s].outgoing.docs
  BY Occupied DEF ChatTypeOK
<1>2. /\ slot[s].outgoing \in Outgoing
      /\ slot[s].texts \in UNION {[some -> Texts] : some \in SUBSET Docs}
  BY <1>1 DEF Handler
<1>3. slot[s].outgoing.docs \in Scopes
  BY <1>2 DEF Outgoing
<1>4. slot[s].texts \in [slot[s].outgoing.docs -> Texts]
  BY <1>1, <1>2
<1>5. QED
  BY <1>2, <1>3, <1>4 DEF Prepared, Payload, Payloads

LEMMA EntryTyped ==
  ASSUME ChatTypeOK, NEW s \in Slots,
         slot[s].stage \notin {"free", "records", "contexts"}
  PROVE  Entry(s) \in Entries
<1>1. slot[s] \in Handler
  BY Occupied DEF ChatTypeOK
<1>2. QED
  BY <1>1, PreparedTyped DEF Entry, Entries, Handler

LEMMA WaitTyped ==
  ASSUME NEW t \in Tabs
  PROVE  /\ [t EXCEPT !.waiting = TRUE, !.messages = @ + 1] \in Tabs
         /\ [t EXCEPT !.pending = NoPreview, !.waiting = TRUE,
                      !.messages = @ + 1] \in Tabs
<1>1. t.messages + 1 \in Nat
  <2>1. t.messages \in Nat
    BY DEF Tabs
  <2>2. QED
    BY <2>1
<1>2. DEFINE n == t.messages + 1
<1>3. n \in Nat
  BY <1>1
<1>4. /\ [t EXCEPT !.waiting = TRUE, !.messages = @ + 1]
           = [t EXCEPT !.waiting = TRUE, !.messages = n]
      /\ [t EXCEPT !.pending = NoPreview, !.waiting = TRUE, !.messages = @ + 1]
           = [t EXCEPT !.pending = NoPreview, !.waiting = TRUE, !.messages = n]
  BY DEF Tabs
<1> HIDE DEF n
<1>5. NoPreview \in Previews
  BY DEF Previews
<1>6. QED
  BY <1>3, <1>4, <1>5 DEF Tabs

LEMMA OutgoingTyped ==
  ASSUME ChatTypeOK, NEW q \in Questions PROVE OutgoingFor(q) \in Outgoing
BY DEF ChatTypeOK, Tabs, OutgoingFor, Outgoing

LEMMA TypeInit == ASSUME Init PROVE ChatTypeOK
<1>1. \A t \in Texts : Approved(t) \in DocStates
  BY DEF Approved, DocStates
<1>2. docs \in [Docs -> DocStates]
  BY <1>1 DEF Init
<1>3. tab \in Tabs
  BY DEF Init, Previews, Tabs
<1>4. slot \in [Slots -> Handler \cup {Free}] /\ \A s \in Slots : slot[s].stage = "free"
  BY DEF Init, Free
<1>5. QED
  BY <1>2, <1>3, <1>4 DEF Init, ChatTypeOK

LEMMA TypeDocuments ==
  ASSUME ChatTypeOK, NEW d \in Docs, DocumentMoves(d) PROVE ChatTypeOK'
<1>1. PICK new \in Near(docs[d]) :
        /\ docs' = [docs EXCEPT ![d] = new]
        /\ slot' = [s \in Slots |->
             IF slot[s].stage # "free" /\ new.phase = "approved"
                  /\ d \in slot[s].outgoing.docs
               THEN [slot[s] EXCEPT !.since = @ \cup {d}] ELSE slot[s]]
  BY DEF DocumentMoves
<1>2. docs' \in [Docs -> DocStates]
  BY <1>1, NearTyped DEF ChatTypeOK
<1>3. \A s \in Slots : slot[s].stage # "free" =>
        [slot[s] EXCEPT !.since = @ \cup {d}] \in Handler
  BY Occupied DEF ChatTypeOK, Handler
<1>4. slot' \in [Slots -> Handler \cup {Free}]
  BY <1>1, <1>3 DEF ChatTypeOK
<1>5. \A s \in Slots :
        slot'[s].stage \notin {"free", "records", "contexts"} =>
          DOMAIN slot'[s].texts = slot'[s].outgoing.docs
  <2> SUFFICES ASSUME NEW s \in Slots,
                      slot'[s].stage \notin {"free", "records", "contexts"}
               PROVE  DOMAIN slot'[s].texts = slot'[s].outgoing.docs
    OBVIOUS
  <2>1. CASE slot'[s] = slot[s]
    BY <2>1 DEF ChatTypeOK
  <2>2. CASE /\ slot[s].stage # "free"
             /\ slot'[s] = [slot[s] EXCEPT !.since = @ \cup {d}]
    <3>1. slot[s] \in Handler
      BY <2>2, Occupied DEF ChatTypeOK
    <3>2. /\ slot'[s].stage = slot[s].stage /\ slot'[s].texts = slot[s].texts
          /\ slot'[s].outgoing = slot[s].outgoing
      BY <2>2, <3>1 DEF Handler
    <3>3. QED
      BY <3>2 DEF ChatTypeOK
  <2>3. QED
    BY <1>1, <2>1, <2>2
<1>6. changes' \in Nat /\ UNCHANGED <<tab, consents, dispatched, sent>>
  BY DEF DocumentMoves, ChatTypeOK
<1>7. QED
  BY <1>2, <1>4, <1>5, <1>6 DEF ChatTypeOK

LEMMA TypePanel == ASSUME ChatTypeOK, Panel PROVE ChatTypeOK'
<1>1. CASE Select
  <2>1. /\ tab' \in Tabs
        /\ UNCHANGED <<docs, changes, slot, consents, dispatched, sent>>
    BY <1>1 DEF Select, ChatTypeOK, Previews, Tabs
  <2>2. QED
    BY <2>1 DEF ChatTypeOK
<1>2. ASSUME NEW q \in Questions, Ask(q) PROVE ChatTypeOK'
  <2>1. SlotsTypeOK'
    <3>1. CASE Post("ask", OutgoingFor(q), 0, NoHash)
      BY <3>1, OutgoingTyped, PostTyped
    <3>2. CASE Post("consent", OutgoingFor(q), 0, NoHash)
      BY <3>2, OutgoingTyped, PostTyped
    <3>3. QED
      BY <1>2, <3>1, <3>2 DEF Ask
  <2>2. tab' \in Tabs
    <3>1. tab \in Tabs
      BY DEF ChatTypeOK
    <3>2. [tab EXCEPT !.previewing = TRUE] \in Tabs
      BY <3>1 DEF Tabs
    <3>3. [tab EXCEPT !.waiting = TRUE, !.messages = @ + 1] \in Tabs
      BY <3>1, WaitTyped
    <3>4. QED
      BY <1>2, <3>2, <3>3 DEF Ask
  <2>3. QED
    BY <1>2, <2>1, <2>2 DEF Ask, ChatTypeOK, SlotsTypeOK
<1>3. ASSUME NEW q \in Questions, Inspect(q) PROVE ChatTypeOK'
  <2>1. SlotsTypeOK'
    BY <1>3, OutgoingTyped, PostTyped DEF Inspect
  <2>2. tab' \in Tabs
    BY <1>3 DEF Inspect, ChatTypeOK, Tabs
  <2>3. QED
    BY <1>3, <2>1, <2>2 DEF Inspect, ChatTypeOK, SlotsTypeOK
<1>4. CASE Confirm
  <2>1. tab' \in Tabs
    <3>1. tab \in Tabs /\ NoPreview \in Previews
      BY DEF ChatTypeOK, Previews
    <3>2. [tab EXCEPT !.pending = NoPreview] \in Tabs
      BY <3>1 DEF Tabs
    <3>3. [tab EXCEPT !.pending = NoPreview, !.waiting = TRUE,
                      !.messages = @ + 1] \in Tabs
      BY <3>1, WaitTyped
    <3>4. QED
      BY <1>4, <3>2, <3>3 DEF Confirm, Deliver
  <2>2. tab.pending.payload \in Payloads /\ tab.pending.payload.outgoing \in Outgoing
    BY <1>4 DEF Confirm, ChatTypeOK, Previews, Payloads, Tabs
  <2>3. CASE Deliver(tab.pending.payload)
    <3>1. consents' \in Seq(Payloads) /\ Len(consents') \in Nat
      BY <2>2, <2>3 DEF Deliver, ChatTypeOK
    <3>2. SlotsTypeOK'
      BY <2>2, <2>3, <3>1, PostTyped DEF Deliver
    <3>3. QED
      BY <1>4, <2>1, <3>1, <3>2 DEF Confirm, ChatTypeOK, SlotsTypeOK
  <2>4. CASE UNCHANGED <<slot, consents>>
    BY <1>4, <2>1, <2>4 DEF Confirm, ChatTypeOK
  <2>5. QED
    BY <1>4, <2>3, <2>4 DEF Confirm
<1>5. CASE ClosePreview
  <2>1. tab' \in Tabs
    BY <1>5 DEF ClosePreview, ChatTypeOK, Previews, Tabs
  <2>2. QED
    BY <1>5, <2>1 DEF ClosePreview, ChatTypeOK
<1>6. CASE Leave
  <2>1. tab' \in Tabs
    BY <1>6 DEF Leave, ChatTypeOK, Previews, Tabs
  <2>2. \A s \in Slots :
          \/ slot'[s] = Free
          \/ /\ slot'[s] \in Handler /\ slot'[s].stage = slot[s].stage
             /\ slot'[s].texts = slot[s].texts /\ slot'[s].outgoing = slot[s].outgoing
    <3> SUFFICES ASSUME NEW s \in Slots, slot[s].stage # "free"
                 PROVE  LET new == [slot[s] EXCEPT !.heard = FALSE]
                        IN  /\ new \in Handler /\ new.stage = slot[s].stage
                            /\ new.texts = slot[s].texts
                            /\ new.outgoing = slot[s].outgoing
      BY <1>6 DEF Leave
    <3>1. slot[s] \in Handler
      BY Occupied DEF ChatTypeOK
    <3>2. QED
      BY <3>1 DEF Handler
  <2>3. slot' \in [Slots -> Handler \cup {Free}]
    <3>1. DOMAIN slot' = Slots /\ slot' = [s \in Slots |-> slot'[s]]
      BY <1>6 DEF Leave
    <3>2. QED
      BY <2>2, <3>1
  <2>4. SlotsTypeOK'
    <3> SUFFICES ASSUME NEW s \in Slots,
                        slot'[s].stage \notin {"free", "records", "contexts"}
                 PROVE  DOMAIN slot'[s].texts = slot'[s].outgoing.docs
      BY <2>3 DEF SlotsTypeOK
    <3>1. /\ slot'[s].stage = slot[s].stage /\ slot'[s].texts = slot[s].texts
          /\ slot'[s].outgoing = slot[s].outgoing
      BY <2>2 DEF Free
    <3>2. QED
      BY <3>1 DEF ChatTypeOK
  <2>5. QED
    BY <1>6, <2>1, <2>4 DEF Leave, ChatTypeOK, SlotsTypeOK
<1>7. QED
  BY <1>1, <1>2, <1>3, <1>4, <1>5, <1>6 DEF Panel

LEMMA TypeServer ==
  ASSUME ChatTypeOK, NEW s \in Slots, Server(s) PROVE ChatTypeOK'
<1> tab \in Tabs
  BY DEF ChatTypeOK
<1>1. CASE Fails(s)
  <2>1. SlotsTypeOK' /\ tab' \in Tabs
    BY <1>1, ReplyTyped DEF Fails
  <2>2. QED
    BY <1>1, <2>1 DEF Fails, ChatTypeOK, SlotsTypeOK
<1>2. CASE PreviewReturns(s)
  <2>1. [payload |-> Prepared(s), mode |-> slot[s].kind] \in Previews
    <3>1. slot[s] \in Handler
      BY <1>2, Occupied DEF PreviewReturns, ChatTypeOK
    <3>2. QED
      BY <1>2, <3>1, PreparedTyped DEF PreviewReturns, Handler, Previews
  <2>2. [tab EXCEPT !.pending = [payload |-> Prepared(s), mode |-> slot[s].kind]]
          \in Tabs
    BY <2>1 DEF Tabs
  <2>3. SlotsTypeOK' /\ tab' \in Tabs
    BY <1>2, <2>2, ReplyTyped DEF PreviewReturns
  <2>4. QED
    BY <1>2, <2>3 DEF PreviewReturns, ChatTypeOK, SlotsTypeOK
<1>3. CASE Answer(s)
  <2>1. [tab EXCEPT !.messages = @ + 1] \in Tabs
    BY DEF Tabs
  <2>2. SlotsTypeOK' /\ tab' \in Tabs
    BY <1>3, <2>1, ReplyTyped DEF Answer
  <2>3. QED
    BY <1>3, <2>2 DEF Answer, ChatTypeOK, SlotsTypeOK
<1>4. ASSUME slot[s].stage \notin {"free", "records", "contexts"},
             NEW to \in Stages, Set(s, Step(s, to))
      PROVE  SlotsTypeOK'
  <2>1. /\ slot[s] \in Handler
        /\ DOMAIN slot[s].texts = slot[s].outgoing.docs
    BY <1>4, Occupied DEF ChatTypeOK
  <2>2. /\ Step(s, to) \in Handler
        /\ Step(s, to).texts = slot[s].texts
        /\ Step(s, to).outgoing = slot[s].outgoing
    BY <2>1 DEF Step, Handler
  <2>3. QED
    BY <1>4, <2>1, <2>2, SetTyped
<1>5. CASE Consent(s)
  <2>1. Set(s, Step(s, "send")) \/ Set(s, Step(s, "record"))
    BY <1>5 DEF Consent
  <2>2. SlotsTypeOK'
    BY <1>4, <1>5, <2>1 DEF Consent, Stages
  <2>3. QED
    BY <1>5, <2>2 DEF Consent, ChatTypeOK, SlotsTypeOK
<1>6. CASE Record(s)
  <2>1. SlotsTypeOK'
    BY <1>4, <1>6 DEF Record, Stages
  <2>2. dispatched' \in Seq(Entries)
    <3>1. Entry(s) \in Entries /\ dispatched \in Seq(Entries)
      BY <1>6, EntryTyped DEF Record, ChatTypeOK
    <3>2. QED
      BY <1>6, <3>1 DEF Record
  <2>3. QED
    BY <1>6, <2>1, <2>2 DEF Record, ChatTypeOK, SlotsTypeOK
<1>7. CASE Send(s)
  <2>1. SlotsTypeOK'
    BY <1>4, <1>7 DEF Send, Stages
  <2>2. sent' \in Seq(Entries)
    <3>1. Entry(s) \in Entries /\ sent \in Seq(Entries)
      BY <1>7, EntryTyped DEF Send, ChatTypeOK
    <3>2. QED
      BY <1>7, <3>1 DEF Send
  <2>3. QED
    BY <1>7, <2>1, <2>2 DEF Send, ChatTypeOK, SlotsTypeOK
<1>8. ASSUME NEW d \in Docs, ReadRecord(s, d) PROVE ChatTypeOK'
  <2> DEFINE read == slot[s].read \cup {d}
             new == [slot[s] EXCEPT !.read = read,
                       !.stage = IF read = slot[s].outgoing.docs THEN "contexts"
                                 ELSE @]
  <2>1. slot[s] \in Handler /\ slot[s].stage = "records"
    BY <1>8, Occupied DEF ReadRecord, ChatTypeOK
  <2>2. new \in Handler /\ new.stage \in {"records", "contexts"}
    BY <2>1 DEF Handler, Stages
  <2>3. SlotsTypeOK'
    BY <1>8, <2>2, SetTyped DEF ReadRecord
  <2>4. QED
    BY <1>8, <2>3 DEF ReadRecord, ChatTypeOK, SlotsTypeOK
<1>9. ASSUME NEW d \in Docs, ReadContext(s, d) PROVE ChatTypeOK'
  <2> DEFINE texts == [e \in DOMAIN slot[s].texts \cup {d} |->
                        IF e = d THEN docs[d].shared ELSE slot[s].texts[e]]
             new == [slot[s] EXCEPT !.texts = texts,
                       !.stage = IF DOMAIN texts = slot[s].outgoing.docs
                                   THEN "prepared" ELSE @]
  <2>1. slot[s] \in Handler /\ slot[s].stage = "contexts"
    BY <1>9, Occupied DEF ReadContext, ChatTypeOK
  <2>2. docs[d].shared \in Texts
    BY <1>9 DEF ReadContext, ChatTypeOK, DocStates
  <2>3. PICK some \in SUBSET Docs : slot[s].texts \in [some -> Texts]
    BY <2>1 DEF Handler
  <2>4. texts \in [some \cup {d} -> Texts]
    BY <2>2, <2>3
  <2>5. texts \in UNION {[more -> Texts] : more \in SUBSET Docs}
    BY <2>4
  <2> HIDE DEF texts
  <2>6. new \in Handler
    BY <2>1, <2>5 DEF Handler, Stages
  <2>7. /\ new.texts = texts /\ new.outgoing = slot[s].outgoing
        /\ new.stage # "contexts" => DOMAIN texts = slot[s].outgoing.docs
    BY <2>1 DEF Handler
  <2>8. Set(s, new)
    BY <1>9 DEF ReadContext, texts
  <2> HIDE DEF new
  <2>9. SlotsTypeOK'
    BY <2>6, <2>7, <2>8, SetTyped
  <2>10. QED
    BY <1>9, <2>9 DEF ReadContext, ChatTypeOK, SlotsTypeOK
<1>10. QED
  BY <1>1, <1>2, <1>3, <1>5, <1>6, <1>7, <1>8, <1>9 DEF Server

LEMMA TypeStep == ASSUME ChatTypeOK, [Next]_vars PROVE ChatTypeOK'
<1>1. CASE UNCHANGED vars
  BY <1>1 DEF vars, ChatTypeOK
<1>2. CASE Next
  BY <1>2, TypePanel, TypeServer, TypeDocuments DEF Next
<1>3. QED
  BY <1>1, <1>2

THEOREM ChatTyped == Spec => []ChatTypeOK
BY TypeInit, TypeStep, PTL DEF Spec

----------------------------------------------------------------------------
(* The invariant.  Most steps leave consents, records and sends alone and   *)
(* move one request; what they do to the others is nothing.                 *)

\* A request of which the invariant sees no change: it may have been left by its
\* panel, and more of its documents may have been approved.
Kept(s) ==
  /\ slot'[s].stage = slot[s].stage /\ slot'[s].kind = slot[s].kind
  /\ slot'[s].outgoing = slot[s].outgoing /\ slot'[s].hash = slot[s].hash
  /\ slot'[s].consent = slot[s].consent /\ slot'[s].texts = slot[s].texts
  /\ slot'[s].read = slot[s].read /\ slot[s].since \subseteq slot'[s].since

LEMMA KeptInv ==
  ASSUME NEW s, RequestInv(s), Kept(s), UNCHANGED <<consents, dispatched, sent>>
  PROVE  RequestInv(s)' /\ (Leaves(s)' <=> Leaves(s))
<1>1. /\ Leaves(s)' <=> Leaves(s)
      /\ Passed(s)' <=> Passed(s)
      /\ CarriesConsent(s)' <=> CarriesConsent(s)
      /\ Prepared(s)' = Prepared(s)
      /\ Leaving' = Leaving
  BY DEF Kept, Leaves, Passed, CarriesConsent, Prepared, Payload, Leaving
<1>2. Entry(s)' = Entry(s)
  BY <1>1 DEF Kept, Entry
<1>3. QED
  BY <1>1, <1>2 DEF Kept, RequestInv

\* What is confirmed, recorded and sent stays; each request is kept or ends.
LEMMA Carried ==
  ASSUME ConsentInv, UNCHANGED <<consents, dispatched, sent>>,
         \A s \in Slots : slot'[s] = Free \/ slot'[s] = slot[s] \/ Kept(s)
  PROVE  ConsentInv'
<1>1. ASSUME NEW s \in Slots
      PROVE  RequestInv(s)' /\ (Leaves(s)' => Leaves(s)
                                  /\ slot'[s].consent = slot[s].consent)
  <2>1. CASE slot'[s] = Free
    BY <2>1 DEF Free, RequestInv, Leaves, Passed
  <2>2. CASE Kept(s)
    BY <2>2, KeptInv DEF Kept, ConsentInv
  <2>3. CASE slot'[s] = slot[s]
    BY <2>2, <2>3 DEF Kept
  <2>4. QED
    BY <2>1, <2>2, <2>3
<1>2. ConsentsApart'
  BY <1>1 DEF ConsentInv, ConsentsApart
<1>3. ConsentCoversSend' /\ EverySendIsRecorded'
  BY DEF ConsentInv, ConsentCoversSend, EverySendIsRecorded, Leaving
<1>4. QED
  BY <1>1, <1>2, <1>3 DEF ConsentInv

\* One request moves on, and leaves with the consent it had, if it leaves.
LEMMA Moved ==
  ASSUME ChatTypeOK, ConsentInv, UNCHANGED <<consents, dispatched, sent>>,
         NEW s \in Slots, NEW handler, Set(s, handler), RequestInv(s)',
         Leaves(s)' => Leaves(s) /\ handler.consent = slot[s].consent
  PROVE  ConsentInv'
<1>1. /\ slot'[s] = handler
      /\ \A r \in Slots : r # s => slot'[r] = slot[r]
  BY DEF Set, ChatTypeOK
<1>2. ASSUME NEW r \in Slots
      PROVE  RequestInv(r)' /\ (Leaves(r)' => Leaves(r)
                                  /\ slot'[r].consent = slot[r].consent)
  <2>1. CASE r = s
    BY <1>1, <2>1
  <2>2. CASE r # s
    BY <1>1, <2>2, KeptInv DEF Kept, ConsentInv
  <2>3. QED
    BY <2>1, <2>2
<1>3. ConsentsApart'
  BY <1>2 DEF ConsentInv, ConsentsApart
<1>4. ConsentCoversSend' /\ EverySendIsRecorded'
  BY DEF ConsentInv, ConsentCoversSend, EverySendIsRecorded, Leaving
<1>5. QED
  BY <1>2, <1>3, <1>4 DEF ConsentInv

\* A new request that does not leave the computer.
LEMMA PostInv ==
  ASSUME ChatTypeOK, ConsentInv, UNCHANGED <<consents, dispatched, sent>>,
         NEW kind, NEW out, NEW consent, NEW hash, Post(kind, out, consent, hash),
         kind # "ask" \/ out.provider \notin Cloud
  PROVE  ConsentInv'
<1>1. PICK s \in Slots : slot' = [slot EXCEPT ![s] = Request(kind, out, consent, hash)]
  BY DEF Post
<1>2. slot'[s] = Request(kind, out, consent, hash)
  BY <1>1 DEF ChatTypeOK
<1>3. ~Leaves(s)' /\ RequestInv(s)'
  BY <1>2 DEF Request, Leaves, Passed, RequestInv
<1>4. Set(s, Request(kind, out, consent, hash))
  BY <1>1 DEF Set
<1>5. QED
  BY <1>3, <1>4, Moved

\* The user confirms: the new consent is nobody else's.
LEMMA DeliverInv ==
  ASSUME ChatTypeOK, ConsentInv, NEW payload \in Payloads, Deliver(payload),
         UNCHANGED <<dispatched, sent>>
  PROVE  ConsentInv'
<1> DEFINE n == Len(consents) + 1
<1>1. /\ consents \in Seq(Payloads) /\ Len(consents) \in Nat
      /\ consents' = Append(consents, payload)
  BY DEF ChatTypeOK, Deliver
<1>2. /\ Len(consents') = n /\ n \in DOMAIN consents' /\ consents'[n] = payload
      /\ n \notin DOMAIN consents
      /\ \A i \in DOMAIN consents : i \in DOMAIN consents' /\ consents'[i] = consents[i]
  BY <1>1
<1> HIDE DEF n
<1>3. PICK s \in Slots :
        /\ slot[s].stage = "free"
        /\ slot' = [slot EXCEPT ![s] = Request("ask", payload.outgoing, n, payload)]
  BY <1>2 DEF Deliver, Post
<1>4. /\ slot'[s] = Request("ask", payload.outgoing, n, payload)
      /\ \A r \in Slots : r # s => slot'[r] = slot[r]
  BY <1>3 DEF ChatTypeOK
<1>5. Leaving' = Leaving
  BY DEF Leaving
<1>6. ConsentCoversSend' /\ EverySendIsRecorded'
  BY <1>2, <1>5 DEF ConsentInv, ConsentCoversSend, EverySendIsRecorded
<1>7. \A i \in Leaving : sent[i].consent # n
  BY <1>2 DEF ConsentInv, ConsentCoversSend
<1>8. RequestInv(s)'
  BY <1>2, <1>4, <1>5, <1>7
     DEF Request, RequestInv, Leaves, Passed, CarriesConsent
<1>9. ASSUME NEW r \in Slots, r # s
      PROVE  /\ RequestInv(r)'
             /\ Leaves(r)' => Leaves(r) /\ slot'[r].consent # n
  <2>1. /\ slot'[r] = slot[r] /\ RequestInv(r)
    BY <1>4, <1>9 DEF ConsentInv
  <2>2. /\ Leaves(r)' <=> Leaves(r)
        /\ Passed(r)' <=> Passed(r)
        /\ Prepared(r)' = Prepared(r)
        /\ Entry(r)' = Entry(r)
    BY <2>1 DEF Leaves, Passed, Prepared, Payload, Entry
  <2>3. CarriesConsent(r) => CarriesConsent(r)'
    BY <1>2, <2>1 DEF CarriesConsent
  <2>4. Leaves(r) => slot[r].consent # n
    BY <1>2, <2>1 DEF RequestInv, CarriesConsent
  <2>5. QED
    BY <1>5, <2>1, <2>2, <2>3, <2>4 DEF RequestInv
<1>10. ConsentsApart'
  <2>1. slot'[s].consent = n
    BY <1>4 DEF Request
  <2>2. QED
    BY <1>4, <1>9, <2>1 DEF ConsentInv, ConsentsApart
<1>11. QED
  BY <1>6, <1>8, <1>9, <1>10 DEF ConsentInv

LEMMA PanelInv == ASSUME ChatTypeOK, ConsentInv, Panel PROVE ConsentInv'
<1>1. CASE Select \/ ClosePreview
  BY <1>1, Carried DEF Select, ClosePreview
<1>2. ASSUME NEW q \in Questions, Ask(q) PROVE ConsentInv'
  <2>1. CASE tab.provider \in Local
    <3>1. OutgoingFor(q).provider \notin Cloud
      BY <2>1, ProvidersAssumption DEF OutgoingFor
    <3>2. QED
      BY <1>2, <2>1, <3>1, PostInv DEF Ask
  <2>2. CASE tab.provider \notin Local
    BY <1>2, <2>2, PostInv DEF Ask
  <2>3. QED
    BY <2>1, <2>2
<1>3. ASSUME NEW q \in Questions, Inspect(q) PROVE ConsentInv'
  BY <1>3, PostInv DEF Inspect
<1>4. CASE Confirm
  <2>1. tab.pending.payload \in Payloads
    BY <1>4 DEF Confirm, ChatTypeOK, Previews, Tabs
  <2>2. CASE Deliver(tab.pending.payload)
    BY <1>4, <2>1, <2>2, DeliverInv DEF Confirm
  <2>3. CASE UNCHANGED <<slot, consents>>
    BY <1>4, <2>3, Carried DEF Confirm
  <2>4. QED
    BY <1>4, <2>2, <2>3 DEF Confirm
<1>5. CASE Leave
  <2>1. \A s \in Slots : slot'[s] = Free \/ Kept(s)
    <3> SUFFICES ASSUME NEW s \in Slots, slot[s].stage # "free" PROVE Kept(s)
      BY <1>5 DEF Leave
    <3>1. slot[s] \in Handler
      BY Occupied DEF ChatTypeOK
    <3>2. slot'[s] = [slot[s] EXCEPT !.heard = FALSE]
      BY <1>5 DEF Leave
    <3>3. QED
      BY <3>1, <3>2 DEF Handler, Kept
  <2>2. QED
    BY <1>5, <2>1, Carried DEF Leave
<1>6. QED
  BY <1>1, <1>2, <1>3, <1>4, <1>5 DEF Panel

LEMMA DocumentsInv ==
  ASSUME ChatTypeOK, ConsentInv, NEW d \in Docs, DocumentMoves(d) PROVE ConsentInv'
<1>1. PICK new \in Near(docs[d]) :
        slot' = [s \in Slots |->
             IF slot[s].stage # "free" /\ new.phase = "approved"
                  /\ d \in slot[s].outgoing.docs
               THEN [slot[s] EXCEPT !.since = @ \cup {d}] ELSE slot[s]]
  BY DEF DocumentMoves
<1>2. ASSUME NEW s \in Slots, slot'[s] # slot[s] PROVE Kept(s)
  <2>1. slot[s].stage # "free" /\ slot'[s] = [slot[s] EXCEPT !.since = @ \cup {d}]
    BY <1>1, <1>2
  <2>2. slot[s] \in Handler
    BY <2>1, Occupied DEF ChatTypeOK
  <2>3. QED
    BY <2>1, <2>2 DEF Handler, Kept
<1>3. QED
  BY <1>2, Carried DEF DocumentMoves

LEMMA ServerInv ==
  ASSUME ChatTypeOK, ConsentInv, ApprovalSeen, NEW s \in Slots, Server(s)
  PROVE  ConsentInv'
<1> RequestInv(s)
  BY DEF ConsentInv
<1>1. CASE Fails(s) \/ PreviewReturns(s) \/ Answer(s)
  <2>1. Set(s, Free) /\ UNCHANGED <<consents, dispatched, sent>>
    BY <1>1 DEF Fails, PreviewReturns, Answer, Reply
  <2>2. \A r \in Slots : slot'[r] = Free \/ slot'[r] = slot[r]
    BY <2>1 DEF Set, ChatTypeOK
  <2>3. QED
    BY <2>1, <2>2, Carried
<1>2. ASSUME NEW d \in Docs, ReadRecord(s, d) PROVE ConsentInv'
  <2> DEFINE read == slot[s].read \cup {d}
             new == [slot[s] EXCEPT !.read = read,
                       !.stage = IF read = slot[s].outgoing.docs THEN "contexts"
                                 ELSE @]
  <2>1. slot[s] \in Handler /\ slot[s].stage = "records"
    BY <1>2, Occupied DEF ReadRecord, ChatTypeOK
  <2>2. slot'[s] = new /\ Set(s, new) /\ UNCHANGED <<consents, dispatched, sent>>
    BY <1>2 DEF ReadRecord, Set, ChatTypeOK
  <2>3. /\ new.stage \in {"records", "contexts"} /\ new.read = read
        /\ new.stage = "contexts" => read = slot[s].outgoing.docs
        /\ new.kind = slot[s].kind /\ new.outgoing = slot[s].outgoing
        /\ new.consent = slot[s].consent /\ new.hash = slot[s].hash
        /\ new.since = slot[s].since
    BY <2>1 DEF Handler
  <2>4. d \in slot[s].since
    BY <1>2, <2>1 DEF ReadRecord, ApprovalSeen
  <2>5. read \subseteq slot[s].since
    BY <2>1, <2>4 DEF RequestInv
  <2> HIDE DEF new
  <2>6. /\ Leaves(s)' <=> Leaves(s)
        /\ ~Passed(s)'
        /\ CarriesConsent(s)' <=> CarriesConsent(s)
        /\ Leaving' = Leaving
    BY <2>1, <2>2, <2>3 DEF Leaves, Passed, CarriesConsent, Leaving
  <2>7. RequestInv(s)'
    BY <2>1, <2>2, <2>3, <2>5, <2>6 DEF RequestInv, Passed
  <2>8. QED
    BY <2>2, <2>3, <2>6, <2>7, Moved
<1>3. ASSUME NEW d \in Docs, ReadContext(s, d) PROVE ConsentInv'
  <2> DEFINE texts == [e \in DOMAIN slot[s].texts \cup {d} |->
                        IF e = d THEN docs[d].shared ELSE slot[s].texts[e]]
             new == [slot[s] EXCEPT !.texts = texts,
                       !.stage = IF DOMAIN texts = slot[s].outgoing.docs
                                   THEN "prepared" ELSE @]
  <2>1. slot[s] \in Handler /\ slot[s].stage = "contexts"
    BY <1>3, Occupied DEF ReadContext, ChatTypeOK
  <2>2. slot'[s] = new /\ Set(s, new) /\ UNCHANGED <<consents, dispatched, sent>>
    BY <1>3 DEF ReadContext, Set, ChatTypeOK
  <2> HIDE DEF texts
  <2>3. /\ new.stage \in {"contexts", "prepared"} /\ new.read = slot[s].read
        /\ new.kind = slot[s].kind /\ new.outgoing = slot[s].outgoing
        /\ new.consent = slot[s].consent /\ new.hash = slot[s].hash
        /\ new.since = slot[s].since
    BY <2>1 DEF Handler
  <2> HIDE DEF new
  <2>4. /\ Leaves(s)' <=> Leaves(s)
        /\ ~Passed(s)'
        /\ CarriesConsent(s)' <=> CarriesConsent(s)
        /\ Leaving' = Leaving
    BY <2>1, <2>2, <2>3 DEF Leaves, Passed, CarriesConsent, Leaving
  <2>5. RequestInv(s)'
    BY <2>1, <2>2, <2>3, <2>4 DEF RequestInv, Passed
  <2>6. QED
    BY <2>2, <2>3, <2>4, <2>5, Moved
<1>4. ASSUME NEW to \in Stages, slot[s].stage # "free", Set(s, Step(s, to))
      PROVE  /\ slot'[s].stage = to /\ slot'[s].kind = slot[s].kind
             /\ slot'[s].outgoing = slot[s].outgoing
             /\ slot'[s].hash = slot[s].hash
             /\ slot'[s].consent = slot[s].consent
             /\ slot'[s].read = slot[s].read /\ slot'[s].since = slot[s].since
             /\ to # "free" /\ (Leaves(s)' <=> Leaves(s))
             /\ Prepared(s)' = Prepared(s) /\ Entry(s)' = Entry(s)
             /\ \A r \in Slots : r # s => slot'[r] = slot[r]
  <2>1. slot[s] \in Handler
    BY <1>4, Occupied DEF ChatTypeOK
  <2>2. slot'[s] = Step(s, to) /\ \A r \in Slots : r # s => slot'[r] = slot[r]
    BY <1>4 DEF Set, ChatTypeOK
  <2>3. /\ slot'[s].stage = to /\ slot'[s].kind = slot[s].kind
        /\ slot'[s].outgoing = slot[s].outgoing
        /\ slot'[s].hash = slot[s].hash /\ slot'[s].texts = slot[s].texts
        /\ slot'[s].consent = slot[s].consent
        /\ slot'[s].read = slot[s].read /\ slot'[s].since = slot[s].since
    BY <2>1, <2>2 DEF Step, Handler
  <2>4. to # "free"
    BY DEF Stages
  <2>5. Prepared(s)' = Prepared(s)
    BY <2>3 DEF Prepared
  <2>6. QED
    BY <1>4, <2>2, <2>3, <2>4, <2>5 DEF Leaves, Entry
<1>5. CASE Consent(s)
  <2>1. PICK to \in {"send", "record"} :
          /\ Set(s, Step(s, to))
          /\ slot[s].outgoing.provider \in Local => to = "send"
          /\ slot[s].outgoing.provider \notin Local =>
               to = "record" /\ slot[s].hash = Prepared(s)
    BY <1>5 DEF Consent
  <2>2. /\ slot[s].stage = "prepared" /\ slot[s].kind = "ask"
        /\ UNCHANGED <<consents, dispatched, sent>>
    BY <1>5 DEF Consent
  <2>3. to \in Stages
    BY DEF Stages
  <2>4. /\ slot'[s].stage = to /\ slot'[s].kind = "ask"
        /\ slot'[s].outgoing = slot[s].outgoing /\ slot'[s].hash = slot[s].hash
        /\ slot'[s].consent = slot[s].consent
        /\ slot'[s].read = slot[s].read /\ slot'[s].since = slot[s].since
        /\ Leaves(s)' <=> Leaves(s)
        /\ Prepared(s)' = Prepared(s)
    BY <1>4, <2>1, <2>2, <2>3
  <2>5. Leaves(s) => to = "record" /\ slot[s].hash = Prepared(s)
    BY <2>1, ProvidersAssumption DEF Leaves
  <2>6. CarriesConsent(s)' <=> CarriesConsent(s)
    BY <2>2, <2>4 DEF CarriesConsent
  <2>7. Leaving' = Leaving
    BY <2>2 DEF Leaving
  <2>8. RequestInv(s)'
    BY <2>2, <2>4, <2>5, <2>6, <2>7 DEF RequestInv, Passed
  <2>9. Step(s, to).consent = slot[s].consent
    <3>1. slot'[s] = Step(s, to)
      BY <2>1 DEF Set, ChatTypeOK
    <3>2. QED
      BY <2>4, <3>1
  <2>10. QED
    BY <2>1, <2>2, <2>4, <2>8, <2>9, Moved
<1>6. CASE Record(s)
  <2>1. /\ slot[s].stage = "record" /\ Set(s, Step(s, "send"))
        /\ dispatched' = Append(dispatched, Entry(s))
        /\ UNCHANGED <<consents, sent>>
    BY <1>6 DEF Record
  <2>2. /\ slot'[s].stage = "send" /\ slot'[s].kind = slot[s].kind
        /\ slot'[s].outgoing = slot[s].outgoing /\ slot'[s].hash = slot[s].hash
        /\ slot'[s].consent = slot[s].consent
        /\ slot'[s].read = slot[s].read /\ slot'[s].since = slot[s].since
        /\ Leaves(s)' <=> Leaves(s)
        /\ Prepared(s)' = Prepared(s) /\ Entry(s)' = Entry(s)
        /\ \A r \in Slots : r # s => slot'[r] = slot[r]
    BY <1>4, <2>1 DEF Stages
  <2>3. /\ \E n \in DOMAIN dispatched' : dispatched'[n] = Entry(s)
        /\ \A n \in DOMAIN dispatched :
             n \in DOMAIN dispatched' /\ dispatched'[n] = dispatched[n]
    <3>1. dispatched \in Seq(Entries) /\ Len(dispatched) \in Nat
      BY DEF ChatTypeOK
    <3>2. /\ Len(dispatched) + 1 \in DOMAIN dispatched'
          /\ dispatched'[Len(dispatched) + 1] = Entry(s)
      BY <2>1, <3>1
    <3>3. QED
      BY <2>1, <3>1, <3>2
  <2>4. Leaving' = Leaving
    BY <2>1 DEF Leaving
  <2>5. CarriesConsent(s)' <=> CarriesConsent(s)
    BY <2>1, <2>2 DEF CarriesConsent
  <2>6. RequestInv(s)'
    BY <2>1, <2>2, <2>3, <2>4, <2>5 DEF RequestInv, Passed
  <2>7. ASSUME NEW r \in Slots, r # s
        PROVE  RequestInv(r)' /\ (Leaves(r)' <=> Leaves(r))
    <3>1. slot'[r] = slot[r] /\ RequestInv(r)
      BY <2>2, <2>7 DEF ConsentInv
    <3>2. /\ Leaves(r)' <=> Leaves(r)
          /\ Passed(r)' <=> Passed(r)
          /\ CarriesConsent(r)' <=> CarriesConsent(r)
          /\ Prepared(r)' = Prepared(r)
      BY <2>1, <3>1 DEF Leaves, Passed, CarriesConsent, Prepared
    <3>3. Entry(r)' = Entry(r)
      BY <3>1, <3>2 DEF Entry
    <3>4. QED
      BY <2>1, <2>3, <2>4, <3>1, <3>2, <3>3 DEF RequestInv
  <2>8. ConsentsApart'
    BY <2>2, <2>7 DEF ConsentInv, ConsentsApart
  <2>9. ConsentCoversSend'
    BY <2>1, <2>4 DEF ConsentInv, ConsentCoversSend
  <2>10. EverySendIsRecorded'
    <3>1. ASSUME NEW i \in Leaving
          PROVE  \E n \in DOMAIN dispatched' : dispatched'[n] = sent[i]
      BY <2>3 DEF ConsentInv, EverySendIsRecorded
    <3>2. QED
      BY <2>1, <2>4, <3>1 DEF EverySendIsRecorded
  <2>11. QED
    BY <2>6, <2>7, <2>8, <2>9, <2>10 DEF ConsentInv
<1>7. CASE Send(s)
  <2> DEFINE n == Len(sent) + 1
  <2>1. /\ slot[s].stage = "send" /\ Set(s, Step(s, "answer"))
        /\ sent' = Append(sent, Entry(s))
        /\ UNCHANGED <<consents, dispatched>>
    BY <1>7 DEF Send
  <2>2. /\ slot'[s].stage = "answer" /\ slot'[s].kind = slot[s].kind
        /\ slot'[s].outgoing = slot[s].outgoing /\ slot'[s].hash = slot[s].hash
        /\ slot'[s].consent = slot[s].consent
        /\ slot'[s].read = slot[s].read /\ slot'[s].since = slot[s].since
        /\ Leaves(s)' <=> Leaves(s)
        /\ Prepared(s)' = Prepared(s) /\ Entry(s)' = Entry(s)
        /\ \A r \in Slots : r # s => slot'[r] = slot[r]
    BY <1>4, <2>1 DEF Stages
  <2>3. /\ n \in DOMAIN sent' /\ sent'[n] = Entry(s)
        /\ \A i \in DOMAIN sent : i \in DOMAIN sent' /\ sent'[i] = sent[i]
        /\ \A i \in DOMAIN sent' : i \in DOMAIN sent \/ i = n
    <3>1. sent \in Seq(Entries) /\ Len(sent) \in Nat
      BY DEF ChatTypeOK
    <3>2. QED
      BY <2>1, <3>1
  <2> HIDE DEF n
  <2>4. /\ Entry(s).payload = Prepared(s) /\ Entry(s).consent = slot[s].consent
        /\ Entry(s).payload.outgoing = slot[s].outgoing
    BY DEF Entry, Prepared, Payload
  <2>5. /\ \A i \in Leaving' : i \in Leaving \/ i = n
        /\ n \in Leaving' => Leaves(s)
    <3>1. slot[s].kind = "ask"
      BY <2>1 DEF RequestInv, Passed
    <3>2. QED
      BY <2>1, <2>3, <2>4, <3>1 DEF Leaving, Leaves
  <2>6. Leaves(s) => /\ slot[s].consent \in DOMAIN consents
                     /\ Prepared(s) = consents[slot[s].consent]
                     /\ \A i \in Leaving : sent[i].consent # slot[s].consent
                     /\ \E k \in DOMAIN dispatched : dispatched[k] = Entry(s)
    BY <2>1 DEF RequestInv, Passed, CarriesConsent
  <2>7. \A i \in Leaving : sent'[i] = sent[i]
    BY <2>3 DEF Leaving
  <2>8. ConsentCoversSend'
    <3>1. ASSUME NEW i \in Leaving'
          PROVE  /\ sent'[i].consent \in DOMAIN consents
                 /\ sent'[i].payload = consents[sent'[i].consent]
      <4>1. CASE i = n
        BY <2>3, <2>4, <2>5, <2>6, <3>1, <4>1
      <4>2. CASE i \in Leaving
        BY <2>7, <4>2 DEF ConsentInv, ConsentCoversSend
      <4>3. QED
        BY <2>5, <3>1, <4>1, <4>2
    <3>2. ASSUME NEW i \in Leaving', NEW j \in Leaving',
                 sent'[i].consent = sent'[j].consent
          PROVE  i = j
      <4>1. CASE i \in Leaving /\ j \in Leaving
        BY <2>7, <3>2, <4>1 DEF ConsentInv, ConsentCoversSend
      <4>2. CASE i \in Leaving /\ j = n
        BY <2>3, <2>4, <2>5, <2>6, <2>7, <3>2, <4>2
      <4>3. CASE i = n /\ j \in Leaving
        BY <2>3, <2>4, <2>5, <2>6, <2>7, <3>2, <4>3
      <4>4. QED
        BY <2>5, <3>2, <4>1, <4>2, <4>3
    <3>3. QED
      BY <2>1, <3>1, <3>2 DEF ConsentCoversSend
  <2>9. EverySendIsRecorded'
    <3>1. ASSUME NEW i \in Leaving'
          PROVE  \E k \in DOMAIN dispatched : dispatched[k] = sent'[i]
      <4>1. CASE i = n
        BY <2>3, <2>5, <2>6, <3>1, <4>1
      <4>2. CASE i \in Leaving
        BY <2>7, <4>2 DEF ConsentInv, EverySendIsRecorded
      <4>3. QED
        BY <2>5, <3>1, <4>1, <4>2
    <3>2. QED
      BY <2>1, <3>1 DEF EverySendIsRecorded
  <2>10. RequestInv(s)'
    <3>1. CarriesConsent(s)' <=> CarriesConsent(s)
      BY <2>1, <2>2 DEF CarriesConsent
    <3>2. QED
      BY <2>1, <2>2, <3>1 DEF RequestInv, Passed
  <2>11. ASSUME NEW r \in Slots, r # s
         PROVE  RequestInv(r)' /\ (Leaves(r)' <=> Leaves(r))
    <3>1. slot'[r] = slot[r] /\ RequestInv(r)
      BY <2>2, <2>11 DEF ConsentInv
    <3>2. /\ Leaves(r)' <=> Leaves(r)
          /\ Passed(r)' <=> Passed(r)
          /\ CarriesConsent(r)' <=> CarriesConsent(r)
          /\ Prepared(r)' = Prepared(r)
      BY <2>1, <3>1 DEF Leaves, Passed, CarriesConsent, Prepared
    <3>3. Entry(r)' = Entry(r)
      BY <3>1, <3>2 DEF Entry
    <3>4. Leaves(r) /\ slot[r].stage # "answer" =>
            \A i \in Leaving' : sent'[i].consent # slot[r].consent
      <4> SUFFICES ASSUME Leaves(r), slot[r].stage # "answer", NEW i \in Leaving'
                   PROVE  sent'[i].consent # slot[r].consent
        OBVIOUS
      <4>1. CASE i = n
        BY <2>3, <2>4, <2>5, <2>11, <4>1 DEF ConsentInv, ConsentsApart
      <4>2. CASE i \in Leaving
        BY <2>7, <3>1, <4>2 DEF RequestInv
      <4>3. QED
        BY <2>5, <4>1, <4>2
    <3>5. QED
      BY <2>1, <3>1, <3>2, <3>3, <3>4 DEF RequestInv
  <2>12. ConsentsApart'
    BY <2>2, <2>11 DEF ConsentInv, ConsentsApart
  <2>13. QED
    BY <2>8, <2>9, <2>10, <2>11, <2>12 DEF ConsentInv
<1>8. QED
  BY <1>1, <1>2, <1>3, <1>5, <1>6, <1>7 DEF Server

----------------------------------------------------------------------------
(* What a request has seen of its documents.                               *)

LEMMA PostSees ==
  ASSUME ChatTypeOK, ApprovalSeen, UNCHANGED docs,
         NEW kind, NEW out, NEW consent, NEW hash, Post(kind, out, consent, hash)
  PROVE  ApprovalSeen'
<1>1. PICK s \in Slots : slot' = [slot EXCEPT ![s] = Request(kind, out, consent, hash)]
  BY DEF Post
<1>2. /\ slot'[s] = Request(kind, out, consent, hash)
      /\ \A r \in Slots : r # s => slot'[r] = slot[r]
  BY <1>1 DEF ChatTypeOK
<1>3. QED
  BY <1>2 DEF Request, ApprovalSeen

\* The documents stay, and each request is free or goes on with its documents.
LEMMA StillSees ==
  ASSUME ApprovalSeen, UNCHANGED docs,
         \A s \in Slots :
           \/ slot'[s].stage = "free"
           \/ /\ slot[s].stage # "free"
              /\ slot'[s].outgoing = slot[s].outgoing
              /\ slot'[s].since = slot[s].since
  PROVE  ApprovalSeen'
BY DEF ApprovalSeen

LEMMA PanelSees == ASSUME ChatTypeOK, ApprovalSeen, Panel PROVE ApprovalSeen'
<1>1. CASE Select \/ ClosePreview
  BY <1>1 DEF Select, ClosePreview, ApprovalSeen
<1>2. ASSUME NEW q \in Questions, Ask(q) \/ Inspect(q) PROVE ApprovalSeen'
  BY <1>2, PostSees DEF Ask, Inspect
<1>3. CASE Confirm
  <2>1. CASE Deliver(tab.pending.payload)
    BY <1>3, <2>1, PostSees DEF Confirm, Deliver
  <2>2. CASE UNCHANGED slot
    BY <1>3, <2>2 DEF Confirm, ApprovalSeen
  <2>3. QED
    BY <1>3, <2>1, <2>2 DEF Confirm
<1>4. CASE Leave
  <2>1. ASSUME NEW s \in Slots, slot'[s].stage # "free"
        PROVE  /\ slot[s].stage # "free"
               /\ slot'[s].outgoing = slot[s].outgoing
               /\ slot'[s].since = slot[s].since
    <3>1. slot[s].stage # "free" /\ slot'[s] = [slot[s] EXCEPT !.heard = FALSE]
      BY <1>4, <2>1 DEF Leave, Free
    <3>2. slot[s] \in Handler
      BY <3>1, Occupied DEF ChatTypeOK
    <3>3. QED
      BY <3>1, <3>2 DEF Handler
  <2>2. QED
    BY <1>4, <2>1, StillSees DEF Leave
<1>5. QED
  BY <1>1, <1>2, <1>3, <1>4 DEF Panel

LEMMA ServerSees ==
  ASSUME ChatTypeOK, ApprovalSeen, NEW s \in Slots, Server(s) PROVE ApprovalSeen'
<1>1. slot[s].stage # "free" /\ UNCHANGED docs
  BY DEF Server, Fails, PreviewReturns, Consent, Record, Send, Answer,
         ReadRecord, ReadContext
<1>2. slot[s] \in Handler
  BY <1>1, Occupied DEF ChatTypeOK
<1>3. ASSUME NEW new, Set(s, new),
             \/ new.stage = "free"
             \/ new.outgoing = slot[s].outgoing /\ new.since = slot[s].since
      PROVE  ApprovalSeen'
  <2>1. slot'[s] = new /\ \A r \in Slots : r # s => slot'[r] = slot[r]
    BY <1>3 DEF Set, ChatTypeOK
  <2>2. QED
    BY <1>1, <1>3, <2>1 DEF ApprovalSeen
<1>4. CASE Fails(s) \/ PreviewReturns(s) \/ Answer(s)
  BY <1>3, <1>4 DEF Fails, PreviewReturns, Answer, Reply, Free
<1>5. \A to : /\ Step(s, to).outgoing = slot[s].outgoing
              /\ Step(s, to).since = slot[s].since
  BY <1>2 DEF Step, Handler
<1>6. CASE Consent(s) \/ Record(s) \/ Send(s)
  BY <1>3, <1>5, <1>6 DEF Consent, Record, Send
<1>7. ASSUME NEW d \in Docs, ReadRecord(s, d) PROVE ApprovalSeen'
  <2>1. PICK read, to : Set(s, [slot[s] EXCEPT !.read = read, !.stage = to])
    BY <1>7 DEF ReadRecord
  <2>2. QED
    BY <1>2, <1>3, <2>1 DEF Handler
<1>8. ASSUME NEW d \in Docs, ReadContext(s, d) PROVE ApprovalSeen'
  <2>1. PICK texts, to :
          Set(s, [slot[s] EXCEPT !.texts = texts, !.stage = to])
    BY <1>8 DEF ReadContext
  <2>2. QED
    BY <1>2, <1>3, <2>1 DEF Handler
<1>9. QED
  BY <1>4, <1>6, <1>7, <1>8 DEF Server

LEMMA DocumentsSee ==
  ASSUME ChatTypeOK, ApprovalSeen, NEW d \in Docs, DocumentMoves(d)
  PROVE  ApprovalSeen'
<1>1. PICK new \in Near(docs[d]) :
        /\ docs' = [docs EXCEPT ![d] = new]
        /\ slot' = [s \in Slots |->
             IF slot[s].stage # "free" /\ new.phase = "approved"
                  /\ d \in slot[s].outgoing.docs
               THEN [slot[s] EXCEPT !.since = @ \cup {d}] ELSE slot[s]]
  BY DEF DocumentMoves
<1>2. docs'[d] = new /\ \A e \in Docs : e # d => docs'[e] = docs[e]
  BY <1>1 DEF ChatTypeOK
<1>3. SUFFICES ASSUME NEW s \in Slots, slot'[s].stage # "free",
                      NEW e \in slot'[s].outgoing.docs,
                      docs'[e].phase = "approved"
               PROVE  e \in slot'[s].since
  BY DEF ApprovalSeen
<1>4. slot[s].stage # "free"
  BY <1>1, <1>3
<1>5. slot[s] \in Handler
  BY <1>4, Occupied DEF ChatTypeOK
<1>6. /\ slot'[s].outgoing = slot[s].outgoing
      /\ slot[s].since \subseteq slot'[s].since
      /\ new.phase = "approved" /\ d \in slot[s].outgoing.docs => d \in slot'[s].since
  BY <1>1, <1>4, <1>5 DEF Handler
<1>7. e \in Docs
  BY <1>3, <1>5, <1>6 DEF Handler, Outgoing, Scopes
<1>8. QED
  BY <1>2, <1>3, <1>4, <1>6, <1>7 DEF ApprovalSeen

----------------------------------------------------------------------------
(* The theorems.                                                           *)

LEMMA InvInit == ASSUME Init PROVE ChatInv
<1>1. \A s \in Slots : slot[s] = Free
  BY DEF Init
<1>2. Leaving = {}
  BY DEF Init, Leaving
<1>3. ConsentCoversSend /\ EverySendIsRecorded
  BY <1>2 DEF ConsentCoversSend, EverySendIsRecorded
<1>4. ConsentsApart /\ \A s \in Slots : RequestInv(s)
  BY <1>1 DEF ConsentsApart, RequestInv, Leaves, Passed, Free
<1>5. ApprovalSeen
  BY <1>1 DEF ApprovalSeen, Free
<1>6. QED
  BY <1>3, <1>4, <1>5 DEF ChatInv, ConsentInv

LEMMA InvStep == ASSUME ChatTypeOK, ChatInv, [Next]_vars PROVE ChatInv'
<1>1. CASE UNCHANGED vars
  <2>1. ConsentInv'
    BY <1>1, Carried DEF vars, ChatInv
  <2>2. ApprovalSeen'
    BY <1>1 DEF vars, ChatInv, ApprovalSeen
  <2>3. QED
    BY <2>1, <2>2 DEF ChatInv
<1>2. CASE Next
  <2>1. ConsentInv'
    BY <1>2, PanelInv, ServerInv, DocumentsInv DEF Next, ChatInv
  <2>2. ApprovalSeen'
    BY <1>2, PanelSees, ServerSees, DocumentsSee DEF Next, ChatInv
  <2>3. QED
    BY <2>1, <2>2 DEF ChatInv
<1>3. QED
  BY <1>1, <1>2

\* The inductive invariant of gate 4 and of the panel that obtains the consent.
THEOREM ConsentKept == Spec => []ChatInv
<1>1. Init => ChatInv
  BY InvInit
<1>2. ChatTypeOK /\ ChatInv /\ [Next]_vars => ChatInv'
  BY InvStep
<1>3. QED
  BY <1>1, <1>2, ChatTyped, PTL DEF Spec

\* What leaves the computer was confirmed to the letter, and one confirmation is
\* good for one send, whatever the documents and the panel do meanwhile.
THEOREM ConsentGiven == Spec => []ConsentCoversSend
<1>1. ChatInv => ConsentCoversSend
  BY DEF ChatInv, ConsentInv
<1>2. QED
  BY <1>1, ConsentKept, PTL

\* A send that leaves the computer is in chat_dispatches.jsonl when it happens.
THEOREM SendsRecorded == Spec => []EverySendIsRecorded
<1>1. ChatInv => EverySendIsRecorded
  BY DEF ChatInv, ConsentInv
<1>2. QED
  BY <1>1, ConsentKept, PTL

\* A document whose text reaches a provider was approved since the request was
\* made (gate 1 of ChatService.ask).
THEOREM SendsApproved == Spec => []SentWasApproved
<1>1. ASSUME ChatTypeOK, ChatInv PROVE SentWasApproved
  <2> SUFFICES ASSUME NEW s \in Slots, slot[s].stage \in {"send", "answer"}
               PROVE  slot[s].outgoing.docs \subseteq slot[s].since
    BY DEF SentWasApproved
  <2>1. RequestInv(s)
    BY <1>1 DEF ChatInv, ConsentInv
  <2>2. QED
    BY <2>1 DEF RequestInv
<1>2. QED
  BY <1>1, ChatTyped, ConsentKept, PTL
\* A confirmation is for what is selected when it is given, also when its preview
\* came after a change (useChatFlow.confirm compares again).
THEOREM ConsentFits == Spec => ConsentFitsSelection
<1>1. ASSUME ChatTypeOK, [Next]_vars
      PROVE  [consents' # consents => Fits(consents'[Len(consents')].outgoing)]_vars
  <2> SUFFICES ASSUME Next, consents' # consents
               PROVE  Fits(consents'[Len(consents')].outgoing)
    BY <1>1
  <2>1. ~(\E s \in Slots : Server(s)) /\ ~(\E d \in Docs : DocumentMoves(d))
    BY DEF Server, Fails, PreviewReturns, Consent, Record, Send, Answer, ReadRecord,
           ReadContext, DocumentMoves
  <2>2. Confirm /\ tab.pending # NoPreview
    BY <2>1 DEF Next, Panel, Select, ClosePreview, Leave, Ask, Inspect, Confirm
  <2>3. Fits(tab.pending.payload.outgoing) /\ Deliver(tab.pending.payload)
    BY <2>2 DEF Confirm
  <2>4. consents \in Seq(Payloads) /\ tab.pending.payload \in Payloads
    BY <1>1, <2>2 DEF ChatTypeOK, Tabs, Previews
  <2>5. consents'[Len(consents')] = tab.pending.payload
    BY <2>3, <2>4 DEF Deliver
  <2>6. QED
    BY <2>3, <2>5
<1>2. QED
  BY <1>1, ChatTyped, PTL DEF Spec, ConsentFitsSelection

\* Whatever is sent was approved, confirmed word by word, and is on record.
THEOREM SendsCovered == Spec => []SendsAreCovered
  BY ChatTyped, ConsentGiven, SendsRecorded, SendsApproved, PTL DEF SendsAreCovered

-----------------------------------------------------------------------------
(* CliCall.                                                                *)

(* While the selector runs, what is collected is within the limit.         *)
WithinLimit == step = "pump" => Collected(output) <= Limit

(* Nobody alive means no pipe end held.                                    *)
HeldByTheLiving == ~Alive => held = {}

(* What select() called readable stays so until it is read: only the       *)
(* caller takes from the pipe, and a pipe let go is not taken again.       *)
SelectedIsReadable == \A p \in Outputs : p \in batch => Readable(p)

(* A stream that has left the selector is at its end.                      *)
ClosedIsDrained ==
  step \in {"pump", "wait"} \/ (step = "reap" /\ error = NoError) =>
    /\ \A p \in Outputs : p \notin ready => wire[p] = <<>> /\ p \notin held
    /\ step # "pump" => ready = {}

(* The process with the document's text is the last one.                   *)
ChatIsChecked == stage = "chat" => asked = "chat" /\ Problem(found) = "ok"

FoundOK == found \in [installed : BOOLEAN, compatible : BOOLEAN, authenticated : BOOLEAN]
(* The standard input is registered as long as something is to be written. *)
InputIsPending == "in" \in ready => pending > 0

RestIsEmpty ==
  /\ step # "pump" => batch = {}
  /\ step \in {"rest", "over"} => pending = 0
  /\ stage = "rest" => step = "rest"

CallInv ==
  /\ StateOK /\ FoundOK /\ RestIsEmpty /\ InputIsPending
  /\ NobodyOutlivesTheRun /\ HeldByTheLiving
  /\ OutputIsBounded /\ WithinLimit
  /\ SelectedIsReadable /\ ClosedIsDrained
  /\ ContentNeedsTheChecks /\ ChatIsChecked


-----------------------------------------------------------------------------
(* The pipes as they start.                                                *)
LEMMA EmptyPipes ==
  /\ Nothing \in [Outputs -> Seq(Words)] /\ Collected(Nothing) = 0
  /\ Empty \in [Streams -> Seq(Words)] /\ Empty["in"] = <<>>
  /\ Outputs \subseteq Streams /\ "in" \in Streams /\ "in" \notin Outputs
  BY DEF Nothing, Empty, Outputs, Streams, Collected

(* The initial state satisfies the invariant.                              *)
LEMMA InitInv == CallInit => CallInv
  <1> SUFFICES ASSUME CallInit PROVE CallInv
    OBVIOUS
  <1> USE CallAssumption, ProcessAssumption, EmptyPipes DEF CallInit, ProcessInit
  <1>0. 0 \in 0 .. Content
    OBVIOUS
  <1>1. StateOK
    BY <1>0 DEF StateOK
  <1>2. FoundOK /\ RestIsEmpty /\ InputIsPending
    BY DEF FoundOK, RestIsEmpty, InputIsPending, Unknown
  <1>3. NobodyOutlivesTheRun /\ HeldByTheLiving
    BY DEF NobodyOutlivesTheRun, HeldByTheLiving
  <1>4. OutputIsBounded /\ WithinLimit
    BY DEF OutputIsBounded, WithinLimit
  <1>5. SelectedIsReadable /\ ClosedIsDrained
    BY DEF SelectedIsReadable, ClosedIsDrained
  <1>6. ContentNeedsTheChecks /\ ChatIsChecked
    BY DEF ContentNeedsTheChecks, ChatIsChecked
  <1> QED BY <1>1, <1>2, <1>3, <1>4, <1>5, <1>6 DEF CallInv

-----------------------------------------------------------------------------
(* A step of the caller that leaves the pipes and what was read alone:     *)
(* select, the deadline in the pump, its end, and the exit awaited.        *)
LEMMA QuietStep ==
  ASSUME CallInv, SelectStreams \/ PumpExpires \/ PumpEnds \/ Wait, UNCHANGED call
  PROVE CallInv'
  <1> USE EmptyPipes DEF CallInv
  <1>1. UNCHANGED <<pending, output, late, child, code, heirs, wire, held, ready>>
    BY DEF SelectStreams, PumpExpires, PumpEnds, Wait, group
  <1>2. StateOK' /\ FoundOK' /\ RestIsEmpty' /\ InputIsPending'
    BY <1>1 DEF StateOK, FoundOK, RestIsEmpty, InputIsPending, SelectStreams, PumpExpires, PumpEnds, Wait, Raise, call,
           Selected, ErrorCodes
  <1>3. NobodyOutlivesTheRun' /\ HeldByTheLiving'
    BY <1>1 DEF NobodyOutlivesTheRun, HeldByTheLiving, Alive, SelectStreams, PumpExpires, PumpEnds, Wait,
           Raise
  <1>4. OutputIsBounded' /\ WithinLimit'
    BY <1>1 DEF OutputIsBounded, WithinLimit, SelectStreams, PumpExpires, PumpEnds, Wait, Raise
  <1>5. SelectedIsReadable'
    BY <1>1 DEF SelectedIsReadable, Readable, Selected, SelectStreams, PumpExpires, PumpEnds, Wait, Raise
  <1>6. ClosedIsDrained'
    BY <1>1, NoErrorAssumption DEF ClosedIsDrained, SelectStreams, PumpExpires, PumpEnds, Wait, Raise
  <1>7. ContentNeedsTheChecks' /\ ChatIsChecked'
    BY <1>1 DEF ContentNeedsTheChecks, ChatIsChecked, call
  <1> QED BY <1>2, <1>3, <1>4, <1>5, <1>6, <1>7

(* A chunk of the envelope is written, or the rest of it is dropped.       *)
LEMMA WriteStep ==
  ASSUME CallInv, Write, UNCHANGED call
  PROVE CallInv'
  <1> USE EmptyPipes DEF CallInv
  <1>1. step = "pump" /\ "in" \in batch /\ batch' = batch \ {"in"}
        /\ UNCHANGED <<step, output, error, late, child, code, heirs, held>> /\ UNCHANGED call
    BY DEF Write, group
  <1>2. wire \in [Streams -> Seq(Words)] /\ pending \in 0 .. Content /\ Content \in Nat
    BY CallAssumption DEF StateOK
  <1>3. /\ wire' \in [Streams -> Seq(Words)]
        /\ \A p \in Outputs : wire'[p] = wire[p]
    <2>1. CASE "in" \in held
      <3>1. wire' = [wire EXCEPT !["in"] = Append(wire["in"], "content")]
        BY <2>1 DEF Write
      <3>2. Append(wire["in"], "content") \in Seq(Words)
        BY <1>2, WordsAssumption
      <3> QED BY <3>1, <3>2, <1>2
    <2>2. CASE "in" \notin held
      BY <1>2, <2>2 DEF Write
    <2> QED BY <2>1, <2>2
  <1>4. ready' = ready \/ ready' = ready \ {"in"}
    BY DEF Write, Close
  <1>5. pending > 0
    BY <1>1 DEF StateOK, InputIsPending
  <1>6. pending' \in 0 .. Content
    BY <1>1, <1>2, <1>5 DEF Write
  <1>7. StateOK' /\ FoundOK' /\ RestIsEmpty'
    BY <1>1, <1>3, <1>4, <1>6 DEF StateOK, FoundOK, RestIsEmpty, call
  <1>12. InputIsPending'
    BY <1>2, <1>6 DEF InputIsPending, Write, Close
  <1>8. NobodyOutlivesTheRun' /\ HeldByTheLiving'
    BY <1>1 DEF NobodyOutlivesTheRun, HeldByTheLiving, Alive
  <1>9. OutputIsBounded' /\ WithinLimit'
    BY <1>1 DEF OutputIsBounded, WithinLimit
  <1>10. SelectedIsReadable' /\ ClosedIsDrained'
    BY <1>1, <1>3, <1>4 DEF SelectedIsReadable, ClosedIsDrained, Readable
  <1>11. ContentNeedsTheChecks' /\ ChatIsChecked'
    BY <1>1, <1>2, <1>5 DEF ContentNeedsTheChecks, ChatIsChecked, call
  <1> QED BY <1>7, <1>8, <1>9, <1>10, <1>11, <1>12

LEMMA OneMore ==
  ASSUME NEW a \in Nat, NEW b \in Nat
  PROVE /\ (a + 1) + b = (a + b) + 1
        /\ a + (b + 1) = (a + b) + 1
  OBVIOUS

(* A pipe is read: its end closes it, a chunk counts against the limit.    *)
LEMMA ReadStep ==
  ASSUME CallInv, NEW p \in Outputs, Read(p), UNCHANGED call
  PROVE CallInv'
  <1> USE EmptyPipes DEF CallInv
  <1>1. /\ step = "pump" /\ p \in batch /\ p \in ready
        /\ UNCHANGED <<pending, late, child, code, heirs, held>> /\ UNCHANGED call
        /\ batch' \subseteq batch /\ ready' \subseteq ready
    BY DEF Read, group, Raise, Close, StateOK
  <1>2. /\ wire \in [Streams -> Seq(Words)] /\ output \in [Outputs -> Seq(Words)]
        /\ wire[p] \in Seq(Words) /\ output[p] \in Seq(Words)
        /\ Collected(output) \in Nat /\ Collected(output) <= Limit
    BY <1>1 DEF StateOK, WithinLimit, Collected, Outputs
  <1>3. ChatIsChecked' /\ FoundOK' /\ HeldByTheLiving' /\ NobodyOutlivesTheRun'
    BY <1>1 DEF ChatIsChecked, FoundOK, HeldByTheLiving, NobodyOutlivesTheRun, Alive, call, Read, Raise
  <1>4. CASE wire[p] = <<>>
    <2>1. /\ ready' = ready \ {p} /\ batch' = batch \ {p}
          /\ UNCHANGED <<step, output, error, wire>>
      BY <1>4 DEF Read, Close
    <2>2. p \notin held
      BY <1>1, <1>4 DEF SelectedIsReadable, Readable
    <2>3. StateOK' /\ RestIsEmpty' /\ InputIsPending'
      BY <1>1, <2>1 DEF StateOK, RestIsEmpty, InputIsPending, call
    <2>4. OutputIsBounded' /\ WithinLimit' /\ SelectedIsReadable'
      BY <1>1, <2>1 DEF OutputIsBounded, WithinLimit, SelectedIsReadable, Readable
    <2>5. ClosedIsDrained' /\ ContentNeedsTheChecks'
      BY <1>1, <1>4, <2>1, <2>2 DEF ClosedIsDrained, ContentNeedsTheChecks, call
    <2> QED BY <1>3, <2>3, <2>4, <2>5
  <1>5. CASE wire[p] # <<>>
    <2> DEFINE col == [output EXCEPT ![p] = Append(output[p], Head(wire[p]))]
               w == [wire EXCEPT ![p] = Tail(wire[p])]
    <2>1. /\ output' = col /\ wire' = w /\ ready' = ready
          /\ IF Collected(col) > Limit THEN Raise("cli_output_limit")
             ELSE batch' = batch \ {p} /\ UNCHANGED <<step, error>>
      BY <1>5 DEF Read
    <2>2. Head(wire[p]) \in Words /\ Tail(wire[p]) \in Seq(Words)
      BY <1>2, <1>5
    <2>3. /\ Append(output[p], Head(wire[p])) \in Seq(Words)
          /\ Len(Append(output[p], Head(wire[p]))) = Len(output[p]) + 1
      BY <1>2, <2>2
    <2>4. /\ col \in [Outputs -> Seq(Words)] /\ w \in [Streams -> Seq(Words)]
          /\ \A s \in Streams : s # p => w[s] = wire[s]
      BY <1>2, <2>2, <2>3
    <2>5. Collected(col) = Collected(output) + 1
      <3>1. p = "out" \/ p = "err"
        BY DEF Outputs
      <3>2. /\ col[p] = Append(output[p], Head(wire[p]))
            /\ \A q \in Outputs : q # p => col[q] = output[q]
        BY <1>2
      <3>3. Len(output["out"]) \in Nat /\ Len(output["err"]) \in Nat
        BY <1>2 DEF Outputs
      <3> HIDE DEF col
      <3>4. Len(col[p]) = Len(output[p]) + 1
        BY <2>3, <3>2
      <3>5. CASE p = "out"
        <4>1. col["err"] = output["err"]
          BY <3>2, <3>5 DEF Outputs
        <4>2. Len(col["out"]) = Len(output["out"]) + 1
          BY <3>4, <3>5
        <4>3. Len(col["err"]) = Len(output["err"])
          BY <4>1
        <4>4. /\ Collected(col) = Len(col["out"]) + Len(col["err"])
              /\ Collected(output) = Len(output["out"]) + Len(output["err"])
          BY DEF Collected
        <4> QED BY <3>3, <4>2, <4>3, <4>4, OneMore
      <3>6. CASE p = "err"
        <4>1. col["out"] = output["out"]
          BY <3>2, <3>6 DEF Outputs
        <4>2. Len(col["err"]) = Len(output["err"]) + 1
          BY <3>4, <3>6
        <4>3. Len(col["out"]) = Len(output["out"])
          BY <4>1
        <4>4. /\ Collected(col) = Len(col["out"]) + Len(col["err"])
              /\ Collected(output) = Len(output["out"]) + Len(output["err"])
          BY DEF Collected
        <4> QED BY <3>3, <4>2, <4>3, <4>4, OneMore
      <3> QED BY <3>1, <3>5, <3>6
    <2> HIDE DEF col, w
    <2>6. OutputIsBounded' /\ WithinLimit'
      BY <1>2, <2>1, <2>5, ProcessAssumption DEF OutputIsBounded, WithinLimit, Raise
    <2>7. StateOK' /\ RestIsEmpty' /\ InputIsPending'
      BY <1>1, <2>1, <2>4 DEF StateOK, RestIsEmpty, InputIsPending, Raise, call, ErrorCodes
    <2>8. ContentNeedsTheChecks'
      BY <1>1, <2>1, <2>4 DEF ContentNeedsTheChecks, call
    <2>9. SelectedIsReadable'
      BY <1>1, <2>1, <2>4 DEF SelectedIsReadable, Readable, Raise
    <2>10. ClosedIsDrained'
      BY <1>1, <2>1, <2>4, NoErrorAssumption DEF ClosedIsDrained, Raise
    <2> QED BY <1>3, <2>6, <2>7, <2>8, <2>9, <2>10
  <1> QED BY <1>4, <1>5

(* Whatever way the run ends, the group is killed and the pipes closed.    *)
LEMMA ReapStep ==
  ASSUME CallInv, Reap, UNCHANGED call
  PROVE CallInv'
  <1> USE EmptyPipes, CallAssumption DEF CallInv
  <1>1. /\ step = "reap" /\ step' = "over" /\ child' = "none" /\ heirs' = FALSE /\ held' = {}
        /\ ready' = {} /\ pending' = 0 /\ wire' = Empty
        /\ UNCHANGED <<batch, output, error, late, code>> /\ UNCHANGED call
    BY DEF Reap
  <1>2. batch = {}
    BY <1>1 DEF RestIsEmpty
  <1>0. 0 \in 0 .. Content
    OBVIOUS
  <1>3. StateOK' /\ FoundOK' /\ RestIsEmpty' /\ InputIsPending'
    BY <1>0, <1>1, <1>2 DEF StateOK, FoundOK, RestIsEmpty, InputIsPending, call
  <1>4. NobodyOutlivesTheRun' /\ HeldByTheLiving'
    BY <1>1 DEF NobodyOutlivesTheRun, HeldByTheLiving, Alive
  <1>5. OutputIsBounded' /\ WithinLimit'
    BY <1>1 DEF OutputIsBounded, WithinLimit
  <1>6. SelectedIsReadable' /\ ClosedIsDrained'
    BY <1>1, <1>2 DEF SelectedIsReadable, ClosedIsDrained, Readable
  <1>7. ContentNeedsTheChecks' /\ ChatIsChecked'
    BY <1>1 DEF ContentNeedsTheChecks, ChatIsChecked, call
  <1> QED BY <1>3, <1>4, <1>5, <1>6, <1>7

-----------------------------------------------------------------------------
(* The group.  A step of it leaves the caller alone and, where a pipe end  *)
(* is let go, takes nothing out of an output; a pipe it writes is held.    *)
LEMMA GroupLeavesTheCaller ==
  ASSUME CallInv, UNCHANGED <<caller, call>>,
         step \in {"pump", "wait", "reap"},
         late' \in BOOLEAN, child' \in {"none", "running", "exited"},
         code' \in {0, 1}, heirs' \in BOOLEAN, held' \subseteq held,
         ~Alive' => held' = {}, wire' \in [Streams -> Seq(Words)],
         wire["in"] = <<>> => wire'["in"] = <<>>,
         \A p \in Outputs : wire'[p] = <<>> => wire[p] = <<>>,
         \A p \in Outputs : p \notin held => wire'[p] = wire[p]
  PROVE CallInv'
  <1> USE EmptyPipes DEF CallInv, caller
  <1>1. StateOK' /\ FoundOK' /\ RestIsEmpty' /\ InputIsPending'
    BY DEF StateOK, FoundOK, RestIsEmpty, InputIsPending, call
  <1>2. NobodyOutlivesTheRun' /\ HeldByTheLiving'
    BY DEF NobodyOutlivesTheRun, HeldByTheLiving
  <1>3. OutputIsBounded' /\ WithinLimit'
    BY DEF OutputIsBounded, WithinLimit
  <1>4. SelectedIsReadable' /\ ClosedIsDrained'
    BY DEF SelectedIsReadable, ClosedIsDrained, Readable
  <1>5. ContentNeedsTheChecks' /\ ChatIsChecked'
    BY DEF ContentNeedsTheChecks, ChatIsChecked, call
  <1> QED BY <1>1, <1>2, <1>3, <1>4, <1>5

LEMMA AliveIsRunning ==
  ASSUME CallInv, Alive
  PROVE step \in {"pump", "wait", "reap"}
  BY DEF CallInv, StateOK, NobodyOutlivesTheRun, Alive

LEMMA SpeaksStep ==
  ASSUME CallInv, NEW p \in Outputs, NEW w \in Words, Says(p, w), UNCHANGED call
  PROVE CallInv'
  <1> USE EmptyPipes
  <1>1. wire \in [Streams -> Seq(Words)] /\ wire[p] \in Seq(Words)
    BY DEF CallInv, StateOK
  <1>2. Append(wire[p], w) \in Seq(Words) /\ Append(wire[p], w) # <<>>
    <2>1. Append(wire[p], w) \in Seq(Words) /\ Len(Append(wire[p], w)) = Len(wire[p]) + 1
      BY <1>1
    <2>2. Len(wire[p]) \in Nat /\ Len(<<>>) = 0
      BY <1>1
    <2>3. Len(Append(wire[p], w)) # Len(<<>>)
      BY <2>1, <2>2
    <2> QED BY ONLY <2>1, <2>3
  <1>3. /\ p \in held /\ wire' = [wire EXCEPT ![p] = Append(wire[p], w)]
        /\ UNCHANGED <<caller, late, child, code, heirs, held>>
    BY DEF Says, group
  <1>4. /\ wire' \in [Streams -> Seq(Words)] /\ wire'[p] # <<>>
        /\ \A s \in Streams : s # p => wire'[s] = wire[s]
    BY <1>1, <1>2, <1>3
  <1>5. Alive /\ Alive' = Alive /\ step \in {"pump", "wait", "reap"}
    BY <1>3, AliveIsRunning DEF Says, Alive
  <1>6. /\ late' \in BOOLEAN /\ child' \in {"none", "running", "exited"}
        /\ code' \in {0, 1} /\ heirs' \in BOOLEAN /\ held' \subseteq held
    BY <1>3 DEF CallInv, StateOK
  <1>7. UNCHANGED <<caller, call>>
    BY <1>3
  <1> QED BY <1>3, <1>4, <1>5, <1>6, <1>7, GroupLeavesTheCaller

LEMMA HearsStep ==
  ASSUME CallInv, Hears, UNCHANGED call
  PROVE CallInv'
  <1> USE EmptyPipes
  <1>1. wire \in [Streams -> Seq(Words)] /\ wire["in"] \in Seq(Words) /\ wire["in"] # <<>>
    BY DEF CallInv, StateOK, Hears
  <1>2. Tail(wire["in"]) \in Seq(Words)
    BY <1>1
  <1>3. /\ wire' = [wire EXCEPT !["in"] = Tail(wire["in"])]
        /\ UNCHANGED <<caller, late, child, code, heirs, held>>
    BY DEF Hears, group
  <1>4. /\ wire' \in [Streams -> Seq(Words)]
        /\ \A p \in Outputs : wire'[p] = wire[p]
    BY <1>1, <1>2, <1>3
  <1>5. Alive /\ Alive' = Alive /\ step \in {"pump", "wait", "reap"}
    BY <1>3, AliveIsRunning DEF Hears, Alive
  <1>6. /\ late' \in BOOLEAN /\ child' \in {"none", "running", "exited"}
        /\ code' \in {0, 1} /\ heirs' \in BOOLEAN /\ held' \subseteq held
    BY <1>3 DEF CallInv, StateOK
  <1>7. UNCHANGED <<caller, call>>
    BY <1>3
  <1> QED BY <1>1, <1>4, <1>5, <1>6, <1>7, GroupLeavesTheCaller

LEMMA LifeStep ==
  ASSUME CallInv, UNCHANGED call,
         Forks \/ HeirsEnd \/ Deadline \/ (\E s \in Streams : LetsGo(s))
           \/ (\E c \in {0, 1} : Exits(c))
  PROVE CallInv'
  <1>1. UNCHANGED <<caller, call, wire>>
    BY DEF Forks, HeirsEnd, Deadline, LetsGo, Exits
  <1>2. step \in {"pump", "wait", "reap"}
    BY AliveIsRunning DEF Forks, HeirsEnd, Deadline, LetsGo, Exits, Alive
  <1>3. /\ late' \in BOOLEAN /\ child' \in {"none", "running", "exited"}
        /\ code' \in {0, 1} /\ heirs' \in BOOLEAN /\ held' \subseteq held
    BY DEF CallInv, StateOK, Forks, HeirsEnd, Deadline, LetsGo, Exits, group
  <1>4. ~Alive' => held' = {}
    BY DEF CallInv, StateOK, HeldByTheLiving, Alive, Forks, HeirsEnd, Deadline, LetsGo, Exits,
           group
  <1>5. wire' \in [Streams -> Seq(Words)]
    BY <1>1 DEF CallInv, StateOK
  <1> QED BY <1>1, <1>2, <1>3, <1>4, <1>5, GroupLeavesTheCaller

-----------------------------------------------------------------------------
(* The steps of the request between two processes.                         *)
LEMMA RunStep ==
  ASSUME CallInv, Run
  PROVE CallInv'
  <1> USE EmptyPipes, CallAssumption, ProcessAssumption DEF CallInv
  <1>1. /\ UNCHANGED call /\ step = "rest" /\ step' \in {"pump", "over"} /\ batch' = {}
        /\ output' = Nothing /\ batch = {} /\ pending = 0 /\ wire = Empty
    BY DEF Run, Start, CannotStart, RestIsEmpty, NobodyOutlivesTheRun
  <1>2. pending' \in 0 .. Content /\ (pending' > 0 => stage = "chat")
    BY <1>1 DEF Run, Start, CannotStart
  <1>3. ready' \subseteq Streams /\ held' \subseteq Streams /\ wire' = Empty
    BY <1>1 DEF Run, Start, CannotStart, StateOK
  <1>4. /\ error' \in ErrorCodes \cup {NoError} /\ late' \in BOOLEAN
        /\ child' \in {"none", "running", "exited"} /\ code' \in {0, 1} /\ heirs' \in BOOLEAN
    BY DEF Run, Start, CannotStart, StateOK, ErrorCodes, group
  <1>5. StateOK' /\ FoundOK'
    BY <1>1, <1>2, <1>3, <1>4 DEF StateOK, FoundOK, call
  <1>6. RestIsEmpty' /\ InputIsPending'
    BY <1>1 DEF RestIsEmpty, InputIsPending, Run, Start, CannotStart, NobodyOutlivesTheRun, call
  <1>7. NobodyOutlivesTheRun' /\ HeldByTheLiving'
    BY <1>1, <1>3 DEF NobodyOutlivesTheRun, HeldByTheLiving, Run, Start, CannotStart, Alive, group
  <1>8. OutputIsBounded' /\ WithinLimit' /\ SelectedIsReadable'
    BY <1>1 DEF OutputIsBounded, WithinLimit, SelectedIsReadable
  <1>9. ClosedIsDrained'
    BY <1>1 DEF ClosedIsDrained, Run, Start, CannotStart
  <1>10. ContentNeedsTheChecks' /\ ChatIsChecked'
    BY <1>1, <1>2, <1>3 DEF ContentNeedsTheChecks, ChatIsChecked, call
  <1> QED BY <1>5, <1>6, <1>7, <1>8, <1>9, <1>10

(* While no process runs, the request may move on in any way that keeps    *)
(* its own part of the invariant.                                          *)
LEMMA BetweenRuns ==
  ASSUME CallInv, step \in {"rest", "over"}, step' \in {"rest", step},
         UNCHANGED <<batch, ready, pending, output, error, late, group, wire, held>>,
         found' \in [installed : BOOLEAN, compatible : BOOLEAN, authenticated : BOOLEAN],
         asked' \in {"nothing", "status", "chat"},
         stage' \in {"rest", "version", "help", "login", "chat"},
         (stage' = "rest") = (asked' = "nothing"), stage' = "rest" => step' = "rest",
         stage' = "chat" => asked' = "chat" /\ Problem(found') = "ok"
  PROVE CallInv'
  <1> USE DEF CallInv, group
  <1>1. step' \in {"rest", "over"}
    OBVIOUS
  <1>2. StateOK' /\ FoundOK' /\ RestIsEmpty' /\ InputIsPending'
    BY <1>1 DEF StateOK, FoundOK, RestIsEmpty, InputIsPending
  <1>3. NobodyOutlivesTheRun' /\ HeldByTheLiving'
    BY DEF NobodyOutlivesTheRun, HeldByTheLiving, Alive
  <1>4. OutputIsBounded' /\ WithinLimit' /\ SelectedIsReadable' /\ ClosedIsDrained'
    BY <1>1 DEF OutputIsBounded, WithinLimit, SelectedIsReadable, ClosedIsDrained, Readable
  <1>5. pending' = 0 /\ wire'["in"] = <<>>
    BY EmptyPipes DEF RestIsEmpty, NobodyOutlivesTheRun
  <1>6. ContentNeedsTheChecks' /\ ChatIsChecked'
    BY <1>5 DEF ContentNeedsTheChecks, ChatIsChecked
  <1> QED BY <1>2, <1>3, <1>4, <1>6

(* An answer ends the request; every other step of it is checked in turn.  *)
LEMMA AnswersStep ==
  ASSUME CallInv, step \in {"rest", "over"}, step' = "rest", NEW r, Answers(r),
         UNCHANGED <<batch, ready, pending, output, error, late, group, wire, held>>,
         found' \in [installed : BOOLEAN, compatible : BOOLEAN, authenticated : BOOLEAN]
  PROVE CallInv'
  <1>1. asked' = "nothing" /\ stage' = "rest"
    BY DEF Answers
  <1> QED BY <1>1, BetweenRuns

LEMMA AskStep ==
  ASSUME CallInv, NEW what \in {"chat", "status"}, AskTool(what)
  PROVE CallInv'
  <1>1. step = "rest" /\ found \in [installed : BOOLEAN, compatible : BOOLEAN, authenticated : BOOLEAN]
    BY DEF CallInv, StateOK, RestIsEmpty, FoundOK, AskTool
  <1>2. /\ step' = "rest" /\ UNCHANGED <<batch, ready, pending, output, error, late, group, wire, held>>
    BY <1>1 DEF AskTool, process, group
  <1>3. found' \in [installed : BOOLEAN, compatible : BOOLEAN, authenticated : BOOLEAN]
    BY DEF AskTool, Unknown
  <1>4. CASE \E r \in {"unsupported_os", "provider_unavailable", "cli_not_found"} : Answers(r)
    BY <1>1, <1>2, <1>3, <1>4, AnswersStep
  <1>5. CASE asked' = what /\ stage' = "version"
    <2>1. asked' \in {"nothing", "status", "chat"} /\ asked' # "nothing"
      BY <1>5
    <2> QED BY <1>1, <1>2, <1>3, <1>5, <2>1, BetweenRuns
  <1> QED BY <1>4, <1>5 DEF AskTool

LEMMA ReturnStep ==
  ASSUME CallInv, RunFails \/ ChatReturns \/ VersionKnown \/ HelpRead
  PROVE CallInv'
  <1> DEFINE Found == [installed : BOOLEAN, compatible : BOOLEAN, authenticated : BOOLEAN]
  <1>1. /\ step = "over" /\ step' = "rest"
        /\ UNCHANGED <<batch, ready, pending, output, error, late, group, wire, held>>
    BY DEF RunFails, ChatReturns, VersionKnown, HelpRead, Returned
  <1>2. found \in Found /\ found' \in Found
    BY DEF CallInv, FoundOK, RunFails, ChatReturns, VersionKnown, HelpRead
  <1>3. CASE RunFails
    BY <1>1, <1>2, <1>3, AnswersStep DEF RunFails
  <1>4. CASE ChatReturns
    BY <1>1, <1>2, <1>4, AnswersStep DEF ChatReturns
  <1>5. CASE VersionKnown \/ HelpRead
    <2>1. stage' \in {"help", "login"} /\ asked' = asked /\ stage # "rest"
      BY <1>5 DEF VersionKnown, HelpRead
    <2>2. asked' \in {"nothing", "status", "chat"} /\ asked' # "nothing"
      BY <2>1 DEF CallInv, StateOK
    <2> QED BY <1>1, <1>2, <2>1, <2>2, BetweenRuns
  <1> QED BY <1>3, <1>4, <1>5

LEMMA LoginStep ==
  ASSUME CallInv, LoginKnown
  PROVE CallInv'
  <1> DEFINE Found == [installed : BOOLEAN, compatible : BOOLEAN, authenticated : BOOLEAN]
  <1>1. /\ step = "over" /\ step' = "rest"
        /\ UNCHANGED <<batch, ready, pending, output, error, late, group, wire, held>>
    BY DEF LoginKnown, Returned
  <1>2. LoggedIn \in BOOLEAN
    BY DEF LoggedIn
  <1>3. found \in Found /\ found' \in Found
    BY <1>2 DEF CallInv, FoundOK, LoginKnown
  <1>4. asked \in {"status", "chat"}
    BY DEF CallInv, StateOK, LoginKnown
  <1>5. CASE \E r : Answers(r)
    BY <1>1, <1>3, <1>5, AnswersStep
  <1>6. CASE asked = "chat" /\ Problem(found') = "ok" /\ stage' = "chat" /\ UNCHANGED asked
    BY <1>1, <1>3, <1>6, BetweenRuns
  <1> QED BY <1>4, <1>5, <1>6 DEF LoginKnown

LEMMA InstallStep ==
  ASSUME CallInv, Install
  PROVE CallInv'
  <1>1. /\ step \in {"rest", "over"}
        /\ UNCHANGED <<step, batch, ready, pending, output, error, late, group, wire, held,
                       asked, stage, found>>
    BY DEF Install, process, group
  <1>2. /\ found' \in [installed : BOOLEAN, compatible : BOOLEAN, authenticated : BOOLEAN]
        /\ asked' \in {"nothing", "status", "chat"}
        /\ stage' \in {"rest", "version", "help", "login", "chat"}
        /\ (stage' = "rest") = (asked' = "nothing")
        /\ stage' = "rest" => step' = "rest"
    BY <1>1 DEF CallInv, StateOK, FoundOK, RestIsEmpty
  <1>3. stage' = "chat" => asked' = "chat" /\ Problem(found') = "ok"
    BY <1>1 DEF CallInv, ChatIsChecked
  <1> QED BY <1>1, <1>2, <1>3, BetweenRuns

-----------------------------------------------------------------------------
(* What the tools write are words.                                         *)
LEMMA SpeaksWords == Speech \subseteq Words /\ {"logged_in", "other"} \subseteq Words
  BY WordsAssumption DEF Speech, Login

(* Every step keeps the invariant.                                         *)
LEMMA StepInv == CallInv /\ [CallNext]_callVars => CallInv'
  <1> SUFFICES ASSUME CallInv, [CallNext]_callVars PROVE CallInv'
    OBVIOUS
  <1>1. CASE AskTool("chat") \/ AskTool("status")
    BY <1>1, AskStep
  <1>2. CASE CallStep
    BY <1>2, RunStep, ReturnStep, LoginStep DEF CallStep
  <1>3. CASE Install
    BY <1>3, InstallStep
  <1>4. CASE CallerStep /\ UNCHANGED call
    BY <1>4, QuietStep, WriteStep, ReadStep, ReapStep DEF CallerStep
  <1>5. CASE Speaks /\ UNCHANGED call
    <2>1. \E p \in Outputs, w \in Words : Says(p, w)
      BY <1>5, SpeaksWords DEF Speaks, Outputs
    <2> QED BY <1>5, <2>1, SpeaksStep
  <1>6. CASE Hears /\ UNCHANGED call
    BY <1>6, HearsStep
  <1>7. CASE /\ UNCHANGED call
             /\ Forks \/ HeirsEnd \/ Deadline \/ (\E s \in Streams : LetsGo(s))
                  \/ (\E c \in {0, 1} : Exits(c))
    BY <1>7, LifeStep
  <1>8. CASE UNCHANGED callVars
    <2>1. UNCHANGED <<process, asked, stage, found>>
      BY <1>8 DEF callVars, call
    <2> QED BY <2>1 DEF CallInv, StateOK, FoundOK, RestIsEmpty, InputIsPending, process,
          NobodyOutlivesTheRun, HeldByTheLiving, OutputIsBounded, WithinLimit, SelectedIsReadable,
          ClosedIsDrained, ContentNeedsTheChecks, ChatIsChecked, Alive, Readable
  <1> QED BY <1>1, <1>2, <1>3, <1>4, <1>5, <1>6, <1>7, <1>8 DEF CallNext

LEMMA InvHolds == CallSpec => []CallInv
  BY InitInv, StepInv, PTL DEF CallSpec

-----------------------------------------------------------------------------
(* No process of a request outlives its run, for any tool: the group is    *)
(* killed on every path out of run().                                      *)
THEOREM NobodyOutlives == CallSpec => []NobodyOutlivesTheRun
  BY InvHolds, PTL DEF CallInv

(* A tool that floods its outputs costs the limit and one chunk, no more.  *)
THEOREM OutputBounded == CallSpec => []OutputIsBounded
  BY InvHolds, PTL DEF CallInv

(* A run without an error has read everything that was written.            *)
THEOREM NothingCutOff == CallSpec => []NothingIsCutOff
  <1>1. CallInv => NothingIsCutOff
    BY DEF CallInv, ClosedIsDrained, NothingIsCutOff, Outputs
  <1> QED BY <1>1, InvHolds, PTL

(* The text of a document goes to a tool that this request has checked.    *)
THEOREM ContentChecked == CallSpec => []ContentNeedsTheChecks
  BY InvHolds, PTL DEF CallInv

(* The request holds the tool, whatever it does.                           *)
THEOREM ToolHeld == CallSpec => []ToolIsHeld
  <1>1. CallInv => StateOK
    BY DEF CallInv
  <1> QED BY <1>1, InvHolds, NobodyOutlives, OutputBounded, NothingCutOff, ContentChecked, PTL
             DEF ToolIsHeld

-----------------------------------------------------------------------------
(* What the parser makes of a stream, for every stream.  Induction over    *)
(* the numbers, stated of a set of them: a set can be named, a predicate   *)
(* not.                                                                    *)
LEMMA Upwards ==
  ASSUME NEW T, 0 \in T, \A n \in Nat : n \in T => n + 1 \in T
  PROVE  Nat \subseteq T
<1> DEFINE R == OpToRel(<, Nat)
<1>0. SUFFICES ASSUME Nat \ T # {}  PROVE FALSE
  OBVIOUS
<1>1. PICK x \in Nat \ T : \A y \in Nat \ T : ~(<<y, x>> \in R)
  <2>1. IsWellFoundedOn(R, Nat)
    BY NatLessThanWellFounded
  <2> HIDE DEF R
  <2> QED BY <1>0, <2>1, WFMin
<1>2. x # 0 /\ x - 1 \in Nat
  OBVIOUS
<1>3. <<x - 1, x>> \in R
  BY <1>2 DEF OpToRel
<1>4. x - 1 \in T
  BY <1>1, <1>2, <1>3
<1> QED  BY <1>2, <1>4

(* The stream's state after each line is what the recursion says: there is *)
(* a function that satisfies it, built one line at a time.                 *)
LEMMA ShownIs ==
  ASSUME NEW tool, NEW lines, Len(lines) \in Nat
  PROVE  Shown(tool, lines) =
           [n \in 0 .. Len(lines) |-> IF n = 0 THEN Opened
                                       ELSE Event(tool, Shown(tool, lines)[n - 1], lines[n])]
<1> DEFINE Solves(g, k) == g = [n \in 0 .. k |-> IF n = 0 THEN Opened ELSE Event(tool, g[n - 1], lines[n])]
           T == {k \in Nat : \E g : Solves(g, k)}
<1>1. 0 \in T
  <2>1. Solves([n \in 0 .. 0 |-> Opened], 0)
    OBVIOUS
  <2> QED BY <2>1
<1>2. ASSUME NEW k \in Nat, k \in T  PROVE k + 1 \in T
  <2>1. PICK g : Solves(g, k)
    BY <1>2
  <2> DEFINE h == [n \in 0 .. k + 1 |-> IF n = k + 1 THEN Event(tool, g[k], lines[k + 1]) ELSE g[n]]
  <2>2. \A n \in 0 .. k + 1 : h[n] = IF n = 0 THEN Opened ELSE Event(tool, h[n - 1], lines[n])
    <3> TAKE n \in 0 .. k + 1
    <3>1. CASE n = k + 1
      BY <3>1
    <3>2. CASE n \in 0 .. k /\ n # k + 1
      <4>1. g[n] = IF n = 0 THEN Opened ELSE Event(tool, g[n - 1], lines[n])
        BY <2>1, <3>2
      <4>2. h[n] = g[n] /\ (n # 0 => h[n - 1] = g[n - 1])
        BY <3>2
      <4> QED BY <4>1, <4>2
    <3> QED BY <3>1, <3>2
  <2>3. Solves(h, k + 1)
    BY <2>2
  <2> HIDE DEF h, Solves
  <2>4. k + 1 \in Nat
    OBVIOUS
  <2> QED BY <2>3, <2>4
<1>3. Len(lines) \in T
  <2> HIDE DEF T
  <2> QED BY <1>1, <1>2, Upwards
<1>4. \E g : Solves(g, Len(lines))
  BY <1>3
<1> QED BY <1>4 DEF Shown
(* What the state after n lines says of them: what went wrong, and, while  *)
(* nothing did, whether the turn was opened, is over, and with which text. *)
Seen == [answer : {"", "text", "long"}, completed : BOOLEAN, started : BOOLEAN, error : ErrorCodes \cup {NoError}]
Among(s, n, E) == \E i \in 1 .. n : s[i] \in E
Ending(s, n, E, e) == \E i \in 1 .. n : s[i] = e /\ \A j \in 1 .. n : j > i => s[j] \notin E
Unspoilt(s, n, E) == \A i \in 1 .. n : s[i] \notin E
Messages == {"message", "message_blank", "message_long"}
Spoils == Claude \ (Ends \cup {"text_block", "init", "other"})
Opens(s, n) == \A i \in 1 .. n : s[i] \in Ends \cup {"text_block"} => Among(s, i - 1, {"init"})
Warns(s, n) == \A i \in 1 .. n : s[i] = "warning" => ~Among(s, i - 1, {"turn_started"})

ClaudeShows(lines, n, s) ==
  /\ s \in Seen
  /\ s.error = NoError <=> Unspoilt(lines, n, Spoils) /\ Opens(lines, n)
  /\ s.error = NoError => /\ s.started <=> Among(lines, n, {"init"})
                          /\ s.completed <=> Among(lines, n, Ends)
                          /\ s.answer = "text" <=> Ending(lines, n, Ends, "done")
CodexShows(lines, n, s) ==
  /\ s \in Seen
  /\ s.error = NoError <=> Unspoilt(lines, n, {"tool_item", "failed", "garbage"}) /\ Warns(lines, n)
  /\ s.error = NoError => /\ s.started <=> Among(lines, n, {"turn_started"})
                          /\ s.completed <=> Among(lines, n, {"done"})
                          /\ s.answer = "text" <=> Ending(lines, n, Messages, "message")

(* What one line more changes of this.                                     *)
LEMMA OneLineMore ==
  ASSUME NEW s, NEW n \in Nat, NEW E, NEW e \in E
  PROVE  /\ Among(s, n + 1, E) <=> Among(s, n, E) \/ s[n + 1] \in E
         /\ Ending(s, n + 1, E, e) <=> IF s[n + 1] \in E THEN s[n + 1] = e ELSE Ending(s, n, E, e)
         /\ Unspoilt(s, n + 1, E) <=> Unspoilt(s, n, E) /\ s[n + 1] \notin E
<1>1. 1 .. n + 1 = 1 .. n \cup {n + 1} /\ \A i \in 1 .. n : i < n + 1 /\ i # n + 1
  OBVIOUS
<1>2. Among(s, n + 1, E) <=> Among(s, n, E) \/ s[n + 1] \in E
  BY <1>1 DEF Among
<1>3. Unspoilt(s, n + 1, E) <=> Unspoilt(s, n, E) /\ s[n + 1] \notin E
  BY <1>1 DEF Unspoilt
<1>4. CASE s[n + 1] \in E
  <2>1. ASSUME NEW i \in 1 .. n  PROVE n + 1 > i
    OBVIOUS
  <2>2. \A j \in 1 .. n + 1 : ~(j > n + 1)
    OBVIOUS
  <2> QED BY <1>1, <1>2, <1>3, <1>4, <2>1, <2>2 DEF Ending
<1>5. CASE s[n + 1] \notin E
  <2>1. Ending(s, n + 1, E, e) => Ending(s, n, E, e)
    BY <1>1, <1>5 DEF Ending
  <2>2. Ending(s, n, E, e) => Ending(s, n + 1, E, e)
    BY <1>1, <1>5 DEF Ending
  <2> QED BY <1>2, <1>3, <1>5, <2>1, <2>2
<1> QED BY <1>4, <1>5

LEMMA OneEventMore ==
  ASSUME NEW s, NEW n \in Nat
  PROVE  /\ Opens(s, n + 1) <=> Opens(s, n) /\ (s[n + 1] \in Ends \cup {"text_block"} => Among(s, n, {"init"}))
         /\ Warns(s, n + 1) <=> Warns(s, n) /\ (s[n + 1] = "warning" => ~Among(s, n, {"turn_started"}))
<1>1. 1 .. n + 1 = 1 .. n \cup {n + 1} /\ n + 1 - 1 = n
  OBVIOUS
<1> QED BY <1>1 DEF Opens, Warns

(* Before the first line.                                                  *)
LEMMA NothingShown ==
  ASSUME NEW lines
  PROVE  ClaudeShows(lines, 0, Opened) /\ CodexShows(lines, 0, Opened)
<1>1. 1 .. 0 = {}
  OBVIOUS
<1>2. Opened \in Seen /\ Opened.error = NoError /\ Opened.answer # "text" /\ ~Opened.started /\ ~Opened.completed
  BY DEF Opened, Seen
<1>3. \A E, e : ~Among(lines, 0, E) /\ Unspoilt(lines, 0, E) /\ ~Ending(lines, 0, E, e)
  BY <1>1 DEF Among, Unspoilt, Ending
<1>4. Opens(lines, 0) /\ Warns(lines, 0)
  BY <1>1 DEF Opens, Warns
<1> QED BY <1>2, <1>3, <1>4 DEF ClaudeShows, CodexShows

(* An error is an error.                                                   *)
LEMMA ErrorStays ==
  ASSUME NEW s \in Seen, NEW c \in ErrorCodes
  PROVE  Breaks(s, c) \in Seen /\ Breaks(s, c).error # NoError
<1>1. c # NoError
  BY CodesAssumption
<1> QED BY <1>1 DEF Breaks, Seen

(* One event of Claude's: five kinds, each with what it shows.             *)
LEMMA ClaudeShowsMore ==
  ASSUME NEW lines, NEW n \in Nat, lines[n + 1] \in Claude, NEW s, ClaudeShows(lines, n, s),
         NEW t, t = Event("claude_cli", s, lines[n + 1])
  PROVE  ClaudeShows(lines, n + 1, t)
<1> DEFINE e == lines[n + 1]
<1>1. s \in Seen /\ s.started \in BOOLEAN
  BY DEF ClaudeShows, Seen
<1>2. /\ Unspoilt(lines, n + 1, Spoils) <=> Unspoilt(lines, n, Spoils) /\ e \notin Spoils
      /\ Among(lines, n + 1, {"init"}) <=> Among(lines, n, {"init"}) \/ e = "init"
      /\ Among(lines, n + 1, Ends) <=> Among(lines, n, Ends) \/ e \in Ends
      /\ Ending(lines, n + 1, Ends, "done") <=> IF e \in Ends THEN e = "done" ELSE Ending(lines, n, Ends, "done")
  <2>1. "garbage" \in Spoils /\ "init" \in {"init"} /\ "done" \in Ends
    BY DEF Spoils, Claude, Ends
  <2> QED BY <2>1, OneLineMore
<1>3. Opens(lines, n + 1) <=> Opens(lines, n) /\ (e \in Ends \cup {"text_block"} => Among(lines, n, {"init"}))
  BY OneEventMore
<1>4. CASE s.error # NoError
  <2>1. t = s
    BY <1>4 DEF Event
  <2> QED BY <1>1, <1>2, <1>3, <1>4, <2>1 DEF ClaudeShows
<1>5. CASE s.error = NoError
  <2>1. t = ClaudeEvent(s, e)
    BY <1>5 DEF Event
  <2>2. CASE e \in Spoils \/ (e \in Ends \cup {"text_block"} /\ ~s.started)
    <3>1. \E c \in {"cli_failed", "cli_unsafe_output"} : t = Breaks(s, c)
      BY <1>1, <2>1, <2>2 DEF ClaudeEvent, Spoils, Ends, Claude
    <3>2. t \in Seen /\ t.error # NoError
      BY <1>1, <3>1, ErrorStays DEF ErrorCodes
    <3>3. ~Unspoilt(lines, n + 1, Spoils) \/ ~Opens(lines, n + 1)
      BY <1>2, <1>3, <1>5, <2>2 DEF ClaudeShows
    <3> QED BY <3>2, <3>3 DEF ClaudeShows
  <2>3. CASE e \in {"text_block", "other"} /\ (e = "other" \/ s.started)
    <3>1. t = s
      BY <1>1, <2>1, <2>3 DEF ClaudeEvent, Ends
    <3>2. e \notin Spoils /\ e \notin Ends /\ e # "init"
      BY <2>3 DEF Spoils, Ends
    <3> QED BY <1>1, <1>2, <1>3, <1>5, <2>3, <3>1, <3>2 DEF ClaudeShows
  <2>4. CASE e = "init"
    <3>1. t = [s EXCEPT !.started = TRUE]
      BY <1>1, <2>1, <2>4 DEF ClaudeEvent, Ends
    <3>2. /\ t \in Seen /\ t.started /\ t.error = NoError /\ t.answer = s.answer
          /\ t.completed = s.completed
      BY <1>1, <1>5, <3>1 DEF Seen
    <3>3. e \notin Spoils /\ e \notin Ends /\ e # "text_block"
      BY <2>4 DEF Spoils, Ends
    <3> QED BY <1>2, <1>3, <1>5, <2>4, <3>2, <3>3 DEF ClaudeShows
  <2>5. CASE e \in Ends /\ s.started
    <3>1. t = [s EXCEPT !.completed = TRUE, !.answer = CASE e = "done" -> "text"
                                                         [] e = "done_long" -> "long"
                                                         [] OTHER -> ""]
      BY <2>1, <2>5 DEF ClaudeEvent, Ends
    <3>2. /\ t \in Seen /\ t.completed /\ t.error = NoError /\ t.started = s.started
          /\ t.answer = "text" <=> e = "done"
      BY <1>1, <1>5, <2>5, <3>1 DEF Seen, Ends
    <3>3. e \notin Spoils /\ e # "init"
      BY <2>5 DEF Spoils, Ends
    <3> QED BY <1>2, <1>3, <1>5, <2>5, <3>2, <3>3 DEF ClaudeShows
  <2>6. e \in Spoils \cup Ends \cup {"text_block", "init", "other"}
    BY DEF Spoils
  <2>7. s.started \in BOOLEAN
    BY <1>1 DEF Seen
  <2> QED BY <2>2, <2>3, <2>4, <2>5, <2>6, <2>7
<1> QED BY <1>4, <1>5

(* One event of Codex's.                                                   *)
LEMMA CodexShowsMore ==
  ASSUME NEW lines, NEW n \in Nat, lines[n + 1] \in Codex, NEW s, CodexShows(lines, n, s),
         NEW t, t = Event("codex_cli", s, lines[n + 1])
  PROVE  CodexShows(lines, n + 1, t)
<1> DEFINE e == lines[n + 1]
<1> DEFINE Bad == {"tool_item", "failed", "garbage"}
<1>1. s \in Seen /\ s.started \in BOOLEAN
  BY DEF CodexShows, Seen
<1>2. /\ Unspoilt(lines, n + 1, Bad) <=> Unspoilt(lines, n, Bad) /\ e \notin Bad
      /\ Among(lines, n + 1, {"turn_started"}) <=> Among(lines, n, {"turn_started"}) \/ e = "turn_started"
      /\ Among(lines, n + 1, {"done"}) <=> Among(lines, n, {"done"}) \/ e = "done"
      /\ Ending(lines, n + 1, Messages, "message") <=>
           IF e \in Messages THEN e = "message" ELSE Ending(lines, n, Messages, "message")
  <2>1. "garbage" \in Bad /\ "message" \in Messages
    BY DEF Messages
  <2> QED BY <2>1, OneLineMore
<1>3. Warns(lines, n + 1) <=> Warns(lines, n) /\ (e = "warning" => ~Among(lines, n, {"turn_started"}))
  BY OneEventMore
<1>4. CASE s.error # NoError
  <2>1. t = s
    BY <1>4 DEF Event
  <2> QED BY <1>1, <1>2, <1>3, <1>4, <2>1 DEF CodexShows
<1>5. CASE s.error = NoError
  <2>1. t = CodexEvent(s, e)
    BY <1>5 DEF Event
  <2>2. CASE e \in Bad \/ (e = "warning" /\ s.started)
    <3>1. \E c \in {"cli_failed", "cli_unsafe_output"} : t = Breaks(s, c)
      BY <2>1, <2>2 DEF CodexEvent
    <3>2. t \in Seen /\ t.error # NoError
      BY <1>1, <3>1, ErrorStays DEF ErrorCodes
    <3>3. ~Unspoilt(lines, n + 1, Bad) \/ ~Warns(lines, n + 1)
      BY <1>2, <1>3, <1>5, <2>2 DEF CodexShows
    <3> QED BY <3>2, <3>3 DEF CodexShows
  <2>3. CASE e \in {"reasoning", "other", "warning"} /\ (e = "warning" => ~s.started)
    <3>1. t = s
      BY <2>1, <2>3 DEF CodexEvent
    <3>2. e \notin Bad /\ e \notin Messages /\ e # "turn_started" /\ e # "done"
      BY <2>3 DEF Messages
    <3> QED BY <1>1, <1>2, <1>3, <1>5, <2>3, <3>1, <3>2 DEF CodexShows
  <2>4. CASE e = "turn_started"
    <3>1. t = [s EXCEPT !.started = TRUE]
      BY <2>1, <2>4 DEF CodexEvent
    <3>2. /\ t \in Seen /\ t.started /\ t.error = NoError /\ t.answer = s.answer
          /\ t.completed = s.completed
      BY <1>1, <1>5, <3>1 DEF Seen
    <3>3. e \notin Bad /\ e \notin Messages /\ e # "done" /\ e # "warning"
      BY <2>4 DEF Messages
    <3> QED BY <1>2, <1>3, <1>5, <2>4, <3>2, <3>3 DEF CodexShows
  <2>5. CASE e \in Messages
    <3>1. \E a \in {"text", "long", ""} : t = [s EXCEPT !.answer = a] /\ (a = "text" <=> e = "message")
      BY <2>1, <2>5 DEF CodexEvent, Tells, Messages
    <3>2. /\ t \in Seen /\ t.completed = s.completed /\ t.error = NoError /\ t.started = s.started
          /\ t.answer = "text" <=> e = "message"
      BY <1>1, <1>5, <3>1 DEF Seen
    <3>3. e \notin Bad /\ e # "turn_started" /\ e # "done" /\ e # "warning"
      BY <2>5 DEF Messages
    <3> QED BY <1>2, <1>3, <1>5, <2>5, <3>2, <3>3 DEF CodexShows
  <2>6. CASE e = "done"
    <3>1. t = [s EXCEPT !.completed = TRUE]
      BY <2>1, <2>6 DEF CodexEvent
    <3>2. /\ t \in Seen /\ t.completed /\ t.error = NoError /\ t.answer = s.answer
          /\ t.started = s.started
      BY <1>1, <1>5, <3>1 DEF Seen
    <3>3. e \notin Bad /\ e \notin Messages /\ e # "turn_started" /\ e # "warning"
      BY <2>6 DEF Messages
    <3> QED BY <1>2, <1>3, <1>5, <2>6, <3>2, <3>3 DEF CodexShows
  <2>7. e \in Bad \cup Messages \cup {"reasoning", "other", "warning", "turn_started", "done"}
    BY DEF Codex, Messages
  <2>8. s.started \in BOOLEAN
    BY <1>1 DEF Seen
  <2> QED BY <2>2, <2>3, <2>4, <2>5, <2>6, <2>7, <2>8
<1> QED BY <1>4, <1>5

(* Hence the state after the last line speaks of the whole stream.         *)
LEMMA StreamShown ==
  ASSUME NEW tool \in Tools, NEW lines \in Seq(IF tool = "claude_cli" THEN Claude ELSE Codex)
  PROVE  LET s == Shown(tool, lines)[Len(lines)]
         IN  IF tool = "claude_cli" THEN ClaudeShows(lines, Len(lines), s)
             ELSE CodexShows(lines, Len(lines), s)
<1> DEFINE f == Shown(tool, lines)
           Shows(n) == IF tool = "claude_cli" THEN ClaudeShows(lines, n, f[n]) ELSE CodexShows(lines, n, f[n])
           T == {n \in Nat : n <= Len(lines) => Shows(n)}
<1>1. Len(lines) \in Nat
  OBVIOUS
<1>2. \A n \in 0 .. Len(lines) :
        f[n] = IF n = 0 THEN Opened ELSE Event(tool, f[n - 1], lines[n])
  <2>1. f = [n \in 0 .. Len(lines) |-> IF n = 0 THEN Opened ELSE Event(tool, f[n - 1], lines[n])]
    BY <1>1, ShownIs
  <2> HIDE DEF f
  <2> QED BY <2>1
<1> HIDE DEF f
<1>3. 0 \in T
  <2>1. f[0] = Opened
    BY <1>1, <1>2
  <2> QED BY <2>1, NothingShown
<1>4. ASSUME NEW n \in Nat, n \in T  PROVE n + 1 \in T
  <2> SUFFICES ASSUME n + 1 <= Len(lines)  PROVE Shows(n + 1)
    OBVIOUS
  <2>1. Shows(n) /\ f[n + 1] = Event(tool, f[n], lines[n + 1])
    BY <1>1, <1>2, <1>4
  <2>2. lines[n + 1] \in IF tool = "claude_cli" THEN Claude ELSE Codex
    BY <1>1
  <2> QED BY <2>1, <2>2, ClaudeShowsMore, CodexShowsMore DEF Tools
<1>5. Shows(Len(lines))
  <2> HIDE DEF Shows
  <2>1. Nat \subseteq T
    <3> HIDE DEF T
    <3> QED BY <1>3, <1>4, Upwards
  <2> QED BY <1>1, <2>1
<1> QED BY <1>5 DEF f

(* An answer is accepted exactly when the whole stream is clean (parse of  *)
(* _Stream), whatever the stream and however long.                         *)
THEOREM ParseIsClean ==
  ASSUME NEW tool \in Tools, NEW lines \in Seq(IF tool = "claude_cli" THEN Claude ELSE Codex)
  PROVE  /\ Parse(tool, lines) \in ErrorCodes \cup {"answer"}
         /\ Parse(tool, lines) = "answer" <=> Clean(tool, lines)
<1> DEFINE n == Len(lines)
           s == Shown(tool, lines)[n]
<1>1. /\ tool = "claude_cli" => ClaudeShows(lines, n, s)
      /\ tool # "claude_cli" => CodexShows(lines, n, s)
  BY StreamShown
<1>2. s \in Seen
  BY <1>1 DEF ClaudeShows, CodexShows
<1>3. /\ Parse(tool, lines) \in ErrorCodes \cup {"answer"}
      /\ Parse(tool, lines) = "answer" <=> s.error = NoError /\ s.completed /\ s.answer = "text"
  <2>1. Parse(tool, lines) = IF s.error # NoError THEN s.error
          ELSE IF s.completed /\ s.answer = "text" THEN "answer" ELSE "cli_failed"
    BY DEF Parse
  <2> HIDE DEF s
  <2> QED BY <1>2, <2>1 DEF Seen, ErrorCodes
<1>4. n \in Nat /\ DOMAIN lines = 1 .. n /\ \A i \in 1 .. n : 1 .. i - 1 \subseteq 1 .. n
  OBVIOUS
<1> HIDE DEF n, s
<1>5. CASE tool = "claude_cli"
  <2>1. \A i \in 1 .. n : lines[i] \in Claude
    BY <1>5 DEF n
  <2>2. Clean(tool, lines) <=> Unspoilt(lines, n, Spoils) /\ Opens(lines, n) /\ Ending(lines, n, Ends, "done")
    <3>1. \A i \in 1 .. n : lines[i] \in {"text_block"} \cup Ends \cup {"init", "other"} <=> lines[i] \notin Spoils
      BY <2>1 DEF Spoils, Ends, Claude
    <3> QED BY <1>4, <1>5, <3>1 DEF Clean, Unspoilt, Opens, Among, Ending
  <2>3. Ending(lines, n, Ends, "done") => Among(lines, n, Ends)
    BY DEF Ending, Among, Ends
  <2> QED BY <1>1, <1>3, <1>5, <2>2, <2>3 DEF ClaudeShows
<1>6. CASE tool # "claude_cli"
  <2>1. Clean(tool, lines) <=> /\ Unspoilt(lines, n, {"tool_item", "failed", "garbage"}) /\ Warns(lines, n)
                               /\ Ending(lines, n, Messages, "message") /\ Among(lines, n, {"done"})
    BY <1>4, <1>6 DEF Clean, Unspoilt, Warns, Among, Ending, Messages
  <2> QED BY <1>1, <1>3, <1>6, <2>1 DEF CodexShows
<1> QED BY <1>5, <1>6

-----------------------------------------------------------------------------
(* The answer.  Between the start of the last process and its return, what *)
(* is in the pipe and what was read of it are events of the tool; after    *)
(* that nothing changes them until the next request has reset the result.  *)
Events == IF provider = "claude_cli" THEN Claude ELSE Codex
Spoken == stage = "chat" /\ step # "rest" => output["out"] \in Seq(Events) /\ wire["out"] \in Seq(Events)
AnswerInv ==
  /\ provider \in Tools /\ Spoken
  /\ AnswerIsClean /\ (result = "answer" => stage = "rest")

LEMMA AnswerInit == CallInit => AnswerInv
  BY DEF CallInit, AnswerInv, AnswerIsClean, Spoken

(* A step that leaves the request and the exit code alone, and of what the *)
(* tool said only what it says now.                                        *)
LEMMA AnswerRests ==
  ASSUME CallInv, AnswerInv, UNCHANGED <<call, code>>, step # "rest", step' # "rest",
         output["out"] \in Seq(Events) /\ wire["out"] \in Seq(Events)
           => output'["out"] \in Seq(Events) /\ wire'["out"] \in Seq(Events)
  PROVE  AnswerInv'
  <1>1. stage # "rest" /\ result # "answer"
    BY DEF CallInv, RestIsEmpty, AnswerInv
  <1>2. Events' = Events
    BY DEF Events, call
  <1> QED BY <1>1, <1>2 DEF AnswerInv, AnswerIsClean, Spoken, call

LEMMA SpokenByTheTool ==
  ASSUME CallInv, AnswerInv, UNCHANGED call, CallerStep \/ Speaks \/ Hears
  PROVE  AnswerInv'
  <1>1. CASE SelectStreams \/ PumpExpires \/ PumpEnds \/ Wait \/ Write \/ Reap
    <2>1. UNCHANGED <<code, output>> /\ step # "rest" /\ step' # "rest"
      BY <1>1 DEF SelectStreams, PumpExpires, PumpEnds, Wait, Write, Reap, Raise, group
    <2>2. wire'["out"] = wire["out"] \/ wire'["out"] = <<>>
      BY <1>1 DEF SelectStreams, PumpExpires, PumpEnds, Wait, Write, Reap, group, Empty, Streams, Outputs,
                  CallInv, StateOK
    <2>3. <<>> \in Seq(Events)
      OBVIOUS
    <2> QED BY <2>1, <2>2, <2>3, AnswerRests
  <1>2. ASSUME NEW p \in Outputs, Read(p)  PROVE AnswerInv'
    <2>1. UNCHANGED code /\ step # "rest" /\ step' # "rest"
      BY <1>2 DEF Read, Raise, group
    <2>2. /\ output \in [Outputs -> Seq(Words)] /\ wire \in [Streams -> Seq(Words)]
          /\ "out" \in Outputs /\ "out" \in Streams
      BY DEF CallInv, StateOK, Outputs, Streams
    <2>3. CASE p = "out" /\ wire["out"] # <<>>
      <3>1. /\ output'["out"] = Append(output["out"], Head(wire["out"]))
            /\ wire'["out"] = Tail(wire["out"])
        BY <1>2, <2>2, <2>3 DEF Read
      <3>2. ASSUME output["out"] \in Seq(Events), wire["out"] \in Seq(Events)
            PROVE  output'["out"] \in Seq(Events) /\ wire'["out"] \in Seq(Events)
        <4>1. Head(wire["out"]) \in Events /\ Tail(wire["out"]) \in Seq(Events)
          BY <2>3, <3>2
        <4> QED BY <3>1, <3>2, <4>1
      <3> QED BY <2>1, <3>2, AnswerRests
    <2>4. CASE p # "out" \/ wire["out"] = <<>>
      <3>1. output'["out"] = output["out"] /\ wire'["out"] = wire["out"]
        BY <1>2, <2>2, <2>4 DEF Read
      <3> QED BY <2>1, <3>1, AnswerRests
    <2> QED BY <2>3, <2>4
  <1>3. CASE Speaks \/ Hears
    <2>1. step # "rest" /\ UNCHANGED <<code, output, step>>
      BY <1>3, AliveIsRunning DEF Speaks, Hears, Says, caller, group
    <2>2. wire \in [Streams -> Seq(Words)] /\ "out" \in Streams
      BY DEF CallInv, StateOK, Outputs, Streams
    <2>3. CASE \E w \in Speech : Says("out", w)
      <3>1. PICK w \in Speech : Says("out", w)
        BY <2>3
      <3>2. wire'["out"] = Append(wire["out"], w)
        BY <2>2, <3>1 DEF Says
      <3>3. CASE stage = "chat"
        <4>1. w \in Events
          BY <3>1, <3>3, WordsAssumption DEF Speech, Events, AnswerInv, Tools
        <4>2. wire["out"] \in Seq(Events) => wire'["out"] \in Seq(Events)
          BY <3>2, <4>1
        <4> QED BY <2>1, <4>2, AnswerRests
      <3>4. CASE stage # "chat"
        <4>1. result # "answer"
          BY <2>1 DEF CallInv, RestIsEmpty, AnswerInv
        <4> QED BY <2>1, <3>4, <4>1 DEF AnswerInv, AnswerIsClean, Spoken, call
      <3> QED BY <3>3, <3>4
    <2>4. CASE Hears \/ \E w : Says("err", w)
      <3>1. wire'["out"] = wire["out"]
        BY <2>2, <2>4 DEF Says, Hears
      <3> QED BY <2>1, <3>1, AnswerRests
    <2> QED BY <1>3, <2>3, <2>4 DEF Speaks
  <1> QED BY <1>1, <1>2, <1>3 DEF CallerStep

(* The process exits, forks or hangs: no request has its answer meanwhile. *)
LEMMA AnswerOutlivesTheGroup ==
  ASSUME CallInv, AnswerInv, UNCHANGED call,
         Forks \/ HeirsEnd \/ Deadline \/ (\E s \in Streams : LetsGo(s))
           \/ (\E c \in {0, 1} : Exits(c))
  PROVE  AnswerInv'
  <1>1. UNCHANGED <<caller, wire>> /\ step # "rest"
    BY AliveIsRunning DEF Forks, HeirsEnd, Deadline, LetsGo, Exits, Alive
  <1>2. stage # "rest" /\ result # "answer"
    BY <1>1 DEF CallInv, RestIsEmpty, AnswerInv
  <1>3. Events' = Events
    BY DEF Events, call
  <1> QED BY <1>1, <1>2, <1>3 DEF AnswerInv, AnswerIsClean, Spoken, call, caller

(* The request's own steps: one of its codes, or the answer of a stream    *)
(* that was parsed.                                                        *)
LEMMA AnswerGiven ==
  ASSUME AnswerInv, NEW r \in Problems \cup {"ok"}, Answers(r), UNCHANGED provider
  PROVE  AnswerInv'
  <1>1. result' # "answer" /\ stage' = "rest" /\ result' = r
    BY DEF Answers, Problems, ErrorCodes
  <1> QED BY <1>1 DEF AnswerInv, AnswerIsClean, Spoken

LEMMA ProblemIs == \A f : Problem(f) \in Problems \cup {"ok"}
  BY DEF Problem, Problems, ErrorCodes

LEMMA RequestSteps ==
  ASSUME CallInv, AnswerInv, AskTool("chat") \/ AskTool("status") \/ CallStep \/ Install
  PROVE  AnswerInv'
  <1>1. provider' = provider
    BY DEF AskTool, CallStep, Install, Run, RunFails, VersionKnown, HelpRead, LoginKnown, ChatReturns, setup, call
  <1>2. ErrorCodes \subseteq Problems /\ {"unsupported_os", "provider_unavailable", "cli_not_found", "cli_failed"} \subseteq Problems
    BY DEF Problems, ErrorCodes
  <1>3. ASSUME NEW what, AskTool(what)  PROVE AnswerInv'
    <2>1. CASE \E r \in {"unsupported_os", "provider_unavailable", "cli_not_found"} : Answers(r)
      BY <1>1, <1>2, <2>1, AnswerGiven
    <2>2. CASE stage' = "version" /\ result' = "none"
      BY <1>1, <2>2 DEF AnswerInv, AnswerIsClean, Spoken
    <2> QED BY <1>3, <2>1, <2>2 DEF AskTool
  <1>4. CASE Run
    <2>1. stage # "rest" /\ result # "answer" /\ UNCHANGED call
      BY <1>4 DEF Run, AnswerInv
    <2>2. output' = Nothing /\ wire' = Empty
      BY <1>4 DEF Run, Start, CannotStart, CallInv, NobodyOutlivesTheRun
    <2>3. output'["out"] = <<>> /\ wire'["out"] = <<>>
      BY <2>2 DEF Nothing, Empty, Outputs, Streams
    <2>4. <<>> \in Seq(Events')
      OBVIOUS
    <2> QED BY <2>1, <2>3, <2>4 DEF AnswerInv, AnswerIsClean, Spoken, call
  <1>5. CASE RunFails
    <2>1. error \in ErrorCodes
      BY <1>5 DEF RunFails, CallInv, StateOK
    <2> QED BY <1>1, <1>2, <1>5, <2>1, AnswerGiven DEF RunFails
  <1>6. CASE VersionKnown \/ HelpRead
    <2>1. stage # "rest" /\ stage' # "chat" /\ result' = result
      BY <1>6 DEF VersionKnown, HelpRead
    <2> QED BY <1>1, <2>1 DEF AnswerInv, AnswerIsClean, Spoken
  <1>7. CASE LoginKnown
    <2>1. stage = "login" /\ step' = "rest"
      BY <1>7 DEF LoginKnown, Returned
    <2>2. CASE \E r \in Problems \cup {"ok"} : Answers(r)
      BY <1>1, <2>2, AnswerGiven
    <2>3. CASE UNCHANGED result
      BY <1>1, <2>1, <2>3 DEF AnswerInv, AnswerIsClean, Spoken
    <2>4. asked \in {"status", "chat"}
      BY <1>7 DEF CallInv, StateOK, LoginKnown
    <2> QED BY <1>2, <1>7, <2>2, <2>3, <2>4, ProblemIs DEF LoginKnown
  <1>8. CASE ChatReturns
    <2>1. CASE code = 0
      <3>1. provider \in Tools /\ output["out"] \in Seq(Events)
        BY <1>8 DEF ChatReturns, Returned, AnswerInv, Spoken
      <3>2. /\ Parse(provider, output["out"]) \in ErrorCodes \cup {"answer"}
            /\ Parse(provider, output["out"]) = "answer" <=> Clean(provider, output["out"])
        BY <3>1, ParseIsClean DEF Events
      <3>3. /\ result' = Parse(provider, output["out"]) /\ stage' = "rest"
            /\ UNCHANGED <<output, code>>
        BY <1>8, <2>1 DEF ChatReturns, Answers, Returned, group
      <3> QED BY <1>1, <1>2, <2>1, <3>2, <3>3 DEF AnswerInv, AnswerIsClean, Spoken
    <2>2. CASE code # 0
      BY <1>1, <1>2, <1>8, <2>2, AnswerGiven DEF ChatReturns
    <2> QED BY <2>1, <2>2
  <1>9. CASE Install
    BY <1>9 DEF Install, process, AnswerInv, AnswerIsClean, Spoken, Events
  <1> QED BY <1>3, <1>4, <1>5, <1>6, <1>7, <1>8, <1>9 DEF CallStep

(* What reaches the user as an answer is one whose whole stream was clean. *)
THEOREM AnswerClean == CallSpec => []AnswerIsClean
  <1>1. CallInv /\ AnswerInv /\ [CallNext]_callVars => AnswerInv'
    <2> SUFFICES ASSUME CallInv, AnswerInv, [CallNext]_callVars  PROVE AnswerInv'
      OBVIOUS
    <2>1. CASE UNCHANGED callVars
      BY <2>1 DEF callVars, process, call, AnswerInv, AnswerIsClean, Spoken, Events
    <2> QED BY <2>1, RequestSteps, SpokenByTheTool, AnswerOutlivesTheGroup DEF CallNext
  <1>2. AnswerInv => AnswerIsClean
    BY DEF AnswerInv
  <1> QED BY AnswerInit, InvHolds, <1>1, <1>2, PTL DEF CallSpec
=============================================================================
