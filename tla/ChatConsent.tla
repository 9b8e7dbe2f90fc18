---------------------------- MODULE ChatConsent ----------------------------
(***************************************************************************)
(* Chat: a browser tab (features/chat) asks questions about documents, the *)
(* server (api/chat.py, chat/service.py) checks each document, reads its   *)
(* layer 5 without a lock and sends the text to a provider; to a provider  *)
(* outside this computer only with the user's consent to exactly that      *)
(* text, and after a record of it (chat/dispatches.py).                    *)
(*                                                                         *)
(* The documents change meanwhile.  All that is assumed of them is         *)
(* DocumentPromise, which DocumentLifecycle implements.                    *)
(*                                                                         *)
(* A payload is what the preview hash covers: provider, documents and the  *)
(* text that is sent.  The hash is the payload itself (SHA-256 is taken to *)
(* have no collisions) and the text is the question, the number of earlier *)
(* messages and the layer-5 text of each document, whatever retrieval      *)
(* picks from it.                                                          *)
(***************************************************************************)
EXTENDS Naturals, Sequences

CONSTANTS
  Docs, Texts, NoText, Questions,
  Local, Cloud,  \* providers on this computer, and all others
  Slots,         \* bound: requests the server works on at a time
  MaxMessages,   \* bound on the messages of the conversation
  MaxChanges,    \* bound on the steps of the documents
  NoHash, NoPreview

ASSUME ProvidersAssumption == Local \cap Cloud = {}
ASSUME ChatBoundsAssumption == MaxMessages \in Nat /\ MaxChanges \in Nat
ASSUME NoTextAssumption == NoText \notin Texts

VARIABLES
  docs,       \* each document, as DocumentPromise sees it
  changes,    \* how often they changed (bound)
  tab,        \* the chat panel of the browser
  slot,       \* the requests being handled
  consents,   \* payloads the user confirmed in the consent dialog, in order
  dispatched, \* chat_dispatches.jsonl
  sent        \* what was handed to providers, in order

vars == <<docs, changes, tab, slot, consents, dispatched, sent>>

Providers == Local \cup Cloud
Scopes    == SUBSET Docs \ {{}}

\* useChatFlow's Outgoing: all a question will send, fixed when it is asked.
Outgoing == [question : Questions, provider : Providers, docs : Scopes,
             history : Nat]

Payload(out, texts) == [outgoing |-> out, texts |-> texts]
Payloads == {p \in [outgoing : Outgoing,
                    texts : UNION {[scope -> Texts] : scope \in Scopes}] :
               DOMAIN p.texts = p.outgoing.docs}

Previews == [payload : Payloads, mode : {"consent", "inspect"}] \cup {NoPreview}

\* A handler: which request, the consent it carries (its place in consents, 0
\* for none) with its hash, the documents seen approved and their texts.
\* heard: the panel that sent it is still there; since: the documents that were
\* approved at some moment since the request was made.
Free == [stage |-> "free"]
Request(kind, out, consent, hash) ==
  [stage |-> "records", kind |-> kind, outgoing |-> out, consent |-> consent,
   hash |-> hash, read |-> {}, texts |-> << >>, heard |-> TRUE,
   since |-> {d \in out.docs : docs[d].phase = "approved"}]

Stages == {"records", "contexts", "prepared", "record", "send", "answer"}

----------------------------------------------------------------------------
(* The documents.                                                          *)

Doc(d) == INSTANCE DocumentPromise
  WITH phase <- docs[d].phase, shown <- docs[d].shown,
       shared <- docs[d].shared, audited <- docs[d].audited

DocStates == [phase : {"none", "working", "review", "approved", "rejected",
                       "failed", "gone"},
              shown : Texts \cup {NoText}, shared : Texts \cup {NoText},
              audited : SUBSET Texts]

\* Where one step of the promise can lead.
Near(doc) == [phase : {"working", "review", "approved", "rejected", "failed", "gone"},
              shown : {doc.shown, doc.shared, NoText},
              shared : doc.audited \cup {doc.shared, NoText},
              audited : {doc.audited \cup heard : heard \in SUBSET Texts}]

\* An approved document; the rounds of its run had audited each of its texts.
Approved(t) == [phase |-> "approved", shown |-> t, shared |-> t, audited |-> Texts]

DocumentMoves(d) ==
  /\ changes < MaxChanges /\ changes' = changes + 1
  /\ \E new \in Near(docs[d]) :
       /\ new # docs[d]
       /\ docs' = [docs EXCEPT ![d] = new]
       /\ Doc(d)!PromiseNext
       /\ slot' = [s \in Slots |->
            IF slot[s].stage # "free" /\ new.phase = "approved"
                 /\ d \in slot[s].outgoing.docs
              THEN [slot[s] EXCEPT !.since = @ \cup {d}] ELSE slot[s]]
  /\ UNCHANGED <<tab, consents, dispatched, sent>>

----------------------------------------------------------------------------
(* The panel.                                                              *)

Busy == tab.waiting \/ tab.previewing

\* The request takes a handler thread of the server.
Post(kind, out, consent, hash) ==
  \E s \in Slots :
    /\ slot[s].stage = "free"
    /\ slot' = [slot EXCEPT ![s] = Request(kind, out, consent, hash)]

OutgoingFor(q) == [question |-> q, provider |-> tab.provider, docs |-> tab.docs,
                   history |-> tab.messages]

Fits(out) == out.provider = tab.provider /\ out.docs = tab.docs

\* Mutant: the open document, too, can be taken out of the scope.
SelectNothing ==
  /\ \E p \in Providers, scope \in SUBSET Docs :
       tab' = [tab EXCEPT !.provider = p, !.docs = scope, !.pending = NoPreview]
  /\ UNCHANGED <<docs, changes, slot, consents, dispatched, sent>>

\* Another provider or scope; an open preview for the old one is dropped.
Select ==
  /\ \E p \in Providers, scope \in Scopes :
       /\ <<p, scope>> # <<tab.provider, tab.docs>>
       /\ tab' = [tab EXCEPT
            !.provider = p, !.docs = scope,
            !.pending = IF @ # NoPreview /\ @.payload.outgoing.provider = p
                             /\ @.payload.outgoing.docs = scope
                          THEN @ ELSE NoPreview]
  /\ UNCHANGED <<docs, changes, slot, consents, dispatched, sent>>

\* A local provider answers directly, any other needs a preview first.
Ask(q) ==
  /\ ~Busy /\ tab.messages < MaxMessages
  /\ IF tab.provider \in Local
       THEN /\ Post("ask", OutgoingFor(q), 0, NoHash)
            /\ tab' = [tab EXCEPT !.waiting = TRUE, !.messages = @ + 1]
       ELSE /\ Post("consent", OutgoingFor(q), 0, NoHash)
            /\ tab' = [tab EXCEPT !.previewing = TRUE]
  /\ UNCHANGED <<docs, changes, consents, dispatched, sent>>

Inspect(q) ==
  /\ ~Busy /\ tab.provider \in Local
  /\ Post("inspect", OutgoingFor(q), 0, NoHash)
  /\ tab' = [tab EXCEPT !.previewing = TRUE]
  /\ UNCHANGED <<docs, changes, consents, dispatched, sent>>

Deliver(payload) ==
  /\ consents' = Append(consents, payload)
  /\ Post("ask", payload.outgoing, Len(consents'), payload)
  /\ tab' = [tab EXCEPT !.pending = NoPreview, !.waiting = TRUE,
                        !.messages = @ + 1]

\* Mutant: the selection is not compared again.
ConfirmBlindly ==
  /\ tab.pending # NoPreview /\ tab.pending.mode = "consent"
  /\ tab.messages < MaxMessages
  /\ Deliver(tab.pending.payload)
  /\ UNCHANGED <<docs, changes, dispatched, sent>>

\* A preview may have arrived after the selection changed: then the dialog only
\* closes.
Confirm ==
  /\ tab.pending # NoPreview /\ tab.pending.mode = "consent"
  /\ tab.messages < MaxMessages
  /\ IF Fits(tab.pending.payload.outgoing)
       THEN Deliver(tab.pending.payload)
       ELSE /\ tab' = [tab EXCEPT !.pending = NoPreview]
            /\ UNCHANGED <<slot, consents>>
  /\ UNCHANGED <<docs, changes, dispatched, sent>>

ClosePreview ==
  /\ tab.pending # NoPreview
  /\ tab' = [tab EXCEPT !.pending = NoPreview]
  /\ UNCHANGED <<docs, changes, slot, consents, dispatched, sent>>

\* The panel is left and opened again: its state is new, the conversation stays
\* and so do the requests it made.
Leave ==
  /\ Busy \/ tab.pending # NoPreview
  /\ tab' = [tab EXCEPT !.pending = NoPreview, !.waiting = FALSE,
                        !.previewing = FALSE]
  /\ slot' = [s \in Slots |->
       IF slot[s].stage = "free" THEN Free ELSE [slot[s] EXCEPT !.heard = FALSE]]
  /\ UNCHANGED <<docs, changes, consents, dispatched, sent>>

----------------------------------------------------------------------------
(* The server.                                                             *)

Step(s, stage) == [slot[s] EXCEPT !.stage = stage]
Set(s, handler) == slot' = [slot EXCEPT ![s] = handler]

\* The answer ends the panel's wait, if that panel is still there.
Reply(s, after) ==
  /\ Set(s, Free)
  /\ tab' = IF ~slot[s].heard THEN after
            ELSE IF slot[s].kind = "ask" THEN [after EXCEPT !.waiting = FALSE]
            ELSE [after EXCEPT !.previewing = FALSE]

\* A document that is gone or not approved, a layer-5 file that is missing, a
\* hash that is missing or another, a record that cannot be written, a provider
\* that fails or is too late, the end of the process: an error, nothing else.
Fails(s) ==
  /\ slot[s].stage # "free"
  /\ Reply(s, tab)
  /\ UNCHANGED <<docs, changes, consents, dispatched, sent>>

\* Mutant: the records are read, the status is not looked at.
ReadAnyRecord(s, d) ==
  /\ slot[s].stage = "records"
  /\ d \in slot[s].outgoing.docs \ slot[s].read
  /\ docs[d].phase \notin {"none", "gone"}
  /\ LET read == slot[s].read \cup {d}
     IN  Set(s, [slot[s] EXCEPT
           !.read = read,
           !.stage = IF read = slot[s].outgoing.docs THEN "contexts" ELSE @])
  /\ UNCHANGED <<docs, changes, tab, consents, dispatched, sent>>

\* _documents and gate 1: one record after the other, each must be approved.
ReadRecord(s, d) ==
  /\ slot[s].stage = "records"
  /\ d \in slot[s].outgoing.docs \ slot[s].read
  /\ docs[d].phase = "approved"
  /\ LET read == slot[s].read \cup {d}
     IN  Set(s, [slot[s] EXCEPT
           !.read = read,
           !.stage = IF read = slot[s].outgoing.docs THEN "contexts" ELSE @])
  /\ UNCHANGED <<docs, changes, tab, consents, dispatched, sent>>

\* Then, one after the other, layer 5 of each.
ReadContext(s, d) ==
  /\ slot[s].stage = "contexts"
  /\ d \in slot[s].outgoing.docs \ DOMAIN slot[s].texts
  /\ docs[d].shared # NoText
  /\ LET texts == [e \in DOMAIN slot[s].texts \cup {d} |->
                     IF e = d THEN docs[d].shared ELSE slot[s].texts[e]]
     IN  Set(s, [slot[s] EXCEPT
           !.texts = texts,
           !.stage = IF DOMAIN texts = slot[s].outgoing.docs THEN "prepared"
                     ELSE @])
  /\ UNCHANGED <<docs, changes, tab, consents, dispatched, sent>>

Prepared(s) == Payload(slot[s].outgoing, slot[s].texts)

\* ChatService.preview; the panel opens the dialog, whatever is selected now.
PreviewReturns(s) ==
  /\ slot[s].stage = "prepared" /\ slot[s].kind # "ask"
  /\ Reply(s, IF ~slot[s].heard THEN tab
              ELSE [tab EXCEPT !.pending = [payload |-> Prepared(s),
                                            mode    |-> slot[s].kind]])
  /\ UNCHANGED <<docs, changes, consents, dispatched, sent>>

\* Mutant: any hash will do.
ConsentUnchecked(s) ==
  /\ slot[s].stage = "prepared" /\ slot[s].kind = "ask"
  /\ Set(s, Step(s, IF slot[s].outgoing.provider \in Local THEN "send"
                    ELSE "record"))
  /\ UNCHANGED <<docs, changes, tab, consents, dispatched, sent>>

\* Gate 4: what would be sent now is what was previewed and confirmed.
Consent(s) ==
  /\ slot[s].stage = "prepared" /\ slot[s].kind = "ask"
  /\ IF slot[s].outgoing.provider \in Local
       THEN Set(s, Step(s, "send"))
       ELSE /\ slot[s].hash = Prepared(s)
            /\ Set(s, Step(s, "record"))
  /\ UNCHANGED <<docs, changes, tab, consents, dispatched, sent>>

Entry(s) == [consent |-> slot[s].consent, payload |-> Prepared(s)]

\* Mutant: nothing is written.
RecordNothing(s) ==
  /\ slot[s].stage = "record"
  /\ Set(s, Step(s, "send"))
  /\ UNCHANGED <<docs, changes, tab, consents, dispatched, sent>>

\* dispatches.record, before the provider is called.
Record(s) ==
  /\ slot[s].stage = "record"
  /\ dispatched' = Append(dispatched, Entry(s))
  /\ Set(s, Step(s, "send"))
  /\ UNCHANGED <<docs, changes, tab, consents, sent>>

\* Mutant: a send that does not wait for its record.
SendEarly(s) ==
  /\ slot[s].stage \in {"record", "send"}
  /\ sent' = Append(sent, Entry(s))
  /\ Set(s, Step(s, "answer"))
  /\ UNCHANGED <<docs, changes, tab, consents, dispatched>>

\* provider.chat hands the text over (and may then still fail).
Send(s) ==
  /\ slot[s].stage = "send"
  /\ sent' = Append(sent, Entry(s))
  /\ Set(s, Step(s, "answer"))
  /\ UNCHANGED <<docs, changes, tab, consents, dispatched>>

\* The answer, with its citations in order, joins the conversation.
Answer(s) ==
  /\ slot[s].stage = "answer"
  /\ Reply(s, [tab EXCEPT !.messages = @ + 1])
  /\ UNCHANGED <<docs, changes, consents, dispatched, sent>>

----------------------------------------------------------------------------

Init ==
  /\ docs \in [Docs -> {Approved(t) : t \in Texts}]
  /\ changes = 0
  /\ \E p \in Providers, scope \in Scopes :
       tab = [provider |-> p, docs |-> scope, messages |-> 0, waiting |-> FALSE,
              previewing |-> FALSE, pending |-> NoPreview]
  /\ slot = [s \in Slots |-> Free]
  /\ consents = << >> /\ dispatched = << >> /\ sent = << >>

Panel == \/ Select \/ Confirm \/ ClosePreview \/ Leave
         \/ \E q \in Questions : Ask(q) \/ Inspect(q)
Server(s) == \/ Fails(s) \/ PreviewReturns(s) \/ Consent(s) \/ Record(s)
             \/ Send(s) \/ Answer(s)
             \/ \E d \in Docs : ReadRecord(s, d) \/ ReadContext(s, d)

Next == Panel \/ (\E s \in Slots : Server(s)) \/ (\E d \in Docs : DocumentMoves(d))

Spec == Init /\ [][Next]_vars

----------------------------------------------------------------------------
(* Properties.                                                             *)

Handler == [stage : Stages, kind : {"ask", "consent", "inspect"},
            outgoing : Outgoing, consent : Nat, hash : Payloads \cup {NoHash},
            read : SUBSET Docs,
            texts : UNION {[some -> Texts] : some \in SUBSET Docs},
            heard : BOOLEAN, since : SUBSET Docs]

Entries == [consent : Nat, payload : Payloads]

Tabs == [provider : Providers, docs : Scopes, messages : Nat,
         waiting : BOOLEAN, previewing : BOOLEAN, pending : Previews]

\* What each variable holds; from "prepared" on a handler has read every text.
ChatTypeOK ==
  /\ docs \in [Docs -> DocStates] /\ changes \in Nat
  /\ tab \in Tabs
  /\ slot \in [Slots -> Handler \cup {Free}]
  /\ \A s \in Slots :
       slot[s].stage \notin {"free", "records", "contexts"} =>
         DOMAIN slot[s].texts = slot[s].outgoing.docs
  /\ consents \in Seq(Payloads)
  /\ dispatched \in Seq(Entries) /\ sent \in Seq(Entries)

Leaving == {i \in DOMAIN sent : sent[i].payload.outgoing.provider \in Cloud}

\* What leaves the computer is, to the letter, a payload the user confirmed, and
\* one confirmation is good for one send, whatever changes between the preview,
\* the click and the send (gate 4 of ChatService.ask, useChatFlow.confirm).
ConsentCoversSend ==
  /\ \A i \in Leaving : /\ sent[i].consent \in DOMAIN consents
                        /\ sent[i].payload = consents[sent[i].consent]
  /\ \A i, j \in Leaving : sent[i].consent = sent[j].consent => i = j

\* chat_dispatches.jsonl knows of every send that left the computer, at the
\* moment it does: a failing write or an end of the process loses no record.
EverySendIsRecorded ==
  \A i \in Leaving : \E n \in DOMAIN dispatched : dispatched[n] = sent[i]

\* No document's text goes to any provider unless the document was approved at
\* some moment since the request was made, however long ago its preview was.
SentWasApproved ==
  \A s \in Slots : slot[s].stage \in {"send", "answer"} =>
    slot[s].outgoing.docs \subseteq slot[s].since

\* Consent covers one destination and scope: what is confirmed is for what is
\* selected at that moment, also when the preview arrived after a change.
ConsentFitsSelection ==
  [][consents' # consents =>
       Fits(consents'[Len(consents')].outgoing)]_vars

\* Requests that will send something out, and those the server let pass.
Leaves(s) == /\ slot[s].stage # "free" /\ slot[s].kind = "ask"
             /\ slot[s].outgoing.provider \in Cloud
Passed(s) == slot[s].stage \in {"record", "send", "answer"}

CarriesConsent(s) == /\ slot[s].consent \in DOMAIN consents
                     /\ slot[s].hash = consents[slot[s].consent]

\* What holds of each request: one that leaves carries a consent, not yet used
\* before its send; once let pass, its text is the one consented to, and then
\* recorded; and it looked at each document while that was approved.
RequestInv(s) ==
  /\ Leaves(s) => CarriesConsent(s)
  /\ Passed(s) => slot[s].kind = "ask"
  /\ Passed(s) /\ Leaves(s) => slot[s].hash = Prepared(s)
  /\ Leaves(s) /\ slot[s].stage # "answer" =>
       \A i \in Leaving : sent[i].consent # slot[s].consent
  /\ Leaves(s) /\ slot[s].stage \in {"send", "answer"} =>
       \E n \in DOMAIN dispatched : dispatched[n] = Entry(s)
  /\ slot[s].stage # "free" => slot[s].read \subseteq slot[s].since
  /\ slot[s].stage \notin {"free", "records"} =>
       slot[s].outgoing.docs \subseteq slot[s].read

\* No two requests that leave share a consent.
ConsentsApart ==
  \A s, r \in Slots :
    Leaves(s) /\ Leaves(r) /\ slot[s].consent = slot[r].consent => s = r

ConsentInv ==
  /\ ConsentCoversSend /\ EverySendIsRecorded
  /\ ConsentsApart /\ \A s \in Slots : RequestInv(s)

\* since misses no document that is approved now.
ApprovalSeen ==
  \A s \in Slots : slot[s].stage # "free" =>
    \A d \in slot[s].outgoing.docs :
      docs[d].phase = "approved" => d \in slot[s].since

\* The inductive invariant: a confirmation belongs to one request, from the click
\* to the send, and the request to one text (ChatService.ask, useChatFlow).
ChatInv == ConsentInv /\ ApprovalSeen

\* api/chat.py:12 says that no external call happens for a document that is not
\* approved.  The status is that of the record read first: a reject or a decision
\* between that read and the send is not seen.
NoSendUnapproved ==
  [][\A i \in DOMAIN sent' \ DOMAIN sent :
       LET out == sent'[i].payload.outgoing
       IN  out.provider \in Cloud =>
             \A d \in out.docs : docs[d].phase = "approved"]_vars

----------------------------------------------------------------------------
\* Whatever is sent was approved, confirmed word by word, and is on record
\* before it leaves (ChatService.ask, its gates together).
SendsAreCovered ==
  ChatTypeOK /\ ConsentCoversSend /\ EverySendIsRecorded /\ SentWasApproved
=============================================================================
