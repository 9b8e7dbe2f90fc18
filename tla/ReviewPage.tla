----------------------------- MODULE ReviewPage ------------------------------
(***************************************************************************)
(* The review screen as a client of the server: the library and the review *)
(* in its query cache (api/queries.ts), the requests under way, and the    *)
(* dialogs (features/review).  A fetch that is already under way is not    *)
(* cancelled when a request's answer is written into the cache; an         *)
(* invalidation cancels it and starts another.  Other tabs change the same *)
(* document, answers come back in any order, and some are lost.            *)
(*                                                                         *)
(* A mark is known by its id, a position in the review of one revision: a  *)
(* change may give every id another value.  The server's operations are    *)
(* those of DocumentLifecycle: a change stores document.json with the new  *)
(* revision and then the content, under the document's lock; a read takes  *)
(* no lock and reads the one and then the other.                           *)
(***************************************************************************)
EXTENDS Integers, FiniteSets, Functions

CONSTANTS
  Values,        \* what the document holds that may be masked
  Keys,          \* decisions that can be under way at once
  MaxRequests, MaxElsewhere, MaxFaults   \* bounds

ASSUME SlotsAssumption == Keys \cap {"approve", "reject", "delete"} = {}

VARIABLES
  doc,           \* the document on the server
  list, review,  \* the tab's cache: the entry in the library, the payload on screen
  fetchL, fetchR,    \* the fetch under way of either
  calls,         \* decisions, and the request of the open dialog
  dialog, requests, elsewhere, faults,
  settled,             \* history: the last settled change shown
  setBack, overtaken   \* history: a late answer put an older entry, an older page on screen

server == <<doc, elsewhere>>
reader == <<dialog, requests>>
cache  == <<list, review>>
history == <<settled, setBack, overtaken>>
vars == <<server, cache, fetchL, fetchR, calls, reader, faults, history>>

Ids == 1 .. Cardinality(Values)
Orders == {f \in [Ids -> Values] : IsInjective(f)}
Dialogs == {"approve", "reject", "delete"}
Slots == Keys \cup Dialogs
Reviewable == {"needs_review", "approved"}
Never == 1000    \* newer than any version: a deleted document is not shown again
Absent == [status |-> "absent", version |-> Never]
Problem == [revision |-> 0]
Nothing == [step |-> "idle"]

Open(state) == {v \in Values : state[v] = "open"}
\* Bug: a deleted document keeps its entry.
SummaryKept(d) == [status |-> d.status, version |-> d.version, open |-> Open(d.state) # {}]
Summary(d) == IF d.status = "gone" THEN Absent
              ELSE [status |-> d.status, version |-> d.version, open |-> Open(d.state) # {}]
\* A page is torn that has a new revision and the content before it.
PageOf(revision, d) ==
  [revision |-> revision, at |-> d.at, state |-> d.state,
   torn |-> d.next # Nothing /\ revision = d.revision]

\* The workspace is mounted for a document the library calls reviewable.
Mounted(l) == l.status \in Reviewable
OnScreen == Mounted(list) /\ review # Problem

Init ==
  /\ doc \in {[status |-> "needs_review", revision |-> 1, version |-> 1, audited |-> TRUE,
               at |-> f, state |-> s, next |-> Nothing] : f \in Orders, s \in [Values -> {"unseen", "open", "masked"}]}
  /\ list = Summary(doc) /\ review = PageOf(1, doc)
  /\ fetchL = Nothing /\ fetchR = Nothing
  /\ calls = [s \in Slots |-> Nothing] /\ dialog = FALSE
  /\ requests = 0 /\ elsewhere = 0 /\ faults = 0 /\ settled = 1 /\ setBack = FALSE /\ overtaken = FALSE

-----------------------------------------------------------------------------
(* The server.                                                             *)

\* A change: the new revision, in review, and later the content and the status
\* it ends with.  The ids are given out anew.
Started(state, status, audited) ==
  doc' = [doc EXCEPT !.revision = @ + 1, !.version = @ + 1, !.status = "needs_review",
                     !.next = [state |-> state, status |-> status, audited |-> audited]]
\* What the request of a decision names, and what it makes of it.
Target(call) == doc.at[call.id]
\* Bug: the revision is not compared.
RefusalUnpinned(call) ==
  IF doc.status = "gone" THEN "document_not_found"
  ELSE IF doc.status \notin Reviewable THEN "not_in_review" ELSE "none"
Refusal(call) ==
  IF doc.status = "gone" THEN "document_not_found"
  ELSE IF doc.status \notin Reviewable THEN "not_in_review"
  ELSE IF call.shown.revision # doc.revision THEN "stale_revision" ELSE "none"
Answer(step, answer) ==
  [step |-> step, answer |-> answer, revision |-> doc'.revision, page |-> Problem,
   summary |-> IF answer = "ok" THEN Summary(doc') ELSE Absent]
Answered(s, answer) == calls' = [calls EXCEPT ![s] = Answer("answered", answer)]

\* A request holds the lock until its change is stored.
Served(s) == calls[s].step = "sent" /\ doc.next = Nothing
             /\ UNCHANGED <<elsewhere, cache, fetchL, fetchR, reader, faults, history>>
Begins(s, answer) ==
  calls' = [calls EXCEPT ![s] = [step |-> "storing", answer |-> answer, shown |-> @.shown]]
Store ==
  /\ doc.next # Nothing
  /\ \E f \in Orders :
       doc' = [doc EXCEPT !.version = @ + 1, !.at = f, !.state = doc.next.state, !.status = doc.next.status,
                          !.audited = doc.next.audited, !.next = Nothing]
  /\ calls' = [s \in Slots |->
                 IF calls[s].step # "storing" THEN calls[s]
                 ELSE Answer(IF s \in Keys THEN "applied" ELSE "answered", calls[s].answer)]
  /\ UNCHANGED <<elsewhere, cache, fetchL, fetchR, reader, faults, history>>

ServeDecision(s) ==
  /\ s \in Keys /\ Served(s)
  /\ \/ Refusal(calls[s]) # "none" /\ UNCHANGED doc /\ Answered(s, Refusal(calls[s]))
     \/ /\ Refusal(calls[s]) = "none"
        /\ Started([doc.state EXCEPT ![Target(calls[s])] = calls[s].op], "needs_review", FALSE)
        /\ Begins(s, "ok")

\* The answer is read after the lock is released: a later change may be in it.
Assemble(s) ==
  /\ calls[s].step = "applied"
  /\ calls' = [calls EXCEPT ![s].step = "answered",
                 ![s].answer = IF doc.status = "gone" THEN "document_not_found" ELSE "ok",
                 ![s].page = PageOf(calls[s].revision, doc)]
  /\ UNCHANGED <<server, cache, fetchL, fetchR, reader, faults, history>>

\* An approval audits what changed since the last audit.
ServeApproval(s) ==
  LET call == calls[s]
      refusal == IF doc.status = "approved" THEN "not_in_review" ELSE Refusal(call)
      fresh == {v \in Values : doc.state[v] = "unseen"}
  IN
  /\ s = "approve" /\ Served(s)
  /\ \/ refusal # "none" /\ UNCHANGED doc /\ Answered(s, refusal)
     \/ refusal = "none" /\ Open(doc.state) # {} /\ UNCHANGED doc /\ Answered(s, "unresolved_items")
     \/ /\ refusal = "none" /\ Open(doc.state) = {}
        /\ \/ doc.audited /\ doc' = [doc EXCEPT !.status = "approved", !.version = @ + 1]
              /\ Answered(s, "ok")
           \/ ~doc.audited /\ UNCHANGED doc /\ Answered(s, "ollama_unreachable")
           \/ ~doc.audited /\ Started(doc.state, "approved", TRUE) /\ Begins(s, "ok")
           \/ ~doc.audited /\ Started(doc.state, "needs_review", TRUE) /\ Begins(s, "audit_not_clean")
           \/ /\ ~doc.audited /\ Begins(s, "unresolved_items")
              /\ \E v \in fresh : Started([doc.state EXCEPT ![v] = "open"], "needs_review", TRUE)

ServeRejection(s) ==
  /\ s = "reject" /\ Served(s)
  /\ IF doc.status \in Reviewable
     THEN doc' = [doc EXCEPT !.status = "rejected", !.version = @ + 1] /\ Answered(s, "ok")
     ELSE UNCHANGED doc /\ Answered(s, Refusal(calls[s]))

ServeDeletion(s) ==
  /\ s = "delete" /\ Served(s)
  /\ IF doc.status # "gone"
     THEN doc' = [doc EXCEPT !.status = "gone", !.version = @ + 1] /\ Answered(s, "ok")
     ELSE UNCHANGED doc /\ Answered(s, "document_not_found")

Serve(s) == ServeDecision(s) \/ ServeApproval(s) \/ ServeRejection(s) \/ ServeDeletion(s)

\* Another tab.
Elsewhere ==
  /\ elsewhere < MaxElsewhere /\ elsewhere' = elsewhere + 1
  /\ doc.status \in Reviewable /\ doc.next = Nothing
  /\ \/ \E v \in Values, op \in {"masked", "kept"} :
          /\ doc.state[v] \notin {"unseen", op}
          /\ Started([doc.state EXCEPT ![v] = op], "needs_review", FALSE)
     \/ \E status \in {"rejected", "gone"} :
          doc' = [doc EXCEPT !.status = status, !.version = @ + 1]
  /\ UNCHANGED <<cache, fetchL, fetchR, calls, reader, faults, history>>

-----------------------------------------------------------------------------
(* The query cache.                                                        *)

Sent == [step |-> "sent"]
\* invalidateQueries: a mounted query drops its fetch and starts another.
\* Bugs: it cuts the fetch short and starts none, or leaves the older one to answer.
RefetchedNot(mine) == fetchL' = Sent /\ fetchR' = Nothing
Refetched(mine) == fetchL' = Sent /\ fetchR' = IF Mounted(mine) THEN Sent ELSE Nothing
ListAgainDeduped == fetchL' = IF fetchL = Nothing THEN Sent ELSE fetchL
ListAgain == fetchL' = Sent

\* The fetches in keys have ended: who waited for them goes on, the refusal is
\* shown, and the approval dialog that met it closes.
Waiting(call) == call.step = "reloading"
\* Bug: woken by the first of the fetches.
WokenByFirst(cs, keys, failed) ==
  [s \in Slots |-> IF Waiting(cs[s]) /\ cs[s].waits \cap keys # {} THEN Nothing ELSE cs[s]]
Woken(cs, keys, failed) ==
  [s \in Slots |-> IF ~Waiting(cs[s]) THEN cs[s]
                   ELSE IF cs[s].waits \subseteq keys THEN Nothing
                   ELSE [cs[s] EXCEPT !.waits = @ \ keys, !.failed = @ \/ failed]]
Ended(keys, failed) ==
  /\ calls' = Woken(calls, keys, failed)
  /\ dialog' = IF \/ Waiting(calls["approve"]) /\ ~Waiting(calls'["approve"])
                  \/ ~Mounted(list')
                  \/ review' = Problem
               THEN FALSE ELSE dialog

\* The library is polled while a document in it is being processed; another
\* one is, all the time.
Poll ==
  /\ fetchL = Nothing /\ fetchL' = Sent
  /\ UNCHANGED <<server, cache, fetchR, calls, reader, faults, history>>
ReadLibrary ==
  /\ fetchL = Sent
  /\ fetchL' = [step |-> "ready", data |-> Summary(doc)]
  /\ UNCHANGED <<server, cache, fetchR, calls, reader, faults, history>>

\* A workspace that leaves the screen drops its fetch.
LibraryArrives ==
  /\ fetchL.step = "ready"
  /\ list' = fetchL.data /\ fetchL' = Nothing /\ setBack' = FALSE
  /\ UNCHANGED <<server, review, requests, faults, settled, overtaken>>
  /\ IF Mounted(list') THEN UNCHANGED fetchR /\ Ended({"list"}, FALSE)
     ELSE fetchR' = Nothing /\ Ended({"list", "review"}, FALSE)

ReadRevision ==
  /\ fetchR = Sent
  /\ fetchR' = IF doc.status \in Reviewable THEN [step |-> "content", revision |-> doc.revision]
               ELSE [step |-> "ready", page |-> Problem]
  /\ UNCHANGED <<server, cache, fetchL, calls, reader, faults, history>>
ReadContent ==
  /\ fetchR.step = "content"
  /\ fetchR' = [step |-> "ready",
                page |-> IF doc.status = "gone" THEN Problem ELSE PageOf(fetchR.revision, doc)]
  /\ UNCHANGED <<server, cache, fetchL, calls, reader, faults, history>>
ReviewArrives ==
  /\ fetchR.step = "ready"
  /\ review' = fetchR.page /\ fetchR' = Nothing /\ overtaken' = FALSE
  /\ UNCHANGED <<server, list, fetchL, requests, faults, settled, setBack>> /\ Ended({"review"}, FALSE)

\* A fetch fails for good, after its retries: the library that is shown stays, in
\* place of the page the error is shown.
FetchFails ==
  /\ faults < MaxFaults /\ faults' = faults + 1 /\ UNCHANGED <<server, list, requests, history>>
  /\ \/ /\ fetchL # Nothing /\ fetchL' = Nothing /\ UNCHANGED <<fetchR, review>>
        /\ Ended({"list"}, TRUE)
     \/ /\ fetchR # Nothing /\ fetchR' = Nothing /\ UNCHANGED fetchL /\ review' = Problem
        /\ Ended({"review"}, TRUE)

-----------------------------------------------------------------------------
(* The reader.                                                             *)

Request(id, op) == [step |-> "sent", id |-> id, op |-> op, shown |-> review]
Another == requests < MaxRequests /\ requests' = requests + 1

\* M, U or a button.  The keys do not look at the decision still under way.
Press(s, id) ==
  LET was == review.state[review.at[id]]
  IN /\ OnScreen /\ ~dialog /\ s \in Keys /\ calls[s] = Nothing
     /\ \E op \in CASE was = "open" -> {"masked", "kept"} [] was = "masked" -> {"kept"}
                    [] was = "kept" -> {"masked"} [] OTHER -> {} :
          calls' = [calls EXCEPT ![s] = Request(id, op)]
     /\ Another
     /\ UNCHANGED <<server, cache, fetchL, fetchR, dialog, faults, history>>

\* The approval's dialog is offered for the library's entry and confirmed for
\* the page; rejection and deletion are confirmed for the document.
OpenDialog ==
  /\ OnScreen /\ ~dialog /\ dialog' = TRUE
  /\ list.status = "needs_review" /\ ~list.open
  /\ UNCHANGED <<server, cache, fetchL, fetchR, calls, requests, faults, history>>
CloseDialog ==
  /\ dialog /\ dialog' = FALSE
  /\ UNCHANGED <<server, cache, fetchL, fetchR, calls, requests, faults, history>>
Confirm(s) ==
  /\ OnScreen /\ calls[s] = Nothing /\ (s = "approve") = dialog
  /\ s = "reject" => list.status = "needs_review"
  /\ calls' = [calls EXCEPT ![s] = Request(1, "none")] /\ Another
  /\ UNCHANGED <<server, cache, fetchL, fetchR, dialog, faults, history>>

\* The reader comes back to the page, and what it shows is stale.
Mount ==
  /\ Mounted(list) /\ fetchR = Nothing /\ fetchR' = Sent /\ Another
  /\ UNCHANGED <<server, cache, fetchL, calls, dialog, faults, history>>

-----------------------------------------------------------------------------
(* Answers.                                                                *)

Reloads == {"stale_revision", "audit_not_clean", "unresolved_items"}
Patched(call) == list' = IF list = Absent THEN list ELSE call.summary
Accepted(s) == calls[s].step = "answered" /\ calls[s].answer = "ok"
TooLate(call) == list # Absent /\ call.summary.version < list.version

\* The cache takes the answer; a fetch under way goes on and will replace it.
Decided(s) ==
  LET call == calls[s]
  IN /\ s \in Keys /\ Accepted(s)
     /\ review' = call.page /\ Patched(call)
     /\ calls' = [calls EXCEPT ![s] = Nothing]
     /\ setBack' = (setBack \/ TooLate(call))
     /\ overtaken' = (overtaken \/ TooLate(call) \/ review = Problem \/ call.page.revision < review.revision)
     /\ UNCHANGED <<server, fetchL, fetchR, reader, faults, settled>>

\* Approval, rejection, deletion: the library is fetched again, and the review
\* with it after an approval.
Settled(s) ==
  LET call == calls[s]
      rest == [calls EXCEPT ![s] = Nothing]
  IN /\ s \in Dialogs /\ Accepted(s)
     /\ Patched(call) /\ ListAgain
     /\ IF s = "approve" /\ Mounted(list')
        THEN fetchR' = Sent /\ UNCHANGED review /\ calls' = rest
        ELSE /\ fetchR' = Nothing /\ calls' = Woken(rest, {"review"}, FALSE)
             /\ review' = IF s = "delete" THEN Problem ELSE review
     /\ dialog' = FALSE
     /\ settled' = call.summary.version
     /\ setBack' = (setBack \/ TooLate(call)) /\ overtaken' = (overtaken \/ TooLate(call))
     /\ UNCHANGED <<server, requests, faults>>

\* A refusal that says the page is out of date reloads it before it is shown.
Refused(s) ==
  LET call == calls[s]
  IN /\ call.step = "answered" /\ call.answer # "ok"
     /\ IF call.answer \in Reloads /\ s \notin {"reject", "delete"}
        THEN /\ Refetched(list)
             /\ calls' = [calls EXCEPT ![s] = [step |-> "reloading", revision |-> call.revision,
                  waits |-> {"list"} \cup IF Mounted(list) THEN {"review"} ELSE {}, failed |-> FALSE]]
        ELSE calls' = [calls EXCEPT ![s] = Nothing] /\ UNCHANGED <<fetchL, fetchR>>
     /\ UNCHANGED <<server, cache, reader, faults, history>>

\* The connection fails before the request arrives, or before its answer does.
Lost(s) ==
  /\ calls[s].step \in {"sent", "applied", "answered"}
  /\ faults < MaxFaults /\ faults' = faults + 1
  /\ calls' = [calls EXCEPT ![s] = Nothing]
  /\ UNCHANGED <<server, cache, fetchL, fetchR, reader, history>>

-----------------------------------------------------------------------------

Fetches == ReadLibrary \/ LibraryArrives \/ ReadRevision \/ ReadContent \/ ReviewArrives
Arrives(s) == Decided(s) \/ Settled(s) \/ Refused(s)
Reads == Poll \/ Fetches \/ FetchFails
Acts == (\E s \in Keys, id \in Ids : Press(s, id)) \/ OpenDialog \/ CloseDialog
        \/ (\E s \in Dialogs : Confirm(s)) \/ Mount
Next == Elsewhere \/ Store \/ Reads \/ Acts \/ \E s \in Slots : Serve(s) \/ Assemble(s) \/ Arrives(s) \/ Lost(s)

Spec == Init /\ [][Next]_vars

-----------------------------------------------------------------------------
(* What the screen promises.                                               *)

Summaries == {Absent} \cup [status : {"needs_review", "approved", "rejected"}, version : Nat, open : BOOLEAN]
States == [Values -> {"unseen", "open", "masked", "kept"}]
Pages == {Problem} \cup [revision : Nat, at : Orders, state : States, torn : BOOLEAN]

\* The state is of its type, and the screen shows nothing the server did not give.
PageTypeOK ==
  /\ doc.status \in Reviewable \cup {"rejected", "gone"} /\ doc.revision <= doc.version
  /\ list \in Summaries /\ review \in Pages
  /\ fetchL.step \in {"idle", "sent", "ready"} /\ fetchR.step \in {"idle", "sent", "content", "ready"}
  /\ \A s \in Slots : calls[s].step \in {"idle", "sent", "storing", "applied", "answered", "reloading"}
  /\ dialog \in BOOLEAN

Applies(s) == calls[s].step = "sent" /\ calls'[s].step = "storing"

\* A decision changes the value the reader saw under the mark he pressed, and
\* finds it as he saw it, however the ids were given out since, in this tab or
\* another (useDecide, expected_revision; the answer's revision is read before
\* its content).  Not so from a torn page: a read that falls between the two
\* writes of a change carries its revision without its content.
DecisionHitsWhatWasShown ==
  [][\A s \in Keys : Applies(s) /\ ~calls[s].shown.torn =>
       LET shown == calls[s].shown
           value == shown.at[calls[s].id]
       IN Target(calls[s]) = value /\ doc.state[value] = shown.state[value]]_vars

\* A document this tab approves is the one on its screen when the approval was
\* confirmed: the same values masked and left open, and none of them waiting
\* for a decision (ApproveDialog: "Approve exactly the revision the person has
\* been looking at"), unless that page was torn.
ApprovedIsWhatWasSeen ==
  [][doc.status # "approved" /\ doc'.status = "approved" /\ ~calls["approve"].shown.torn =>
       LET shown == calls["approve"].shown
       IN doc'.state = shown.state /\ Open(shown.state) = {}]_vars

\* A refusal for a page out of date is shown when the page on screen is at
\* least as new as the refusal, whatever other reload cut this one short (queries.ts:
\* "mutateAsync rejects only after the current review is on screen").  Not so when
\* its own fetch failed, nor while a decision's answer that came too late has left
\* an older page, which the next fetch of the review repairs.
RefusedSeesCurrent ==
  [][\A s \in Slots : Waiting(calls[s]) /\ calls'[s] = Nothing /\ ~calls[s].failed /\ faults' = faults =>
       \/ overtaken' \/ ~Mounted(list') \/ review' = Problem
       \/ review'.revision >= calls[s].revision]_vars

\* What the library showed after an approval, a rejection or a deletion is
\* never replaced by an older poll: a deleted document does not come back.  The
\* answer of a request that came too late may set it back (usePatchSummary looks at
\* no version), and then only until the next poll arrives; a deleted document stays
\* away then too.
SettledStays ==
  /\ setBack \/ list = Absent \/ list.version >= settled
  /\ fetchL.step = "ready" => \/ fetchL.data = Absent
                              \/ list # Absent /\ fetchL.data.version >= settled

\* Whoever waits for a reload waits for a fetch that is under way: one that cuts
\* it short serves it too, and a workspace that leaves the screen releases it.
\* No decision keeps its button spinning for a fetch that nobody started.
WaitsAreServed ==
  \A s \in Slots : Waiting(calls[s]) =>
     /\ "list" \in calls[s].waits => fetchL # Nothing
     /\ "review" \in calls[s].waits => fetchR # Nothing

----------------------------------------------------------------------------
\* What is done is done to what the reader saw, and a refusal shows him what he
\* did not see (useDecide, ApproveDialog).
ActsOnWhatWasShown == DecisionHitsWhatWasShown /\ ApprovedIsWhatWasSeen /\ RefusedSeesCurrent

\* The library is never set back by an older poll, and by an older answer of a
\* request no longer than until the next one; nobody is left waiting for a fetch
\* that nobody started (useDocuments, usePatchSummary, useReloadReview).
ScreenKeepsUp == PageTypeOK /\ SettledStays /\ WaitsAreServed
=============================================================================
