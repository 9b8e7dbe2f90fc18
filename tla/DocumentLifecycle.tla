------------------------- MODULE DocumentLifecycle -------------------------
(***************************************************************************)
(* The life of one document: upload, worker, reviewer, delete, the process *)
(* ending and being started again.  This module composes DocumentStore,    *)
(* Processing and ReviewActions and states what must hold of them.         *)
(***************************************************************************)
EXTENDS Processing, ReviewActions

----------------------------------------------------------------------------
(* Startup: Worker.recover runs before requests are served, and puts every *)
(* document that was being processed back in the queue, when its original  *)
(* is stored, or marks it FAILED.                                          *)

Recoverable == meta.mode = "mapping" /\ layer1

\* Mutant: recovery stores QUEUED and submits no job.
RestartUnsubmitted ==
  /\ ~up
  /\ up' = TRUE
  /\ IF meta.status \notin Processing THEN UNCHANGED meta
     ELSE Save(With(meta, IF Recoverable THEN "queued" ELSE "failed"))
  /\ UNCHANGED <<openFindings, layer1, layer2, anon, edits, context, opVars,
                 submitting, jobs, envVars, verdictOf>>

Restart ==
  /\ ~up
  /\ up' = TRUE
  /\ IF meta.status \notin Processing THEN UNCHANGED <<meta, jobs>>
     ELSE IF Recoverable
       THEN Save(With(meta, "queued")) /\ jobs' = Append(jobs, "stored")
       ELSE Save(With(meta, "failed")) /\ UNCHANGED jobs
  /\ UNCHANGED <<openFindings, layer1, layer2, anon, edits, context, opVars,
                 submitting, envVars, verdictOf>>

\* The recovered document cannot be saved: startup ends there.
RestartFault ==
  /\ ~up /\ meta.status \in Processing
  /\ Fault
  /\ UNCHANGED <<diskVars, opVars, procVars, prefsReadable, crashes, flips,
                 born, verdictOf>>

----------------------------------------------------------------------------

Init ==
  /\ meta = Absent
  /\ openFindings = FALSE
  /\ layer1 = FALSE /\ layer2 = {}
  /\ anon = NoText /\ edits = NoText /\ context = NoText
  /\ up = TRUE
  /\ pc = "idle" /\ mem = Absent /\ work = NoWork
  /\ submitting = "none" /\ jobs = <<>>
  /\ prefsReadable \in BOOLEAN
  /\ faults = 0 /\ crashes = 0 /\ flips = 0
  /\ born = FALSE
  /\ verdictOf = [t \in Texts |-> Unread]

Upload == (\E mode \in Modes : UploadRecord(mode)) \/ UploadOriginal \/ Submit
Trouble == RequestFault \/ Crash \/ Restart \/ RestartFault \/ PrefsFlip

Next == Upload \/ Delete \/ WorkerNext \/ ReviewerNext \/ Trouble

Spec == Init /\ [][Next]_vars

\* An operation that has the lock goes on to its end, the upload's coroutine
\* submits its job, the worker thread takes the next one, and a process that
\* ended is started again.  Nobody has to upload, review or delete.
OperationStep ==
  UploadOriginal \/ DeleteOriginal \/ DeleteExtracted \/ DeleteMasked
  \/ DeleteContext \/ ShredRecord \/ RemoveRecord \/ RunStep \/ ApproveStep \/ DecideStep

Fairness == /\ WF_vars(OperationStep)
            /\ WF_vars(Submit)
            /\ WF_vars(StartJob \/ SkipJob)
            /\ WF_vars(Restart)
FairSpec == Spec /\ Fairness

----------------------------------------------------------------------------
(* Safety.                                                                 *)

\* What an approved document shows in layer 3 (the text that is downloaded,
\* under the lock or not) is the very text a working LLM audited at this very
\* revision, whatever failed or crashed before (approval.approve, runner.route).
ApprovedIsAudited ==
  meta.status = "approved" /\ anon # NoText =>
    /\ meta.audited = meta.revision + 1 /\ meta.digest = anon
    /\ verdictOf[anon] # Unread

\* Approval is never silent: its text was found clean, or what was found was
\* first stored on the document, in review, for the person who approved it
\* (the 409 audit_not_clean of approval._reaudit; SaveRouted otherwise).
NoSilentApproval ==
  meta.status = "approved" /\ anon # NoText => verdictOf[anon] >= Shown

\* findings.json and document.json are two files: an approved document has no
\* open item in the one, and counts none in the other, even when a write
\* between them failed (approve checks only the count).
ApprovedHasNoOpenFinding ==
  meta.status = "approved" => ~openFindings /\ ~meta.pending

\* Chat context, which is read without the lock, is at every moment a text a
\* working LLM read (build_chat_context is the only writer).
ContextIsAudited == context # NoText => verdictOf[context] >= Shown

\* What chat sends of an approved document is what its download shows: layer 5
\* is written before the approval is stored, and a re-mask takes the approval
\* back before it touches layer 3.
ContextMatchesDownload ==
  meta.status = "approved" /\ NoText \notin {anon, context} => context = anon

\* Destructive mode never writes layers 1 and 2 (upload, mask_and_route,
\* _record_reaudit and the decisions each check the mode for themselves).
DestructiveKeepsNothing ==
  meta.status # "absent" /\ meta.mode = "destructive" => ~layer1 /\ layer2 = {}

\* No file of a deleted document survives its record or comes back, from the
\* upload that raced the delete or from the worker's job (the record goes last;
\* everyone re-reads it under the lock).
NothingLeftBehind ==
  born /\ meta.status = "absent" =>
    /\ ~layer1 /\ layer2 = {} /\ ~openFindings
    /\ {anon, edits, context} = {NoText}

\* Layer 3 is written as two files and layer 4 as two more: without a failure
\* they agree whenever no operation is under way.
LayersAgree ==
  Idle /\ meta.status \in Reviewable /\ faults + crashes = 0 =>
    edits = anon /\ openFindings = meta.pending

\* A document shown as being processed has someone who will go on with it: its
\* job, the upload about to submit one, or the operation under way.
ProcessingHasAJob ==
  up /\ meta.status \in Processing /\ faults = 0 =>
    pc # "idle" \/ jobs # <<>> \/ submitting # "none"

\* A delete that could not be finished can be retried: whatever was not removed
\* is under a document that is still listed (storage/local.py says so of every
\* layer that survives; the record is one of the layers).
UnfinishedDeleteIsListed == pc = "idle" => meta.status # "unreadable"

----------------------------------------------------------------------------
(* What a step may never do.                                               *)

ApprovesAlone == meta.status \in Processing /\ meta'.status = "approved"

\* The worker approves on its own only what a working LLM found clean, with
\* nothing open, no blocking extraction warning and, as long as nobody touches
\* the settings file, the user's term lists applied (runner.route).
WorkerApprovesClean ==
  [][ApprovesAlone => /\ verdictOf'[anon'] = Clean
                      /\ ~openFindings' /\ ~work.blocking
                      /\ flips = 0 => work.lists]_vars

\* note_settings: a document whose always-mask list was not applied, because
\* the settings file could not be read, is never approved without a human.
UnreadListsNeedAHuman == [][ApprovesAlone => work.lists]_vars

\* An id is used once: a deleted document never comes back.
DeletedStaysDeleted ==
  [][born /\ meta.status = "absent" => meta'.status = "absent"]_vars

----------------------------------------------------------------------------
(* Implementation of DocumentPromise.                                      *)

\* What the library page says: an unreadable record is in no list.
PhaseOf(doc) ==
  IF ~born THEN "none"
  ELSE CASE doc.status \in {"absent", "unreadable"} -> "gone"
         [] doc.status \in Processing               -> "working"
         [] OTHER                                   -> doc.status

\* What GET /download answers (api/documents.py, under the lock).
Downloadable == IF meta.status = "approved" THEN anon ELSE NoText

HeardTexts == {t \in Texts : verdictOf[t] # Unread}

Promise == INSTANCE DocumentPromise
  WITH phase <- PhaseOf(meta), shown <- Downloadable, shared <- context,
       audited <- HeardTexts

\* Through all writes, failures and restarts the document keeps its promise: an
\* approved text was audited and is never replaced, only taken back (a decision
\* stores the review status before the new text, delete removes the text before
\* layer 5 and the record), chat's text is in place before an approval, and no
\* job or recovery brings back what was settled.
KeepsPromise == Promise!PromiseSpec

----------------------------------------------------------------------------
(* Liveness.                                                               *)

\* Processing ends: every uploaded document is settled or deleted in the end,
\* whatever happens to the process meanwhile.  A write that fails may leave it
\* as last stored until the next start (runner._fail says so).
ProcessingEnds ==
  meta.status \in Processing ~> meta.status \notin Processing \/ faults > 0

\* The lock is always released, after a failed write too: no reviewer action or
\* job waits for it forever (locks.document_lock waits without a timeout).
LockIsReleased == pc # "idle" ~> pc = "idle"

----------------------------------------------------------------------------
(* What the parts above promise together.                                  *)

\* An approval can be relied on: its text was audited at its revision, it never
\* came about silently, and nothing open is left on it (approve, route).
ApprovalIsSound ==
  ApprovedIsAudited /\ NoSilentApproval /\ ApprovedHasNoOpenFinding

\* What chat sends of a document was audited, and is what its download shows
\* (build_chat_context, which is read without the lock).
ChatContextIsSound == ContextIsAudited /\ ContextMatchesDownload

\* What must not be kept is not: no original in destructive mode, no file of a
\* deleted document (upload, mask_and_route, delete_document).
NothingIsKept == DestructiveKeepsNothing /\ NothingLeftBehind

\* What must not be lost is not: the files of a layer fit each other, and a
\* document in processing has somebody who goes on with it (JobQueue.submit, recover).
NothingIsLost == LayersAgree /\ ProcessingHasAJob

\* Every document comes to rest and lets go of its lock, for uploads, decisions
\* and jobs alike (JobQueue.recover, document_lock).
DocumentSettles == ProcessingEnds /\ LockIsReleased
=============================================================================
