---------------------- MODULE DocumentLifecycleProofs ----------------------
(***************************************************************************)
(* Proofs about DocumentLifecycle, for every set of texts and every bound: *)
(* its type invariant, the inductive invariant of DocumentInvariant, and   *)
(* the safety properties that follow from it.                              *)
(*                                                                         *)
(* The first lemmas are about the documents an action builds.  A step is   *)
(* then looked at one action at a time, from these facts; the parts of the *)
(* invariant and the sets of step names are expanded throughout (the USE   *)
(* below).                                                                 *)
(***************************************************************************)
EXTENDS DocumentInvariant, TLAPS

----------------------------------------------------------------------------
(* The helpers of DocumentStore.                                           *)

\* Document.transition changes the status and nothing else.
LEMMA WithFacts ==
  ASSUME NEW doc \in Meta, NEW s \in Status
  PROVE  /\ With(doc, s) \in Meta
         /\ With(doc, s).status = s
         /\ With(doc, s).mode = doc.mode
         /\ With(doc, s).revision = doc.revision
         /\ With(doc, s).audited = doc.audited
         /\ With(doc, s).digest = doc.digest
         /\ With(doc, s).pending = doc.pending
<1>1. With(doc, s) \in Meta
  BY DEF With, Meta
<1>2. QED
  BY <1>1 DEF With, Meta

\* A new revision changes the revision and nothing else.
LEMMA BumpedFacts ==
  ASSUME NEW doc \in Meta
  PROVE  /\ Bumped(doc) \in Meta
         /\ Bumped(doc).revision = doc.revision + 1
         /\ Bumped(doc).status = doc.status
         /\ Bumped(doc).mode = doc.mode
         /\ Bumped(doc).audited = doc.audited
         /\ Bumped(doc).digest = doc.digest
         /\ Bumped(doc).pending = doc.pending
<1>1. Bumped(doc) \in Meta
  BY DEF Bumped, Meta
<1>2. QED
  BY <1>1 DEF Bumped, Meta

\* The count of open items changes alone.
LEMMA WithPendingFacts ==
  ASSUME NEW doc \in Meta, NEW b \in BOOLEAN
  PROVE  /\ WithPending(doc, b) \in Meta
         /\ WithPending(doc, b).pending = b
         /\ WithPending(doc, b).status = doc.status
         /\ WithPending(doc, b).mode = doc.mode
         /\ WithPending(doc, b).revision = doc.revision
         /\ WithPending(doc, b).audited = doc.audited
         /\ WithPending(doc, b).digest = doc.digest
<1>1. WithPending(doc, b) \in Meta
  BY DEF WithPending, Meta
<1>2. QED
  BY <1>1 DEF WithPending, Meta

\* The mark of an audit: its revision and its digest, together.
LEMMA MarkAuditedFacts ==
  ASSUME NEW doc \in Meta, NEW t \in MaybeText
  PROVE  /\ MarkAudited(doc, t) \in Meta
         /\ MarkAudited(doc, t).audited = doc.revision + 1
         /\ MarkAudited(doc, t).digest = t
         /\ MarkAudited(doc, t).status = doc.status
         /\ MarkAudited(doc, t).mode = doc.mode
         /\ MarkAudited(doc, t).revision = doc.revision
         /\ MarkAudited(doc, t).pending = doc.pending
<1> DEFINE Dated == [doc EXCEPT !.audited = doc.revision + 1]
<1>1. Dated \in Meta
  BY DEF Meta
<1>2. ASSUME NEW d \in Meta PROVE [d EXCEPT !.digest = t] \in Meta
  BY <1>2 DEF Meta
<1>3. MarkAudited(doc, t) \in Meta
  BY <1>1, <1>2 DEF MarkAudited
<1>4. QED
  BY <1>3 DEF MarkAudited, Meta

\* Both, as _record_reaudit and record_audit leave the document.
LEMMA AuditedAndPendingFacts ==
  ASSUME NEW doc \in Meta, NEW t \in MaybeText, NEW b \in BOOLEAN
  PROVE  LET new == WithPending(MarkAudited(doc, t), b)
         IN  /\ new \in Meta
             /\ new.audited = doc.revision + 1 /\ new.digest = t
             /\ new.pending = b
             /\ new.status = doc.status /\ new.mode = doc.mode
             /\ new.revision = doc.revision
<1>1. MarkAudited(doc, t) \in Meta
  BY MarkAuditedFacts
<1> DEFINE marked == MarkAudited(doc, t)
<1>2. /\ marked.audited = doc.revision + 1 /\ marked.digest = t
      /\ marked.status = doc.status /\ marked.mode = doc.mode
      /\ marked.revision = doc.revision
  BY MarkAuditedFacts
<1> HIDE DEF marked
<1>3. /\ WithPending(marked, b) \in Meta
      /\ WithPending(marked, b).pending = b
      /\ WithPending(marked, b).audited = marked.audited
      /\ WithPending(marked, b).digest = marked.digest
      /\ WithPending(marked, b).status = marked.status
      /\ WithPending(marked, b).mode = marked.mode
      /\ WithPending(marked, b).revision = marked.revision
  BY <1>1, WithPendingFacts DEF marked
<1>4. QED
  BY <1>2, <1>3 DEF marked

\* The fields of a document.
LEMMA MetaFields ==
  ASSUME NEW doc \in Meta
  PROVE  /\ doc.status \in Status /\ doc.mode \in Modes
         /\ doc.revision \in Nat /\ doc.audited \in Nat
         /\ doc.digest \in MaybeText /\ doc.pending \in BOOLEAN
  BY DEF Meta

\* A document that is not there, and the record of a fresh upload.
LEMMA NewDocumentFacts ==
  /\ Absent \in Meta
  /\ Absent.status = "absent" /\ Absent.mode = "mapping"
  /\ Shredded \in Meta /\ Shredded.status = "unreadable"
  /\ \A mode \in Modes :
       /\ NewDocument(mode) \in Meta
       /\ NewDocument(mode).status = "queued" /\ NewDocument(mode).mode = mode
       /\ NewDocument(mode).revision = 0 /\ NewDocument(mode).audited = 0
       /\ NewDocument(mode).pending = FALSE
<1>1. /\ Absent \in Meta /\ Absent.status = "absent" /\ Absent.mode = "mapping"
      /\ Shredded \in Meta /\ Shredded.status = "unreadable"
  BY DEF Absent, Shredded, Meta, Status, Modes, MaybeText
<1>2. ASSUME NEW mode \in Modes
      PROVE /\ NewDocument(mode).status = "queued"
            /\ NewDocument(mode).mode = mode
            /\ NewDocument(mode).revision = 0 /\ NewDocument(mode).audited = 0
            /\ NewDocument(mode).pending = FALSE
  BY <1>2 DEF NewDocument, Absent
<1>3. ASSUME NEW mode \in Modes PROVE NewDocument(mode) \in Meta
  <2>1. [Absent EXCEPT !.status = "queued"] \in Meta
    BY <1>1 DEF Meta, Status, Processing
  <2>2. ASSUME NEW d \in Meta PROVE [d EXCEPT !.mode = mode] \in Meta
    BY <2>2, <1>3 DEF Meta
  <2>3. QED
    BY <2>1, <2>2 DEF NewDocument
<1>4. QED
  BY <1>1, <1>2, <1>3

\* The step names, and the locals an operation starts with.
LEMMA NoWorkFacts ==
  /\ NoWork \in Work
  /\ NoWork.text = NoText
<1>1. NoVerdict \in Verdicts
  BY DEF NoVerdict, Verdicts
<1>2. QED
  BY <1>1 DEF NoWork, Work, MaybeText

LEMMA WorkFields ==
  ASSUME NEW w \in Work
  PROVE  /\ w.text \in MaybeText /\ w.audit \in Verdicts
         /\ w.audit.open \in BOOLEAN /\ w.audit.clean \in BOOLEAN
         /\ w.audit.clean => ~w.audit.open
<1>1. w.text \in MaybeText /\ w.audit \in Verdicts
  BY DEF Work
<1>2. QED
  BY <1>1 DEF Verdicts

\* The engine's output, or the text that was read, becomes the operation's.
LEMMA WithTextFacts ==
  ASSUME NEW w \in Work, NEW t \in MaybeText
  PROVE  /\ [w EXCEPT !.text = t] \in Work
         /\ [w EXCEPT !.text = t].text = t
         /\ [w EXCEPT !.text = t].lists = w.lists
<1>1. [w EXCEPT !.text = t] \in Work
  BY DEF Work
<1>2. QED
  BY DEF Work

\* An audit's result joins the locals; the text stays.
LEMMA WithAuditFacts ==
  ASSUME NEW w \in Work, NEW v \in Verdicts
  PROVE  /\ [w EXCEPT !.audit = v] \in Work
         /\ [w EXCEPT !.audit = v].audit = v
         /\ [w EXCEPT !.audit = v].text = w.text
         /\ [w EXCEPT !.audit = v].lists = w.lists
         /\ [w EXCEPT !.audit = v, !.round = @ + 1] \in Work
         /\ [w EXCEPT !.audit = v, !.round = @ + 1].audit = v
         /\ [w EXCEPT !.audit = v, !.round = @ + 1].text = w.text
         /\ [w EXCEPT !.audit = v, !.round = @ + 1].lists = w.lists
<1>1. [w EXCEPT !.audit = v] \in Work
  BY DEF Work
<1>2. ASSUME NEW x \in Work PROVE [x EXCEPT !.round = @ + 1] \in Work
  BY <1>2 DEF Work
<1>3. [w EXCEPT !.audit = v, !.round = @ + 1] =
        [[w EXCEPT !.audit = v] EXCEPT !.round = @ + 1]
  BY DEF Work
<1>4. QED
  BY <1>1, <1>2, <1>3 DEF Work

LEMMA WithListsFacts ==
  ASSUME NEW w \in Work, NEW b \in BOOLEAN, NEW c \in BOOLEAN
  PROVE  /\ [w EXCEPT !.blocking = b, !.lists = c] \in Work
         /\ [w EXCEPT !.blocking = b, !.lists = c].text = w.text
         /\ [w EXCEPT !.blocking = b, !.lists = c].lists = c
<1>1. [w EXCEPT !.blocking = b] \in Work
  BY DEF Work
<1>2. ASSUME NEW x \in Work PROVE [x EXCEPT !.lists = c] \in Work
  BY <1>2 DEF Work
<1>3. QED
  BY <1>1, <1>2 DEF Work

\* What is known of a text never gets worse, and the new verdict counts.
LEMMA LearnFacts ==
  ASSUME HistoryTypeOK, NEW t, NEW rank \in Unread..Clean, Learn(t, rank)
  PROVE  /\ HistoryTypeOK'
         /\ \A u \in Texts : verdictOf'[u] >= verdictOf[u]
         /\ t \in Texts => verdictOf'[t] >= rank
<1> DEFINE Best(u) == IF u = t /\ verdictOf[u] < rank THEN rank ELSE verdictOf[u]
<1>1. \A u \in Texts : verdictOf[u] \in Unread..Clean
  BY DEF HistoryTypeOK
<1>2. verdictOf' = [u \in Texts |-> Best(u)]
  BY DEF HistoryTypeOK, Learn
<1>3. \A u \in Texts : Best(u) \in Unread..Clean
  BY <1>1
<1>4. HistoryTypeOK'
  BY <1>2, <1>3 DEF HistoryTypeOK
<1>5. QED
  BY <1>1, <1>2, <1>4 DEF Unread, Clean

----------------------------------------------------------------------------
(* Types, one group of variables at a time.                                *)

LEMMA StatusNames ==
  {"queued", "extracting", "masking", "auditing", "review", "approved",
   "rejected", "failed"} \subseteq Status
  BY DEF Status, Processing, Reviewable

LEMMA RankNames ==
  /\ Unread = 0 /\ Unclean = 1 /\ Shown = 2 /\ Clean = 3
  /\ {Unread, Unclean, Shown, Clean} \subseteq Unread..Clean
  BY DEF Unread, Unclean, Shown, Clean

USE DEF Next, Upload, Delete, WorkerNext, RunStep, ReviewerNext, ApproveStep,
        DecideStep, Trouble, UploadRecord, UploadOriginal, Submit,
        DeleteStart, DeleteOriginal, DeleteExtracted, DeleteMasked,
        DeleteContext, ShredRecord, RemoveRecord, SkipJob, StartJob,
        SaveExtracting,
        Extract, ExtractFails, SaveNoText, SaveMasking, Anonymize, Audit,
        PersistAnonymized, PersistMapping, PersistEdits, RecordAudit, Route, SaveRouted,
        SaveFailed, ProcessFault, FailFault, ApproveStart, ReauditFails,
        Reaudit, ReauditFindings, ReauditUnclean, ApproveContext, ApproveSave,
        DecideStart, RemaskStatus, RemaskAnonymized, RemaskEdits,
        RemaskFindings, RemaskSave, Reject, RequestFault, Crash, Restart,
        RestartFault, PrefsFlip

\* Documents: the stored one and the one in memory.
LEMMA DocumentsType ==
  ASSUME TypeOK, Next PROVE meta' \in Meta /\ mem' \in Meta
<1>1. mem \in Meta /\ meta \in Meta /\ work \in Work
  BY DEF TypeOK, DiskTypeOK, OperationTypeOK
<1>2. Absent \in Meta /\ Shredded \in Meta /\ \A mode \in Modes : NewDocument(mode) \in Meta
  BY NewDocumentFacts
<1>3. \A s \in Status : With(mem, s) \in Meta /\ With(meta, s) \in Meta
  BY <1>1, WithFacts
<1>4. Bumped(mem) \in Meta /\ Remasked(meta) \in Meta
  BY <1>1, BumpedFacts, WithFacts, StatusNames DEF Remasked
<1>5. \A b \in BOOLEAN : WithPending(mem, b) \in Meta
  BY <1>1, WithPendingFacts
<1>6. Audited(mem, work.text, work.audit) \in Meta
  BY <1>1, WorkFields, MarkAuditedFacts, WithPendingFacts DEF Audited
<1>7. WithPending(MarkAudited(mem, work.text), work.audit.open) \in Meta
  BY <1>1, WorkFields, MarkAuditedFacts, WithPendingFacts
<1>8. With(WithPending(MarkAudited(mem, work.text), work.audit.open),
           "approved") \in Meta
  BY <1>7, WithFacts, StatusNames
<1>9. QED
  BY <1>1, <1>2, <1>3, <1>4, <1>5, <1>6, <1>7, <1>8, StatusNames
  DEF Save, Release, diskVars, opVars

\* The files of the layers.
LEMMA LayersType ==
  ASSUME TypeOK, Next
  PROVE  /\ openFindings' \in BOOLEAN
         /\ layer1' \in BOOLEAN
         /\ layer2' \in SUBSET {"extracted", "records"}
         /\ anon' \in MaybeText /\ edits' \in MaybeText /\ context' \in MaybeText
<1>1. /\ openFindings \in BOOLEAN /\ work.audit.open \in BOOLEAN
      /\ layer1 \in BOOLEAN
      /\ layer2 \in SUBSET {"extracted", "records"}
      /\ {anon, edits, context, work.text, NoText} \subseteq MaybeText
  BY WorkFields DEF TypeOK, OperationTypeOK, DiskTypeOK, MaybeText
<1>2. openFindings' \in BOOLEAN
  BY <1>1
  DEF diskVars
<1>3. layer1' \in BOOLEAN /\ layer2' \in SUBSET {"extracted", "records"}
  BY <1>1
  DEF diskVars
<1>4. anon' \in MaybeText /\ edits' \in MaybeText /\ context' \in MaybeText
  BY <1>1
  DEF diskVars
<1>5. QED
  BY <1>2, <1>3, <1>4

\* The step and the locals of the operation.
LEMMA LocalsType ==
  ASSUME TypeOK, Next PROVE pc' \in Steps /\ work' \in Work
<1>1. /\ NoWork \in Work /\ work \in Work /\ pc \in Steps
      /\ anon \in MaybeText /\ Texts \subseteq MaybeText
      /\ prefsReadable \in BOOLEAN
  BY NoWorkFacts
  DEF TypeOK, OperationTypeOK, DiskTypeOK, MaybeText, EnvTypeOK
<1>2. \A t \in MaybeText : /\ [work EXCEPT !.text = t] \in Work
                           /\ [NoWork EXCEPT !.text = t] \in Work
  BY <1>1, WithTextFacts
<1>3. \A v \in Verdicts : /\ [work EXCEPT !.audit = v] \in Work
                          /\ [work EXCEPT !.audit = v, !.round = @ + 1] \in Work
  BY <1>1, WithAuditFacts
<1>4. \A b \in BOOLEAN, c \in BOOLEAN :
        [work EXCEPT !.blocking = b, !.lists = c] \in Work
  BY <1>1, WithListsFacts
<1>5. work' \in Work
  BY <1>1, <1>2, <1>3, <1>4
  DEF Release, opVars
<1>6. pc' \in Steps
  BY <1>1
  DEF Steps, UploadSteps, DeleteSteps, ProcessSteps, ApproveSteps,
      DecideSteps, Goto, Release, opVars
<1>7. QED
  BY <1>5, <1>6

\* The queue, the submitting upload, the settings file and the counters.
LEMMA ProcessType ==
  ASSUME TypeOK, Next PROVE ProcessTypeOK' /\ EnvTypeOK'
<1>1. /\ ProcessTypeOK /\ EnvTypeOK
      /\ faults + 1 \in Nat /\ crashes + 1 \in Nat /\ flips + 1 \in Nat
  BY ONLY TypeOK DEF TypeOK, EnvTypeOK
<1>2. /\ Sources = {"stored", "bytes"}
      /\ submitting # "none" => Append(jobs, submitting) \in Seq(Sources)
      /\ jobs # <<>> => Tail(jobs) \in Seq(Sources)
      /\ Append(jobs, "stored") \in Seq(Sources) /\ <<>> \in Seq(Sources)
  BY ONLY <1>1 DEF ProcessTypeOK, Sources
<1>3. ProcessTypeOK'
  BY <1>1, <1>2
  DEF ProcessTypeOK, procVars
<1>4. EnvTypeOK'
  BY <1>1
  DEF EnvTypeOK, envVars, Fault
<1>5. QED
  BY <1>3, <1>4

\* What is remembered of each text.
LEMMA HistoryType ==
  ASSUME TypeOK, Next PROVE HistoryTypeOK'
<1>1. HistoryTypeOK
  BY DEF TypeOK
<1>2. ASSUME NEW t, NEW r \in Unread..Clean, Learn(t, r) PROVE HistoryTypeOK'
  BY <1>1, <1>2, LearnFacts
<1>3. verdictOf' = verdictOf => HistoryTypeOK'
  BY <1>1 DEF HistoryTypeOK
<1>4. QED
  BY <1>1, <1>2, <1>3, RankNames
  DEF Heard

HIDE DEF Next, Upload, Delete, WorkerNext, RunStep, ReviewerNext, ApproveStep,
         DecideStep, Trouble, UploadRecord, UploadOriginal, Submit,
         DeleteStart, DeleteOriginal, DeleteExtracted, DeleteMasked,
         DeleteContext, ShredRecord, RemoveRecord, SkipJob, StartJob,
        SaveExtracting,
         Extract, ExtractFails, SaveNoText, SaveMasking, Anonymize, Audit,
         PersistAnonymized, PersistMapping, PersistEdits, RecordAudit, Route, SaveRouted,
         SaveFailed, ProcessFault, FailFault, ApproveStart, ReauditFails,
         Reaudit, ReauditFindings, ReauditUnclean, ApproveContext,
         ApproveSave, DecideStart, RemaskStatus, RemaskAnonymized,
         RemaskEdits, RemaskFindings, RemaskSave, Reject, RequestFault, Crash,
         Restart, RestartFault, PrefsFlip

LEMMA TypeInit == Init => TypeOK
<1> SUFFICES ASSUME Init PROVE TypeOK
  OBVIOUS
<1>1. DiskTypeOK
  BY NewDocumentFacts DEF Init, DiskTypeOK, MaybeText
<1>2. OperationTypeOK
  BY NewDocumentFacts, NoWorkFacts DEF Init, OperationTypeOK, Steps
<1>3. ProcessTypeOK
  BY DEF Init, ProcessTypeOK, Sources
<1>4. EnvTypeOK
  BY DEF Init, EnvTypeOK
<1>5. HistoryTypeOK
  BY RankNames DEF Init, HistoryTypeOK
<1>6. QED
  BY <1>1, <1>2, <1>3, <1>4, <1>5 DEF TypeOK

LEMMA TypeStep == TypeOK /\ [Next]_vars => TypeOK'
<1>1. ASSUME TypeOK, Next PROVE TypeOK'
  BY <1>1, DocumentsType, LayersType, LocalsType, ProcessType, HistoryType
  DEF TypeOK, DiskTypeOK, OperationTypeOK
<1>2. ASSUME TypeOK, UNCHANGED vars PROVE TypeOK'
  BY <1>2 DEF TypeOK, DiskTypeOK, OperationTypeOK, ProcessTypeOK, EnvTypeOK,
              HistoryTypeOK, vars, diskVars, opVars, procVars, envVars
<1>3. QED
  BY <1>1, <1>2

\* Type correctness: the disk, the operation under way, the queue and the
\* counters only ever hold what the code can put there.
THEOREM TypeCorrect == Spec => []TypeOK
<1>1. QED
  BY TypeInit, TypeStep, PTL DEF Spec

----------------------------------------------------------------------------
(* The inductive invariant.  Each lemma takes one step of an operation.    *)

USE DEF Coordination, ControlOK, FreshOK, WorkerOK, ApprovalOK, RemaskOK,
        AuditRecordOK, AuditNotAhead, CoverageOK, ApprovedOK, DeleteOK,
        AbsentOK, ContextIsAudited, ContextMatchesDownload,
        DestructiveKeepsNothing, UploadSteps, DeleteSteps, ProcessSteps,
        ApproveSteps, DecideSteps, Remasking, BeforeMask, AfterAudit, AfterLists,
        Persisting, Approving, Processing, Reviewable, Busy, Covers,
        Idle, At, Goto, Save, Release, diskVars, opVars, procVars, envVars

\* A transition of the status leaves the rest of the document as it was.
SameBut(new, old, s) ==
  /\ new.status = s /\ new.mode = old.mode
  /\ new.revision = old.revision /\ new.audited = old.audited
  /\ new.digest = old.digest /\ new.pending = old.pending

LEMMA Transition ==
  ASSUME NEW doc \in Meta,
         NEW s \in {"queued", "extracting", "masking", "auditing", "review",
                    "approved", "rejected", "failed"}
  PROVE  SameBut(With(doc, s), doc, s)
  BY WithFacts, StatusNames DEF SameBut

\* What the type invariant says of the fields the invariant speaks of.
LEMMA Fields ==
  ASSUME TypeOK
  PROVE  /\ meta \in Meta /\ mem \in Meta /\ work \in Work
         /\ work.text \in Texts \cup {NoText}
         /\ work.audit.open \in BOOLEAN /\ work.audit.clean \in BOOLEAN
         /\ work.audit.clean => ~work.audit.open
         /\ anon \in Texts \cup {NoText} /\ context \in Texts \cup {NoText}
         /\ openFindings \in BOOLEAN /\ prefsReadable \in BOOLEAN
         /\ flips \in Nat
         /\ meta.pending \in BOOLEAN /\ mem.pending \in BOOLEAN
         /\ meta.revision \in Nat /\ meta.audited \in Nat
         /\ mem.revision \in Nat /\ mem.audited \in Nat
         /\ meta.mode \in Modes
         /\ \A t \in Texts : verdictOf[t] \in Nat
  BY WorkFields, MetaFields, RankNames
  DEF TypeOK, DiskTypeOK, OperationTypeOK, EnvTypeOK, HistoryTypeOK,
      MaybeText

\* A released lock leaves no document in memory.
LEMMA AbsentFields ==
  /\ Absent.status = "absent" /\ Absent.mode = "mapping"
  /\ Absent.revision = 0 /\ Absent.audited = 0
  /\ Shredded.status = "unreadable" /\ Shredded.mode = "mapping"
  /\ Shredded.revision = 0 /\ Shredded.audited = 0
  BY DEF Absent, Shredded

\* An audit of t: it is now known at least so well, and nothing is forgotten.
LEMMA Learned ==
  ASSUME TypeOK, NEW t \in Texts, NEW rank \in {Unclean, Shown, Clean},
         Learn(t, rank)
  PROVE  /\ verdictOf'[t] >= rank
         /\ \A u \in Texts : /\ verdictOf[u] \in Nat /\ verdictOf'[u] \in Nat
                             /\ verdictOf'[u] >= verdictOf[u]
<1>1. HistoryTypeOK /\ rank \in Unread..Clean
  BY RankNames DEF TypeOK
<1>2. /\ HistoryTypeOK' /\ verdictOf'[t] >= rank
      /\ \A u \in Texts : verdictOf'[u] >= verdictOf[u]
  BY <1>1, LearnFacts
<1>3. QED
  BY <1>1, <1>2, RankNames DEF HistoryTypeOK

\* Upload: a new document has nothing on disk, whatever its mode.
LEMMA UploadStep ==
  ASSUME IInv, Upload PROVE Coordination'
<1>1. ASSUME NEW mode \in Modes, UploadRecord(mode) PROVE Coordination'
  <2>1. /\ NewDocument(mode).status = "queued" /\ NewDocument(mode).mode = mode
        /\ NewDocument(mode).revision = 0 /\ NewDocument(mode).audited = 0
        /\ NewDocument(mode).pending = FALSE
    BY NewDocumentFacts
  <2>2. QED
    BY <1>1, <2>1, Fields DEF IInv, UploadRecord
<1>2. CASE UploadOriginal
  BY <1>2, Fields, AbsentFields DEF IInv, UploadOriginal
<1>3. CASE Submit
  <2>1. UNCHANGED <<diskVars, opVars, up, envVars, verdictOf>>
    BY <1>3 DEF Submit
  <2>2. QED
    BY <2>1 DEF IInv
<1>4. QED
  BY <1>1, <1>2, <1>3 DEF Upload

\* Delete: layers go before the record, so an absent record has none.
LEMMA DeleteStep ==
  ASSUME IInv, Delete PROVE Coordination'
<1>1. CASE DeleteStart
  BY <1>1, Fields, AbsentFields DEF IInv, DeleteStart
<1>2. CASE DeleteOriginal
  BY <1>2, Fields, AbsentFields DEF IInv, DeleteOriginal
<1>3. CASE DeleteExtracted
  BY <1>3, Fields, AbsentFields DEF IInv, DeleteExtracted
<1>4. CASE DeleteMasked
  BY <1>4, Fields, AbsentFields DEF IInv, DeleteMasked
<1>5. CASE DeleteContext
  BY <1>5, Fields, AbsentFields DEF IInv, DeleteContext
<1>6. CASE ShredRecord
  <2>1. /\ At("del4") /\ UNCHANGED <<up, layer1, layer2, anon, edits, context,
                                     mem, work, procVars, envVars, verdictOf>>
        /\ openFindings' \in {openFindings, FALSE}
        /\ \/ meta' = Shredded /\ pc' = "removing"
           \/ meta' = meta /\ pc' = pc
    BY <1>6 DEF ShredRecord
  <2>2. CASE meta' = Shredded /\ pc' = "removing"
    BY <2>1, <2>2, Fields, AbsentFields DEF IInv
  <2>3. CASE meta' = meta /\ pc' = pc
    <3>1. openFindings \in BOOLEAN
      BY DEF IInv, TypeOK, DiskTypeOK
    <3>2. openFindings' => openFindings
      BY <2>1, <3>1
    <3>3. QED
      BY <2>1, <2>3, <3>2 DEF IInv
  <2>4. QED
    BY <2>1, <2>2, <2>3
<1>7. CASE RemoveRecord
  BY <1>7, Fields, AbsentFields DEF IInv, RemoveRecord
<1>8. QED
  BY <1>1, <1>2, <1>3, <1>4, <1>5, <1>6, <1>7 DEF Delete

\* The worker, up to the first audit: the document is as it was uploaded.
LEMMA ProcessBegins ==
  ASSUME IInv,
         \/ SkipJob \/ StartJob \/ SaveExtracting \/ Extract \/ ExtractFails
         \/ SaveNoText \/ SaveMasking \/ Anonymize
  PROVE  Coordination'
<1>1. CASE SkipJob
  <2>1. UNCHANGED <<diskVars, opVars, up, envVars, verdictOf>>
    BY <1>1 DEF SkipJob
  <2>2. QED
    BY <2>1 DEF IInv
<1>2. CASE StartJob
  <2>1. /\ Idle /\ meta.status \in Processing
        /\ UNCHANGED <<diskVars, work, up, envVars, verdictOf>>
        /\ \/ pc' = "pFail" /\ mem' = meta
           \/ pc' = "pExtracting" /\ mem' = With(meta, "extracting")
    BY <1>2 DEF StartJob
  <2>2. SameBut(With(meta, "extracting"), meta, "extracting")
    BY Fields, Transition DEF IInv
  <2>3. QED
    BY <2>1, <2>2, Fields DEF IInv, SameBut
<1>3. CASE SaveExtracting
  BY <1>3, Fields DEF IInv, SaveExtracting
<1>4. CASE Extract
  <2>1. mem.mode = meta.mode /\ pc = "pExtract"
    BY <1>4 DEF IInv, Extract
  <2>2. layer2' = layer2 \/ meta.mode = "mapping"
    BY <1>4, <2>1, Fields DEF IInv, Extract, Modes
  <2>3. /\ At("pExtract")
        /\ UNCHANGED <<meta, openFindings, layer1, anon, edits, context, mem,
                       procVars, envVars, verdictOf>>
        /\ \/ pc' = "pNoText"
           \/ /\ pc' = "pMask"
              /\ \E b \in BOOLEAN :
                   work' = [work EXCEPT !.blocking = b, !.lists = prefsReadable]
    BY <1>4 DEF Extract
  <2>4. work \in Work /\ prefsReadable \in BOOLEAN
    BY DEF IInv, TypeOK, OperationTypeOK, EnvTypeOK
  <2>5. pc' = "pNoText" \/ (pc' = "pMask" /\ work'.lists = prefsReadable)
    <3> HIDE DEF At
    <3>1. ASSUME NEW b \in BOOLEAN,
                 work' = [work EXCEPT !.blocking = b, !.lists = prefsReadable]
          PROVE  work'.lists = prefsReadable
      BY <2>4, <3>1, WithListsFacts
    <3>2. QED
      BY <2>3, <3>1
  <2>6. QED
    BY <2>2, <2>3, <2>5 DEF IInv
<1>5. CASE ExtractFails
  BY <1>5 DEF IInv, ExtractFails
<1>6. CASE SaveNoText
  <2>1. SameBut(With(mem, "review"), mem, "review")
    BY Fields, Transition DEF IInv
  <2>2. QED
    BY <1>6, <2>1, Fields, AbsentFields DEF IInv, SaveNoText, SameBut
<1>7. CASE SaveMasking
  <2>1. SameBut(With(mem, "masking"), mem, "masking")
    BY Fields, Transition DEF IInv
  <2>2. QED
    BY <1>7, <2>1, Fields DEF IInv, SaveMasking, SameBut
<1>8. CASE Anonymize
  <2>1. SameBut(With(mem, "auditing"), mem, "auditing")
    BY Fields, Transition DEF IInv
  <2>2. work'.text \in Texts /\ work'.lists = work.lists
    BY <1>8, Fields, WithTextFacts DEF IInv, Anonymize, MaybeText
  <2>3. QED
    BY <1>8, <2>1, <2>2, Fields DEF IInv, Anonymize, SameBut
<1>9. QED
  BY <1>1, <1>2, <1>3, <1>4, <1>5, <1>6, <1>7, <1>8

\* An audit round: what the LLM says of the text is remembered with it.
LEMMA AuditStep ==
  ASSUME IInv, Audit PROVE Coordination'
<1>1. /\ At("pAudit") /\ work.text \in Texts
      /\ UNCHANGED <<diskVars, mem, procVars, envVars>>
  BY DEF IInv, Audit
<1>2. PICK v \in Verdicts :
        /\ work' = [work EXCEPT !.audit = v, !.round = @ + 1]
        /\ Heard(work.text, v)
        /\ pc' \in {"pAnon", "pMask"}
  BY DEF Audit
<1>3. work'.audit = v /\ work'.text = work.text /\ work'.lists = work.lists
  BY <1>2, Fields, WithAuditFacts DEF IInv
<1>4. /\ v.llm = "ok" =>
           verdictOf'[work.text] >= IF v.clean THEN Clean ELSE Unclean
      /\ \A u \in Texts : /\ verdictOf[u] \in Nat /\ verdictOf'[u] \in Nat
                          /\ verdictOf'[u] >= verdictOf[u]
  <2>1. CASE v.llm = "ok"
    BY <2>1, <1>1, <1>2, Learned DEF Heard, IInv
  <2>2. CASE v.llm # "ok"
    BY <2>2, <1>2, Fields, RankNames DEF Heard, IInv
  <2>3. QED
    BY <2>1, <2>2
<1>5. QED
  BY <1>1, <1>2, <1>3, <1>4, Fields, RankNames DEF IInv

\* From the last audit to the stored routing: layer 3 is what was audited.
LEMMA ProcessEnds ==
  ASSUME IInv,
         \/ PersistAnonymized \/ PersistMapping \/ PersistEdits
         \/ RecordAudit \/ Route \/ SaveRouted \/ SaveFailed
  PROVE  Coordination'
<1>1. CASE PersistAnonymized
  BY <1>1, Fields, BumpedFacts DEF IInv, PersistAnonymized
<1>2. CASE PersistMapping
  BY <1>2 DEF IInv, PersistMapping
<1>3. CASE PersistEdits
  BY <1>3 DEF IInv, PersistEdits
<1>4. CASE RecordAudit
  <2> DEFINE v == work.audit
             new == Audited(mem, work.text, v)
  <2>1. /\ new.status = mem.status /\ new.mode = mem.mode
        /\ new.revision = mem.revision /\ new.pending = v.open
        /\ IF v.llm = "ok"
             THEN new.audited = mem.revision + 1 /\ new.digest = work.text
             ELSE new.audited = mem.audited
    <3>1. mem \in Meta /\ v.open \in BOOLEAN /\ work.text \in MaybeText
      BY Fields DEF IInv, MaybeText
    <3>2. CASE v.llm = "ok"
      BY <3>1, <3>2, AuditedAndPendingFacts DEF Audited
    <3>3. CASE v.llm # "ok"
      BY <3>1, <3>3, WithPendingFacts DEF Audited
    <3>4. QED
      BY <3>2, <3>3
  <2>2. /\ At("pFindings") /\ Goto("pRoute")
        /\ mem' = new /\ openFindings' = v.open
        /\ UNCHANGED <<meta, layer1, layer2, anon, edits, context, work,
                       procVars, envVars, verdictOf>>
    BY <1>4 DEF RecordAudit
  <2> HIDE DEF new
  <2>3. QED
    BY <2>1, <2>2, Fields DEF IInv
<1>5. CASE Route
  <2>1. /\ SameBut(With(mem, "approved"), mem, "approved")
        /\ SameBut(With(mem, "review"), mem, "review")
    BY Fields, Transition DEF IInv
  <2>2. /\ At("pRoute") /\ Goto("pSave")
        /\ UNCHANGED <<meta, openFindings, layer1, layer2, anon, edits, work,
                       procVars, envVars, verdictOf>>
        /\ \/ /\ work.audit.llm = "ok" /\ work.audit.clean
              /\ ~work.blocking /\ prefsReadable
              /\ mem' = With(mem, "approved") /\ context' = work.text
           \/ mem' = With(mem, "review") /\ context' = context
    BY <1>5 DEF Route, MayAutoApprove
  <2>3. CASE mem' = With(mem, "review") /\ context' = context
    BY <2>1, <2>2, <2>3, Fields, RankNames DEF IInv, SameBut
  <2>4. CASE /\ work.audit.llm = "ok" /\ work.audit.clean
             /\ ~work.blocking /\ prefsReadable
             /\ mem' = With(mem, "approved") /\ context' = work.text
    <3>1. flips = 0 => work.lists
      BY <2>2, <2>4 DEF IInv
    <3>2. /\ mem'.status = "approved" /\ mem'.mode = mem.mode
          /\ mem'.revision = mem.revision /\ mem'.audited = mem.audited
          /\ mem'.digest = mem.digest /\ mem'.pending = mem.pending
          /\ pc' = "pSave" /\ pc = "pRoute" /\ up /\ UNCHANGED <<up, flips>>
      BY <2>1, <2>2, <2>4 DEF SameBut
    <3>3. WorkerOK'
      BY <2>2, <2>4, <3>1, <3>2 DEF IInv
    <3>4. AuditRecordOK' /\ ContextIsAudited' /\ ContextMatchesDownload'
      BY <2>2, <2>4, <3>2, Fields, RankNames DEF IInv
    <3>5. QED
      BY <2>2, <3>2, <3>3, <3>4, Fields, RankNames DEF IInv
  <2>5. QED
    BY <2>2, <2>3, <2>4
<1>6. CASE SaveRouted
  <2>1. work.text \in Texts
    BY <1>6 DEF IInv, SaveRouted
  <2>2. /\ mem.status = "review" /\ work.audit.llm = "ok" =>
             verdictOf'[work.text] >= Shown
        /\ \A u \in Texts : /\ verdictOf[u] \in Nat /\ verdictOf'[u] \in Nat
                            /\ verdictOf'[u] >= verdictOf[u]
    <3>1. CASE mem.status = "review" /\ work.audit.llm = "ok"
      BY <3>1, <1>6, <2>1, Learned DEF IInv, SaveRouted
    <3>2. CASE ~(mem.status = "review" /\ work.audit.llm = "ok")
      BY <3>2, <1>6, Fields, RankNames DEF IInv, SaveRouted
    <3>3. QED
      BY <3>1, <3>2
  <2>3. QED
    BY <1>6, <2>1, <2>2, Fields, AbsentFields, RankNames DEF IInv, SaveRouted
<1>7. CASE SaveFailed
  <2>1. SameBut(With(mem, "failed"), mem, "failed")
    BY Fields, Transition DEF IInv
  <2>2. QED
    BY <1>7, <2>1, Fields, AbsentFields DEF IInv, SaveFailed, SameBut
<1>8. QED
  BY <1>1, <1>2, <1>3, <1>4, <1>5, <1>6, <1>7

\* An approval starts from a document whose text nobody else can change now.
LEMMA ApproveBegins ==
  ASSUME IInv, ApproveStart PROVE Coordination'
<1>1. /\ Idle /\ meta.status = "review" /\ anon \in Texts /\ ~meta.pending
      /\ UNCHANGED <<diskVars, procVars, envVars, verdictOf>>
  BY Fields DEF IInv, ApproveStart
<1>2. work'.text = anon
  BY <1>1, NoWorkFacts, WithTextFacts DEF ApproveStart, MaybeText
<1>3. SameBut(With(meta, "approved"), meta, "approved")
  BY Fields, Transition DEF IInv
<1>4. \/ pc' = "aAudit" /\ mem' = meta
      \/ /\ pc' = "aContext" /\ mem' = With(meta, "approved")
         /\ Covers(meta) /\ meta.digest = anon
  BY DEF ApproveStart, CoveredByAudit
<1>5. QED
  BY <1>1, <1>2, <1>3, <1>4, Fields DEF IInv, SameBut

\* The re-audit stores a new revision first, so nothing covers the document
\* while its findings are replaced.
LEMMA ReauditStep ==
  ASSUME IInv, Reaudit PROVE Coordination'
<1>1. /\ At("aAudit") /\ Goto("aFindings")
      /\ mem = meta /\ meta.status = "review"
      /\ work.text = anon /\ anon \in Texts
      /\ UNCHANGED <<openFindings, layer1, layer2, anon, edits, context,
                     procVars, envVars>>
  BY DEF IInv, Reaudit
<1>2. PICK v \in Verdicts :
        /\ work' = [work EXCEPT !.audit = v]
        /\ Learn(work.text, IF v.clean THEN Clean ELSE Unclean)
  BY DEF Reaudit
<1>3. work'.audit = v /\ work'.text = work.text
  BY <1>2, Fields, WithAuditFacts DEF IInv
<1>4. /\ verdictOf'[work.text] >= IF v.clean THEN Clean ELSE Unclean
      /\ \A u \in Texts : /\ verdictOf[u] \in Nat /\ verdictOf'[u] \in Nat
                          /\ verdictOf'[u] >= verdictOf[u]
  BY <1>1, <1>2, Learned DEF IInv
<1>5. /\ meta' = mem'
      /\ mem'.status = "review" /\ mem'.mode = meta.mode
      /\ mem'.revision = meta.revision + 1 /\ mem'.audited = meta.audited
  BY <1>1, Fields, BumpedFacts DEF IInv, Reaudit
<1>6. ~Covers(mem') /\ AuditNotAhead(mem')
  BY <1>1, <1>5, Fields DEF IInv
<1>7. QED
  BY <1>1, <1>3, <1>4, <1>5, <1>6, Fields, RankNames DEF IInv

\* Its findings are stored; only in memory is the document marked as audited.
LEMMA ReauditFindingsStep ==
  ASSUME IInv, ReauditFindings PROVE Coordination'
<1>1. /\ At("aFindings")
      /\ mem = meta /\ meta.status = "review" /\ ~Covers(meta)
      /\ work.text = anon /\ anon \in Texts
      /\ UNCHANGED <<meta, layer1, anon, edits, context, work, procVars,
                     envVars, verdictOf>>
      /\ openFindings' = work.audit.open
      /\ IF work.audit.clean THEN pc' = "aContext" ELSE pc' = "aUnclean"
  BY DEF IInv, ReauditFindings
<1>2. layer2' = layer2 \/ meta.mode = "mapping"
  BY <1>1, Fields DEF IInv, ReauditFindings, Modes
<1> DEFINE doc == WithPending(MarkAudited(mem, work.text), work.audit.open)
<1>3. /\ doc \in Meta
      /\ doc.status = mem.status /\ doc.mode = mem.mode
      /\ doc.revision = mem.revision /\ doc.audited = mem.revision + 1
      /\ doc.digest = work.text /\ doc.pending = work.audit.open
  BY <1>1, Fields, AuditedAndPendingFacts DEF IInv, MaybeText
<1>4. mem' = IF work.audit.clean THEN With(doc, "approved") ELSE doc
  BY DEF ReauditFindings
<1> HIDE DEF doc
<1>5. SameBut(With(doc, "approved"), doc, "approved")
  BY <1>3, Transition
<1>6. /\ mem'.mode = mem.mode /\ mem'.revision = mem.revision
      /\ mem'.audited = mem.revision + 1 /\ mem'.digest = work.text
      /\ mem'.pending = work.audit.open
      /\ mem'.status = IF work.audit.clean THEN "approved" ELSE "review"
  BY <1>1, <1>3, <1>4, <1>5 DEF SameBut
<1>7. CASE work.audit.clean
  BY <1>1, <1>2, <1>6, <1>7, Fields, RankNames DEF IInv
<1>8. CASE ~work.audit.clean
  BY <1>1, <1>2, <1>6, <1>8, Fields, RankNames DEF IInv
<1>9. QED
  BY <1>7, <1>8

\* An approval ends: refused, with its findings stored, or approved.
LEMMA ApproveEnds ==
  ASSUME IInv,
         ReauditFails \/ ReauditUnclean \/ ApproveContext \/ ApproveSave
  PROVE  Coordination'
<1>1. CASE ReauditFails
  BY <1>1, Fields, AbsentFields DEF IInv, ReauditFails
<1>2. CASE ReauditUnclean
  <2>1. work.text \in Texts /\ Learn(work.text, Shown)
    BY <1>2 DEF IInv, ReauditUnclean
  <2>2. /\ verdictOf'[work.text] >= Shown
        /\ \A u \in Texts : /\ verdictOf[u] \in Nat /\ verdictOf'[u] \in Nat
                            /\ verdictOf'[u] >= verdictOf[u]
    BY <2>1, Learned DEF IInv
  <2>3. QED
    BY <1>2, <2>1, <2>2, Fields, AbsentFields, RankNames
    DEF IInv, ReauditUnclean
<1>3. CASE ApproveContext
  BY <1>3, Fields DEF IInv, ApproveContext
<1>4. CASE ApproveSave
  BY <1>4, Fields, AbsentFields DEF IInv, ApproveSave
<1>5. QED
  BY <1>1, <1>2, <1>3, <1>4

\* A decision takes the approval back before it touches layer 3.
LEMMA DecisionStep ==
  ASSUME IInv, DecideStart \/ DecideStep PROVE Coordination'
<1>1. CASE DecideStart
  <2>1. /\ Idle /\ Goto("dStatus")
        /\ meta.status \in Reviewable /\ meta.mode = "mapping"
        /\ UNCHANGED <<meta, openFindings, layer1, anon, edits, context,
                       procVars, envVars, verdictOf>>
    BY <1>1 DEF DecideStart
  <2>2. work'.text \in Texts
    BY <1>1, NoWorkFacts, WithTextFacts DEF DecideStart, MaybeText
  <2>3. /\ mem'.status = "review" /\ mem'.mode = meta.mode
        /\ mem'.revision = meta.revision + 1 /\ mem'.audited = meta.audited
    <3>1. /\ Bumped(meta) \in Meta /\ Bumped(meta).mode = meta.mode
          /\ Bumped(meta).revision = meta.revision + 1
          /\ Bumped(meta).audited = meta.audited
      BY Fields, BumpedFacts DEF IInv
    <3>2. SameBut(With(Bumped(meta), "review"), Bumped(meta), "review")
      BY <3>1, Transition
    <3>3. QED
      BY <1>1, <3>1, <3>2 DEF DecideStart, Remasked, SameBut
  <2>4. QED
    BY <2>1, <2>2, <2>3, Fields DEF IInv
<1>2. CASE RemaskStatus
  BY <1>2, Fields DEF IInv, RemaskStatus
<1>3. CASE RemaskAnonymized
  BY <1>3, Fields DEF IInv, RemaskAnonymized
<1>4. CASE RemaskEdits
  BY <1>4, Fields DEF IInv, RemaskEdits
<1>5. CASE RemaskFindings
  <2>1. /\ At("dFindings") /\ Goto("dSave")
        /\ UNCHANGED <<meta, layer1, layer2, anon, edits, context, work,
                       procVars, envVars, verdictOf>>
        /\ openFindings' \in BOOLEAN /\ mem' = WithPending(mem, openFindings')
    BY <1>5 DEF RemaskFindings
  <2>2. /\ mem'.status = mem.status /\ mem'.mode = mem.mode
        /\ mem'.revision = mem.revision /\ mem'.audited = mem.audited
    BY <2>1, Fields, WithPendingFacts DEF IInv
  <2>3. QED
    BY <2>1, <2>2, Fields DEF IInv
<1>6. CASE RemaskSave
  BY <1>6, Fields, AbsentFields DEF IInv, RemaskSave
<1>7. QED
  BY <1>1, <1>2, <1>3, <1>4, <1>5, <1>6 DEF DecideStep

\* Rejection is one write, from any settled status.
LEMMA RejectStep ==
  ASSUME IInv, Reject PROVE Coordination'
<1>1. SameBut(With(meta, "rejected"), meta, "rejected")
  BY Fields, Transition DEF IInv
<1>2. QED
  BY <1>1, Fields DEF IInv, Reject, SameBut

\* Failing writes, the end of the process and its new start.
LEMMA TroubleStep ==
  ASSUME IInv, ProcessFault \/ FailFault \/ Trouble PROVE Coordination'
<1>1. CASE ProcessFault
  BY <1>1, Fields DEF IInv, ProcessFault
<1>2. CASE FailFault
  BY <1>2, Fields, AbsentFields DEF IInv, FailFault
<1>3. CASE RequestFault
  BY <1>3, Fields, AbsentFields DEF IInv, RequestFault
<1>4. CASE Crash
  <2>1. /\ ~up' /\ pc' = "idle" /\ mem' = Absent
        /\ UNCHANGED <<diskVars, born, verdictOf>>
    BY <1>4 DEF Crash
  <2>2. QED
    BY <2>1, AbsentFields DEF IInv
<1>5. CASE Restart
  <2>1. /\ SameBut(With(meta, "queued"), meta, "queued")
        /\ SameBut(With(meta, "failed"), meta, "failed")
    BY Fields, Transition DEF IInv
  <2>2. /\ ~up
        /\ UNCHANGED <<openFindings, layer1, layer2, anon, edits, context,
                       opVars, envVars, verdictOf>>
        /\ \/ meta' = meta
           \/ /\ meta.status \in Processing
              /\ meta' = With(meta, "queued") \/ meta' = With(meta, "failed")
    BY <1>5 DEF Restart
  <2>3. QED
    BY <2>1, <2>2, Fields DEF IInv, SameBut
<1>6. CASE RestartFault
  BY <1>6 DEF IInv, RestartFault
<1>7. CASE PrefsFlip
  <2>1. /\ flips' # 0
        /\ UNCHANGED <<diskVars, opVars, procVars, born, verdictOf>>
    BY <1>7, Fields DEF IInv, PrefsFlip
  <2>2. QED
    BY <2>1 DEF IInv
<1>8. QED
  BY <1>1, <1>2, <1>3, <1>4, <1>5, <1>6, <1>7 DEF Trouble

LEMMA InvariantInit == Init => IInv
<1> SUFFICES ASSUME Init PROVE IInv
  OBVIOUS
<1>1. TypeOK
  BY TypeInit
<1>2. Coordination
  BY AbsentFields, NewDocumentFacts DEF Init
<1>3. QED
  BY <1>1, <1>2 DEF IInv

LEMMA InvariantStep == IInv /\ [Next]_vars => IInv'
<1> SUFFICES ASSUME IInv, [Next]_vars PROVE IInv'
  OBVIOUS
<1>1. TypeOK'
  BY TypeStep DEF IInv
<1>2. CASE Upload
  BY <1>1, <1>2, UploadStep DEF IInv
<1>3. CASE Delete
  BY <1>1, <1>3, DeleteStep DEF IInv
<1>4. CASE WorkerNext
  BY <1>1, <1>4, ProcessBegins, AuditStep, ProcessEnds, TroubleStep
  DEF IInv, WorkerNext, RunStep
<1>5. CASE ReviewerNext
  BY <1>1, <1>5, ApproveBegins, ReauditStep, ReauditFindingsStep, ApproveEnds,
     DecisionStep, RejectStep
  DEF IInv, ReviewerNext, ApproveStep
<1>6. CASE Trouble
  BY <1>1, <1>6, TroubleStep DEF IInv
<1>7. CASE UNCHANGED vars
  <2>1. Coordination'
    BY <1>7 DEF IInv, vars
  <2>2. QED
    BY <1>1, <2>1 DEF IInv
<1>8. QED
  BY <1>2, <1>3, <1>4, <1>5, <1>6, <1>7 DEF Next

\* The inductive invariant holds in every reachable state.
THEOREM Invariant == Spec => []IInv
<1>1. QED
  BY InvariantInit, InvariantStep, PTL DEF Spec

----------------------------------------------------------------------------
(* What follows for every step and every state.                            *)

\* Whatever failed or crashed before, the text of an approved document is the
\* very text a working LLM audited at this revision.
THEOREM ApprovedTextIsAudited == Spec => []ApprovedIsAudited
<1>1. IInv => ApprovedIsAudited
  BY Fields, RankNames DEF IInv, ApprovedIsAudited
<1>2. QED
  BY <1>1, Invariant, PTL

\* The verdict on that text was clean or was stored, in review, for the person
\* who approved it.
THEOREM NeverSilent == Spec => []NoSilentApproval
<1>1. IInv => NoSilentApproval
  BY Fields, RankNames DEF IInv, NoSilentApproval
<1>2. QED
  BY <1>1, Invariant, PTL

\* The two files of layer 4 agree on an approved document: nothing is open.
THEOREM NoOpenFinding == Spec => []ApprovedHasNoOpenFinding
<1>1. IInv => ApprovedHasNoOpenFinding
  BY DEF IInv, ApprovedHasNoOpenFinding
<1>2. QED
  BY <1>1, Invariant, PTL

\* What chat reads, without the lock, was read by a working LLM.
THEOREM ChatContextIsAudited == Spec => []ContextIsAudited
<1>1. IInv => ContextIsAudited
  BY DEF IInv
<1>2. QED
  BY <1>1, Invariant, PTL

\* For an approved document it is what its download shows.
THEOREM ChatSeesTheDownload == Spec => []ContextMatchesDownload
<1>1. IInv => ContextMatchesDownload
  BY DEF IInv
<1>2. QED
  BY <1>1, Invariant, PTL

\* Destructive mode stores neither the original nor anything derived from it.
THEOREM NothingKept == Spec => []DestructiveKeepsNothing
<1>1. IInv => DestructiveKeepsNothing
  BY DEF IInv
<1>2. QED
  BY <1>1, Invariant, PTL

\* No file outlives the record of a deleted document or comes back after it.
THEOREM DeleteIsComplete == Spec => []NothingLeftBehind
<1>1. IInv => NothingLeftBehind
  BY DEF IInv, NothingLeftBehind
<1>2. QED
  BY <1>1, Invariant, PTL

\* Among all steps, only the worker's last write turns a document that is being
\* processed into an approved one.
LEMMA OnlyTheWorkerApproves ==
  ASSUME IInv, Next, ApprovesAlone
  PROVE  SaveRouted /\ meta' = mem /\ mem.status = "approved"
<1>1. meta.status \in Processing /\ meta'.status = "approved" /\ meta' # meta
  BY DEF ApprovesAlone
<1>2. ASSUME NEW s \in {"queued", "extracting", "masking", "auditing",
                        "review", "rejected", "failed"}
      PROVE  /\ With(mem, s).status # "approved"
             /\ With(meta, s).status # "approved"
  BY Fields, Transition DEF IInv, SameBut
<1>3. ~Upload
  BY <1>1, NewDocumentFacts DEF IInv, Upload, UploadRecord, UploadOriginal, Submit
<1>4. ~Delete
  BY <1>1, AbsentFields
  DEF IInv, Delete, DeleteStart, DeleteOriginal, DeleteExtracted,
      DeleteMasked, DeleteContext, ShredRecord, RemoveRecord
<1>5. ~ReviewerNext
  <2>1. meta.status # "review" /\ meta.status # "approved"
    BY <1>1
  <2>2. ~ApproveStep /\ ~DecideStep
    BY <1>1, <2>1 DEF IInv, ApproveStep, DecideStep, ReauditFails, Reaudit,
                      ReauditFindings, ReauditUnclean, ApproveContext,
                      ApproveSave, RemaskStatus, RemaskAnonymized, RemaskEdits,
                      RemaskFindings, RemaskSave
  <2>3. ~ApproveStart /\ ~DecideStart /\ ~Reject
    BY <1>1, <2>1 DEF ApproveStart, DecideStart, Reject
  <2>4. QED
    BY <2>2, <2>3 DEF ReviewerNext
<1>6. ~Trouble
  BY <1>1, <1>2 DEF Trouble, RequestFault, Crash, Restart, RestartFault, PrefsFlip
<1>7. ~(SkipJob \/ StartJob \/ ProcessFault \/ FailFault)
  BY <1>1 DEF SkipJob, StartJob, ProcessFault, FailFault
<1>8. ~(Extract \/ ExtractFails \/ Audit \/ PersistAnonymized \/ PersistMapping \/ PersistEdits
        \/ RecordAudit \/ Route)
  BY <1>1 DEF Extract, ExtractFails, Audit, PersistAnonymized, PersistMapping, PersistEdits,
              RecordAudit, Route
<1>9. ~(SaveNoText \/ SaveMasking \/ Anonymize \/ SaveFailed)
  BY <1>1, <1>2 DEF SaveNoText, SaveMasking, Anonymize, SaveFailed
<1>10. ~SaveExtracting
  BY <1>1 DEF IInv, SaveExtracting
<1>11. SaveRouted
  BY <1>3, <1>4, <1>5, <1>6, <1>7, <1>8, <1>9, <1>10
  DEF Next, WorkerNext, RunStep
<1>12. QED
  BY <1>1, <1>11 DEF SaveRouted

\* The worker approves alone only what a working LLM found clean, with nothing
\* open, no blocking extraction warning and (unless the settings file changed
\* under it) the user's term lists applied: the routing rule of runner.route,
\* through the five writes between the decision and the stored approval.
THEOREM WorkerRoutesClean == Spec => WorkerApprovesClean
<1>1. ASSUME IInv, [Next]_vars
      PROVE  [ApprovesAlone => /\ verdictOf'[anon'] = Clean
                               /\ ~openFindings' /\ ~work.blocking
                               /\ flips = 0 => work.lists]_vars
  <2> SUFFICES ASSUME Next, ApprovesAlone
               PROVE  /\ verdictOf'[anon'] = Clean
                      /\ ~openFindings' /\ ~work.blocking
                      /\ flips = 0 => work.lists
    BY <1>1
  <2>1. SaveRouted /\ mem.status = "approved"
    BY <1>1, OnlyTheWorkerApproves
  <2>2. /\ UNCHANGED <<openFindings, anon, verdictOf>>
        /\ At("pSave")
    BY <2>1 DEF SaveRouted
  <2>3. verdictOf \in [Texts -> Unread..Clean]
    BY <1>1 DEF IInv, TypeOK, HistoryTypeOK
  <2>4. /\ anon = work.text /\ work.text \in Texts /\ verdictOf[work.text] >= Clean
        /\ ~openFindings /\ ~work.blocking
        /\ flips = 0 => work.lists
    BY <1>1, <2>1, <2>2 DEF IInv
  <2>5. verdictOf[anon] = Clean
    BY <2>3, <2>4, RankNames
  <2>6. QED
    BY <2>2, <2>4, <2>5
<1>2. QED
  BY <1>1, Invariant, PTL DEF Spec, WorkerApprovesClean

\* A deleted document never comes back: nobody has its lock, and no job or
\* restart writes a record it did not find.
THEOREM DeletedForever == Spec => DeletedStaysDeleted
<1>1. ASSUME IInv, [Next]_vars
      PROVE  [born /\ meta.status = "absent" => meta'.status = "absent"]_vars
  <2> SUFFICES ASSUME Next, born, meta.status = "absent"
               PROVE  meta' = meta
    BY <1>1
  <2>1. pc = "idle"
    BY <1>1 DEF IInv
  <2>2. CASE Upload
    BY <2>1, <2>2 DEF Upload, UploadRecord, UploadOriginal, Submit
  <2>3. CASE Delete
    BY <2>1, <2>3
    DEF Delete, DeleteStart, DeleteOriginal, DeleteExtracted,
        DeleteMasked, DeleteContext, ShredRecord, RemoveRecord
  <2>4. CASE WorkerNext
    BY <2>1, <2>4
    DEF WorkerNext, RunStep, SkipJob, StartJob, SaveExtracting,
        Extract, ExtractFails, SaveNoText, SaveMasking, Anonymize,
        Audit, PersistAnonymized, PersistMapping, PersistEdits, RecordAudit, Route,
        SaveRouted, SaveFailed, ProcessFault, FailFault
  <2>5. CASE ReviewerNext
    BY <2>1, <2>5 DEF ReviewerNext, ApproveStep, DecideStep, ApproveStart,
                      DecideStart, Reject, ReauditFails, Reaudit,
                      ReauditFindings, ReauditUnclean, ApproveContext,
                      ApproveSave, RemaskStatus, RemaskAnonymized, RemaskEdits,
                      RemaskFindings, RemaskSave
  <2>6. CASE Trouble
    BY <2>1, <2>6 DEF Trouble, RequestFault, Crash, Restart, RestartFault,
                      PrefsFlip
  <2>7. QED
    BY <2>2, <2>3, <2>4, <2>5, <2>6 DEF Next
<1>2. QED
  BY <1>1, Invariant, PTL DEF Spec, DeletedStaysDeleted
----------------------------------------------------------------------------
(* What holds as long as no write failed.                                  *)

\* The counters only grow, so a state without failures had none before it.
LEMMA Counters ==
  ASSUME IInv, [Next]_vars
  PROVE  /\ faults \in Nat /\ crashes \in Nat
         /\ faults' \in Nat /\ crashes' \in Nat
         /\ faults' = 0 => faults = 0
         /\ crashes' = 0 => crashes = 0
<1>1. TypeOK /\ TypeOK'
  BY InvariantStep DEF IInv
<1>2. faults \in Nat /\ crashes \in Nat /\ faults' \in Nat /\ crashes' \in Nat
  BY <1>1 DEF TypeOK, EnvTypeOK
<1>3. CASE Upload \/ Delete \/ ReviewerNext
  <2>1. UNCHANGED <<faults, crashes>>
    BY <1>3 DEF Upload, UploadRecord, UploadOriginal, Submit, Delete, DeleteStart,
      DeleteOriginal, DeleteExtracted, DeleteMasked, DeleteContext, ShredRecord, RemoveRecord,
      ReviewerNext, ApproveStart, DecideStart, Reject, ApproveStep, ReauditFails, Reaudit,
      ReauditFindings, ReauditUnclean, ApproveContext, ApproveSave, DecideStep, RemaskStatus,
      RemaskAnonymized, RemaskEdits, RemaskFindings, RemaskSave
  <2>2. QED
    BY <1>2, <2>1
<1>4. CASE WorkerNext \/ Trouble \/ UNCHANGED vars
  <2>1. /\ faults' = faults \/ faults' = faults + 1
        /\ crashes' = crashes \/ crashes' = crashes + 1
    BY <1>4 DEF vars, Fault, WorkerNext, SkipJob, StartJob, ProcessFault, FailFault, RunStep,
      SaveExtracting, Extract, ExtractFails, SaveNoText, SaveMasking, Anonymize, Audit,
      PersistAnonymized, PersistMapping, PersistEdits, RecordAudit, Route, SaveRouted,
      SaveFailed, Trouble, RequestFault, Crash, Restart, RestartFault, PrefsFlip
  <2>2. QED
    BY <1>2, <2>1
<1>5. QED
  BY <1>2, <1>3, <1>4 DEF Next

\* Whoever lets go of a document in processing settled it, handed it on, or
\* failed to write.
LEMMA JobStep ==
  ASSUME IInv, ProcessingHasAJob, [Next]_vars PROVE ProcessingHasAJob'
<1> SUFFICES ASSUME up', meta'.status \in Processing, faults' = 0
             PROVE  pc' # "idle" \/ jobs' # <<>> \/ submitting' # "none"
  BY DEF ProcessingHasAJob
<1>1. faults = 0 /\ ~Fault
  BY Counters DEF Fault
<1>2. /\ meta \in Meta /\ mem \in Meta
      /\ \A src \in Sources : Append(jobs, src) # <<>>
      /\ submitting \in {"none"} \cup Sources
  BY DEF IInv, TypeOK, DiskTypeOK, OperationTypeOK, ProcessTypeOK
<1>3. /\ \A doc \in Meta : /\ With(doc, "review").status = "review"
                           /\ With(doc, "failed").status = "failed"
                           /\ With(doc, "rejected").status = "rejected"
      /\ Absent.status = "absent"
  BY Transition, AbsentFields DEF SameBut
<1>4. CASE Upload
  BY <1>2, <1>4 DEF Upload, UploadRecord, UploadOriginal, Submit, ProcessingHasAJob, Sources
<1>5. CASE Delete
  BY <1>1, <1>3, <1>5
  DEF IInv, Delete, DeleteStart, DeleteOriginal, DeleteExtracted, DeleteMasked, DeleteContext,
      ShredRecord, RemoveRecord
<1>6. CASE WorkerNext
  <2>1. CASE SkipJob \/ StartJob \/ ProcessFault \/ FailFault
    BY <1>1, <2>1 DEF SkipJob, StartJob, ProcessFault, FailFault
  <2>2. CASE SaveNoText \/ SaveRouted \/ SaveFailed
    BY <1>2, <1>3, <2>2 DEF IInv, SaveNoText, SaveRouted, SaveFailed
  <2>3. CASE SaveExtracting \/ Extract \/ ExtractFails \/ SaveMasking \/ Anonymize \/ Audit
             \/ PersistAnonymized \/ PersistMapping \/ PersistEdits \/ RecordAudit \/ Route
    BY <2>3 DEF SaveExtracting, Extract, ExtractFails, SaveMasking, Anonymize, Audit,
                PersistAnonymized, PersistMapping, PersistEdits, RecordAudit, Route
  <2>4. QED
    BY <1>6, <2>1, <2>2, <2>3 DEF WorkerNext, RunStep
<1>7. CASE ReviewerNext
  <2>1. CASE ApproveStart \/ DecideStart \/ Reject
    BY <1>2, <1>3, <2>1 DEF ApproveStart, DecideStart, Reject
  <2>2. CASE ApproveStep
    BY <1>2, <2>2 DEF IInv, ApproveStep, ReauditFails, Reaudit, ReauditFindings,
                      ReauditUnclean, ApproveContext, ApproveSave
  <2>3. CASE DecideStep
    <3>1. CASE RemaskSave
      BY <2>3, <3>1 DEF RemaskSave, IInv
    <3>2. CASE RemaskStatus \/ RemaskAnonymized \/ RemaskEdits \/ RemaskFindings
      BY <3>2 DEF RemaskStatus, RemaskAnonymized, RemaskEdits, RemaskFindings
    <3>3. QED
      BY <2>3, <3>1, <3>2 DEF DecideStep
  <2>4. QED
    BY <1>7, <2>1, <2>2, <2>3 DEF ReviewerNext
<1>8. CASE Trouble
  <2>1. CASE RequestFault \/ RestartFault
    BY <1>1, <2>1 DEF RequestFault, RestartFault
  <2>2. CASE Crash
    BY <2>2 DEF Crash
  <2>3. CASE Restart
    BY <1>2, <1>3, <2>3 DEF Restart, Sources
  <2>4. CASE PrefsFlip
    BY <1>1, <2>4 DEF PrefsFlip, ProcessingHasAJob
  <2>5. QED
    BY <1>8, <2>1, <2>2, <2>3, <2>4 DEF Trouble
<1>9. CASE UNCHANGED vars
  BY <1>1, <1>9 DEF vars, ProcessingHasAJob
<1>10. QED
  BY <1>4, <1>5, <1>6, <1>7, <1>8, <1>9 DEF Next

\* A document that is shown as being processed has somebody who goes on with it,
\* over every crash and restart; only a failed write may leave it behind.
THEOREM NobodyIsForgotten == Spec => []ProcessingHasAJob
<1>1. Init => ProcessingHasAJob
  BY AbsentFields DEF Init, ProcessingHasAJob
<1>2. QED
  BY <1>1, JobStep, Invariant, PTL DEF Spec
\* From the upload to the first write of the run nothing is there to disagree.
LEMMA LayersOfUpload ==
  ASSUME IInv, LayersKnown, Upload PROVE LayersKnown'
<1>1. ASSUME NEW mode \in Modes, UploadRecord(mode) PROVE LayersKnown'
  <2>1. /\ NewDocument(mode).status = "queued" /\ pc' \in {"idle", "upOriginal"}
        /\ up' /\ UNCHANGED <<openFindings, anon, edits>>
    BY <1>1, NewDocumentFacts DEF UploadRecord, LayersKnown
  <2>2. Unwritten
    BY <1>1 DEF UploadRecord, IInv, Unwritten, LayersKnown
  <2>3. QED
    BY <1>1, <2>1, <2>2 DEF UploadRecord, LayersKnown, Unwritten
<1>2. CASE UploadOriginal
  BY <1>2 DEF IInv, UploadOriginal, LayersKnown, Unwritten
<1>3. CASE Submit
  BY <1>3 DEF Submit, LayersKnown, Unwritten
<1>4. QED
  BY <1>1, <1>2, <1>3 DEF Upload

\* A delete holds the lock until nothing is left.
LEMMA LayersOfDelete ==
  ASSUME IInv, LayersKnown, Delete PROVE LayersKnown'
  BY AbsentFields DEF Delete, DeleteStart, DeleteOriginal, DeleteExtracted, DeleteMasked,
    DeleteContext, ShredRecord, RemoveRecord, LayersKnown, Unwritten

\* The run writes layer 3, then the findings, then the record that counts them.
LEMMA LayersOfRun ==
  ASSUME IInv, LayersKnown, SkipJob \/ StartJob \/ RunStep PROVE LayersKnown'
<1>1. CASE SkipJob \/ StartJob
  <2>1. CASE SkipJob
    BY <2>1 DEF SkipJob, LayersKnown, Unwritten
  <2>2. CASE StartJob
    <3>1. /\ Unwritten /\ pc' \in {"pExtracting", "pFail"}
          /\ up' /\ UNCHANGED <<openFindings, anon, edits>>
      BY <2>2 DEF StartJob, LayersKnown
    <3>2. QED
      BY <3>1 DEF LayersKnown, Unwritten
  <2>3. QED
    BY <1>1, <2>1, <2>2
<1>2. CASE SaveExtracting \/ Extract \/ ExtractFails \/ SaveMasking \/ Anonymize \/ Audit
  <2>1. /\ pc \in BeforeMask /\ pc' \in BeforeMask \cup {"pFail"}
        /\ up' /\ UNCHANGED <<openFindings, anon, edits>>
    BY <1>2 DEF SaveExtracting, Extract, ExtractFails, SaveMasking, Anonymize, Audit, LayersKnown
  <2>2. QED
    BY <2>1 DEF LayersKnown, Unwritten
<1>3. CASE SaveNoText
  <2>1. /\ SameBut(With(mem, "review"), mem, "review")
        /\ mem.pending \in BOOLEAN /\ openFindings \in BOOLEAN
    BY Fields, Transition DEF IInv
  <2>2. QED
    BY <1>3, <2>1 DEF IInv, SaveNoText, LayersKnown, Unwritten, SameBut
<1>4. CASE PersistAnonymized \/ PersistMapping \/ PersistEdits \/ RecordAudit \/ Route
  BY <1>4 DEF IInv, PersistAnonymized, PersistMapping, PersistEdits, RecordAudit, Route,
              LayersKnown, Unwritten
<1>5. CASE SaveRouted
  BY <1>5 DEF IInv, SaveRouted, LayersKnown, Unwritten
<1>6. CASE SaveFailed
  <2>1. With(mem, "failed").status = "failed"
    BY Fields, Transition DEF IInv, SameBut
  <2>2. QED
    BY <1>6, <2>1 DEF SaveFailed, LayersKnown, Unwritten
<1>7. QED
  BY <1>1, <1>2, <1>3, <1>4, <1>5, <1>6 DEF RunStep

\* An approval changes the findings only together with the record; a re-mask
\* writes the three files before the record that ends it.
LEMMA LayersOfReviewer ==
  ASSUME IInv, LayersKnown, ReviewerNext PROVE LayersKnown'
<1>1. CASE ApproveStart \/ DecideStart
  BY <1>1 DEF ApproveStart, DecideStart, LayersKnown, Unwritten
<1>2. CASE Reject
  <2>1. With(meta, "rejected").status = "rejected"
    BY Fields, Transition DEF IInv, SameBut
  <2>2. QED
    BY <1>2, <2>1 DEF Reject, LayersKnown, Unwritten
<1>3. CASE ApproveStep
  <2>1. edits = anon /\ UNCHANGED <<edits, anon>> /\ up'
    BY <1>3 DEF ApproveStep, ReauditFails, Reaudit, ReauditFindings, ReauditUnclean,
                ApproveContext, ApproveSave, LayersKnown
  <2>2. CASE ReauditFails
    BY <2>1, <2>2 DEF IInv, ReauditFails, LayersKnown, Unwritten
  <2>3. CASE Reaudit \/ ReauditFindings \/ ApproveContext
    BY <2>1, <2>3 DEF Reaudit, ReauditFindings, ApproveContext, LayersKnown, Unwritten
  <2>4. CASE ReauditUnclean
    BY <2>1, <2>4 DEF IInv, ReauditUnclean, LayersKnown, Unwritten
  <2>5. CASE ApproveSave
    <3>1. mem.status = "approved" /\ openFindings = mem.pending
      BY <2>5, Fields DEF IInv, ApproveSave
    <3>2. QED
      BY <2>1, <2>5, <3>1 DEF ApproveSave, LayersKnown, Unwritten
  <2>6. QED
    BY <1>3, <2>2, <2>3, <2>4, <2>5 DEF ApproveStep
<1>4. CASE RemaskStatus \/ RemaskAnonymized \/ RemaskEdits \/ RemaskSave
  BY <1>4 DEF IInv, RemaskStatus, RemaskAnonymized, RemaskEdits, RemaskSave, LayersKnown, Unwritten
<1>5. CASE RemaskFindings
  <2>1. PICK open \in BOOLEAN : openFindings' = open /\ mem' = WithPending(mem, open)
    BY <1>5 DEF RemaskFindings
  <2>2. mem'.pending = openFindings'
    BY <2>1, Fields, WithPendingFacts DEF IInv
  <2>3. QED
    BY <1>5, <2>2 DEF RemaskFindings, LayersKnown, Unwritten
<1>6. QED
  BY <1>1, <1>2, <1>3, <1>4, <1>5 DEF ReviewerNext, DecideStep

LEMMA LayersStep ==
  ASSUME IInv, LayersOK, [Next]_vars PROVE LayersOK'
<1> SUFFICES ASSUME faults' = 0, crashes' = 0 PROVE LayersKnown'
  BY DEF LayersOK
<1>1. /\ faults = 0 /\ crashes = 0 /\ ~Fault /\ crashes' # crashes + 1
      /\ LayersKnown
  BY Counters DEF LayersOK, Fault
<1>2. CASE WorkerNext
  <2>1. ~ProcessFault /\ ~FailFault
    BY <1>1 DEF ProcessFault, FailFault
  <2>2. QED
    BY <1>1, <1>2, <2>1, LayersOfRun DEF WorkerNext
<1>3. CASE Trouble
  <2>1. ~RequestFault /\ ~Crash /\ ~Restart /\ ~RestartFault
    BY <1>1 DEF RequestFault, Crash, Restart, RestartFault, LayersKnown
  <2>2. UNCHANGED <<diskVars, opVars, procVars>>
    BY <1>3, <2>1 DEF Trouble, PrefsFlip
  <2>3. QED
    BY <1>1, <2>2 DEF LayersKnown, Unwritten
<1>4. CASE UNCHANGED vars
  BY <1>1, <1>4 DEF vars, LayersKnown, Unwritten
<1>5. QED
  BY <1>1, <1>2, <1>3, <1>4, LayersOfUpload, LayersOfDelete, LayersOfReviewer DEF Next

\* Four files of two layers, written one by one, agree whenever the lock is free
\* and nothing failed: no operation leaves one of them as it was.
THEOREM FilesAgree == Spec => []LayersAgree
<1>1. Init => LayersOK
  BY AbsentFields DEF Init, LayersOK, LayersKnown, Unwritten
<1>2. IInv /\ LayersOK => LayersAgree
  BY DEF IInv, TypeOK, EnvTypeOK, LayersOK, LayersKnown, LayersAgree
<1>3. QED
  BY <1>1, <1>2, LayersStep, Invariant, PTL DEF Spec

----------------------------------------------------------------------------
(* What these parts promise together.                                      *)

\* An approval can be relied on, whatever failed or crashed before it.
THEOREM ApprovalsAreSound == Spec => []ApprovalIsSound
  BY ApprovedTextIsAudited, NeverSilent, NoOpenFinding, PTL DEF ApprovalIsSound

\* What chat sends was audited and is what the download shows.
THEOREM ChatContextsAreSound == Spec => []ChatContextIsSound
  BY ChatContextIsAudited, ChatSeesTheDownload, PTL DEF ChatContextIsSound

\* No original in destructive mode, no file of a deleted document.
THEOREM NothingKeptOrLeft == Spec => []NothingIsKept
  BY NothingKept, DeleteIsComplete, PTL DEF NothingIsKept

\* The files of a layer agree, and nothing in processing is forgotten.
THEOREM NothingLost == Spec => []NothingIsLost
  BY FilesAgree, NobodyIsForgotten, PTL DEF NothingIsLost

----------------------------------------------------------------------------
(* DocumentLifecycle implements DocumentPromise, for every set of texts    *)
(* and every bound.  Each step of the code is a step of the promise or     *)
(* leaves its four variables alone; which one depends on what the         *)
(* inductive invariant knows of the operation under the lock.              *)

\* A step of the code that the promise allows.
Kept == Promise!PromiseNext \/ UNCHANGED Promise!promiseVars

\* The promise sees nothing of a step that leaves these five alone.
LEMMA Unseen ==
  ASSUME UNCHANGED <<meta, anon, context, born, verdictOf>> PROVE Kept
<1>1. /\ PhaseOf(meta)' = PhaseOf(meta) /\ Downloadable' = Downloadable
      /\ HeardTexts' = HeardTexts
  BY DEF PhaseOf, Downloadable, HeardTexts
<1>2. QED
  BY <1>1 DEF Kept, Promise!promiseVars

\* What is heard of a text is not forgotten, and nothing is heard of others.
LEMMA LearnHears ==
  ASSUME TypeOK, NEW t \in Texts, NEW rank \in {Unclean, Shown, Clean},
         Learn(t, rank)
  PROVE  HeardTexts' = HeardTexts \cup {t}
<1>1. verdictOf \in [Texts -> Unread..Clean]
  BY DEF TypeOK, HistoryTypeOK
<1>2. rank # Unread /\ \A u \in Texts : verdictOf[u] \in Nat
  BY <1>1, RankNames
<1>3. \A u \in Texts \ {t} : verdictOf'[u] = verdictOf[u]
  BY <1>1 DEF Learn
<1>4. verdictOf'[t] = IF verdictOf[t] < rank THEN rank ELSE verdictOf[t]
  BY <1>1 DEF Learn
<1>5. verdictOf'[t] # Unread
  BY <1>2, <1>4, RankNames
<1>6. QED
  BY <1>3, <1>5 DEF HeardTexts

\* The document's phase, for each kind of status it can have.
LEMMA PhaseIs ==
  ASSUME born
  PROVE  /\ meta.status \in Processing => PhaseOf(meta) = "working"
         /\ meta.status \in {"review", "approved", "rejected", "failed"} =>
              PhaseOf(meta) = meta.status
         /\ meta.status \in {"absent", "unreadable"} => PhaseOf(meta) = "gone"
  BY DEF PhaseOf, Processing

LEMMA PhaseBecomes ==
  ASSUME born'
  PROVE  /\ meta'.status \in Processing => PhaseOf(meta)' = "working"
         /\ meta'.status \in {"review", "approved", "rejected", "failed"} =>
              PhaseOf(meta)' = meta'.status
         /\ meta'.status \in {"absent", "unreadable"} => PhaseOf(meta)' = "gone"
  BY DEF PhaseOf, Processing

\* Only an approved document has something to download.
LEMMA ShownIs ==
  /\ meta.status # "approved" => Downloadable = NoText
  /\ meta.status = "approved" => Downloadable = anon
  /\ meta'.status # "approved" => Downloadable' = NoText
  /\ meta'.status = "approved" => Downloadable' = anon'
  BY DEF Downloadable

----------------------------------------------------------------------------
(* The steps, by what they are to the promise.                             *)

\* A document that is being processed stays so: nothing to see.
LEMMA StillWorking ==
  ASSUME born, UNCHANGED <<born, context, verdictOf>>,
         meta.status \in Processing, meta'.status \in Processing
  PROVE  Kept
<1>1. PhaseOf(meta)' = PhaseOf(meta)
  BY PhaseIs, PhaseBecomes
<1>2. Downloadable' = Downloadable
  BY ShownIs DEF Processing
<1>3. HeardTexts' = HeardTexts
  BY DEF HeardTexts
<1>4. QED
  BY <1>1, <1>2, <1>3 DEF Kept, Promise!promiseVars

\* The end of processing, without an approval.
LEMMA Finishes ==
  ASSUME born, UNCHANGED <<born, context>>, HeardTexts' = HeardTexts,
         meta.status \in Processing, meta'.status \in {"review", "failed"}
  PROVE  Kept
<1>1. PhaseOf(meta) = "working" /\ PhaseOf(meta)' \in {"review", "failed"}
  BY PhaseIs, PhaseBecomes
<1>2. Downloadable' = Downloadable
  BY ShownIs DEF Processing
<1>3. QED
  BY <1>1, <1>2 DEF Kept, Promise!PromiseNext, Promise!Finish

\* An audit, in processing or in review.
LEMMA Hears ==
  ASSUME born, UNCHANGED <<born, context>>, NEW t \in Texts,
         HeardTexts' = HeardTexts \cup {t},
         \/ meta.status \in Processing /\ meta'.status \in Processing
         \/ meta.status = "review" /\ meta'.status = "review"
  PROVE  Kept
<1>1. PhaseOf(meta) \in {"working", "review"} /\ PhaseOf(meta)' = PhaseOf(meta)
  BY PhaseIs, PhaseBecomes
<1>2. Downloadable' = Downloadable
  BY ShownIs DEF Processing
<1>3. QED
  BY <1>1, <1>2 DEF Kept, Promise!PromiseNext, Promise!Hear

\* The write that approves: what it shows was heard.
LEMMA Publishes ==
  ASSUME born, UNCHANGED <<born, anon, context>>, HeardTexts' = HeardTexts,
         meta.status \in Processing \cup {"review"}, meta'.status = "approved",
         context = anon, anon \in HeardTexts
  PROVE  Kept
<1>1. PhaseOf(meta) \in {"working", "review"} /\ PhaseOf(meta)' = "approved"
  BY PhaseIs, PhaseBecomes
<1>2. Downloadable' = context
  BY ShownIs
<1>3. QED
  BY <1>1, <1>2 DEF Kept, Promise!PromiseNext, Promise!Publish

\* A decision or a reject of a settled document.
LEMMA Settles ==
  ASSUME born, UNCHANGED <<born, anon, context, verdictOf>>,
         \/ meta.status = "approved" /\ meta'.status \in {"review", "rejected"}
         \/ meta.status \in {"review", "failed"} /\ meta'.status = "rejected"
         \/ meta.status = "review" /\ meta'.status = "review"
  PROVE  Kept
<1>1. /\ PhaseOf(meta) = meta.status /\ PhaseOf(meta)' = meta'.status
      /\ HeardTexts' = HeardTexts
  BY PhaseIs, PhaseBecomes DEF HeardTexts
<1>2. Downloadable' = NoText /\ (meta.status # "approved" => Downloadable = NoText)
  BY ShownIs
<1>3. QED
  BY <1>1, <1>2 DEF Kept, Promise!PromiseNext, Promise!promiseVars,
                    Promise!Withdraw, Promise!Refuse

\* A change of layer 3 that the download does not see.
LEMMA Hidden ==
  ASSUME UNCHANGED <<meta, born, context, verdictOf>>, meta.status # "approved"
  PROVE  Kept
<1>1. /\ PhaseOf(meta)' = PhaseOf(meta) /\ Downloadable' = Downloadable
      /\ HeardTexts' = HeardTexts
  BY DEF PhaseOf, Downloadable, HeardTexts
<1>2. QED
  BY <1>1 DEF Kept, Promise!promiseVars

\* The delete of layer 3.
LEMMA Erases ==
  ASSUME born, UNCHANGED <<meta, born, context, verdictOf>>,
         anon' \in {anon, NoText}
  PROVE  Kept
<1>1. PhaseOf(meta)' = PhaseOf(meta) /\ HeardTexts' = HeardTexts
  BY DEF PhaseOf, HeardTexts
<1>2. CASE meta.status # "approved" \/ anon' = anon
  BY <1>1, <1>2, ShownIs DEF Kept, Promise!promiseVars
<1>3. CASE meta.status = "approved" /\ anon' = NoText
  BY <1>1, <1>3, PhaseIs, ShownIs DEF Kept, Promise!PromiseNext, Promise!Erase
<1>4. QED
  BY <1>2, <1>3

\* Layer 5, written before an approval.
LEMMA Shares ==
  ASSUME born, UNCHANGED <<meta, anon, born, verdictOf>>,
         meta.status \in Processing \cup {"review"}, context' \in HeardTexts
  PROVE  Kept
<1>1. /\ PhaseOf(meta)' = PhaseOf(meta) /\ Downloadable' = Downloadable
      /\ HeardTexts' = HeardTexts
  BY DEF PhaseOf, Downloadable, HeardTexts
<1>2. PhaseOf(meta) \in {"working", "review"}
  BY PhaseIs
<1>3. QED
  BY <1>1, <1>2 DEF Kept, Promise!PromiseNext, Promise!Share

\* The delete of layer 5, after that of layer 3.
LEMMA Unshares ==
  ASSUME born, UNCHANGED <<meta, anon, born, verdictOf>>, anon = NoText,
         meta.status \notin {"absent", "unreadable"}, meta.status \in Status,
         context' = NoText
  PROVE  Kept
<1>1. /\ PhaseOf(meta)' = PhaseOf(meta) /\ Downloadable' = Downloadable
      /\ HeardTexts' = HeardTexts
  BY DEF PhaseOf, Downloadable, HeardTexts
<1>2. PhaseOf(meta) \notin {"none", "gone"} /\ Downloadable = NoText
  BY PhaseIs, ShownIs DEF Status, Processing, Reviewable
<1>3. QED
  BY <1>1, <1>2 DEF Kept, Promise!PromiseNext, Promise!Unshare

\* The delete of the record, after that of layers 3 and 5.
LEMMA Vanishes ==
  ASSUME born, UNCHANGED <<born, anon, context, verdictOf>>,
         anon = NoText, context = NoText,
         meta.status \in Status, meta'.status \in {"absent", "unreadable"}
  PROVE  Kept
<1>1. PhaseOf(meta)' = "gone" /\ HeardTexts' = HeardTexts
  BY PhaseBecomes DEF HeardTexts
<1>2. Downloadable' = NoText /\ Downloadable = NoText
  BY ShownIs
<1>3. CASE meta.status \in {"absent", "unreadable"}
  BY <1>1, <1>2, <1>3, PhaseIs DEF Kept, Promise!promiseVars
<1>4. CASE meta.status \notin {"absent", "unreadable"}
  <2>1. PhaseOf(meta) \notin {"none", "gone"}
    BY <1>4, PhaseIs DEF Status, Processing, Reviewable
  <2>2. QED
    BY <1>1, <1>2, <2>1 DEF Kept, Promise!PromiseNext, Promise!Vanish
<1>5. QED
  BY <1>3, <1>4

----------------------------------------------------------------------------
(* Every action of DocumentLifecycle is one of these steps.                *)

\* Where the operations are, as the invariant says it of pc.
LEMMA Whereabouts ==
  ASSUME IInv
  PROVE  /\ meta.status # "absent" => born
         /\ meta.status \in Status
         /\ pc \in ProcessSteps \cup {"pFail"} => meta.status \in Processing
         /\ pc \in ApproveSteps => meta.status = "review"
         /\ pc \in {"dAnon", "dEdits", "dFindings", "dSave"} =>
              meta.status = "review"
         /\ pc \in DeleteSteps => meta.status # "absent"
  BY MetaFields DEF IInv, TypeOK, DiskTypeOK, Coordination, ControlOK, AbsentOK,
                    Remasking

LEMMA UploadKept == ASSUME IInv, Upload PROVE Kept
<1>1. ASSUME NEW mode \in Modes, UploadRecord(mode) PROVE Kept
  <2>1. /\ ~born /\ born' /\ meta'.status = "queued"
        /\ UNCHANGED <<anon, context, verdictOf>>
    BY <1>1, NewDocumentFacts DEF UploadRecord, Save
  <2>2. meta.status = "absent"
    BY <2>1, Whereabouts
  <2>3. PhaseOf(meta) = "none" /\ PhaseOf(meta)' = "working"
    BY <2>1, PhaseBecomes DEF PhaseOf, Processing
  <2>4. /\ Downloadable' = Downloadable /\ HeardTexts' = HeardTexts
        /\ context' = context
    BY <2>1, <2>2, ShownIs DEF HeardTexts
  <2>5. QED
    BY <2>3, <2>4 DEF Kept, Promise!PromiseNext, Promise!Uploaded
<1>2. CASE UploadOriginal \/ Submit
  BY <1>2, Unseen DEF UploadOriginal, Submit, diskVars, envVars
<1>3. QED
  BY <1>1, <1>2 DEF Upload

LEMMA DeleteKept == ASSUME IInv, Delete PROVE Kept
<1>1. CASE DeleteStart \/ DeleteOriginal \/ DeleteExtracted
  BY <1>1, Unseen DEF DeleteStart, DeleteOriginal, DeleteExtracted,
                      diskVars, envVars
<1>2. CASE DeleteMasked
  BY <1>2, Erases, Whereabouts DEF DeleteMasked, DeleteSteps, At, envVars
<1>3. CASE ShredRecord \/ RemoveRecord
  <2>1. /\ pc \in {"del4", "removing"}
        /\ UNCHANGED <<anon, context, born, verdictOf>>
    BY <1>3 DEF ShredRecord, RemoveRecord, At, envVars
  <2>2. {anon, edits} = {NoText} /\ context = NoText
    BY <2>1 DEF IInv, Coordination, DeleteOK
  <2>3. born /\ anon = NoText /\ meta.status \in Status
    BY <2>1, <2>2, Whereabouts DEF DeleteSteps
  <2>4. meta' = meta \/ meta'.status \in {"absent", "unreadable"}
    BY <1>3, NewDocumentFacts DEF ShredRecord, RemoveRecord, Save
  <2>5. QED
    BY <2>1, <2>2, <2>3, <2>4, Vanishes, Unseen
<1>4. CASE DeleteContext
  <2>1. /\ pc = "del5" /\ context' = NoText
        /\ UNCHANGED <<meta, anon, born, verdictOf>>
    BY <1>4 DEF DeleteContext, At, envVars
  <2>2. {anon, edits} = {NoText}
    BY <2>1 DEF IInv, Coordination, DeleteOK
  <2>3. /\ born /\ anon = NoText /\ meta.status \in Status
        /\ meta.status \notin {"absent", "unreadable"}
    BY <2>1, <2>2, Whereabouts
    DEF DeleteSteps, IInv, Coordination, ControlOK
  <2>4. QED
    BY <2>1, <2>3, Unshares
<1>5. QED
  BY <1>1, <1>2, <1>3, <1>4 DEF Delete

LEMMA WorkerKept == ASSUME IInv, WorkerNext PROVE Kept
<1>1. CASE \/ SkipJob \/ StartJob \/ Extract \/ ExtractFails \/ PersistMapping
           \/ PersistEdits \/ RecordAudit \/ ProcessFault \/ FailFault
  BY <1>1, Unseen
  DEF SkipJob, StartJob, Extract, ExtractFails, PersistMapping, PersistEdits,
      RecordAudit, ProcessFault, FailFault, diskVars, envVars
<1>2. CASE SaveExtracting \/ SaveMasking \/ Anonymize
  <2>1. meta'.status \in Processing
    <3>1. CASE SaveExtracting
      BY <3>1 DEF SaveExtracting, Save, At, IInv, Coordination, WorkerOK,
                  BeforeMask
    <3>2. CASE SaveMasking \/ Anonymize
      BY <3>2, Transition, Fields
      DEF SaveMasking, Anonymize, Save, SameBut, IInv, Processing
    <3>3. QED
      BY <1>2, <3>1, <3>2
  <2>2. born /\ meta.status \in Processing
    BY <1>2, Whereabouts
    DEF SaveExtracting, SaveMasking, Anonymize, At, ProcessSteps, Processing
  <2>3. UNCHANGED <<born, context, verdictOf>>
    BY <1>2 DEF SaveExtracting, SaveMasking, Anonymize, envVars
  <2>4. QED
    BY <2>1, <2>2, <2>3, StillWorking
<1>3. CASE PersistAnonymized
  <2>1. meta.status # "approved"
    BY <1>3, Whereabouts DEF PersistAnonymized, At, ProcessSteps, Processing
  <2>2. QED
    BY <1>3, <2>1, Hidden DEF PersistAnonymized, envVars
<1>4. CASE SaveNoText \/ SaveFailed
  <2>1. meta'.status \in {"review", "failed"}
    BY <1>4, Transition, Fields DEF SaveNoText, SaveFailed, Save, SameBut, IInv
  <2>2. born /\ meta.status \in Processing
    BY <1>4, Whereabouts DEF SaveNoText, SaveFailed, At, ProcessSteps, Processing
  <2>3. UNCHANGED <<born, context>> /\ HeardTexts' = HeardTexts
    BY <1>4 DEF SaveNoText, SaveFailed, envVars, HeardTexts
  <2>4. QED
    BY <2>1, <2>2, <2>3, Finishes
<1>5. CASE Audit
  <2>1. /\ born /\ meta.status \in Processing
        /\ work.text \in Texts
    BY <1>5, Whereabouts
    DEF Audit, At, ProcessSteps, Processing, IInv, Coordination, WorkerOK
  <2>2. UNCHANGED <<meta, anon, context, born>>
    BY <1>5 DEF Audit, diskVars, envVars
  <2>3. PICK v \in Verdicts : Heard(work.text, v)
    BY <1>5 DEF Audit
  <2>4. CASE v.llm = "ok"
    <3>1. PICK rank \in {Unclean, Shown, Clean} : Learn(work.text, rank)
      BY <2>3, <2>4 DEF Heard
    <3>2. HeardTexts' = HeardTexts \cup {work.text}
      BY <2>1, <3>1, LearnHears DEF IInv
    <3>3. QED
      BY <2>1, <2>2, <3>2, Hears
  <2>5. CASE v.llm # "ok"
    BY <2>2, <2>3, <2>5, Unseen DEF Heard
  <2>6. QED
    BY <2>4, <2>5
<1>6. CASE SaveRouted
  <2>1. /\ born /\ meta.status \in Processing /\ meta' = mem
        /\ UNCHANGED <<anon, context, born>> /\ pc = "pSave"
    BY <1>6, Whereabouts
    DEF SaveRouted, At, Save, envVars, ProcessSteps, Processing
  <2>2. /\ mem.status \in Reviewable /\ anon = work.text /\ work.text \in Texts
        /\ work.audit.llm = "ok" => verdictOf[work.text] >= Unclean
        /\ mem.status = "approved" =>
             work.audit.llm = "ok" /\ context = work.text
    BY <2>1, RankNames, Fields
    DEF IInv, Coordination, WorkerOK, AfterAudit, Persisting
  <2>3. work.audit.llm = "ok" => work.text \in HeardTexts
    BY <2>2, RankNames, Fields DEF HeardTexts, IInv
  <2>4. HeardTexts' = HeardTexts
    <3>1. CASE mem.status = "review" /\ work.audit.llm = "ok"
      <4>1. Learn(work.text, Shown)
        BY <1>6, <3>1 DEF SaveRouted
      <4>2. HeardTexts' = HeardTexts \cup {work.text}
        BY <2>2, <4>1, LearnHears DEF IInv
      <4>3. QED
        BY <2>3, <3>1, <4>2
    <3>2. CASE ~(mem.status = "review" /\ work.audit.llm = "ok")
      BY <1>6, <3>2 DEF SaveRouted, HeardTexts
    <3>3. QED
      BY <3>1, <3>2
  <2>5. CASE mem.status = "review"
    BY <2>1, <2>4, <2>5, Finishes
  <2>6. CASE mem.status = "approved"
    BY <2>1, <2>2, <2>3, <2>4, <2>6, Publishes
  <2>7. QED
    BY <2>2, <2>5, <2>6 DEF Reviewable
<1>7. CASE Route
  <2>1. /\ born /\ meta.status \in Processing
        /\ UNCHANGED <<meta, anon, born, verdictOf>> /\ pc = "pRoute"
    BY <1>7, Whereabouts DEF Route, At, envVars, ProcessSteps, Processing
  <2>2. CASE MayAutoApprove(mem, work.audit, work.blocking \/ ~prefsReadable)
    <3>1. context' = work.text /\ work.audit.llm = "ok"
      BY <1>7, <2>2 DEF Route, MayAutoApprove
    <3>2. work.text \in Texts /\ verdictOf[work.text] >= Unclean
      BY <2>1, <3>1, RankNames, Fields
      DEF IInv, Coordination, WorkerOK, AfterAudit, Persisting
    <3>3. context' \in HeardTexts
      BY <3>1, <3>2, RankNames, Fields DEF HeardTexts, IInv
    <3>4. QED
      BY <2>1, <3>3, Shares
  <2>3. CASE ~MayAutoApprove(mem, work.audit, work.blocking \/ ~prefsReadable)
    <3>1. UNCHANGED context
      BY <1>7, <2>3 DEF Route
    <3>2. QED
      BY <2>1, <3>1, Unseen
  <2>4. QED
    BY <2>2, <2>3
<1>8. QED
  BY <1>1, <1>2, <1>3, <1>4, <1>5, <1>6, <1>7 DEF WorkerNext, RunStep

LEMMA ReviewerKept == ASSUME IInv, ReviewerNext PROVE Kept
<1>1. CASE \/ ApproveStart \/ ReauditFails \/ ReauditFindings \/ DecideStart
           \/ RemaskEdits \/ RemaskFindings
  BY <1>1, Unseen
  DEF ApproveStart, ReauditFails, ReauditFindings, DecideStart, RemaskEdits,
      RemaskFindings, diskVars, envVars
<1>2. CASE Reaudit
  <2>1. /\ born /\ meta.status = "review" /\ mem = meta
        /\ work.text \in Texts /\ UNCHANGED <<born, context>>
    BY <1>2, Whereabouts
    DEF Reaudit, At, ApproveSteps, IInv, Coordination, ApprovalOK, envVars
  <2>2. meta'.status = "review"
    BY <1>2, <2>1, BumpedFacts, Fields DEF Reaudit, Save, IInv
  <2>3. PICK rank \in {Unclean, Shown, Clean} : Learn(work.text, rank)
    BY <1>2 DEF Reaudit
  <2>4. HeardTexts' = HeardTexts \cup {work.text}
    BY <2>1, <2>3, LearnHears DEF IInv
  <2>5. QED
    BY <2>1, <2>2, <2>4, Hears
<1>3. CASE ReauditUnclean
  <2>1. /\ born /\ meta.status = "review" /\ mem.status = "review"
        /\ work.text \in Texts /\ UNCHANGED <<born, context>>
    BY <1>3, Whereabouts
    DEF ReauditUnclean, At, ApproveSteps, IInv, Coordination, ApprovalOK, envVars
  <2>2. meta'.status = "review" /\ Learn(work.text, Shown)
    BY <1>3, <2>1 DEF ReauditUnclean, Save
  <2>3. HeardTexts' = HeardTexts \cup {work.text}
    BY <2>1, <2>2, LearnHears DEF IInv
  <2>4. QED
    BY <2>1, <2>2, <2>3, Hears
<1>4. CASE ApproveSave
  <2>1. /\ born /\ meta.status = "review" /\ pc = "aSave" /\ meta' = mem
        /\ UNCHANGED <<anon, context, born, verdictOf>>
    BY <1>4, Whereabouts DEF ApproveSave, At, Save, ApproveSteps, envVars
  <2>2. /\ mem.status = "approved" /\ anon \in Texts /\ context = anon
        /\ verdictOf[anon] >= Shown
    BY <2>1 DEF IInv, Coordination, ApprovalOK, ApproveSteps, Approving
  <2>3. anon \in HeardTexts /\ HeardTexts' = HeardTexts
    BY <2>1, <2>2, RankNames, Fields DEF HeardTexts, IInv
  <2>4. QED
    BY <2>1, <2>2, <2>3, Publishes
<1>5. CASE RemaskStatus \/ RemaskSave
  <2>1. /\ born /\ meta.status \in {"review", "approved"} /\ mem.status = "review"
        /\ meta' = mem
    BY <1>5, Whereabouts
    DEF RemaskStatus, RemaskSave, At, Save, DecideSteps, Reviewable,
        IInv, Coordination, ControlOK, RemaskOK
  <2>2. UNCHANGED <<anon, context, born, verdictOf>>
    BY <1>5 DEF RemaskStatus, RemaskSave, envVars
  <2>3. QED
    BY <2>1, <2>2, Settles
<1>6. CASE RemaskAnonymized
  <2>1. meta.status = "review"
    BY <1>6, Whereabouts DEF RemaskAnonymized, At
  <2>2. QED
    BY <1>6, <2>1, Hidden DEF RemaskAnonymized, envVars
<1>7. CASE Reject
  <2>1. meta.status \in {"review", "approved", "failed"} /\ born
    BY <1>7, Whereabouts DEF Reject, Status, Reviewable
  <2>2. meta'.status = "rejected"
    BY <1>7, Transition, Fields DEF Reject, Save, SameBut, IInv
  <2>3. UNCHANGED <<anon, context, born, verdictOf>>
    BY <1>7 DEF Reject, envVars
  <2>4. QED
    BY <2>1, <2>2, <2>3, Settles
<1>8. CASE ApproveContext
  <2>1. /\ born /\ meta.status = "review" /\ pc = "aContext"
        /\ context' = work.text /\ UNCHANGED <<meta, anon, born, verdictOf>>
    BY <1>8, Whereabouts DEF ApproveContext, At, ApproveSteps, envVars
  <2>2. work.text \in Texts /\ verdictOf[work.text] >= Shown
    BY <2>1 DEF IInv, Coordination, ApprovalOK, ApproveSteps, Approving
  <2>3. context' \in HeardTexts
    BY <2>1, <2>2, RankNames, Fields DEF HeardTexts, IInv
  <2>4. QED
    BY <2>1, <2>3, Shares
<1>9. QED
  BY <1>1, <1>2, <1>3, <1>4, <1>5, <1>6, <1>7, <1>8
  DEF ReviewerNext, ApproveStep, DecideStep

LEMMA TroubleKept == ASSUME IInv, Trouble PROVE Kept
<1>1. CASE RequestFault \/ Crash \/ RestartFault \/ PrefsFlip
  BY <1>1, Unseen DEF RequestFault, Crash, RestartFault, PrefsFlip,
                      diskVars, envVars
<1>2. CASE Restart
  <2>1. UNCHANGED <<anon, context, born, verdictOf>>
    BY <1>2 DEF Restart, envVars
  <2>2. CASE meta.status \notin Processing
    BY <1>2, <2>1, <2>2, Unseen DEF Restart
  <2>3. CASE meta.status \in Processing
    <3>1. born
      BY <2>3, Whereabouts DEF Processing
    <3>2. meta'.status \in {"queued", "failed"}
      BY <1>2, <2>3, Transition, Fields DEF Restart, Save, SameBut, IInv
    <3>3. HeardTexts' = HeardTexts
      BY <2>1 DEF HeardTexts
    <3>4. QED
      BY <2>1, <2>3, <3>1, <3>2, <3>3, StillWorking, Finishes DEF Processing
  <2>4. QED
    BY <2>2, <2>3
<1>3. QED
  BY <1>1, <1>2 DEF Trouble

\* The code keeps the promise: through every interleaving, failed write and end
\* of the process a text is shown as approved only after it was audited, is
\* never replaced while it is shown, and what was settled is not brought back.
THEOREM ImplementsPromise == Spec => KeepsPromise
<1>1. Init => Promise!PromiseInit
  <2> SUFFICES ASSUME Init PROVE Promise!PromiseInit
    OBVIOUS
  <2>1. ~born /\ meta.status = "absent" /\ \A t \in Texts : verdictOf[t] = Unread
    BY AbsentFields DEF Init
  <2>2. /\ PhaseOf(meta) = "none" /\ Downloadable = NoText
        /\ context = NoText /\ HeardTexts = {}
    BY <2>1 DEF Init, PhaseOf, Downloadable, HeardTexts
  <2>3. QED
    BY <2>2 DEF Promise!PromiseInit
<1>2. IInv /\ [Next]_vars => [Promise!PromiseNext]_Promise!promiseVars
  <2> SUFFICES ASSUME IInv, [Next]_vars PROVE Kept
    BY DEF Kept
  <2>1. CASE Next
    BY <2>1, UploadKept, DeleteKept, WorkerKept, ReviewerKept, TroubleKept
    DEF Next
  <2>2. CASE UNCHANGED vars
    BY <2>2, Unseen DEF vars, diskVars, envVars
  <2>3. QED
    BY <2>1, <2>2
<1>3. QED
  BY <1>1, <1>2, Invariant, PTL DEF Spec, KeepsPromise, Promise!PromiseSpec
=============================================================================
