------------------------- MODULE DocumentInvariant -------------------------
(***************************************************************************)
(* The inductive invariant of DocumentLifecycle, in named parts.  None of  *)
(* the safety properties is inductive: each speaks of the disk, and what   *)
(* keeps it true is what the operation under the lock knows in between.    *)
(***************************************************************************)
EXTENDS DocumentLifecycle, TLC

\* The LLM audit on record is of the stored revision, or of an older one.
Covers(doc) == doc.audited = doc.revision + 1
AuditNotAhead(doc) == doc.audited <= doc.revision + 1

BeforeMask  == {"pExtracting", "pExtract", "pNoText", "pMask", "pAnonymize",
                "pAudit", "pAnon"}
Persisting  == {"pMapping", "pEdits", "pFindings"}
AfterAudit  == {"pAnon"} \cup Persisting \cup {"pRoute", "pSave"}
AfterLists  == {"pMask", "pAnonymize", "pAudit"} \cup AfterAudit
Remasking   == {"dAnon", "dEdits", "dFindings", "dSave"}
Approving   == {"aContext", "aSave"}

\* Which stored status each operation runs on: it checked it under the lock,
\* and nobody else writes until the lock is released.
ControlOK ==
  /\ ~up => pc = "idle"
  /\ pc \in ProcessSteps \cup {"pFail"} => meta.status \in Processing
  /\ pc \in ApproveSteps => meta.status = "review"
  /\ pc = "dStatus" => meta.status \in Reviewable
  /\ pc \in Remasking => meta.status = "review"
  /\ pc \in DecideSteps => meta.mode = "mapping"
  /\ pc \in UploadSteps =>
       born /\ meta.status = "queued" /\ meta.mode = "mapping"
  /\ pc \in DeleteSteps => meta.status # "absent"
  /\ pc \in DeleteSteps \ {"removing"} => meta.status # "unreadable"
  /\ pc \notin {"idle"} \cup UploadSteps \cup DeleteSteps =>
       mem.mode = meta.mode /\ mem.status # "absent"

\* A document that is being processed was never settled before.
FreshOK ==
  meta.status \in Processing =>
    meta.revision = 0 /\ meta.audited = 0 /\ ~meta.pending

\* What the worker's in-memory document and locals say at each step.
WorkerOK ==
  /\ pc \in BeforeMask =>
       mem.revision = 0 /\ mem.audited = 0 /\ ~mem.pending
  /\ pc \in BeforeMask => mem.status \in Processing
  /\ pc \in {"pAudit"} \cup AfterAudit => work.text \in Texts
  /\ pc \in AfterAudit /\ work.audit.llm = "ok" =>
       verdictOf[work.text] >= IF work.audit.clean THEN Clean ELSE Unclean
  /\ pc \in AfterLists /\ flips = 0 => work.lists = prefsReadable
  /\ pc \in Persisting => mem.revision = 1 /\ mem.audited = 0
  /\ pc = "pMapping" => mem.mode = "mapping"
  /\ pc \in AfterAudit \ {"pAnon"} => anon = work.text
  /\ pc \in {"pRoute", "pSave"} =>
       /\ mem.revision = 1
       /\ IF work.audit.llm = "ok" THEN mem.audited = 2 /\ mem.digest = work.text
                                   ELSE mem.audited = 0
       /\ mem.pending = openFindings
       /\ work.audit.clean => ~mem.pending
  /\ pc = "pSave" =>
       /\ mem.status \in Reviewable
       /\ mem.status = "approved" =>
            /\ work.audit.llm = "ok" /\ work.audit.clean
            /\ context = work.text
            /\ ~work.blocking /\ (flips = 0 => work.lists)

\* The same for an approval: it works on the text that is stored.
ApprovalOK ==
  /\ pc \in ApproveSteps => work.text = anon /\ anon \in Texts
  /\ pc = "aAudit" => mem = meta
  /\ pc = "aFindings" =>
       /\ mem = meta /\ ~Covers(meta)
       /\ verdictOf[work.text] >= IF work.audit.clean THEN Clean ELSE Unclean
  /\ pc = "aUnclean" =>
       /\ mem.status = "review" /\ ~Covers(meta)
       /\ Covers(mem) /\ mem.digest = work.text
       /\ mem.pending = openFindings
  /\ pc \in Approving =>
       /\ mem.status = "approved"
       /\ Covers(mem) /\ mem.digest = work.text
       /\ verdictOf[work.text] >= Shown
       /\ ~mem.pending /\ ~openFindings
  /\ pc = "aSave" => context = work.text

\* And for a re-mask: from its first write on, no audit covers the document.
RemaskOK ==
  /\ pc \in DecideSteps =>
       work.text \in Texts /\ mem.status = "review" /\ ~Covers(mem)
  /\ pc \in Remasking => ~Covers(meta)

AuditRecordOK ==
  /\ AuditNotAhead(meta)
  /\ AuditNotAhead(mem)

\* An audit that covers the stored revision is known to the reviewer, and the
\* document counts the open items that are stored (a delete may have taken some).
CoverageOK ==
  meta.status \in Reviewable /\ Covers(meta) =>
    /\ meta.digest \in Texts /\ verdictOf[meta.digest] >= Shown
    /\ openFindings => meta.pending

ApprovedOK ==
  meta.status = "approved" =>
    /\ Covers(meta) /\ ~meta.pending
    /\ anon \in {meta.digest, NoText}

\* How far a delete has come.
DeleteOK ==
  /\ pc \in DeleteSteps \ {"del1"} => ~layer1
  /\ pc \in {"del3", "del5", "del4", "removing"} => layer2 = {}
  /\ pc \in {"del5", "del4", "removing"} => {anon, edits} = {NoText}
  /\ pc \in {"del4", "removing"} => context = NoText

AbsentOK ==
  /\ ~born => meta.status = "absent"
  /\ meta.status = "absent" => pc = "idle" /\ ~openFindings
  /\ meta.status = "unreadable" => pc \in {"idle", "removing"}
  /\ meta.status \in {"absent", "unreadable"} =>
       /\ ~layer1 /\ layer2 = {}
       /\ {anon, edits, context} = {NoText}

\* What the operations and the disk know of each other.
Coordination ==
  /\ ControlOK
  /\ FreshOK
  /\ WorkerOK
  /\ ApprovalOK
  /\ RemaskOK
  /\ AuditRecordOK
  /\ CoverageOK
  /\ ApprovedOK
  /\ DeleteOK
  /\ AbsentOK
  /\ ContextIsAudited
  /\ ContextMatchesDownload
  /\ DestructiveKeepsNothing

\* The inductive invariant: what each step knows of the disk (section 4 of README).
IInv == TypeOK /\ Coordination
----------------------------------------------------------------------------
(* What makes LayersAgree inductive: as long as nothing failed, each step  *)
(* knows which files are written already.                                  *)

Unwritten == {anon, edits} = {NoText} /\ ~openFindings
LayersKnown ==
  /\ up
  /\ pc = "idle" /\ meta.status \in Processing => Unwritten
  /\ pc \in UploadSteps \cup BeforeMask => Unwritten
  /\ pc \in {"idle", "aAudit"} /\ meta.status \in Reviewable =>
       edits = anon /\ openFindings = meta.pending
  /\ pc \in {"dEdits"} => anon = work.text
  /\ pc \in {"pFindings", "pRoute", "pSave", "dFindings", "dSave"} \cup ApproveSteps =>
       edits = anon
  /\ pc = "dSave" => openFindings = mem.pending

LayersOK == faults = 0 /\ crashes = 0 => LayersKnown

\* For TLC: the masked texts are interchangeable.
Symmetry == Permutations(Texts)
=============================================================================
