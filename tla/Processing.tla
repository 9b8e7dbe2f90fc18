----------------------------- MODULE Processing -----------------------------
(***************************************************************************)
(* The background worker: one thread that takes jobs in order and runs     *)
(* extraction, the mask/audit rounds, persistence and routing of a         *)
(* document, all of it under the document's lock (pipeline/queue.py,       *)
(* pipeline/runner.py, pipeline/orchestrator.py).                          *)
(*                                                                         *)
(* A job is taken and the lock acquired in one step: between the two the   *)
(* worker only waits, and a crash loses the job either way.                *)
(***************************************************************************)
EXTENDS DocumentStore

\* A double submit, a settled or a deleted document: nothing is written.
SkipJob ==
  /\ Idle /\ jobs # <<>>
  /\ meta.status \notin Processing
  /\ jobs' = Tail(jobs)
  /\ UNCHANGED <<diskVars, opVars, up, submitting, envVars, verdictOf>>

HasBytes(job) == job = "bytes" \/ layer1

\* Mutant: the job does not look at the stored status again.
StartJobBlindly ==
  /\ Idle /\ jobs # <<>>
  /\ jobs' = Tail(jobs)
  /\ IF HasBytes(Head(jobs))
       THEN mem' = With(meta, "extracting") /\ Goto("pExtracting")
       ELSE mem' = meta /\ Goto("pFail")
  /\ UNCHANGED <<diskVars, work, up, submitting, envVars, verdictOf>>

StartJob ==
  /\ Idle /\ jobs # <<>>
  /\ meta.status \in Processing
  /\ jobs' = Tail(jobs)
  /\ IF HasBytes(Head(jobs))
       THEN mem' = With(meta, "extracting") /\ Goto("pExtracting")
       ELSE mem' = meta /\ Goto("pFail")     \* processing_interrupted
  /\ UNCHANGED <<diskVars, work, up, submitting, envVars, verdictOf>>

SaveExtracting ==
  /\ At("pExtracting")
  /\ Save(mem)
  /\ Goto("pExtract")
  /\ UNCHANGED <<openFindings, layer1, layer2, anon, edits, context, mem, work,
                 procVars, envVars, verdictOf>>

\* Mutant: the extracted text is stored in destructive mode too.
ExtractStoringAlways ==
  /\ At("pExtract")
  /\ layer2' = layer2 \cup {"extracted"}
  /\ \/ Goto("pNoText") /\ UNCHANGED work
     \/ /\ Goto("pMask")
        /\ \E b \in BOOLEAN :
             work' = [work EXCEPT !.blocking = b, !.lists = prefsReadable]
  /\ UNCHANGED <<meta, openFindings, layer1, anon, edits, context, mem,
                 procVars, envVars, verdictOf>>

\* A file with no text waits for a human; otherwise the user's term lists are
\* read here, once, before the first round.
Extract ==
  /\ At("pExtract")
  /\ layer2' = layer2 \cup IF mem.mode = "mapping" THEN {"extracted"} ELSE {}
  /\ \/ Goto("pNoText") /\ UNCHANGED work
     \/ /\ Goto("pMask")
        /\ \E b \in BOOLEAN :
             work' = [work EXCEPT !.blocking = b, !.lists = prefsReadable]
  /\ UNCHANGED <<meta, openFindings, layer1, anon, edits, context, mem,
                 procVars, envVars, verdictOf>>

\* Damaged, encrypted, timed out: ExtractionFailed.
ExtractFails ==
  /\ At("pExtract")
  /\ Goto("pFail")
  /\ UNCHANGED <<diskVars, mem, work, procVars, envVars, verdictOf>>

SaveNoText ==
  /\ At("pNoText")
  /\ Save(With(mem, "review"))
  /\ Release
  /\ UNCHANGED <<openFindings, layer1, layer2, anon, edits, context,
                 procVars, envVars, verdictOf>>

----------------------------------------------------------------------------
(* Orchestrator.run: rounds of masking and auditing, until one is clean.   *)

SaveMasking ==
  /\ At("pMask")
  /\ mem' = With(mem, "masking")
  /\ Save(mem')
  /\ Goto("pAnonymize")
  /\ UNCHANGED <<openFindings, layer1, layer2, anon, edits, context, work,
                 procVars, envVars, verdictOf>>

Anonymize ==
  /\ At("pAnonymize")
  /\ \E t \in Texts : work' = [work EXCEPT !.text = t]
  /\ mem' = With(mem, "auditing")
  /\ Save(mem')
  /\ Goto("pAudit")
  /\ UNCHANGED <<openFindings, layer1, layer2, anon, edits, context,
                 procVars, envVars, verdictOf>>

LastRound(v) == v.clean \/ work.round + 1 = MaxIterations

\* What one audit teaches of the text it read: only the LLM's word counts.
Heard(t, v) ==
  IF v.llm = "ok" THEN Learn(t, IF v.clean THEN Clean ELSE Unclean)
                  ELSE UNCHANGED verdictOf

\* Mutant: the rounds are not counted.
AuditUncounted ==
  /\ At("pAudit")
  /\ \E v \in Verdicts :
       /\ work' = [work EXCEPT !.audit = v]
       /\ Heard(work.text, v)
       /\ pc' = IF LastRound(v) THEN "pAnon" ELSE "pMask"
  /\ UNCHANGED <<diskVars, mem, procVars, envVars>>

Audit ==
  /\ At("pAudit")
  /\ \E v \in Verdicts :
       /\ work' = [work EXCEPT !.audit = v, !.round = @ + 1]
       /\ Heard(work.text, v)
       /\ pc' = IF LastRound(v) THEN "pAnon" ELSE "pMask"
  /\ UNCHANGED <<diskVars, mem, procVars, envVars>>

----------------------------------------------------------------------------
(* persist_output, record_audit, route.                                    *)

PersistAnonymized ==
  /\ At("pAnon")
  /\ anon' = work.text
  /\ mem' = Bumped(mem)
  /\ Goto(IF mem.mode = "mapping" THEN "pMapping" ELSE "pEdits")
  /\ UNCHANGED <<meta, openFindings, layer1, layer2, edits, context, work,
                 procVars, envVars, verdictOf>>

PersistMapping ==
  /\ At("pMapping")
  /\ layer2' = layer2 \cup {"records"}
  /\ Goto("pEdits")
  /\ UNCHANGED <<meta, openFindings, layer1, anon, edits, context, mem, work,
                 procVars, envVars, verdictOf>>

PersistEdits ==
  /\ At("pEdits")
  /\ edits' = work.text
  /\ Goto("pFindings")
  /\ UNCHANGED <<meta, openFindings, layer1, layer2, anon, context, mem, work,
                 procVars, envVars, verdictOf>>

\* The document as the final audit v of text t leaves it: only a successful
\* LLM audit marks the revision.
Audited(doc, t, v) ==
  WithPending(IF v.llm = "ok" THEN MarkAudited(doc, t) ELSE doc, v.open)

\* findings.json, then (mapping mode) the audit terms, one more record of layer
\* 2: a failure between the two leaves what a failure of the next write leaves.
RecordAudit ==
  /\ At("pFindings")
  /\ openFindings' = work.audit.open
  /\ mem' = Audited(mem, work.text, work.audit)
  /\ Goto("pRoute")
  /\ UNCHANGED <<meta, layer1, layer2, anon, edits, context, work,
                 procVars, envVars, verdictOf>>

\* Mutants: a clean heuristic is enough; a blocking reason is overlooked.
MayAutoApproveUnheard(doc, v, blocking) == v.clean /\ ~blocking /\ ~doc.pending
MayAutoApproveBlocked(doc, v, blocking) ==
  v.llm = "ok" /\ v.clean /\ ~doc.pending

\* The routing rule.  Whether the lists can be read is asked again, here.
MayAutoApprove(doc, v, blocking) ==
  v.llm = "ok" /\ v.clean /\ ~blocking /\ ~doc.pending

Route ==
  /\ At("pRoute")
  /\ IF MayAutoApprove(mem, work.audit, work.blocking \/ ~prefsReadable)
       THEN mem' = With(mem, "approved") /\ context' = work.text
       ELSE mem' = With(mem, "review") /\ UNCHANGED context
  /\ Goto("pSave")
  /\ UNCHANGED <<meta, openFindings, layer1, layer2, anon, edits, work,
                 procVars, envVars, verdictOf>>

SaveRouted ==
  /\ At("pSave")
  /\ Save(mem)
  /\ IF mem.status = "review" /\ work.audit.llm = "ok"
       THEN Learn(work.text, Shown) ELSE UNCHANGED verdictOf
  /\ Release
  /\ UNCHANGED <<openFindings, layer1, layer2, anon, edits, context,
                 procVars, envVars>>

----------------------------------------------------------------------------
(* _fail, and the failures that lead to it.                                *)

SaveFailed ==
  /\ At("pFail")
  /\ Save(With(mem, "failed"))
  /\ Release
  /\ UNCHANGED <<openFindings, layer1, layer2, anon, edits, context,
                 procVars, envVars, verdictOf>>

\* A write of the run fails (or the engine or the audit does): on to _fail, with the
\* in-memory document as it is.
ProcessFault ==
  /\ up /\ pc \in ProcessSteps
  /\ Fault
  /\ Goto("pFail")
  /\ UNCHANGED <<diskVars, mem, work, procVars, prefsReadable, crashes, flips,
                 born, verdictOf>>

\* Even the write of FAILED fails: the document stays as last stored.
FailFault ==
  /\ At("pFail")
  /\ Fault
  /\ Release
  /\ UNCHANGED <<diskVars, procVars, prefsReadable, crashes, flips, born,
                 verdictOf>>

RunStep ==
  \/ SaveExtracting \/ Extract \/ ExtractFails \/ SaveNoText
  \/ SaveMasking \/ Anonymize \/ Audit
  \/ PersistAnonymized \/ PersistMapping \/ PersistEdits \/ RecordAudit
  \/ Route \/ SaveRouted \/ SaveFailed

WorkerNext == SkipJob \/ StartJob \/ RunStep \/ ProcessFault \/ FailFault
=============================================================================
