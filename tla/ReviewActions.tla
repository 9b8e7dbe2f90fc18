--------------------------- MODULE ReviewActions ---------------------------
(***************************************************************************)
(* What a reviewer does to a settled document, each action under its lock: *)
(* approve (with the audit that must precede it), a decision (mask, unmask *)
(* or keep, always followed by a re-mask of the stored original) and       *)
(* reject (review/approval.py, review/decisions.py).                       *)
(*                                                                         *)
(* Which decision it was is left out: the text the engine then produces is *)
(* any of Texts, and its findings are open or not.  So are the global term *)
(* lists a decision may change, and decisions.json itself, which is        *)
(* restored when the re-mask cannot be stored.                             *)
(***************************************************************************)
EXTENDS DocumentStore

\* The last LLM audit covers this revision and read exactly this text.
CoveredByAudit(doc, t) == doc.audited = doc.revision + 1 /\ doc.digest = t

\* Mutant: open items do not stop an approval.
ApproveStartWithOpen ==
  /\ Idle
  /\ meta.status = "review" /\ anon # NoText
  /\ work' = [NoWork EXCEPT !.text = anon]
  /\ IF CoveredByAudit(meta, anon)
       THEN mem' = With(meta, "approved") /\ Goto("aContext")
       ELSE Bumpable /\ mem' = meta /\ Goto("aAudit")
  /\ UNCHANGED <<diskVars, procVars, envVars, verdictOf>>

ApproveStart ==
  /\ Idle
  /\ meta.status = "review" /\ anon # NoText /\ ~meta.pending
  /\ work' = [NoWork EXCEPT !.text = anon]
  /\ IF CoveredByAudit(meta, anon)
       THEN mem' = With(meta, "approved") /\ Goto("aContext")
       ELSE Bumpable /\ mem' = meta /\ Goto("aAudit")
  /\ UNCHANGED <<diskVars, procVars, envVars, verdictOf>>

\* _reaudit.  Without a working LLM only a reason is stored (503).  With one
\* the revision moves on, and is stored, before the findings are replaced.
ReauditFails ==
  /\ At("aAudit")
  /\ Release
  /\ UNCHANGED <<diskVars, procVars, envVars, verdictOf>>

Reaudit ==
  /\ At("aAudit")
  /\ \E v \in Verdicts :
       /\ v.llm = "ok"
       /\ work' = [work EXCEPT !.audit = v]
       /\ Learn(work.text, IF v.clean THEN Clean ELSE Unclean)
  /\ mem' = Bumped(mem)
  /\ Save(mem')
  /\ Goto("aFindings")
  /\ UNCHANGED <<openFindings, layer1, layer2, anon, edits, context,
                 procVars, envVars>>

\* Mutant: a re-audit that leaves nothing open approves, clean or not.
ReauditFindingsUnseen ==
  /\ At("aFindings")
  /\ openFindings' = work.audit.open
  /\ layer2' = layer2 \cup IF mem.mode = "mapping" THEN {"records"} ELSE {}
  /\ LET doc == WithPending(MarkAudited(mem, work.text), work.audit.open)
     IN  mem' = IF ~work.audit.open THEN With(doc, "approved") ELSE doc
  /\ pc' = IF ~work.audit.open THEN "aContext" ELSE "aUnclean"
  /\ UNCHANGED <<meta, layer1, anon, edits, context, work,
                 procVars, envVars, verdictOf>>

\* findings.json and (mapping mode) the audit terms; only then is the
\* in-memory document marked as audited.
ReauditFindings ==
  /\ At("aFindings")
  /\ openFindings' = work.audit.open
  /\ layer2' = layer2 \cup IF mem.mode = "mapping" THEN {"records"} ELSE {}
  /\ LET doc == WithPending(MarkAudited(mem, work.text), work.audit.open)
     IN  mem' = IF work.audit.clean THEN With(doc, "approved") ELSE doc
  /\ pc' = IF work.audit.clean THEN "aContext" ELSE "aUnclean"
  /\ UNCHANGED <<meta, layer1, anon, edits, context, work,
                 procVars, envVars, verdictOf>>

\* 409: the document now says what the audit saw; a second click approves it.
ReauditUnclean ==
  /\ At("aUnclean")
  /\ Save(mem)
  /\ Learn(work.text, Shown)
  /\ Release
  /\ UNCHANGED <<openFindings, layer1, layer2, anon, edits, context,
                 procVars, envVars>>

\* build_chat_context, from the content object that was read at the start.
ApproveContext ==
  /\ At("aContext")
  /\ context' = work.text
  /\ Goto("aSave")
  /\ UNCHANGED <<meta, openFindings, layer1, layer2, anon, edits, mem, work,
                 procVars, envVars, verdictOf>>

ApproveSave ==
  /\ At("aSave")
  /\ Save(mem)
  /\ Release
  /\ UNCHANGED <<openFindings, layer1, layer2, anon, edits, context,
                 procVars, envVars, verdictOf>>

----------------------------------------------------------------------------
(* A decision: the re-mask is computed, decisions.json is written, then    *)
(* _store_remask stores the new revision and the review status BEFORE the  *)
(* new content.                                                            *)

\* Mutants: a re-mask keeps the status; it keeps the revision.
RemaskedApproved(doc) == Bumped(doc)
RemaskedInPlace(doc)  == With(doc, "review")

Remasked(doc) == With(Bumped(doc), "review")

DecideStart ==
  /\ Idle /\ Bumpable
  /\ meta.status \in Reviewable
  /\ meta.mode = "mapping" /\ "extracted" \in layer2
  /\ anon # NoText
  /\ \E t \in Texts : work' = [NoWork EXCEPT !.text = t]
  /\ layer2' = layer2 \cup {"records"}
  /\ mem' = Remasked(meta)
  /\ Goto("dStatus")
  /\ UNCHANGED <<meta, openFindings, layer1, anon, edits, context,
                 procVars, envVars, verdictOf>>

\* Mutant: the new content is written before the record.
RemaskStatusLast ==
  /\ At("dStatus")
  /\ Goto("dAnon")
  /\ UNCHANGED <<diskVars, mem, work, procVars, envVars, verdictOf>>

RemaskStatus ==
  /\ At("dStatus")
  /\ Save(mem)
  /\ Goto("dAnon")
  /\ UNCHANGED <<openFindings, layer1, layer2, anon, edits, context, mem, work,
                 procVars, envVars, verdictOf>>

RemaskAnonymized ==
  /\ At("dAnon")
  /\ anon' = work.text
  /\ Goto("dEdits")
  /\ UNCHANGED <<meta, openFindings, layer1, layer2, edits, context, mem, work,
                 procVars, envVars, verdictOf>>

RemaskEdits ==
  /\ At("dEdits")
  /\ edits' = work.text
  /\ Goto("dFindings")
  /\ UNCHANGED <<meta, openFindings, layer1, layer2, anon, context, mem, work,
                 procVars, envVars, verdictOf>>

\* Mutant: the open items are stored but not counted.
RemaskFindingsUncounted ==
  /\ At("dFindings")
  /\ openFindings' \in BOOLEAN
  /\ Goto("dSave")
  /\ UNCHANGED <<meta, layer1, layer2, anon, edits, context, mem, work,
                 procVars, envVars, verdictOf>>

\* The audit's open terms are located again, with what the heuristic adds.
RemaskFindings ==
  /\ At("dFindings")
  /\ \E open \in BOOLEAN :
       openFindings' = open /\ mem' = WithPending(mem, open)
  /\ Goto("dSave")
  /\ UNCHANGED <<meta, layer1, layer2, anon, edits, context, work,
                 procVars, envVars, verdictOf>>

RemaskSave ==
  /\ At("dSave")
  /\ Save(mem)
  /\ Release
  /\ UNCHANGED <<openFindings, layer1, layer2, anon, edits, context,
                 procVars, envVars, verdictOf>>

----------------------------------------------------------------------------

Reject ==
  /\ Idle
  /\ meta.status \notin Processing \cup {"rejected", "absent", "unreadable"}
  /\ Save(With(meta, "rejected"))
  /\ UNCHANGED <<openFindings, layer1, layer2, anon, edits, context, opVars,
                 procVars, envVars, verdictOf>>

ApproveStep == ReauditFails \/ Reaudit \/ ReauditFindings \/ ReauditUnclean
               \/ ApproveContext \/ ApproveSave
DecideStep  == RemaskStatus \/ RemaskAnonymized \/ RemaskEdits
               \/ RemaskFindings \/ RemaskSave

ReviewerNext == ApproveStart \/ ApproveStep \/ DecideStart \/ DecideStep
                \/ Reject
=============================================================================
