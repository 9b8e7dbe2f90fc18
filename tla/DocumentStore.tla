--------------------------- MODULE DocumentStore ---------------------------
(***************************************************************************)
(* One document of Screenwall: its five storage layers on disk, the        *)
(* operation that holds the document's lock, and what can go wrong under   *)
(* it (a write that fails, the process ending).  Uploading and deleting    *)
(* are here; Processing.tla adds the worker and ReviewActions.tla the      *)
(* reviewer.                                                               *)
(*                                                                         *)
(* Every mutating path of the code takes the document's lock and re-reads  *)
(* the document inside it (services/locks.py), so at most one operation is *)
(* under way: pc names its next step, mem is its in-memory Document and    *)
(* work its other locals.  A step is one file write; between two steps the *)
(* process may end, a write may fail, and readers without the lock look    *)
(* at the disk.                                                            *)
(***************************************************************************)
EXTENDS Naturals, Sequences, FiniteSets

CONSTANTS
  Texts,         \* masked texts the engine may produce for this document
  NoText,        \* a file that is not there (or was overwritten by a delete)
  MaxRevision,   \* bound: no operation that bumps the revision starts here
  MaxIterations, \* Settings.max_iterations, the mask/audit rounds of a run
  MaxFaults,     \* bound on failing writes
  MaxCrashes,    \* bound on ends of the process
  MaxFlips       \* bound on changes of user_settings.json's readability

ASSUME TextsAssumption == NoText \notin Texts
ASSUME BoundsAssumption ==
  /\ MaxRevision \in Nat /\ MaxFaults \in Nat
  /\ MaxCrashes \in Nat  /\ MaxFlips \in Nat
ASSUME IterationsAssumption == MaxIterations \in 1..2

VARIABLES
  \* On disk.
  meta,          \* document.json (layer 4), status "absent" when there is none
  openFindings,  \* findings.json (layer 4) holds an open item
  layer1,        \* the original is stored
  layer2,        \* files of layer 2: "extracted", "records" (mapping,
                 \* decisions, audit terms)
  anon,          \* anonymized.json (layer 3), the masked text
  edits,         \* edits.json (layer 3), as the text whose edits it lists
  context,       \* context.txt (layer 5)
  \* In the running process.
  up,            \* the process serves requests
  pc, mem, work, \* the operation under the document's lock
  submitting,    \* an upload that stored its document and must still submit
  jobs,          \* the worker's queue: where each job finds the bytes
  prefsReadable, \* user_settings.json can be read
  \* Counters of the bounds, and what is remembered to state properties.
  faults, crashes, flips,
  born,          \* the document was uploaded (its id is used only once)
  verdictOf      \* the best thing an LLM audit ever established of a text

diskVars == <<meta, openFindings, layer1, layer2, anon, edits, context>>
opVars   == <<pc, mem, work>>
procVars == <<up, submitting, jobs>>
envVars  == <<prefsReadable, faults, crashes, flips, born>>
vars     == <<diskVars, opVars, procVars, envVars, verdictOf>>

----------------------------------------------------------------------------
(* Types.                                                                  *)

Processing == {"queued", "extracting", "masking", "auditing"}
Busy       == {"extracting", "masking", "auditing"}
Reviewable == {"review", "approved"}
Status     == Processing \cup Reviewable
              \cup {"absent", "rejected", "failed", "unreadable"}
Modes      == {"mapping", "destructive"}

MaybeText == Texts \cup {NoText}

\* audited is 1 + audited_revision, so 0 stands for the code's -1.
Meta == [status : Status, mode : Modes, revision : Nat, audited : Nat,
         digest : MaybeText, pending : BOOLEAN]
Absent == [status |-> "absent", mode |-> "mapping", revision |-> 0,
           audited |-> 0, digest |-> NoText, pending |-> FALSE]

\* A document.json that a delete overwrote and did not get to remove: it is in
\* no list and every request for it fails.
Shredded == [Absent EXCEPT !.status = "unreadable"]

\* Where a job finds the bytes: in layer 1, or in the job itself.
Sources == {"stored", "bytes"}

\* What one audit returned: the LLM's signal (llm_ok True, False, None), the
\* clean-approval predicate, and whether a residual is located as open.
Verdicts == {v \in [llm : {"ok", "failed", "none"}, clean : BOOLEAN,
                    open : BOOLEAN] :
               /\ v.llm = "failed" => ~v.clean
               /\ v.clean => ~v.open}
NoVerdict == [llm |-> "none", clean |-> FALSE, open |-> FALSE]

\* The locals of the operation: the text produced or read, the last audit, its
\* iteration, a blocking extraction reason, whether the user's lists were read.
Work == [text : MaybeText, audit : Verdicts, round : Nat,
         blocking : BOOLEAN, lists : BOOLEAN]
NoWork == [text |-> NoText, audit |-> NoVerdict, round |-> 0,
           blocking |-> FALSE, lists |-> TRUE]

UploadSteps  == {"upOriginal"}
DeleteSteps  == {"del1", "del2", "del3", "del5", "del4", "removing"}
ProcessSteps == {"pExtracting", "pExtract", "pNoText", "pMask", "pAnonymize",
                 "pAudit", "pAnon", "pMapping", "pEdits", "pFindings", "pRoute", "pSave"}
ApproveSteps == {"aAudit", "aFindings", "aUnclean", "aContext", "aSave"}
DecideSteps  == {"dStatus", "dAnon", "dEdits", "dFindings", "dSave"}
Steps == {"idle", "pFail"} \cup UploadSteps \cup DeleteSteps \cup ProcessSteps
         \cup ApproveSteps \cup DecideSteps

\* What an LLM ever established of a text: it never read it; it read it and
\* reported on it; that report is stored on a document in review; found clean.
Unread  == 0
Unclean == 1
Shown   == 2
Clean   == 3

DiskTypeOK ==
  /\ meta \in Meta
  /\ openFindings \in BOOLEAN
  /\ layer1 \in BOOLEAN
  /\ layer2 \in SUBSET {"extracted", "records"}
  /\ anon \in MaybeText /\ edits \in MaybeText /\ context \in MaybeText
OperationTypeOK == pc \in Steps /\ mem \in Meta /\ work \in Work
ProcessTypeOK ==
  /\ up \in BOOLEAN
  /\ submitting \in {"none"} \cup Sources
  /\ jobs \in Seq(Sources)
EnvTypeOK ==
  /\ prefsReadable \in BOOLEAN /\ born \in BOOLEAN
  /\ faults \in Nat /\ crashes \in Nat /\ flips \in Nat
HistoryTypeOK == verdictOf \in [Texts -> Unread..Clean]

\* The types of the files, the operation, the queue and the environment.
TypeOK == DiskTypeOK /\ OperationTypeOK /\ ProcessTypeOK /\ EnvTypeOK
          /\ HistoryTypeOK

----------------------------------------------------------------------------
(* The operation under the lock.                                           *)

Idle == up /\ pc = "idle"
At(step) == up /\ pc = step
Goto(step) == pc' = step

\* Return or raise: the lock is released and the locals are gone.
Release == pc' = "idle" /\ mem' = Absent /\ work' = NoWork

\* save_document(doc): document.json is replaced as a whole, atomically.
Save(doc) == meta' = doc

\* What the operations do to the Document in memory: a new status, a new
\* revision, the number of open items (0 or not), and the mark that an LLM
\* audit of its current revision read the text t.
With(doc, s)        == [doc EXCEPT !.status = s]
Bumped(doc)         == [doc EXCEPT !.revision = @ + 1]
WithPending(doc, b) == [doc EXCEPT !.pending = b]
MarkAudited(doc, t) == [doc EXCEPT !.audited = doc.revision + 1, !.digest = t]

\* Bound: an operation that bumps the revision starts only below it.
Bumpable == meta.revision < MaxRevision

\* An LLM audit read the masked text t; the best verdict is remembered.
Learn(t, rank) ==
  verdictOf' = [verdictOf EXCEPT ![t] = IF @ < rank THEN rank ELSE @]

\* A failing write raises OSError and changes nothing on disk.
Fault == faults < MaxFaults /\ faults' = faults + 1

----------------------------------------------------------------------------
(* Upload: the record, then the original, both under the lock; the job is  *)
(* submitted after the lock is released.                                   *)

NewDocument(mode) == [Absent EXCEPT !.status = "queued", !.mode = mode]

UploadRecord(mode) ==
  /\ Idle /\ ~born
  /\ born' = TRUE
  /\ Save(NewDocument(mode))
  /\ IF mode = "mapping"
       THEN Goto("upOriginal") /\ UNCHANGED submitting
       ELSE submitting' = "bytes" /\ UNCHANGED pc
  /\ UNCHANGED <<openFindings, layer1, layer2, anon, edits, context, mem, work,
                 up, jobs, prefsReadable, faults, crashes, flips, verdictOf>>

UploadOriginal ==
  /\ At("upOriginal")
  /\ layer1' = TRUE
  /\ submitting' = "stored"
  /\ Release
  /\ UNCHANGED <<meta, openFindings, layer2, anon, edits, context, up, jobs,
                 envVars, verdictOf>>

Submit ==
  /\ up /\ submitting # "none"
  /\ jobs' = Append(jobs, submitting)
  /\ submitting' = "none"
  /\ UNCHANGED <<diskVars, opVars, up, envVars, verdictOf>>

----------------------------------------------------------------------------
(* Delete: one layer after the other, the record last.  The files of a     *)
(* layer go one by one (overwritten, then unlinked): an overwritten file   *)
(* counts as gone, no reader can use it.                                   *)

DeleteStart ==
  /\ Idle
  /\ meta.status \notin {"absent", "unreadable"} \cup Busy
  /\ Goto("del1")
  /\ UNCHANGED <<diskVars, mem, work, procVars, envVars, verdictOf>>

DeleteOriginal ==
  /\ At("del1")
  /\ layer1' = FALSE
  /\ Goto("del2")
  /\ UNCHANGED <<meta, openFindings, layer2, anon, edits, context, mem, work,
                 procVars, envVars, verdictOf>>

DeleteExtracted ==
  /\ At("del2")
  /\ \E rest \in SUBSET layer2 :
       /\ layer2' = rest
       /\ pc' = IF rest = {} THEN "del3" ELSE "del2"
  /\ UNCHANGED <<meta, openFindings, layer1, anon, edits, context, mem, work,
                 procVars, envVars, verdictOf>>

\* Mutant: layer 3 is passed over although one of its files is still there.
DeleteMaskedOnce ==
  /\ At("del3")
  /\ anon' \in {anon, NoText}
  /\ edits' \in {edits, NoText}
  /\ Goto("del5")
  /\ UNCHANGED <<meta, openFindings, layer1, layer2, context, mem, work,
                 procVars, envVars, verdictOf>>

DeleteMasked ==
  /\ At("del3")
  /\ anon' \in {anon, NoText}
  /\ edits' \in {edits, NoText}
  /\ pc' = IF {anon', edits'} = {NoText} THEN "del5" ELSE "del3"
  /\ UNCHANGED <<meta, openFindings, layer1, layer2, context, mem, work,
                 procVars, envVars, verdictOf>>

DeleteContext ==
  /\ At("del5")
  /\ context' = NoText
  /\ Goto("del4")
  /\ UNCHANGED <<meta, openFindings, layer1, layer2, anon, edits, mem, work,
                 procVars, envVars, verdictOf>>

\* The files of layer 4 are overwritten in the order the directory lists them,
\* document.json among them, before any of them is removed.
ShredRecord ==
  /\ At("del4")
  /\ openFindings' \in {openFindings, FALSE}
  /\ \/ Save(Shredded) /\ Goto("removing")
     \/ UNCHANGED <<meta, pc>>
  /\ UNCHANGED <<layer1, layer2, anon, edits, context, mem, work,
                 procVars, envVars, verdictOf>>

RemoveRecord ==
  /\ At("removing")
  /\ openFindings' = FALSE
  /\ Save(Absent)
  /\ Release
  /\ UNCHANGED <<layer1, layer2, anon, edits, context, procVars, envVars,
                 verdictOf>>

Delete == DeleteStart \/ DeleteOriginal \/ DeleteExtracted \/ DeleteMasked
          \/ DeleteContext \/ ShredRecord \/ RemoveRecord

----------------------------------------------------------------------------
(* What goes wrong.                                                        *)

\* Upload and delete give up on a failing write, and so do the reviewer's
\* operations: the request answers 500 and nothing more is written.
RequestFault ==
  /\ up /\ pc \in UploadSteps \cup DeleteSteps \cup ApproveSteps \cup DecideSteps
  /\ Fault
  /\ Release
  /\ UNCHANGED <<diskVars, procVars, prefsReadable, crashes, flips, born,
                 verdictOf>>

\* The process ends at any moment: locks, queue and memory are gone.
Crash ==
  /\ up /\ crashes < MaxCrashes
  /\ crashes' = crashes + 1
  /\ up' = FALSE
  /\ Release
  /\ submitting' = "none" /\ jobs' = <<>>
  /\ UNCHANGED <<diskVars, prefsReadable, faults, flips, born, verdictOf>>

\* Someone edits user_settings.json by hand: broken, or repaired.
PrefsFlip ==
  /\ flips < MaxFlips
  /\ flips' = flips + 1
  /\ prefsReadable' = ~prefsReadable
  /\ UNCHANGED <<diskVars, opVars, procVars, faults, crashes, born, verdictOf>>
=============================================================================
