------------------------------ MODULE Reading -------------------------------
(***************************************************************************)
(* One document from its upload to the decision of the pipeline:           *)
(* extraction (module Extraction), then the loop of masking and audit      *)
(* (pipeline/orchestrator.py) with the two auditors (audit/*,              *)
(* security/ollama.py, models/findings.py), then the routing               *)
(* (pipeline/runner.py).                                                   *)
(*                                                                         *)
(* Masking is by the word: the engine finds the terms it knows and those   *)
(* of the always-mask list, lets go what the never-mask list vouches for,  *)
(* settles which of the overlapping finds is masked, and looks for other   *)
(* spellings of what it masked.  Of the words it leaves, the heuristic     *)
(* sees the hard ones; what the language model says of a text, and whether *)
(* it answers at all, is open.  Masks by the letter, values that are split *)
(* over table cells and a reviewer's decisions are modules MaskEngine and  *)
(* ReviewDecisions; locks, files and crashes are module Processing.        *)
(***************************************************************************)
EXTENDS Extraction

CONSTANTS
  Hard,       \* words with the form of an e-mail, an IBAN, a card, a secret...
  Ranks,      \* types of finds by trust and score, the first wins: numbers
  DenyRank,   \* the rank of a term of the always-mask list
  Spreading,  \* ranks of the types that are looked for in other spellings
  Letters,    \* a word without case, blanks and marks
  MinSpelling,  \* letters a spelling needs to be looked for
  Knows,      \* what the engine may know: sets of terms, with their rank
  Lists,      \* what the lists of always-mask and never-mask terms may hold
  Settings,   \* the settings of the auditor, see MCReading
  Verdicts    \* what a language model may answer

(* One or two rounds (Settings.max_iterations).                            *)
ASSUME SettingsAssumption == \A s \in Settings : s.rounds \in 1 .. 2
ASSUME RanksAssumption == /\ Ranks \subseteq Nat /\ IsFiniteSet(Ranks) /\ DenyRank \in Ranks
                          /\ \A know \in Knows : \A p \in know : p.rank \in Ranks

Levels == [low |-> 0, medium |-> 1, high |-> 2]

VARIABLES
  known, never,     \* what the engine knows, the never-mask list
  settings,
  llm,        \* the auditor of this run: "none" or "ollama"
  contacted,  \* the language model was sent something (history)
  round, deny, repairs,
  audit,      \* the last audit
  audited, heard,   \* the text it was of, what the model answered (history)
  status, pending,
  masks,      \* what is masked, by block
  shown, context

auditing == <<known, never, settings, llm, contacted, round, deny, repairs, audit,
              audited, heard, status, pending, masks, shown, context>>
vars == <<extraction, auditing>>

NoAudit == [approved |-> FALSE, risk |-> "high", items |-> {}, action |-> "human_review",
            terms |-> {}, llm_ok |-> "none"]
Silence == [form |-> "nothing"]

ReadingInit ==
  /\ ExtractionInit
  /\ known \in Knows /\ settings \in Settings
  /\ llm = "none" /\ contacted = FALSE
  /\ round = 0 /\ repairs = {}
  /\ \E list \in Lists : deny = list.always /\ never = list.never
  /\ audit = NoAudit /\ audited = <<>> /\ heard = Silence
  /\ status = "queued" /\ pending = {} /\ masks = <<>> /\ shown = <<>> /\ context = <<>>

-----------------------------------------------------------------------------
(* The auditors.                                                           *)

(* is_loopback_url, is_cloud_model, refusal: localhost and addresses of    *)
(* the loopback network are this computer, every other name is not, and a  *)
(* cloud model is nowhere.                                                 *)
Loopback(host) == host \in {"localhost", "127.0.0.1", "::1", "::ffff:127.0.0.1"}
Cloud(model) == model \in {"x-cloud", "x:cloud", "x-cloud:latest"}

\* Mutant: only a host is looked at.
RefusesHost(s) == ~s.allow_remote /\ ~Loopback(s.host)

Refuses(s) == Cloud(s.model) \/ (~s.allow_remote /\ ~Loopback(s.host))

\* Mutant: refused means not configured.
RequiredAsSet == settings.required

(* build_auditor: a model that is refused is as one that is required and   *)
(* not there; one that does not answer is left out.                        *)
Required == settings.required \/ (settings.provider = "ollama" /\ Refuses(settings))

\* Mutant: the model's word is enough.
CleanIfApproved(r) == r.approved

Clean(r) == /\ r.approved /\ r.action = "approve" /\ r.items = {}
            /\ Levels[r.risk] <= Levels[settings.max_risk]

(* HeuristicAuditor: the hard words of the text.                           *)
Heuristic(text) ==
  LET found == ToSet(text) \cap Hard
  IN [approved |-> found = {}, risk |-> IF found = {} THEN "low" ELSE "high",
      items |-> found, action |-> IF found = {} THEN "approve" ELSE "reanonymize",
      terms |-> {<<w>> : w \in found}, llm_ok |-> "none"]

FailClosed == [approved |-> FALSE, risk |-> "high", items |-> {}, action |-> "human_review",
               terms |-> {}, llm_ok |-> "failed"]

\* Mutant: an answer that cannot be read is no objection.
HeardAnyway(v) == IF v.form = "verdict"
                  THEN [approved |-> v.approved, risk |-> v.risk, items |-> v.items,
                        action |-> v.action, terms |-> v.items, llm_ok |-> "answered"]
                  ELSE [approved |-> TRUE, risk |-> "low", items |-> {}, action |-> "approve",
                        terms |-> {}, llm_ok |-> "answered"]

(* PrivacyAuditor: unreachable, an error, no JSON or JSON of another shape *)
(* fails closed; else it is what the model said, and it said it (module    *)
(* Verdict; for the one shape that raises see AuditBreaks).                *)
Heard(v) == IF v.form = "verdict"
            THEN [approved |-> v.approved, risk |-> v.risk, items |-> v.items,
                  action |-> v.action, terms |-> v.items, llm_ok |-> "answered"]
            ELSE FailClosed

Worse(a, b) == IF Levels[a] >= Levels[b] THEN a ELSE b

\* Mutant: the heuristic is asked only where there is no model.
CombinedTrusting(h, ll) ==
  LET approved == ll.llm_ok # "failed" /\ Clean(ll)
  IN [approved |-> approved,
      risk |-> IF approved THEN "low" ELSE Worse(h.risk, ll.risk),
      items |-> IF approved THEN {} ELSE h.items \cup ll.items,
      action |-> IF approved THEN "approve" ELSE "reanonymize",
      terms |-> h.terms \cup ll.terms,
      llm_ok |-> ll.llm_ok]

(* CompositeAuditor: both are clean, or it is no approval.                 *)
Combined(h, ll) ==
  LET approved == ll.llm_ok # "failed" /\ Clean(h) /\ Clean(ll)
  IN [approved |-> approved,
      risk |-> IF approved THEN "low" ELSE Worse(h.risk, ll.risk),
      items |-> IF approved THEN {} ELSE h.items \cup ll.items,
      action |-> IF approved THEN "approve" ELSE "reanonymize",
      terms |-> h.terms \cup ll.terms,
      llm_ok |-> ll.llm_ok]

-----------------------------------------------------------------------------
(* mask_and_route.                                                         *)

(* The extraction ended badly, or there is nothing to mask.                *)
Rejected ==
  /\ step \in {"refused", "failed"} /\ status = "queued"
  /\ status' = IF step = "refused" THEN "rejected" ELSE "failed"
  /\ UNCHANGED extraction
  /\ UNCHANGED <<known, never, settings, llm, contacted, round, deny, repairs, audit, audited, heard,
                 pending, masks, shown, context>>

NothingToMask ==
  /\ step = "extracted" /\ status = "queued"
  /\ PlainText(blocks) = <<>>
  /\ status' = "needs_human_review"
  /\ UNCHANGED extraction
  /\ UNCHANGED <<known, never, settings, llm, contacted, round, deny, repairs, audit, audited, heard,
                 pending, masks, shown, context>>

(* build_auditor: Ollama is asked for its models, unless it is refused.    *)
BuildAuditor ==
  /\ step = "extracted" /\ status = "queued"
  /\ PlainText(blocks) # <<>>
  /\ status' = "masking"
  /\ IF settings.provider = "ollama" /\ ~Refuses(settings)
     THEN /\ contacted' = TRUE
          /\ llm' \in {"ollama", "none"}
     ELSE UNCHANGED <<llm, contacted>>
  /\ UNCHANGED extraction
  /\ UNCHANGED <<known, never, settings, round, deny, repairs, audit, audited, heard,
                 pending, masks, shown, context>>

(* Where terms stand in a block: from word to word.                        *)
Ranges(n) == {r \in [from : 1 .. n, to : 1 .. n] : r.from <= r.to}
Meets(a, b) == a.from <= b.to /\ b.from <= a.to
Within(a, b) == b.from <= a.from /\ a.to <= b.to

(* term_ranges: from the left, each after the one before; a cell of a      *)
(* table is a text of its own.                                             *)
Spans(b, term) ==
  LET n == Len(term)
      found[k \in 1 .. Len(b.words)] ==
        /\ SubSeq(b.words, k, k + n - 1) = term
        /\ \A j \in 1 .. k - 1 : found[j] => j + n <= k
  IN {r \in Ranges(Len(b.words)) : /\ r.to - r.from + 1 = n /\ found[r.from]
                                   /\ b.what = "table" => n = 1}

\* Mutant: an always-mask term does not beat the same never-mask term.
AllowedAnyway(always) == never

Allowed(always) == never \ always

\* Mutant: a never-mask term vouches for its neighbours too.
VouchedByTouch(b, always, c) == \E t \in Allowed(always) : \E v \in Spans(b, t) : Meets(c, v)

Vouched(b, always, c) == \E t \in Allowed(always) : \E v \in Spans(b, t) : Within(c, v)

(* Detection.spans, before any find is preferred to another.               *)
Patterns(always) == known \cup {[term |-> t, rank |-> DenyRank] : t \in always}
Candidates(b, always) ==
  {c \in [from : 1 .. Len(b.words), to : 1 .. Len(b.words), rank : Ranks] :
     /\ \E p \in Patterns(always) : /\ p.rank = c.rank
                                    /\ [from |-> c.from, to |-> c.to] \in Spans(b, p.term)
     /\ ~Vouched(b, always, c)}

(* resolve_spans: by rank, then the longer, then the first; a find that    *)
(* overlaps an earlier one is dropped, and those it holds grow to it.      *)
Before(c, d) ==
  \/ c.rank < d.rank
  \/ c.rank = d.rank /\ \/ c.to - c.from > d.to - d.from
                        \/ c.to - c.from = d.to - d.from /\ c.from < d.from
Turn(C, k) == CHOOSE c \in C : Cardinality({d \in C : Before(d, c)}) = k - 1

\* Mutant: a find that is dropped leaves the others as they are.
TakeUngrown(A, c) == IF \E a \in A : Meets(a, c) THEN A ELSE A \cup {c}

Take(A, c) ==
  IF \E a \in A : Meets(a, c)
  THEN {IF Within(a, c) THEN [a EXCEPT !.from = c.from, !.to = c.to] ELSE a : a \in A}
  ELSE A \cup {c}

Accepted(C) ==
  LET taken[k \in 0 .. Cardinality(C)] == IF k = 0 THEN {} ELSE Take(taken[k - 1], Turn(C, k))
  IN taken[Cardinality(C)]

\* Mutant: the repair round masks without the terms that were reported.
MasksUnrepaired(always) == [i \in DOMAIN blocks |-> Accepted(Candidates(blocks[i], always \ repairs))]

MasksOf(always) == [i \in DOMAIN blocks |-> Accepted(Candidates(blocks[i], always))]

(* Engine._propagate: other spellings of what was masked, from the left    *)
(* and the longest first, where nothing is masked yet.                     *)
Spelt(words) == FlattenSeq([k \in DOMAIN words |-> Letters[words[k]]])
Surfaces(found) ==
  {t \in UNION {{Spelt(SubSeq(blocks[i].words, m.from, m.to)) : m \in {m \in found[i] : m.rank \in Spreading}} :
                  i \in DOMAIN blocks} : Len(t) >= MinSpelling}
Respelt(b, ms, surfaces) ==
  LET hits == {r \in Ranges(Len(b.words)) : /\ Spelt(SubSeq(b.words, r.from, r.to)) \in surfaces
                                            /\ \A m \in ms : ~Meets(r, m)
                                            /\ b.what = "table" => r.from = r.to}
      reach[k \in 0 .. Len(b.words)] ==
        IF k = 0 THEN 0
        ELSE Max({reach[k - 1]} \cup {r.to : r \in {r \in hits : r.from = k /\ reach[k - 1] < k}})
  IN {k \in DOMAIN b.words : reach[k] >= k}

Star == "*"    \* any placeholder
Hidden(b, ms, surfaces) == {k \in DOMAIN b.words : \E m \in ms : k \in m.from .. m.to}
                             \cup Respelt(b, ms, surfaces)
Starred(b, places) == [b EXCEPT !.words = [k \in DOMAIN @ |-> IF k \in places THEN Star ELSE @[k]]]
Masked(found) == LET surfaces == Surfaces(found)
                 IN [i \in DOMAIN blocks |-> Starred(blocks[i], Hidden(blocks[i], found[i], surfaces))]

Mask ==
  /\ status = "masking"
  /\ round' = round + 1
  /\ masks' = MasksOf(deny)
  /\ shown' = Masked(masks')
  /\ status' = "auditing"
  /\ UNCHANGED extraction
  /\ UNCHANGED <<known, never, settings, llm, contacted, deny, repairs, audit, audited, heard,
                 pending, context>>

(* The audit of the round, and what follows from it: the end of the loop,  *)
(* or the repair round with the terms the auditors reported.               *)
\* Mutant: only what the last audit reported is repaired.
RepairsOnly(result) == /\ repairs' = result.terms
                       /\ deny' = repairs'

Repair(result) == /\ repairs' = repairs \cup result.terms
                  /\ deny' = deny \cup result.terms

Audit ==
  /\ status = "auditing"
  /\ LET text == PlainText(shown)
         h == Heuristic(text)
         heuristicOnly == IF Required THEN FailClosed ELSE h
     IN \E v \in IF llm = "ollama" THEN Verdicts ELSE {Silence} :
          LET result == IF llm = "ollama" THEN Combined(h, Heard(v)) ELSE heuristicOnly
          IN /\ audit' = result /\ audited' = text /\ heard' = v
             /\ IF Clean(result) \/ round = settings.rounds
                THEN status' = "audited" /\ UNCHANGED <<repairs, deny>>
                ELSE status' = "masking" /\ Repair(result)
  /\ UNCHANGED extraction
  /\ UNCHANGED <<known, never, settings, llm, contacted, round, pending, masks, shown,
                 context>>

(* An answer whose list of items is a number, or "true", raises out of the *)
(* audit, and the document fails (parse_llm_json, process_job).            *)
AuditBreaks ==
  /\ status = "auditing" /\ llm = "ollama"
  /\ status' = "failed"
  /\ UNCHANGED extraction
  /\ UNCHANGED <<known, never, settings, llm, contacted, round, deny, repairs, audit, audited, heard,
                 pending, masks, shown, context>>

(* record_audit and route.  A term that stands in the masked text is an    *)
(* item of the review; one that does not, or that holds a placeholder, is  *)
(* located nowhere.                                                        *)
Located(result, content) ==
  IF Clean(result) THEN {}
  ELSE {t \in result.terms : Star \notin ToSet(t) /\ \E i \in DOMAIN content : Spans(content[i], t) # {}}

\* Mutant: what blocked the document at its extraction is forgotten.
MayApproveUnread == audit.llm_ok = "answered" /\ Clean(audit) /\ pending' = {}

\* Mutant: an audit without a language model approves as well.
MayApproveAlone == Clean(audit) /\ reasons = {} /\ pending' = {}

MayApprove == audit.llm_ok = "answered" /\ Clean(audit) /\ reasons = {} /\ pending' = {}

Route ==
  /\ status = "audited"
  /\ pending' = Located(audit, shown)
  /\ reasons' = reasons \cup IF audit.llm_ok = "answered" THEN {} ELSE {"auditor_unavailable"}
  /\ status' = IF MayApprove THEN "approved" ELSE "needs_human_review"
  /\ context' = IF MayApprove THEN PlainText(shown) ELSE context
  /\ UNCHANGED <<file, step, next, tesseract, blocks, cells, warnings, language>>
  /\ UNCHANGED <<known, never, settings, llm, contacted, round, deny, repairs, audit, audited, heard,
                 masks, shown>>

(* The worker reads and audits one document from its beginning to its end. *)
Work ==
  \/ ExtractionWork /\ UNCHANGED auditing
  \/ Rejected \/ NothingToMask \/ BuildAuditor \/ Mask \/ Audit \/ AuditBreaks \/ Route
Next == Work \/ (ParserFails /\ UNCHANGED auditing)

Spec == ReadingInit /\ [][Next]_vars
FairSpec == Spec /\ WF_vars(Work)

-----------------------------------------------------------------------------
(* What the reading of a document promises.                                *)

Texts(content) == SeqWords([i \in DOMAIN content |-> content[i].words])

(* The types; a document is masked and audited at most as often as the     *)
(* settings say (Orchestrator.run).                                        *)
ReadingTypeOK ==
  /\ step \in {"none", "reading", "read", "extracted", "refused", "failed"}
  /\ cells \in 0 .. MaxCells
  /\ \A i \in DOMAIN blocks : blocks[i].what # "table" => blocks[i].words # <<>>
  /\ warnings \subseteq Blocking \cup {"tables", "annotations"}
  /\ reasons \subseteq Blocking \cup {"no_text", "auditor_unavailable"}
  /\ language \in {"tr", "en", "mixed", "unknown"}
  /\ llm \in {"none", "ollama"} /\ contacted \in BOOLEAN
  /\ round \in 0 .. settings.rounds
  /\ status \in {"queued", "masking", "auditing", "audited",
                 "rejected", "failed", "needs_human_review", "approved"}

(* A document is approved alone only after a language model of this        *)
(* computer, or one the user allowed, answered that nothing is left in the *)
(* very text that is stored and goes to chat, and that text holds nothing  *)
(* the heuristic sees (build_auditor, CompositeAuditor.audit,              *)
(* is_clean_approval, route).                                              *)
ApprovalIsEarned ==
  status = "approved" =>
    /\ heard \in Verdicts /\ heard.form = "verdict"
    /\ heard.approved /\ heard.action = "approve" /\ heard.items = {}
    /\ Levels[heard.risk] <= Levels[settings.max_risk]
    /\ audited = PlainText(shown) /\ context = audited
    /\ ToSet(context) \cap Hard = {}

(* What an audit of the document reported, and the always-mask list, is    *)
(* masked in every round that follows, wherever it stands in the blocks:   *)
(* the mask that hides words of it is no mere part of it, it holds all of  *)
(* it or belongs to another find that reaches beyond it (of two that       *)
(* overlap in part one wins, resolve_spans).  Only what stands whole       *)
(* inside a never-mask term, which is itself no always-mask term, is let   *)
(* go (Detection.spans, is_allowed, Engine._detection, Orchestrator.run).  *)
Answers(m, r) == Meets(m, r) /\ (Within(m, r) => Within(r, m))
LetGo(b, r) == \E t \in never \ deny : \E v \in Spans(b, t) : Within(r, v)
ReportedIsMasked ==
  round > 0 /\ status # "masking" =>
    \A i \in DOMAIN blocks, t \in deny \cup repairs :
      \A r \in Spans(blocks[i], t) :
        \/ LetGo(blocks[i], r)
        \/ \E m \in masks[i] : /\ Answers(m, r)
                               /\ \A k \in m.from .. m.to : shown[i].words[k] = Star

(* What the audit says before the document is routed: the inductive part   *)
(* of ApprovalIsEarned and RefusedFailsClosed.                             *)
SaidClean(v) == /\ v \in Verdicts /\ v.form = "verdict"
                /\ v.approved /\ v.action = "approve" /\ v.items = {}
                /\ Levels[v.risk] <= Levels[settings.max_risk]
(* An audit that says clean said so of this very text, by a model of this  *)
(* computer or one the user allowed; a refused auditor said nothing good   *)
(* (CompositeAuditor.audit, build_auditor).                                *)
AuditInv ==
  /\ status \in {"audited", "approved"} =>
       /\ audited = PlainText(shown)
       /\ audit.llm_ok = "answered" /\ Clean(audit) =>
            SaidClean(heard) /\ ToSet(audited) \cap Hard = {}
  /\ status = "approved" =>
       audit.llm_ok = "answered" /\ Clean(audit) /\ context = audited
  /\ settings.provider = "ollama" /\ Refuses(settings) =>
       /\ llm = "none" /\ ~contacted
       /\ audit = NoAudit \/ (audit.llm_ok = "failed" /\ ~audit.approved)
  /\ contacted => ~Refuses(settings)

(* An approved document was read to its end: every word of its pages,      *)
(* pictures, notes, cells, headers and footers is in the extracted blocks  *)
(* (_BLOCKING of services/ingest.py, the warnings of the extractors).      *)
(* Content leaves out what the extractors drop without a word: the images  *)
(* of a page that cover less than min_coverage of it together, notes of a  *)
(* page whose annotations cannot be read, comments of a workbook over the  *)
(* limits, comments of a Word file that cannot be read.                    *)
ApprovedIsRead == status = "approved" => Content(file) \subseteq Texts(blocks)

(* Nothing goes to a cloud model, nor to another host unless that was      *)
(* allowed, whatever else the settings say (security/ollama.py).           *)
OnlyTrustedHosts ==
  contacted => /\ ~Cloud(settings.model)
               /\ settings.allow_remote \/ Loopback(settings.host)

(* A document whose auditor was refused is not approved without it, and    *)
(* its audit says that it failed (build_auditor: require_llm).             *)
RefusedFailsClosed ==
  status \in {"audited", "approved", "needs_human_review"} /\ audit # NoAudit
    /\ settings.provider = "ollama" /\ Refuses(settings)
  => audit.llm_ok = "failed" /\ ~audit.approved /\ status # "approved"

(* Blocks come in the order a reader meets them, and no two have the same  *)
(* identifier: masks, findings and decisions name blocks by it.            *)
BlocksInOrder ==
  \A i, j \in DOMAIN blocks :
    i < j => /\ blocks[i].id # blocks[j].id
             /\ file.kind = "pdf" =>
                  \/ blocks[i].page < blocks[j].page
                  \/ blocks[i].page = blocks[j].page /\ blocks[i].y <= blocks[j].y

(* A document shown as Turkish or English holds no block of the other      *)
(* language, and none of both: what is stored with it is the language of   *)
(* all of it (detect_content_language).                                    *)
LanguageCovers ==
  step = "extracted" /\ language \in {"tr", "en"}
  => \A i \in DOMAIN blocks : LanguageOf(blocks[i].words) \in {language, "unknown"}

(* The repair round drops no find of the round before it: what was masked  *)
(* is masked again, or gives way to a mask that overlaps it and reaches    *)
(* beyond it, whatever the auditors report (Orchestrator.run).  Other      *)
(* spellings follow the finds they were looked for and may come and go.    *)
RepairKeepsMasks ==
  [][masks # <<>> => \A i \in DOMAIN masks : \A m \in masks[i] : \E n \in masks'[i] : Answers(n, m)]_vars

(* Every upload is settled: refused, failed, approved, or a human's turn.  *)
UploadSettles == <>(status \in {"rejected", "failed", "needs_human_review", "approved"})

----------------------------------------------------------------------------
(* The extracted blocks stand for the file: all of it, in its order, in    *)
(* the language it is in (extractors, detect_content_language).            *)
BlocksHoldTheFile == ReadingTypeOK /\ ApprovedIsRead /\ BlocksInOrder /\ LanguageCovers

(* Only an auditor that may be asked is, and one that may not be asked     *)
(* lets nothing through (build_auditor, security/ollama.py).               *)
AuditorIsTrusted == AuditInv /\ OnlyTrustedHosts /\ RefusedFailsClosed

(* The repair round masks what was reported and drops nothing that was     *)
(* found before (Orchestrator.run).                                        *)
RepairsHold == []ReportedIsMasked /\ RepairKeepsMasks
=============================================================================
