------------------------------ MODULE Scoring -------------------------------
(***************************************************************************)
(* How the benchmarks measure (evaluation/): a gold value in the text and  *)
(* in what is left of it (goldbench/schema.py, goldbench/score.py), the    *)
(* verdict on a stress document (goldbench/run_stress.py), whether the     *)
(* language model really audited (scorecard_common.py), and the gates that *)
(* are built on them (scorecard_report.py, goldbench/report_gold.py).      *)
(*                                                                         *)
(* A text is a sequence of characters; what is masked is one character     *)
(* each, "#".  A rate is a pair of numerator and denominator, as frac      *)
(* keeps it; rounding to four digits is left out.                          *)
(***************************************************************************)
EXTENDS Integers, SequencesExt

CONSTANTS
  StressFiles, SafeFiles, SafeNeeded,  \* 72, 62 and 59 in the source
  SubsetDocs                           \* 20 of the 60 documents of the gold section

CountOf(rows, Test(_)) == Len(SelectSeq(rows, Test))
Total(rows, Of(_)) == FoldLeft(LAMBDA n, r : n + Of(r), 0, rows)
Frac(n, d) == [n |-> n, d |-> d]
AtLeast(f, percent) == f.d > 0 /\ 100 * f.n >= percent * f.d

-----------------------------------------------------------------------------
(* A gold value in a text: norm, locate.                                   *)

Blank(c) == c \in {" ", "\n"}
Norm(text) ==
  LET solid == {i \in DOMAIN text : ~Blank(text[i])}
      kept(i) == i \in solid \/ (i - 1 \in solid /\ \E j \in solid : j > i)
  IN FoldLeft(LAMBDA t, i : IF ~kept(i) THEN t ELSE Append(t, IF i \in solid THEN text[i] ELSE " "),
              <<>>, [i \in DOMAIN text |-> i])
StandsIn(value, text) ==
  value # <<>> /\ \E i \in 0 .. Len(text) - Len(value) : SubSeq(text, i + 1, i + Len(value)) = value
WordsOf(text) ==
  {<<i, j>> \in (DOMAIN text) \X (DOMAIN text) :
     /\ i <= j /\ \A k \in i .. j : ~Blank(text[k])
     /\ i = 1 \/ Blank(text[i - 1])
     /\ j = Len(text) \/ Blank(text[j + 1])}

Exact(text, value) ==
  {i \in 1 .. Len(text) - Len(value) + 1 : SubSeq(text, i, i + Len(value) - 1) = value}
(* Where the value is read when white space may be of any kind, from left  *)
(* to right, no two of the places overlapping.                             *)
Loose(text, value) ==
  LET sought == Norm(value)
      ends(i) == {j \in i .. Len(text) : /\ text[i] = Head(sought) /\ text[j] = Last(sought)
                                         /\ Norm(SubSeq(text, i, j)) = sought}
  IN FoldLeft(LAMBDA ps, i : IF ends(i) # {} /\ (ps = <<>> \/ i > Last(ps)[2])
                             THEN Append(ps, <<i, Min(ends(i))>>) ELSE ps,
              <<>>, [i \in DOMAIN text |-> i])
Nowhere == <<0, 0>>

\* Mutant: the loose search is not tried.
LocateExact(text, value, occurrence) ==
  LET exact == SetToSortSeq(Exact(text, value), <)
  IN IF occurrence < Len(exact)
     THEN <<exact[occurrence + 1], exact[occurrence + 1] + Len(value) - 1>> ELSE Nowhere

Locate(text, value, occurrence) ==
  LET exact == SetToSortSeq(Exact(text, value), <)
      loose == Loose(text, value)
  IN IF occurrence < Len(exact)
     THEN <<exact[occurrence + 1], exact[occurrence + 1] + Len(value) - 1>>
     ELSE IF occurrence < Len(loose) THEN loose[occurrence + 1] ELSE Nowhere

-----------------------------------------------------------------------------
(* The card of one mention (evaluate_document) and their sum (aggregate).  *)

Chars(spans) == UNION {s[1] .. s[2] : s \in spans}

Unlocated(m) ==
  [m |-> m, located |-> FALSE, total |-> Len(m.surface), covered |-> 0, masked |-> FALSE,
   residual |-> 0, leaked |-> FALSE]
\* What is open of a value that is gone as a whole: its words of three letters.
Residual(value, anon) ==
  Cardinality(UNION {w[1] .. w[2] : w \in {w \in WordsOf(value) :
    w[2] - w[1] >= 2 /\ StandsIn(SubSeq(value, w[1], w[2]), anon)}})
Card(m, at, covered, masked, residual, leaked) ==
  [m |-> m, located |-> TRUE, total |-> at[2] - at[1] + 1, covered |-> Cardinality(covered),
   masked |-> masked, residual |-> residual, leaked |-> leaked]

\* Mutant: a value that is not there as a whole is gone.
ResultWhole(m, at, value, spans, anon, export) ==
  Card(m, at, (at[1] .. at[2]) \cap Chars(spans), ~StandsIn(value, anon), 0, StandsIn(value, export))

Result(m, at, value, spans, anon, export) ==
  Card(m, at, (at[1] .. at[2]) \cap Chars(spans), ~StandsIn(value, anon),
       IF StandsIn(value, anon) THEN 0 ELSE Residual(value, anon), StandsIn(value, export))
ResultAt(m, at, spans, anon, export) ==
  IF at = Nowhere THEN Unlocated(m) ELSE Result(m, at, Norm(m.surface), spans, anon, export)
MentionResult(m, text, spans, anon, export) ==
  ResultAt(m, Locate(text, m.surface, m.occurrence), spans, Norm(anon), Norm(export))

Maskable(r) == r.m.class # "NO_MASK"
Critical(r) == r.m.critical
Covered(r) == r.covered
Length(r) == r.total

\* Mutant: a term that had to stay costs nothing.
CoverageScoreBlind(results) ==
  LET located == SelectSeq(results, LAMBDA r : r.located /\ Maskable(r))
      must == SelectSeq(located, LAMBDA r : r.m.mandatory)
      mandatory == IF must = <<>> THEN located ELSE must
      total == Total(mandatory, Length)
  IN IF total = 0 THEN Frac(0, 1) ELSE Frac(Total(mandatory, Covered), total)

CoverageScore(results) ==
  LET located == SelectSeq(results, LAMBDA r : r.located /\ Maskable(r))
      must == SelectSeq(located, LAMBDA r : r.m.mandatory)
      mandatory == IF must = <<>> THEN located ELSE must
      total == Total(mandatory, Length)
      partial == CountOf(mandatory, LAMBDA r : 0 < r.covered /\ r.covered < r.total)
      kept == SelectSeq(results, LAMBDA r : r.located /\ ~Maskable(r))
      lost == CountOf(kept, LAMBDA r : r.masked)
      k == IF kept = <<>> THEN 1 ELSE Len(kept)
      all == 2 * total * Len(mandatory) * k
      score == 2 * Total(mandatory, Covered) * Len(mandatory) * k - partial * total * k
                 - lost * total * Len(mandatory)
  IN IF total = 0 THEN Frac(0, 1) ELSE Frac(IF score < 0 THEN 0 ELSE score, all)

(* Over the records of a run (_to_results, detection_metrics): an entity   *)
(* is one of its document.                                                 *)
Detection(records) ==
  LET results == FlattenSeq([k \in DOMAIN records |->
                   [i \in DOMAIN records[k].mentions |->
                      [records[k].mentions[i] EXCEPT !.m.entity = <<records[k].doc, @>>]]])
      located == SelectSeq(results, LAMBDA r : r.located /\ Maskable(r))
      critical == SelectSeq(located, Critical)
      entities == {r.m.entity : r \in ToSet(critical)}
      whole(e) == \A r \in ToSet(located) : r.m.entity = e => r.masked
      kept == SelectSeq(results, LAMBDA r : r.located /\ ~Maskable(r))
  IN [located |-> Len(located), critical |-> Len(critical),
      critical_not_located |-> CountOf(results, LAMBDA r : ~r.located /\ Maskable(r) /\ Critical(r)),
      missed |-> CountOf(critical, LAMBDA r : ~r.masked),
      entities |-> Frac(Cardinality({e \in entities : whole(e)}), Cardinality(entities)),
      partial |-> CountOf(located, LAMBDA r : r.masked /\ r.residual > 0),
      leaked |-> CountOf(located, LAMBDA r : r.leaked),
      over |-> Frac(CountOf(kept, LAMBDA r : r.masked), Len(kept)),
      score |-> CoverageScore(results)]

-----------------------------------------------------------------------------
(* A stress document: what is planted, expected and seen (_verdict,        *)
(* run_mode), and the three counts of it (summarize, stress_metrics,       *)
(* stress_block).                                                          *)

Closed == {"rejected", "extraction_failed"}

Verdict(c, status, leaked) ==
  CASE ~c.generated -> "not_generated"
    [] c.generated /\ status = "approved" /\ leaked -> "critical_false_approval"
    [] c.generated /\ ~(status = "approved" /\ leaked) /\ c.expected = "fail_closed" ->
         IF status \in Closed \cup {"needs_human_review"} THEN "pass" ELSE "fail"
    [] OTHER -> IF status = "error" \/ leaked THEN "fail" ELSE "pass"

StressRow(c, status, leaked, audits, slow) ==
  LET verdict == Verdict(c, status, leaked)
  IN [expected |-> c.expected, safe_by_design |-> c.safe_by_design, generated |-> c.generated,
      status |-> status, leaked |-> leaked, verdict |-> verdict, audits |-> audits, slow |-> slow,
      over_conservative |-> /\ c.expected = "safe_output" /\ verdict = "pass"
                            /\ status \in Closed \cup {"needs_human_review"}]

WithVerdict(rows, v) == CountOf(rows, LAMBDA r : r.verdict = v)
Tested(rows) == SelectSeq(rows, LAMBDA r : ~r.safe_by_design /\ r.generated)
StressSummary(rows) ==
  [total |-> Len(rows), pass |-> WithVerdict(rows, "pass"), fail |-> WithVerdict(rows, "fail"),
   critical |-> WithVerdict(rows, "critical_false_approval"),
   not_generated |-> WithVerdict(rows, "not_generated"), tested |-> Len(Tested(rows)),
   tested_pass |-> WithVerdict(Tested(rows), "pass"),
   over_conservative |-> CountOf(rows, LAMBDA r : r.over_conservative),
   leaked |-> CountOf(rows, LAMBDA r : r.leaked)]
StressBlock(rows) ==
  LET safe == SelectSeq(rows, LAMBDA r : r.expected = "safe_output")
      closed == SelectSeq(rows, LAMBDA r : r.expected = "fail_closed")
  IN [files |-> Len(rows),
      leaks_approved |-> Frac(WithVerdict(rows, "critical_false_approval"), Len(rows)),
      safe_delivery |-> Frac(CountOf(safe, LAMBDA r : r.status = "approved" /\ ~r.leaked), Len(safe)),
      fail_closed_respected |-> Frac(WithVerdict(closed, "pass"), Len(closed)),
      routed_to_review |-> CountOf(rows, LAMBDA r : r.over_conservative),
      tested |-> Frac(WithVerdict(Tested(rows), "pass"), Len(Tested(rows)))]

-----------------------------------------------------------------------------
(* Did the language model audit: llm_audit_totals, llm_evidence.  NoAudit  *)
(* is a document that never reached the auditor.                           *)

NoAudit == [audits |-> 0, ok |-> 0, failed |-> 0]

\* Mutant: only a failed call counts, not one the model never answered.
EvidenceOfFailures(llm, rows, slow) ==
  LET audits == Total(rows, LAMBDA r : r.audits.audits)
      every == audits > 0 /\ Total(rows, LAMBDA r : r.audits.failed) = 0
  IN IF llm # "on" THEN [given |-> FALSE, plausible |-> FALSE, every |-> FALSE]
     ELSE [given |-> TRUE, plausible |-> slow, every |-> every]

Evidence(llm, rows, slow) ==
  LET audits == Total(rows, LAMBDA r : r.audits.audits)
      without == audits - Total(rows, LAMBDA r : r.audits.ok)
  IN IF llm # "on" THEN [given |-> FALSE, plausible |-> FALSE, every |-> FALSE]
     ELSE [given |-> TRUE, plausible |-> slow, every |-> audits > 0 /\ without = 0]
Passed(evidence) == evidence.given /\ evidence.plausible /\ evidence.every
(* median_or_none against LLM_PLAUSIBLE_MIN_SECONDS, of the documents that *)
(* the pipeline ran: of two in the middle the mean counts.                 *)
Slow(rows) ==
  LET ran == SelectSeq(rows, LAMBDA r : r.status \in {"approved", "needs_human_review"})
  IN ran # <<>> /\ 2 * CountOf(ran, LAMBDA r : r.slow) >= Len(ran)

-----------------------------------------------------------------------------
(* The sections of the scorecard and their gates.                          *)

(* A record of the gold section: a document in a format, with the number   *)
(* of critical values it missed.                                           *)
GoldBlock(records, expected) ==
  LET processed == SelectSeq(records, LAMBDA r : r.result = "processed")
      missed == Total(processed, LAMBDA r : r.missed)
      critical == Total(processed, LAMBDA r : r.critical)
  IN [documents |-> Cardinality({r.doc : r \in ToSet(records)}), expected |-> Cardinality(expected),
      records |-> Len(records), processed |-> Len(processed),
      critical_recall |-> Frac(critical - missed, critical)]
GoldComplete(block) == block.documents = block.expected /\ block.records = block.processed
SubsetOf(records) == SelectSeq(records, LAMBDA r : r.doc \in SubsetDocs)

\* Mutant: that every document has a record is enough.
GateSubsetByDocuments(ok, block) ==
  IF ~ok \/ block.documents # Cardinality(SubsetDocs) THEN "NOT_MEASURED"
  ELSE IF block.critical_recall.d > 0 /\ block.critical_recall.n = block.critical_recall.d
       THEN "PASS" ELSE "FAIL"

GateSubset(ok, block) ==
  IF ~ok \/ block.documents # Cardinality(SubsetDocs) \/ block.records # block.processed
  THEN "NOT_MEASURED"
  ELSE IF block.critical_recall.d > 0 /\ block.critical_recall.n = block.critical_recall.d
       THEN "PASS" ELSE "FAIL"

\* Mutant: the evidence is asked for before the count.
GateStressDoubted(measured, llm, holds, evidence) ==
  IF ~measured \/ llm # "on" \/ ~Passed(evidence) THEN "NOT_MEASURED"
  ELSE IF holds THEN "PASS" ELSE "FAIL"

GateStress(measured, llm, holds, evidence) ==
  IF ~measured \/ llm # "on" THEN "NOT_MEASURED"
  ELSE IF ~holds THEN "FAIL"
  ELSE IF Passed(evidence) THEN "PASS" ELSE "NOT_MEASURED"
GateLeaks(measured, llm, rows, evidence) ==
  LET f == StressBlock(rows).leaks_approved
  IN GateStress(measured, llm, f.n = 0 /\ f.d = StressFiles, evidence)
GateDelivery(measured, llm, rows, evidence) ==
  LET f == StressBlock(rows).safe_delivery
  IN GateStress(measured, llm, f.d = SafeFiles /\ f.n >= SafeNeeded, evidence)
GateLlmRan(llm, given) ==
  IF llm # "on" \/ given = {} THEN "NOT_MEASURED"
  ELSE IF \A e \in given : Passed(e) THEN "PASS" ELSE "FAIL"

-----------------------------------------------------------------------------
(* The release gate (report_gold.py).  A measurement nobody made is        *)
(* Unmeasured, stress is the sequence of rows that could be read, and      *)
(* utility the rate of answers that can still be given.                    *)

Unmeasured == Frac(0, 0)
Criterion(measured, holds) == IF ~measured THEN "UNMEASURED" ELSE IF holds THEN "PASS" ELSE "FAIL"
Criteria(det, stress, utility) ==
  <<Criterion(det.critical > 0, det.missed = 0),
    Criterion(det.entities.d > 0, AtLeast(det.entities, 95)),
    Criterion(det.over.d > 0, 10 * det.over.n <= det.over.d),
    Criterion(utility # Unmeasured, AtLeast(utility, 90)),
    Criterion(stress # <<>>, StressSummary(stress).critical = 0),
    Criterion(det.located > 0, det.leaked = 0)>>

\* Mutant: what was not measured did not fail.
ReleaseGateLenient(det, stress, utility) ==
  IF "FAIL" \in ToSet(Criteria(det, stress, utility)) THEN "FAILED" ELSE "PASSED"

ReleaseGate(det, stress, utility) ==
  LET verdicts == ToSet(Criteria(det, stress, utility))
  IN IF "FAIL" \in verdicts THEN "FAILED"
     ELSE IF "UNMEASURED" \in verdicts THEN "INCOMPLETE" ELSE "PASSED"
-----------------------------------------------------------------------------
(* Canaries: a value planted behind a marker, and what became of it        *)
(* (bist30/harness.py), the checks of the storage mode (verify_mode.py)    *)
(* and the two reports (bist30/metrics.py, corpus_bist10/report.py).  A    *)
(* marker and a placeholder are one character each.                        *)

Window(text, at, width) == SubSeq(text, at + 1, Min({at + width, Len(text)}))
(* Where the value is taken to stand: behind the marker as it was planted, *)
(* or in its length and four more.                                         *)
RegionOf(value, text, at) ==
  LET exact == {i \in Exact(text, value) : i >= at}
  IN IF exact # {} THEN <<Min(exact), Min(exact) + Len(value) - 1>> ELSE <<at + 1, at + Len(value) + 4>>
FamiliesAt(region, spans) == {s.family : s \in {s \in spans : s.from <= region[2] /\ region[1] <= s.to}}

\* Mutant: what the text does not show is masked, whatever the export shows.
StageOfText(p, r) ==
  CASE ~r.extracted -> IF p.channel = "ocr" THEN "S4" ELSE "S3"
    [] r.extracted /\ ~r.masked -> IF r.families # {} THEN "S10" ELSE IF p.base THEN "S8" ELSE "S6"
    [] r.extracted /\ r.masked /\ r.families # {p.family} -> IF r.families = {} THEN "ok_family_unverified" ELSE "S9"
    [] OTHER -> "ok"

Stage(p, r) ==
  LET open == r.residual \/ ~r.masked
  IN CASE ~r.extracted -> IF p.channel = "ocr" THEN "S4" ELSE "S3"
       [] r.extracted /\ open /\ r.families = {} -> IF p.base THEN "S8" ELSE "S6"
       [] r.extracted /\ open /\ r.families # {} -> "S10"
       [] r.extracted /\ ~open /\ r.families # {p.family} -> IF r.families = {} THEN "ok_family_unverified" ELSE "S9"
       [] OTHER -> "ok"

Graded(p, r) == [p |-> p, extracted |-> r.extracted, masked |-> r.masked, families |-> r.families,
                 family_ok |-> r.masked /\ r.families = {p.family},
                 residual |-> r.residual, stage |-> Stage(p, r)]
(* evaluate; export is a set of at most one text. *)
Evaluate(p, text, spans, anon, export, width) ==
  LET value == Norm(p.value)
      marker == Exact(text, <<p.marker>>)
      at == Min(marker)
      extracted == marker # {} /\ StandsIn(value, Norm(Window(text, at, width)))
  IN Graded(p, [extracted |-> extracted, masked |-> extracted /\ ~StandsIn(value, Norm(anon)),
                residual |-> \E e \in export : StandsIn(value, Norm(e)),
                families |-> IF marker = {} THEN {} ELSE FamiliesAt(RegionOf(p.value, text, at), spans)])
GradeFilename(p, safe) ==
  LET masked == ~StandsIn(Norm(p.value), Norm(safe))
  IN [p |-> p, extracted |-> TRUE, masked |-> masked, families |-> {}, family_ok |-> masked,
      residual |-> ~masked, stage |-> IF masked THEN "ok" ELSE "S15"]

(* process_carrier: one the pipeline raises on has no results at all. *)
Carrier(placements, run, width) ==
  IF run.raised THEN [status |-> "INGEST_ERROR", results |-> <<>>]
  ELSE [status |-> run.status, results |->
          [k \in DOMAIN placements |->
             IF placements[k].channel = "filename" THEN GradeFilename(placements[k], run.name)
             ELSE Evaluate(placements[k], run.text, run.spans, run.anon, run.export, width)]]

Content(rows) == SelectSeq(rows, LAMBDA r : r.p.channel # "filename")
Open(r) == r.residual \/ (r.extracted /\ ~r.masked)

\* Mutant: only what was extracted can be missed.
CanaryMetricsExtracted(rows) ==
  LET extracted == SelectSeq(Content(rows), LAMBDA r : r.extracted)
      masked == SelectSeq(extracted, LAMBDA r : r.masked)
  IN [leaked |-> CountOf(rows, LAMBDA r : r.residual), recall |-> Frac(Len(masked), Len(extracted)),
      whole_recall |-> Frac(Len(masked), Len(Content(rows))),
      critical |-> CountOf(extracted, LAMBDA r : r.p.critical /\ Open(r)),
      family |-> Frac(CountOf(masked, LAMBDA r : r.family_ok), Len(masked))]

CanaryMetrics(rows) ==
  LET extracted == SelectSeq(Content(rows), LAMBDA r : r.extracted)
      masked == SelectSeq(extracted, LAMBDA r : r.masked)
  IN [leaked |-> CountOf(rows, LAMBDA r : r.residual), recall |-> Frac(Len(masked), Len(extracted)),
      whole_recall |-> Frac(Len(masked), Len(Content(rows))),
      critical |-> CountOf(Content(rows), LAMBDA r : r.p.critical /\ Open(r)),
      family |-> Frac(CountOf(masked, LAMBDA r : r.family_ok), Len(masked))]
(* summarize of bist30: only what is approved ships. *)
CarrierSummary(rows, approved) ==
  [leaks |-> CountOf(rows, LAMBDA r : r.residual /\ approved),
   contained |-> CountOf(rows, LAMBDA r : r.residual /\ ~approved),
   critical |-> CountOf(Content(rows), LAMBDA r : r.p.critical /\ approved /\ Open(r)),
   filenames |-> CountOf(rows, LAMBDA r : r.p.channel = "filename" /\ r.masked)]

\* Mutant: a value that is not where it was need not be in the map.
MappingCheckOfTokens(placeholders, map, values, anon, blobs) ==
  [complete |-> ToSet(anon) \cap placeholders \subseteq DOMAIN map, roundtrip |-> TRUE,
   contained |-> blobs # <<>> /\ \A b \in ToSet(blobs), v \in values : ~StandsIn(Norm(v), Norm(b))]

(* M1, M2 and M3 of the mapping mode, over placeholders and their map. *)
MappingCheck(placeholders, map, values, anon, blobs) ==
  LET masked == {v \in values : ~StandsIn(Norm(v), Norm(anon))}
  IN [complete |-> ToSet(anon) \cap placeholders \subseteq DOMAIN map,
      roundtrip |-> \A v \in masked : \E t \in DOMAIN map : Norm(map[t]) = Norm(v),
      contained |-> blobs # <<>> /\ \A b \in ToSet(blobs), v \in values : ~StandsIn(Norm(v), Norm(b))]

CheckPassed(check) == \A name \in DOMAIN check : check[name]
(* mode_check_metrics: of the documents that have a check. *)
ModeMetrics(checks) == Frac(CountOf(checks, CheckPassed), Len(checks))

(* The scorer of the strict corpora (strict/scorer.py) shares nothing with *)
(* the one above.                                                          *)
StrictMasked(m, output) ==
  LET value == Norm(m.surface)  text == Norm(output)
      literal == StandsIn(value, text)
  IN ~literal /\ ~\E w \in WordsOf(value) : w[2] - w[1] >= 2 /\ StandsIn(SubSeq(value, w[1], w[2]), text)
(* gold_case and summarize_gold; output is a set of at most one text: a    *)
(* case the engine failed on has none, hides nothing and keeps nothing.    *)
StrictCase(gold, output) ==
  LET kept == {k \in DOMAIN gold : gold[k].class = "NO_MASK"}
      hides(m) == \E o \in output : StrictMasked(m, o)
  IN [processed |-> output # {}, keep |-> Cardinality(kept),
      mentions |-> [k \in DOMAIN SelectSeq(gold, LAMBDA m : m.class # "NO_MASK") |->
                      LET m == SelectSeq(gold, LAMBDA q : q.class # "NO_MASK")[k]
                      IN [critical |-> m.critical, masked |-> hides(m)]],
      preserved |-> Cardinality({k \in kept : \E o \in output : StandsIn(gold[k].surface, o)})]

\* Mutant: a case without output is left out of the count.
StrictSummaryOfDone(rows) ==
  LET done == SelectSeq(rows, LAMBDA r : r.processed)
      mentions == FlattenSeq([k \in DOMAIN done |-> done[k].mentions])
  IN [recall |-> Frac(CountOf(mentions, LAMBDA m : m.masked), Len(mentions)),
      over |-> Frac(Total(done, LAMBDA r : r.keep - r.preserved), Total(done, LAMBDA r : r.keep)),
      unprocessed |-> Len(rows) - Len(done)]

StrictSummary(rows) ==
  LET mentions == FlattenSeq([k \in DOMAIN rows |-> rows[k].mentions])
  IN [recall |-> Frac(CountOf(mentions, LAMBDA m : m.masked), Len(mentions)),
      over |-> Frac(Total(rows, LAMBDA r : r.keep - r.preserved), Total(rows, LAMBDA r : r.keep)),
      unprocessed |-> CountOf(rows, LAMBDA r : ~r.processed)]

(* By overlap alone (evaluation/score.py): a value is covered when any     *)
(* detection touches it.                                                   *)
Overlaps(a, b) == a[1] <= b[2] /\ b[1] <= a[2]
SpanScore(gold, pred) ==
  [recall |-> Frac(Cardinality({g \in gold : \E p \in pred : Overlaps(g, p)}), Cardinality(gold)),
   precision |-> Frac(Cardinality({p \in pred : \E g \in gold : Overlaps(p, g)}), Cardinality(pred))]
-----------------------------------------------------------------------------
(* The section over real documents (scorecard_real.py).  A file has its    *)
(* pages, whether it is too large, and what comes of it.                   *)

FitsReal(f, pages) == ~f.big /\ f.pages <= pages
RealSelected(files, n, pages) ==
  LET fit == SetToSortSeq({k \in DOMAIN files : FitsReal(files[k], pages)}, <)
  IN SubSeq(fit, 1, Min({n, Len(fit)}))
\* What was looked at before enough were found, and left out.
RealSkipped(files, n, pages) ==
  LET taken == RealSelected(files, n, pages)
      enough(k) == Cardinality({j \in ToSet(taken) : j < k}) >= n
  IN {k \in DOMAIN files : ~FitsReal(files[k], pages) /\ ~enough(k)}
RealSummary(recs) ==
  [documents |-> Len(recs), measured |-> CountOf(recs, LAMBDA r : r = "text"),
   errors |-> CountOf(recs, LAMBDA r : r = "error"), empty |-> CountOf(recs, LAMBDA r : r = "empty")]

\* Mutant: complete is what the limit left to do.
RealSectionAsCut(files, real, limit, pages) ==
  LET n == IF limit > 0 THEN Min({real, limit}) ELSE real
      taken == RealSelected(files, n, pages)
      summary == RealSummary([k \in DOMAIN taken |-> files[taken[k]].outcome])
  IN [summary |-> summary, taken |-> taken, skipped |-> RealSkipped(files, n, pages),
      complete |-> summary.documents = n /\ summary.errors = 0]

RealSection(files, real, limit, pages) ==
  LET n == IF limit > 0 THEN Min({real, limit}) ELSE real
      taken == RealSelected(files, n, pages)
      summary == RealSummary([k \in DOMAIN taken |-> files[taken[k]].outcome])
  IN [summary |-> summary, taken |-> taken, skipped |-> RealSkipped(files, n, pages),
      complete |-> summary.documents = real /\ summary.errors = 0]
-----------------------------------------------------------------------------
(* What the benches over real documents count (bist30/real_bench.py,       *)
(* corpus_bist10/run_bench.py and report.py).  A run of the pipeline ends  *)
(* in "processed", "rejected", "extraction_failed" or "error"; extracted   *)
(* and anon are sets of at most one text.                                  *)

IsBlank(texts) == \A t \in texts : Norm(t) = <<>>
Unended(end) == [result |-> end, status |-> "none", empty |-> FALSE, ocr |-> FALSE, export |-> FALSE, chars |-> 0]
\* real_bench asks the masked text whether there was anything to read.
Outcome(run) ==
  IF run.end # "processed" THEN Unended(run.end)
  ELSE [result |-> "processed", status |-> run.status, empty |-> IsBlank(run.anon),
        ocr |-> run.extracted # {} /\ run.unread, export |-> run.anon # {} /\ run.renders,
        chars |-> Total(SetToSeq(run.anon), Len)]
\* run_operational asks the extracted text, which the destructive mode does not keep.
OperationalRow(run, mode) ==
  LET extracted == IF mode = "destructive" THEN {} ELSE run.extracted
  IN IF run.end # "processed" THEN Unended(run.end)
     ELSE [result |-> "processed", status |-> run.status, empty |-> IsBlank(extracted),
           ocr |-> extracted # {} /\ run.unread, export |-> run.anon # {} /\ run.renders,
           chars |-> Total(SetToSeq(extracted), Len)]

With(rows, result) == SelectSeq(rows, LAMBDA r : r.result = result)
\* by_format: a row counts under its status, or under its result when it has none.
KeyOf(r) == IF r.status # "none" THEN r.status ELSE r.result
ByKey(rows) == [k \in {KeyOf(r) : r \in ToSet(rows)} |-> CountOf(rows, LAMBDA r : KeyOf(r) = k)]

\* Mutant: what was left out, or broke, is not in the count.
OperationalMetricsOfDone(rows) ==
  LET done == With(rows, "processed")
  IN [documents |-> Len(done), processed |-> Frac(Len(done), Len(done)), rejected |-> 0, failed |-> 0, errors |-> 0,
      approved |-> Frac(CountOf(done, LAMBDA r : r.status = "approved"), Len(done)),
      review |-> CountOf(done, LAMBDA r : r.status = "needs_human_review"),
      empty |-> CountOf(done, LAMBDA r : r.empty), ocr |-> CountOf(done, LAMBDA r : r.ocr),
      export |-> Frac(CountOf(done, LAMBDA r : r.export), Len(done)),
      chars |-> Total(done, LAMBDA r : r.chars), by |-> ByKey(done)]

OperationalMetrics(rows) ==
  LET done == With(rows, "processed")
  IN [documents |-> Len(rows), processed |-> Frac(Len(done), Len(rows)), rejected |-> Len(With(rows, "rejected")),
      failed |-> Len(With(rows, "extraction_failed")), errors |-> Len(With(rows, "error")),
      approved |-> Frac(CountOf(done, LAMBDA r : r.status = "approved"), Len(done)),
      review |-> CountOf(done, LAMBDA r : r.status = "needs_human_review"),
      empty |-> CountOf(done, LAMBDA r : r.empty), ocr |-> CountOf(done, LAMBDA r : r.ocr),
      export |-> Frac(CountOf(done, LAMBDA r : r.export), Len(done)),
      chars |-> Total(done, LAMBDA r : r.chars), by |-> ByKey(rows)]
\* _aggregate: over what was selected, with what could not be downloaded.
Aggregate(rows, undownloaded) ==
  LET done == With(rows, "processed")
  IN [selected |-> Len(rows) + undownloaded, downloaded |-> Len(rows), processed |-> Len(done),
      rejected |-> Len(With(rows, "rejected")), failed |-> Len(With(rows, "extraction_failed")),
      approved |-> CountOf(done, LAMBDA r : r.status = "approved"),
      review |-> CountOf(done, LAMBDA r : r.status = "needs_human_review"),
      empty |-> CountOf(done, LAMBDA r : r.empty), ocr |-> CountOf(done, LAMBDA r : r.ocr),
      export |-> CountOf(done, LAMBDA r : r.export),
      by |-> [k \in {r.result : r \in ToSet(rows)} |-> Len(With(rows, k))]]
-----------------------------------------------------------------------------
(* What is still of use in a masked text, and what can still be told from  *)
(* it (goldbench/inference_set.py, run_inference.py, attack.py).  A row of *)
(* gold has its document, domain, text, subjects and mentions; a question  *)
(* is its evidence.                                                        *)

Attributes == <<"occupation", "employer", "district", "city", "education", "salary_band", "health", "age_band">>
NameLength == [occupation |-> 10, employer |-> 8, district |-> 8, city |-> 4, education |-> 9,
               salary_band |-> 11, health |-> 6, age_band |-> 8]
AttributeOfType == "OCCUPATION" :> "occupation" @@ "EMPLOYER" :> "employer" @@ "LOCATION" :> "district"
                   @@ "EDUCATION" :> "education" @@ "SALARY" :> "salary_band" @@ "HEALTH" :> "health"
                   @@ "DISABILITY" :> "disability" @@ "UNION" :> "union"

Answered(text, questions) == SelectSeq(questions, LAMBDA q : Locate(text, q, 0) # Nowhere)
QuestionsFor(row, templates) == Answered(row.text, templates[row.domain])
\* What the text says of its first subject: the first value of each attribute.
TruthFor(row) ==
  LET told == SelectSeq(row.mentions, LAMBDA m :
                /\ row.subjects # <<>> /\ m.subject = Head(row.subjects)
                /\ m.class \in {"QUASI", "SENSITIVE"} /\ m.type \in DOMAIN AttributeOfType)
      of(a) == SelectSeq(told, LAMBDA m : AttributeOfType[m.type] = a)
  IN [a \in {AttributeOfType[m.type] : m \in ToSet(told)} |-> Head(of(a)).surface]

Place(row, rows) == Cardinality({q \in ToSet(rows) : q.domain = row.domain /\ q.doc < row.doc})

\* Mutant: in the order of the documents, which is that of the domains.
TurnsByDomain(rows) ==
  SetToSortSeq(ToSet(rows), LAMBDA a, b : a.domain < b.domain \/ (a.domain = b.domain /\ a.doc < b.doc))

\* In turns: the first of every domain, then the second of every domain.
Turns(rows) ==
  SetToSortSeq(ToSet(rows), LAMBDA a, b : \/ Place(a, rows) < Place(b, rows)
                                          \/ Place(a, rows) = Place(b, rows) /\ a.domain < b.domain)
Scenarios(rows, templates, n) ==
  LET some == SelectSeq(Turns(rows), LAMBDA r : QuestionsFor(r, templates) # <<>>)
  IN [k \in 1 .. Min({n, Len(some)}) |->
        [row |-> some[k], questions |-> QuestionsFor(some[k], templates), truth |-> TruthFor(some[k])]]

\* Mutant: of all questions, those that the document itself never answered too.
UtilityRowOfAll(s, run) ==
  [result |-> run.end, retention |-> IF run.end = "processed"
                                     THEN Frac(Len(Answered(run.anon, s.questions)), Len(s.questions)) ELSE Unmeasured]

\* run_mode: of the questions the extracted text answers, those the masked one does.
UtilityRow(s, run) ==
  LET base == Answered(run.extracted, s.questions)
      after == Answered(run.anon, s.questions)
  IN [result |-> run.end, retention |-> IF run.end = "processed" /\ base # <<>>
                                        THEN Frac(Len(after), Len(base)) ELSE Unmeasured]
\* inference_metrics: the mean over the rows that have a number.
MeanOf(fractions) ==
  LET sum == FoldLeft(LAMBDA a, f : Frac(a.n * f.d + f.n * a.d, a.d * f.d), Frac(0, 1), fractions)
  IN IF fractions = <<>> THEN Unmeasured ELSE Frac(sum.n, sum.d * Len(fractions))
Retention(rows) ==
  LET measured == SelectSeq(rows, LAMBDA r : r.retention # Unmeasured)
  IN MeanOf([k \in DOMAIN measured |-> measured[k].retention])

\* Mutant: the right answer may be among the wrong ones.
OptionsUnfiltered(truth, pool, at, k) ==
  LET once == SetToSortSeq({i \in DOMAIN pool : \A j \in 1 .. (i - 1) : pool[j] # pool[i]}, <)
      some == [i \in 1 .. Min({k - 1, Len(once)}) |-> pool[once[i]]]
  IN InsertAt(some, (at % (Len(some) + 1)) + 1, truth)

\* _options_for: wrong answers of the pool, each once, and the right one among them.
Options(truth, pool, at, k) ==
  LET wrong(i) == Norm(pool[i]) # Norm(truth) /\ \A j \in 1 .. (i - 1) : pool[j] # pool[i]
      once == SetToSortSeq({i \in DOMAIN pool : wrong(i)}, <)
      some == [i \in 1 .. Min({k - 1, Len(once)}) |-> pool[once[i]]]
  IN InsertAt(some, (at % (Len(some) + 1)) + 1, truth)
\* build_pack: texts has a masked text for the scenarios that were processed; those
\* whose text is empty are not asked about.
Pack(scenarios, texts, pool, k) ==
  LET order == SetToSortSeq(DOMAIN texts \cap DOMAIN scenarios, <)
      item(i, a) == [scenario |-> order[i], attribute |-> a, text |-> texts[order[i]],
                     truth |-> scenarios[order[i]].truth[a],
                     options |-> Options(scenarios[order[i]].truth[a], pool[a], i - 1 + NameLength[a], k)]
      asked(i) == SelectSeq(Attributes, LAMBDA a : /\ a \in DOMAIN scenarios[order[i]].truth
                                                   /\ Norm(texts[order[i]]) # <<>>)
  IN FlattenSeq([i \in DOMAIN order |-> [j \in DOMAIN asked(i) |-> item(i, asked(i)[j])]])
\* run_attack: guesses is a set of at most one sequence; a call that failed has none.
Judged(item, guesses, topK) ==
  LET right(g) == Norm(g) = Norm(item.truth)
  IN [error |-> guesses = {}, exact |-> \E gs \in guesses : gs # <<>> /\ right(Head(gs)),
      top |-> \E gs \in guesses : \E i \in 1 .. Min({topK, Len(gs)}) : right(gs[i])]
AttackSummary(rows) ==
  [items |-> Len(rows), errors |-> CountOf(rows, LAMBDA r : r.error),
   exact |-> Frac(CountOf(rows, LAMBDA r : r.exact), Len(rows)), top |-> Frac(CountOf(rows, LAMBDA r : r.top), Len(rows))]
=============================================================================
