---------------------------- MODULE MCEvaluation ----------------------------
(***************************************************************************)
(* MCValues with the commands: from the first state either a probe, or the *)
(* command of a resumable benchmark (Benchmark), or two scorecards at the  *)
(* same time (Scorecard), or the command that masks a folder (Batch), or   *)
(* those of the benchmark over real filings (Corpus).                      *)
(***************************************************************************)
EXTENDS MCValues

VARIABLES config, lines, run, starts, model, works, reports, planted, runs, out, manifest, batch,
  bytes, raw, listed, tables, sweep, store, proc, commands, cut, killed
corpVars == <<bytes, raw, listed, tables, sweep, store, proc, commands, cut, killed>>
evaluationVars == <<probe, config, lines, run, starts, model, works, reports, planted, runs, out, manifest, batch,
                    corpVars>>

Opts(llm, limit, real, sections) ==
  [llm |-> llm, limit |-> limit, real |-> real, sections |-> sections]
All == {"gold", "strict", "stress", "real"}

Bench == INSTANCE Benchmark WITH Cases <- <<"c1", "c2">>, MaxStarts <- 3
Card == INSTANCE Scorecard WITH
  Runs <- {"r1", "r2"}, Ids <- 1 .. 3,
  Options <- [r1 |-> {Opts("on", 0, 1, All), Opts("off", 1, 1, {"gold", "real"}),
                      Opts("off", 0, 0, {"strict", "real"})},
              r2 |-> {Opts("off", 0, 0, {"stress"})}]
Folder == INSTANCE Batch WITH Files <- <<<<"x">>, <<"x", 2>>, <<"x">>>>, MaxRuns <- 2
Corp == INSTANCE Corpus WITH
  Picks <- <<"p1", "p2">>, Planted <- [p1 |-> {}, p2 |-> {"v", "w"}], Injectable <- {"p2"},
  MaxCommands <- 3
Score == INSTANCE Scoring WITH
  StressFiles <- 3, SafeFiles <- 2, SafeNeeded <- 1, SubsetDocs <- {1}

-----------------------------------------------------------------------------
(* A document with a value of two words, whole and broken over a line, and *)
(* a term that has to stay; what the detector found, what was masked, and  *)
(* what the export shows.                                                  *)

ValueText == <<"a", "b", "c", " ", "d", "e">>
Broken == <<"a", "b", "c", "\n", "d", "e">>
Term == <<"f", "g", "h">>
GoldTexts == {ValueText \o <<" ">> \o Term \o <<" ">> \o ValueText,
              Broken \o <<" ">> \o Term \o <<" ">> \o Broken,
              ValueText \o <<" ">> \o Term \o <<" ">> \o Broken, Term}
Mention(surface, occurrence, class, mandatory, critical) ==
  [surface |-> surface, occurrence |-> occurrence, class |-> class, mandatory |-> mandatory,
   critical |-> critical, entity |-> surface]
Gold == {<<Mention(ValueText, 0, "DIRECT", TRUE, TRUE), Mention(ValueText, 1, "DIRECT", TRUE, TRUE),
           Mention(Term, 0, "NO_MASK", FALSE, FALSE)>>,
         <<Mention(ValueText, 0, "QUASI", FALSE, TRUE), Mention(SubSeq(ValueText, 1, 3), 1, "QUASI", TRUE, FALSE)>>}
Bounds == {1, 3, 6, 10, 17}
Spans(text) == {<<i, j>> \in Bounds \X Bounds : i <= j /\ j <= Len(text)}
Masked(text, spans) == [i \in DOMAIN text |-> IF i \in Score!Chars(spans) THEN "#" ELSE text[i]]
(* What else the gate reads: the stress run, the rate of usefulness, and   *)
(* how many terms that had to stay the other documents of the run kept: of *)
(* ten terms one may be masked.                                            *)
Elsewhere ==
  LET case == [expected |-> "safe_output", safe_by_design |-> FALSE, generated |-> TRUE]
      row(leaked) == Score!StressRow(case, "approved", leaked, Score!NoAudit, TRUE)
  IN {<<<<row(FALSE)>>, Score!Frac(9, 10), 8>>, <<<<row(FALSE)>>, Score!Frac(9, 10), 9>>,
      <<<<row(FALSE)>>, Score!Unmeasured, 9>>,
      <<<<>>, Score!Frac(9, 10), 9>>, <<<<row(FALSE), row(TRUE)>>, Score!Frac(9, 10), 9>>}
AnonOf(p) == Masked(p.text, p.masked)
ExportOf(p) == IF p.exported THEN AnonOf(p) ELSE <<>>
ResultsOf(p) ==
  [k \in DOMAIN p.gold |-> Score!MentionResult(p.gold[k], p.text, p.spans, AnonOf(p), ExportOf(p))]
MeasureText ==
  /\ probe = Nothing
  /\ \E text \in GoldTexts, gold \in Gold, exported \in BOOLEAN, both \in BOOLEAN :
       \E s, t \in Spans(text) :
         /\ s[1] <= t[1]
         /\ \E p \in {[about |-> "gold", text |-> text, gold |-> gold, masked |-> {s, t},
                       spans |-> IF both THEN {s, t} ELSE {s}, exported |-> exported]} :
              \E results \in {ResultsOf(p)}, rest \in Elsewhere :
                probe' = p @@ [results |-> results, stress |-> rest[1], utility |-> rest[2], kept |-> rest[3]]
(* The run the gate is over: this document, and another one.               *)
OtherTerm == Mention(Term, 0, "NO_MASK", FALSE, FALSE)
RecordsOf(p) ==
  <<[doc |-> 1, mentions |-> p.results],
    [doc |-> 2, mentions |-> [k \in 1 .. p.kept |-> Score!MentionResult(OtherTerm, Term, {}, Term, Term)]]>>

(* A stress run: what may become of a document with a value planted in it, *)
(* and of one that has to be refused.                                      *)
Audits(audits, ok, failed) == [audits |-> audits, ok |-> ok, failed |-> failed]
Ends3 == {[status |-> "approved", leaked |-> l, audits |-> a] :
            l \in BOOLEAN, a \in {Audits(1, 1, 0), Audits(1, 0, 0)}}
         \cup {[status |-> "needs_human_review", leaked |-> l, audits |-> a] :
            l \in BOOLEAN, a \in {Audits(2, 2, 0), Audits(2, 1, 1)}}
         \cup {[status |-> s, leaked |-> FALSE, audits |-> Score!NoAudit] :
            s \in {"rejected", "extraction_failed", "error"}}
RunStress ==
  /\ probe = Nothing
  /\ \E a, b, c \in Ends3, llm \in {"on", "off"}, slow, short \in BOOLEAN :
       /\ ~c.leaked
       /\ probe' = [about |-> "stress", ends |-> <<a, b, c>>, llm |-> llm, slow |-> slow, short |-> short]
StressRowsOf(p) ==
  LET case(k) == [expected |-> IF k = 3 THEN "fail_closed" ELSE "safe_output",
                  safe_by_design |-> k = 2, generated |-> TRUE]
  IN [k \in 1 .. IF p.short THEN 2 ELSE 3 |->
        Score!StressRow(case(k), p.ends[k].status, p.ends[k].leaked, p.ends[k].audits, p.slow)]
EvidenceOf(p) == Score!Evidence(p.llm, StressRowsOf(p), Score!Slow(StressRowsOf(p)))
Leaks(p) == Score!GateLeaks(~p.short, p.llm, StressRowsOf(p), EvidenceOf(p))
Delivery(p) == Score!GateDelivery(~p.short, p.llm, StressRowsOf(p), EvidenceOf(p))

(* A gold section: two documents in two formats, or the first of them.     *)
GoldResults == {[result |-> "processed", missed |-> n, critical |-> 1] : n \in 0 .. 1}
               \cup {[result |-> r, missed |-> 0, critical |-> 0] : r \in {"error", "missing_carrier"}}
RunGold ==
  /\ probe = Nothing
  /\ \E docs \in 1 .. 2 : \E results \in [1 .. 2 * docs -> GoldResults], ok \in BOOLEAN :
       probe' = [about |-> "section", ok |-> ok,
                 records |-> [k \in 1 .. 2 * docs |-> results[k] @@ [doc |-> (k + 1) \div 2]]]

(* A carrier: a value behind its marker, whole, broken, gone or behind     *)
(* nothing, and a second time elsewhere; what the detector saw, what was   *)
(* masked in the text and what the export shows.                           *)
CarrierTexts == {<<"M", " ">> \o ValueText, <<"M", " ">> \o Broken, <<"M", " ">> \o Term, ValueText,
                 <<"M", " ">> \o Term \o <<" ">> \o ValueText, <<"M", " ">> \o ValueText \o <<" ">> \o ValueText}
Seen == {[from |-> 3, to |-> 8, family |-> "person"], [from |-> 3, to |-> 5, family |-> "place"]}
RECURSIVE Replaced(_, _)
Replaced(text, value) ==
  LET at == Score!Exact(text, value)
  IN IF at = {} THEN text
     ELSE Replaced(SubSeq(text, 1, Min(at) - 1) \o <<"T">> \o SubSeq(text, Min(at) + Len(value), Len(text)), value)
FirstReplaced(text) ==
  IF Len(text) < 8 THEN text ELSE SubSeq(text, 1, 2) \o <<"T">> \o SubSeq(text, 9, Len(text))
Maps == {[t \in {} |-> ValueText], [t \in {"T"} |-> Broken], [t \in {"T"} |-> Term]}
PlantCanary ==
  /\ probe = Nothing
  /\ \E text \in CarrierTexts, spans \in SUBSET Seen, base, critical, named \in BOOLEAN,
        status \in {"approved", "needs_human_review", "raised"}, channel \in {"body", "ocr"}, map \in Maps :
       \E anon \in {text, FirstReplaced(text), Replaced(text, ValueText)} :
         \E export \in {{}, {anon}, {text}} :
           probe' = [about |-> "canary", text |-> text, spans |-> spans, anon |-> anon, export |-> export,
                     map |-> map, named |-> named, status |-> status,
                     p |-> [value |-> ValueText, marker |-> "M", family |-> "person", base |-> base,
                            critical |-> critical, channel |-> channel]]
CarrierOf(p) ==
  Score!Carrier(<<p.p, [p.p EXCEPT !.channel = "filename"]>>,
                [raised |-> p.status = "raised", status |-> p.status, text |-> p.text, spans |-> p.spans,
                 anon |-> p.anon, export |-> p.export, name |-> IF p.named THEN ValueText ELSE <<"T">>], 10)
BlobsOf(p) == <<p.anon>> \o SetToSeq(p.export)
CheckOf(p) == Score!MappingCheck({"T"}, p.map, {ValueText}, p.anon, BlobsOf(p))

(* What discovery found: documents of two companies, one address twice,    *)
(* of which one is blocked, one too large.                                 *)
Found(co, url, form, name, access, size) ==
  [co |-> co, url |-> url, form |-> form, type |-> 1, name |-> name, access |-> access, size |-> size]
Discovered ==
  {Found(1, 1, "pdf", 1, "ok", 1), Found(1, 2, "pdf", 2, "unverified", 0), Found(1, 3, "docx", 1, "ok", 1),
   Found(2, 1, "pdf", 1, "blocked", 1), Found(2, 4, "docx", 1, "ok", 1), Found(2, 5, "xlsx", 1, "ok", 9),
   Found(2, 6, "pdf", 1, "ok", 2)}
SelectDocs ==
  /\ probe = Nothing
  /\ \E rows \in [1 .. 4 -> Discovered], docs \in 2 .. 3, company \in 1 .. 2, text \in BOOLEAN :
       probe' = [about |-> "select", rows |-> rows,
                 rules |-> [docs |-> docs, company |-> company, size |-> 3, text |-> text]]
BalanceDocs ==
  /\ probe = Nothing
  /\ \E types \in [1 .. 4 -> 1 .. 3], each \in 1 .. 2, unread \in SUBSET (1 .. 4) :
       probe' = [about |-> "balance", types |-> types, each |-> each, unread |-> unread]

(* Real documents in a directory, of which two are asked for.              *)
RealFiles ==
  {[big |-> FALSE, pages |-> 1, outcome |-> o] : o \in {"text", "empty", "error"}}
  \cup {[big |-> TRUE, pages |-> 1, outcome |-> "text"], [big |-> FALSE, pages |-> 9, outcome |-> "text"]}
MeasureReal ==
  /\ probe = Nothing
  /\ \E n \in 0 .. 4 : \E files \in [1 .. n -> RealFiles], limit \in 0 .. 3 :
       probe' = [about |-> "real", files |-> files, limit |-> limit]

(* Two documents of a bench without gold: how the pipeline ended, and what *)
(* is left of them.  One that failed in the middle may have no masked text. *)
Blank == <<" ">>
RunsOf(end, statuses, anons) ==
  {[end |-> end, status |-> st, extracted |-> {e}, anon |-> {IF a = "blank" THEN Blank ELSE e : a \in as},
    unread |-> u, renders |-> r] :
     st \in statuses, e \in {Term, Blank}, as \in anons, u, r \in BOOLEAN}
BenchRuns ==
  RunsOf("processed", {"approved", "needs_human_review"}, {{"same"}, {"blank"}})
  \cup RunsOf("processed", {"failed"}, {{}, {"same"}})
  \cup {[end |-> e, status |-> "none", extracted |-> {}, anon |-> {}, unread |-> FALSE, renders |-> FALSE] :
          e \in {"rejected", "extraction_failed", "error", "skipped"}}
CountBench ==
  /\ probe = Nothing
  /\ \E ended \in [1 .. 2 -> BenchRuns], mode \in {"mapping", "destructive"}, lost \in 0 .. 1 :
       probe' = [about |-> "operate", ended |-> ended, mode |-> mode, lost |-> lost]

(* Gold documents of two domains, with or without what a question asks.    *)
Templates == [d \in 1 .. 2 |-> IF d = 1 THEN <<Term, ValueText>> ELSE <<Term>>]
Told == <<[subject |-> "s", class |-> "QUASI", type |-> "OCCUPATION", surface |-> ValueText],
          [subject |-> "t", class |-> "QUASI", type |-> "HEALTH", surface |-> Term]>>
SpreadScenarios ==
  /\ probe = Nothing
  /\ \E domains \in [1 .. 4 -> 1 .. 2], texts \in [1 .. 4 -> {Term, ValueText, <<"x">>}], n \in 1 .. 3,
        subjects \in {<<>>, <<"s", "t">>} :
       LET rows == [k \in 1 .. 4 |-> [doc |-> k, domain |-> domains[k], text |-> texts[k],
                                      subjects |-> subjects, mentions |-> Told]]
       IN probe' = [about |-> "scenarios", n |-> n, rows |-> rows,
                    taken |-> Score!Scenarios(rows, Templates, n),
                    due |-> {r \in ToSet(rows) : Score!QuestionsFor(r, Templates) # <<>>}]

(* Two scenarios: their questions, what was extracted, what is left of it. *)
BothTexts == Term \o <<" ">> \o ValueText
Scenario == {[questions |-> q, end |-> e, extracted |-> t, anon |-> a] :
               q \in {<<Term>>, <<Term, ValueText>>}, e \in {"processed", "error", "missing_carrier"},
               t \in {BothTexts, Term, Blank}, a \in {BothTexts, Term, Blank}}
MeasureUse ==
  /\ probe = Nothing
  /\ \E some \in [1 .. 2 -> {s \in Scenario : Len(s.anon) <= Len(s.extracted)}] :
       probe' = [about |-> "utility", rows |-> [k \in 1 .. 2 |-> Score!UtilityRow(some[k], some[k])],
                 base |-> [k \in 1 .. 2 |-> Score!Answered(some[k].extracted, some[k].questions)],
                 kept |-> [k \in 1 .. 2 |-> Score!Answered(some[k].anon, some[k].questions)]]

(* Two scenarios, what their documents say, which ones have a masked text, *)
(* what else could be answered, and what the model answers in turns.       *)
Said == {[a \in d |-> t] : d \in SUBSET {"occupation", "health"}, t \in {<<"a">>, <<"a", "\n">>}}
Pools == {<<>>, <<<<"a">>, <<"b">>>>, <<<<"b">>, <<"a", " ">>, <<"b">>, <<"c">>>>}
Replies == {"none", "empty", "first", "second", "third", "wrong"}
AskModel ==
  /\ probe = Nothing
  /\ \E truths \in [1 .. 2 -> Said], pool \in Pools, odd, even \in Replies, read \in SUBSET (1 .. 2),
        left \in {Term, Blank} :
       probe' = [about |-> "attack", scenarios |-> [k \in 1 .. 2 |-> [truth |-> truths[k]]], replies |-> <<odd, even>>,
                 pool |-> [a \in {"occupation", "health"} |-> pool],
                 texts |-> [k \in read |-> IF k = 1 THEN Term ELSE left]]
PackOf(p) == Score!Pack(p.scenarios, p.texts, p.pool, 3)
GuessesFor(item, reply) ==
  CASE reply = "none" -> {} [] reply = "empty" -> {<<>>} [] reply = "first" -> {<<item.truth>>}
    [] reply = "second" -> {<<<<"z">>, item.truth>>} [] reply = "third" -> {<<<<"z">>, <<"z">>, item.truth>>}
    [] OTHER -> {<<<<"z">>>>}
JudgedOf(p) ==
  [k \in DOMAIN PackOf(p) |-> Score!Judged(PackOf(p)[k], GuessesFor(PackOf(p)[k], p.replies[(k % 2) + 1]), 2)]

-----------------------------------------------------------------------------

EvaluationInit == Init /\ Bench!BenchInit /\ Card!ScoreInit /\ Folder!BatchInit /\ Corp!CorpusInit
Probe == Next \/ MeasureText \/ RunStress \/ RunGold \/ PlantCanary \/ SelectDocs \/ BalanceDocs \/ MeasureReal
         \/ CountBench \/ SpreadScenarios \/ MeasureUse \/ AskModel

(* One of them at a time, each from its own first states. *)
NoBench == starts = 0 /\ lines.gold = <<>>
NoCard == planted /\ model /\ \A r \in DOMAIN runs : runs[r].step = "new"
NoBatch == batch.runs = 0
NoCorpus == commands = 0 /\ bytes["p1"] # bytes["p2"]
EvaluationNext ==
  \/ /\ NoBench /\ NoCard /\ NoBatch /\ NoCorpus /\ Probe
     /\ UNCHANGED <<config, lines, run, starts, model, works, reports, planted, runs, out, manifest, batch, corpVars>>
  \/ /\ probe = Nothing /\ planted /\ (\A r \in DOMAIN runs : runs[r].step = "new") /\ NoBatch /\ NoCorpus
     /\ Bench!BenchNext /\ UNCHANGED <<probe, works, reports, planted, runs, out, manifest, batch, corpVars>>
  \/ /\ probe = Nothing /\ NoBench /\ NoBatch /\ NoCorpus
     /\ Card!ScoreNext /\ UNCHANGED <<probe, config, lines, run, starts, out, manifest, batch, corpVars>>
  \/ /\ probe = Nothing /\ NoBench /\ NoCard /\ NoCorpus
     /\ Folder!BatchNext
     /\ UNCHANGED <<probe, config, lines, run, starts, model, works, reports, planted, runs, corpVars>>
  \/ /\ probe = Nothing /\ NoBench /\ NoCard /\ NoBatch /\ Corp!CorpusNext
     /\ UNCHANGED <<probe, config, lines, run, starts, model, works, reports, planted, runs, out, manifest, batch>>
EvaluationSpec == EvaluationInit /\ [][EvaluationNext]_evaluationVars

-----------------------------------------------------------------------------

(* The n-th occurrence of a gold value is found at its n-th place in the   *)
(* text, broken over a line or not, so that no two mentions are measured   *)
(* at one place (locate).  Not so where the value stands both whole and    *)
(* broken: the search for it as it is written comes first, and the broken  *)
(* one may never be measured.                                              *)
MentionsApart ==
  probe.about = "gold" =>
    \A m \in ToSet(probe.gold) :
      LET places == Score!Loose(probe.text, m.surface)
          whole == {k \in DOMAIN places : places[k][1] \in Score!Exact(probe.text, m.surface)}
      IN whole \in {{}, DOMAIN places} =>
           \A n \in DOMAIN places : Score!Locate(probe.text, m.surface, n - 1) = places[n]

OpenWords(at) ==
  {w \in Score!WordsOf(SubSeq(probe.text, at[1], at[2])) :
     w[2] - w[1] >= 2 /\ (at[1] + w[1] - 1 .. at[1] + w[2] - 1) \cap Score!Chars(probe.masked) = {}}
(* A word of a gold value that stands open where the value was is seen,    *)
(* though the value as a whole is gone: the mention is not masked or has   *)
(* characters left (evaluate_document, "partial leak").                    *)
OpenWordsAreSeen ==
  probe.about = "gold" =>
    \A r \in ToSet(probe.results) :
      r.located /\ OpenWords(Score!Locate(probe.text, r.m.surface, r.m.occurrence)) # {}
        => ~r.masked \/ r.residual > 0

Fair(results, score) ==
  /\ 0 <= score.n /\ score.n <= score.d
  /\ score.n = score.d => \A r \in ToSet(results) : r.located =>
       /\ r.m.mandatory => r.covered = r.total
       /\ r.m.class = "NO_MASK" => ~r.masked
(* The coverage score is between 0 and 1, and 1 only when all that has to  *)
(* be masked is covered and all that has to stay stands: masking           *)
(* everything does not earn it (redaction_coverage_score).                 *)
ScoreIsFair ==
  probe.about = "gold" => Fair(probe.results, Score!CoverageScore(probe.results))

(* Who passes the release gate has masked every critical value it could    *)
(* find, in the text and in the export, has kept nine of ten terms that    *)
(* had to stay, those of all documents counted together, and has a stress  *)
(* run behind it that approved no document with its value in it: what was  *)
(* not measured never passes (release_gate).                               *)
GateMeansGone ==
  probe.about = "gold"
  /\ Score!ReleaseGate(Score!Detection(RecordsOf(probe)), probe.stress, probe.utility) = "PASSED" =>
    LET located == {r \in ToSet(probe.results) : r.located}
        stands(m, text) == Score!StandsIn(Score!Norm(m.surface), Score!Norm(text))
        terms == {r.m : r \in {r \in located : r.m.class = "NO_MASK"}}
        lost == {m \in terms : ~stands(m, AnonOf(probe))}
    IN /\ \A r \in located : r.m.critical => ~stands(r.m, AnonOf(probe)) /\ ~stands(r.m, ExportOf(probe))
       /\ 10 * Cardinality(lost) <= Cardinality(terms) + probe.kept
       /\ probe.stress # <<>> /\ \A s \in ToSet(probe.stress) : ~(s.status = "approved" /\ s.leaked)
       /\ probe.utility # Score!Unmeasured

(* A stress gate "with the live model" is passed only by a run over all    *)
(* files in which the model gave its verdict in every audit there was      *)
(* (llm_evidence, _gates_stress).  The gate of the model itself looks at   *)
(* the gold section too, and then fails for nothing but that one's         *)
(* evidence (_gate_llm_ran).                                               *)
LivePassIsLive ==
  probe.about = "stress" /\ "PASS" \in {Leaks(probe), Delivery(probe)} =>
    /\ probe.llm = "on" /\ ~probe.short
    /\ \A r \in ToSet(StressRowsOf(probe)) : r.audits.ok = r.audits.audits
    /\ \E r \in ToSet(StressRowsOf(probe)) : r.audits.ok > 0
    /\ \A gold \in {{}} \cup {{e} : e \in [given : {TRUE}, plausible : BOOLEAN, every : BOOLEAN]} :
         Score!GateLlmRan(probe.llm, {EvidenceOf(probe)} \cup gold)
           = IF \A e \in gold : Score!Passed(e) THEN "PASS" ELSE "FAIL"

(* A document approved with its value in it fails the gate, however little *)
(* the model audited, and is the same number in the three reports that     *)
(* count it ("a failure stands anyway"; summarize, stress_metrics,         *)
(* stress_block).                                                          *)
FailureStands ==
  probe.about = "stress" =>
    LET rows == StressRowsOf(probe)
        leaks == Cardinality({k \in DOMAIN rows : rows[k].status = "approved" /\ rows[k].leaked})
    IN /\ leaks = Score!StressSummary(rows).critical
       /\ leaks = Score!StressBlock(rows).leaks_approved.n
       /\ leaks > 0 /\ probe.llm = "on" /\ ~probe.short => Leaks(probe) = "FAIL"

(* The gate over the subset is passed only when every document of it was   *)
(* measured in every format and missed nothing; the gold section is        *)
(* complete only when the same is so of all documents (_gate_subset,       *)
(* run_gold_section).                                                      *)
SubsetPassIsWhole ==
  probe.about = "section" =>
    LET of(doc) == SelectSeq(probe.records, LAMBDA r : r.doc = doc)
        whole(doc) == Len(of(doc)) = 2 /\ \A r \in ToSet(of(doc)) : r.result = "processed"
    IN /\ Score!GateSubset(probe.ok, Score!GoldBlock(Score!SubsetOf(probe.records), {1})) = "PASS" =>
            probe.ok /\ whole(1) /\ \A r \in ToSet(of(1)) : r.missed = 0
       /\ Score!GoldComplete(Score!GoldBlock(probe.records, {1, 2})) <=> whole(1) /\ whole(2)

(* A canary is "ok" only when its value stands nowhere in the text or the  *)
(* export and was taken for what it is; one that was extracted and stands  *)
(* in either is a failure with its reason.  A critical value in the export *)
(* counts as missed even when the extraction never saw it, and the report  *)
(* over carriers splits the same leaks by what is approved.  A carrier the *)
(* pipeline raised on has no results: it is in no rate at all (evaluate,   *)
(* process_carrier, canary_metrics, summarize).                            *)
CanariesAreJudged ==
  probe.about = "canary" =>
    LET carrier == CarrierOf(probe)
        rows == carrier.results  r == rows[1]
        metrics == Score!CanaryMetrics(rows)
        summary == Score!CarrierSummary(rows, carrier.status = "approved")
        stands(text) == Score!StandsIn(ValueText, Score!Norm(text))
        shown == \E e \in probe.export : stands(e)
    IN IF carrier.status = "INGEST_ERROR" THEN metrics.whole_recall.d = 0 /\ summary.leaks + summary.contained = 0
       ELSE /\ r.stage \in {"ok", "ok_family_unverified", "S9"} => ~stands(probe.anon) /\ ~shown
            /\ r.stage = "ok" => r.families = {"person"}
            /\ r.extracted => (r.stage \in {"S6", "S8", "S10"} <=> stands(probe.anon) \/ shown)
            /\ probe.p.critical /\ shown => metrics.critical = 1
            /\ metrics.leaked = summary.leaks + summary.contained
            /\ summary.critical > 0 => metrics.critical > 0

(* Who passes the checks of the mapping mode can be read back in full, and *)
(* shows no value in anything that is shared: passing by having masked     *)
(* nothing, or by sharing nothing, is not possible (check_mapping_mode,    *)
(* run_canary).                                                            *)
ModePassIsWhole ==
  probe.about = "canary" /\ Score!ModeMetrics(<<CheckOf(probe)>>).n = 1 =>
    /\ \A b \in ToSet(BlobsOf(probe)) : ~Score!StandsIn(ValueText, Score!Norm(b))
    /\ \E t \in DOMAIN probe.map : Score!Norm(probe.map[t]) = ValueText

(* The scorers of gold values agree, though they share no code: what the   *)
(* one calls masked is gone, word by word, in the other (strict escape,    *)
(* evaluate_document), and a value covered to the last character, or not   *)
(* at all, is so in the score by overlap.                                  *)
ScorersAgree ==
  probe.about = "gold" =>
    LET located == {r \in ToSet(probe.results) : r.located}
        at(r) == Score!Locate(probe.text, r.m.surface, r.m.occurrence)
    IN /\ \A r \in located : Score!StrictMasked(r.m, AnonOf(probe)) <=> r.masked /\ r.residual = 0
       /\ (\A r \in located : r.covered \in {0, r.total}) =>
            Score!SpanScore({at(r) : r \in located}, probe.spans).recall.n
              = Cardinality({at(r) : r \in {r \in located : r.covered > 0}})

(* The strict panel is flawless only when every case came through: one the *)
(* engine failed on is missed in full, and its terms count as lost.        *)
StrictIsEarned ==
  probe.about = "gold" =>
    LET summary == Score!StrictSummary(<<Score!StrictCase(probe.gold, {AnonOf(probe)}),
                     Score!StrictCase(probe.gold, IF probe.exported THEN {AnonOf(probe)} ELSE {})>>)
    IN summary.recall.n = summary.recall.d \/ (summary.over.d > 0 /\ summary.over.n = 0) => summary.unprocessed = 0

(* The section over real documents is complete only when all that were     *)
(* asked for were measured, a limit or not; and it takes the files in      *)
(* their order, each one taken or named as left out (select_real_pdfs,     *)
(* run_real_section).                                                      *)
RealIsWhole ==
  probe.about = "real" =>
    LET section == Score!RealSection(probe.files, 2, probe.limit, 5)
    IN /\ section.complete => /\ Len(section.taken) = 2 /\ section.summary.errors = 0
                              /\ section.summary.measured + section.summary.empty = 2
       /\ \E k \in 0 .. Len(probe.files) : ToSet(section.taken) \cup section.skipped = 1 .. k
       /\ Len(section.taken) < 2 /\ probe.limit \in {0, 2, 3} =>
            ToSet(section.taken) \cup section.skipped = DOMAIN probe.files

(* A report over documents without gold leaves none out: one that was      *)
(* refused, broke or was skipped is in the count, and two reports of the   *)
(* same runs agree in what was delivered.  Not so in what was empty: one   *)
(* asks the masked text, the other the extracted one, which the            *)
(* destructive mode does not keep, so that there every document counts as  *)
(* empty (operational_metrics, _aggregate).                                *)
CountsAddUp ==
  probe.about = "operate" =>
    LET rows == [k \in DOMAIN probe.ended |-> Score!OperationalRow(probe.ended[k], probe.mode)]
        left == Score!With(rows, "skipped")
        taken == SelectSeq(probe.ended, LAMBDA r : r.end # "skipped")
        report == Score!OperationalMetrics(rows)
        real == Score!Aggregate([k \in DOMAIN taken |-> Score!Outcome(taken[k])], probe.lost)
        sum(by) == Score!Total(SetToSeq(DOMAIN by), LAMBDA k : by[k])
    IN /\ report.documents = Len(probe.ended) /\ sum(report.by) = Len(probe.ended)
       /\ report.processed.n + report.rejected + report.failed + report.errors + Len(left) = Len(probe.ended)
       /\ real.selected = sum(real.by) + probe.lost
       /\ <<report.approved.n, report.review, report.export.n>> = <<real.approved, real.review, real.export>>
       /\ IF probe.mode = "mapping" THEN report.empty <= real.empty
          ELSE report.empty = report.processed.n /\ report.chars = 0 /\ report.ocr = 0

(* The scenarios are spread over the domains: none is taken before another *)
(* domain had its turn, and fewer than asked for only when no other        *)
(* document answers a question (build_scenarios, "alanlar arasi donusumlu"). *)
ScenariosAreSpread ==
  probe.about = "scenarios" =>
    LET rows == {s.row : s \in ToSet(probe.taken)}
    IN /\ rows \subseteq probe.due /\ Cardinality(rows) = Len(probe.taken)
       /\ Len(probe.taken) < probe.n => rows = probe.due
       /\ \A r \in rows, q \in probe.due \ rows : Score!Place(r, probe.rows) <= Score!Place(q, probe.rows)
       /\ \A s \in ToSet(probe.taken) : DOMAIN s.truth \subseteq {"occupation"}

(* What is left of the use of a masked text is a share of what its         *)
(* document could answer: full only when nothing of that was lost, and not *)
(* lowered by what the document never answered; a run that measured no     *)
(* document is unmeasured, not without use (run_mode, inference_metrics).  *)
RetentionIsEarned ==
  probe.about = "utility" =>
    LET mean == Score!Retention(probe.rows)
        measured == {k \in DOMAIN probe.rows : probe.rows[k].result = "processed" /\ probe.base[k] # <<>>}
    IN /\ mean = Score!Unmeasured <=> measured = {}
       /\ mean.n <= mean.d
       /\ measured # {} => (mean.n = mean.d <=>
                              \A k \in measured : ToSet(probe.base[k]) \subseteq ToSet(probe.kept[k]))

(* What can still be told is asked fairly: of what the document says, with *)
(* the right answer among the options once and the wrong ones once each,   *)
(* over a text that has something left; a call that failed told nothing    *)
(* (build_pack, _options_for, run_attack).                                 *)
AskedFairly ==
  probe.about = "attack" =>
    LET pack == PackOf(probe)
        told == Score!AttackSummary(JudgedOf(probe))
        right(item, o) == Score!Norm(o) = Score!Norm(item.truth)
    IN /\ \A item \in ToSet(pack) :
            /\ Len(item.options) <= 3 /\ IsInjective(item.options)
            /\ Cardinality({i \in DOMAIN item.options : right(item, item.options[i])}) = 1
            /\ item.text = probe.texts[item.scenario] /\ item.text # Blank
            /\ item.truth = probe.scenarios[item.scenario].truth[item.attribute]
       /\ Cardinality({<<item.scenario, item.attribute>> : item \in ToSet(pack)}) = Len(pack)
       /\ told.exact.n <= told.top.n /\ told.top.n + told.errors <= told.items

-----------------------------------------------------------------------------
(* Which documents the corpus takes, from what discovery found and from    *)
(* what is usable.                                                         *)

SelectionIsRight ==
  /\ probe.about = "select" => /\ Corp!SelectionIsFair(probe.rows, probe.rules)
                               /\ Corp!SelectionIsDiverse(probe.rows, probe.rules)
  /\ probe.about = "balance" =>
       Corp!BalanceHolds(probe.types, 2, probe.each, probe.unread, {<<1, "pdf">>})

-----------------------------------------------------------------------------
(* What they promise together.                                             *)

(* What a question to chat sends and shows of the documents is theirs: the *)
(* chunks, the excerpts and the citations (chunk_text, excerpt,            *)
(* cited_sources).                                                         *)
SourcesAreExact == ChunksKeepTheText /\ ChunksFit /\ ExcerptIsABeginning /\ CitationsResolve

(* Nothing a reviewer has to see is missing on the screen or the page      *)
(* image, drawn elsewhere, or out of reach of the keys (_Finder.rects,     *)
(* buildSections, buildGroups, segment, step).                             *)
ReviewerSeesAll ==
  /\ MarksAreRight /\ MarksAreWholeWords
  /\ UnitsAreShown /\ DecisionsAreReached /\ AttentionWins /\ ListsAreComplete

(* Where a value has a form of its own, its family follows from the form,  *)
(* whatever stands near it and whoever found it (resolve_spans,            *)
(* valid_tckn, HeuristicAuditor).                                          *)
FormsAreSettled == OneCompletion /\ FamilyIsSettled /\ BareNeedsItsWord /\ BackstopIsMasked

(* What comes from outside, the answer of a model or a settings file       *)
(* edited by hand, is read for all that is good in it and for no more      *)
(* (parse_llm_json, _valid_fields).                                        *)
InputIsReadWell == VerdictIsRead /\ NamedIsNotCleared /\ NamedIsNotKept /\ EntriesFallAlone

(* A gate of the evaluation is passed by what was measured, in full, and   *)
(* by nothing else (evaluate_document, release_gate, _gates_stress).       *)
GatesAreEarned ==
  /\ MentionsApart /\ OpenWordsAreSeen /\ ScoreIsFair /\ GateMeansGone
  /\ LivePassIsLive /\ FailureStands /\ SubsetPassIsWhole
  /\ CanariesAreJudged /\ ModePassIsWhole /\ ScorersAgree /\ StrictIsEarned /\ RealIsWhole
  /\ CountsAddUp /\ ScenariosAreSpread /\ RetentionIsEarned /\ AskedFairly

(* The commands, resumed, killed and run side by side, keep apart what is  *)
(* apart and count nothing twice (check_resume, allocate_run_id,           *)
(* _iter_files, done_ids, select), as Benchmark, Scorecard, Batch and Corpus *)
(* state it.                                                               *)
CommandsAreSafe ==
  /\ Bench!NeverMixed /\ Bench!MeasuredOnce /\ Bench!ZeroIsEarned
  /\ Card!WorksAlone /\ Card!ReportsAreClean /\ Card!CompleteIsWhole
  /\ Folder!OutputsAreTheirs /\ Folder!OwnOutputIsNoInput
  /\ Corp!CorpusIsClean /\ Corp!EachIsMeasuredOnce /\ Corp!ChecksFollowRows /\ Corp!SweepIsEarned
  /\ SelectionIsRight
=============================================================================
