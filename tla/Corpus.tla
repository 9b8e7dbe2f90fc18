------------------------------ MODULE Corpus --------------------------------
(***************************************************************************)
(* The benchmark over real filings (evaluation/corpus_bist10): fetch.py    *)
(* downloads a selection and writes its manifest, run_bench.py measures    *)
(* what the manifest calls usable, document by document, and sweeps the    *)
(* storage for planted values at the end.  Both are cut and started again. *)
(*                                                                         *)
(* One command at a time, in destructive mode: the mapping mode has a      *)
(* storage and results of its own and no sweep.  The language model's      *)
(* switch, run_config.json and torn result lines are those of Benchmark.   *)
(* A row written to a results file is held in the buffer of the process    *)
(* until it is flushed; of what is held, a kill leaves a beginning.        *)
(***************************************************************************)
EXTENDS Integers, FiniteSets, SequencesExt

CONSTANTS
  Picks,        \* the selection, in its order
  Planted,      \* the values the plan of each document's format has
  Injectable,   \* the documents of a format that values can be planted in
  MaxCommands   \* bound on the commands given

Docs == ToSet(Picks)

----------------------------------------------------------------------------
(* Which documents are taken: select of fetch.py from what discovery found, *)
(* select_30 of build_balanced.py from what is usable.  A row has numbers   *)
(* where the source compares strings; url 0 is a row without one.           *)

TextForms == {"pdf", "docx", "doc"}
FormRank == [pdf |-> 0, docx |-> 1, doc |-> 2, xlsx |-> 3, xls |-> 4]
Eligible(row, rules) == /\ row.url # 0 /\ row.access \in {"ok", "unverified"}
                        /\ rules.text => row.form \in TextForms
                        /\ row.size <= rules.size
\* Of the rows of one address the first eligible one.
Pool(rows, rules) ==
  LET first(k) == Eligible(rows[k], rules)
                  /\ \A j \in 1..(k - 1) : rows[j].url = rows[k].url => ~Eligible(rows[j], rules)
  IN {rows[k] : k \in {k \in DOMAIN rows : first(k)}}
LexLess(a, b) == \E k \in DOMAIN a : a[k] < b[k] /\ \A j \in 1..(k - 1) : a[j] = b[j]
Before(a, b) == LexLess(<<FormRank[a.form], a.type, a.name, a.url>>, <<FormRank[b.form], b.type, b.name, b.url>>)

\* Mutant: the best documents first, whosever they are.
SelectBest(rows, rules) ==
  LET sorted == SetToSortSeq(Pool(rows, rules), Before)
  IN SubSeq(sorted, 1, Min({rules.docs, Len(sorted)}))

\* In turns: every company's first, then every company's second, and so on.
Select(rows, rules) ==
  LET pool == Pool(rows, rules)
      place(r) == Cardinality({q \in pool : q.co = r.co /\ Before(q, r)})
      turns == SetToSortSeq({r \in pool : place(r) < rules.company},
                 LAMBDA a, b : LexLess(<<place(a), a.co>>, <<place(b), b.co>>))
  IN SubSeq(turns, 1, Min({rules.docs, Len(turns)}))

\* No company has two documents more than another one that still has some, and
\* what is taken does not hang on the order in which discovery wrote it.
SelectionIsFair(rows, rules) ==
  LET taken == Select(rows, rules)
      pool == Pool(rows, rules)
      of(co) == {r \in ToSet(taken) : r.co = co}
      left(co) == {r \in pool \ ToSet(taken) : r.co = co}
  IN /\ \A a, b \in {r.co : r \in pool} :
          Cardinality(of(a)) > Cardinality(of(b)) + 1 => left(b) = {}
     /\ Len(taken) = rules.docs \/ \A r \in pool \ ToSet(taken) : Cardinality(of(r.co)) = rules.company
     /\ (\A i, j \in DOMAIN rows : rows[i].url = rows[j].url => i = j)
          => Select(Reverse(rows), rules) = taken

\* _select of bist30/real_bench.py: a few tables first, then the smallest document of
\* each company; one address once.
SelectDiverse(rows, rules) ==
  LET ok(k) == rows[k].access = "ok" /\ rows[k].url # 0
      of(form) == SetToSortSeq({k \in DOMAIN rows : ok(k) /\ rows[k].form = form}, <)
      sheets == of("xlsx") \o of("xls")
      pdf == {k \in ToSet(of("pdf")) : rows[k].size <= rules.size}
      rank(k) == <<IF rows[k].size = 0 THEN rules.size + 1 ELSE rows[k].size, k>>
      least == {k \in pdf : \A j \in pdf : rows[j].co = rows[k].co => ~LexLess(rank(j), rank(k))}
      sorted == SetToSortSeq(least, LAMBDA a, b : LexLess(rank(a), rank(b)))
      chosen == SubSeq(sheets, 1, Min({rules.company, Len(sheets)}))
                  \o SubSeq(sorted, 1, Min({rules.docs, Len(sorted)}))
      once(i) == \A j \in 1..(i - 1) : rows[chosen[j]].url # rows[chosen[i]].url
      kept == SetToSortSeq({i \in DOMAIN chosen : once(i)}, <)
  IN [i \in DOMAIN kept |-> rows[chosen[kept[i]]]]

\* Every company with a document small enough is there, or as many as asked for,
\* each with no larger a document than its smallest.
SelectionIsDiverse(rows, rules) ==
  LET taken == SelectDiverse(rows, rules)
      pdf == {r \in ToSet(taken) : r.form = "pdf"}
      due == {r \in ToSet(rows) : Eligible(r, rules) /\ r.access = "ok" /\ r.form = "pdf" /\ r.size > 0}
  IN /\ \A i, j \in DOMAIN taken : taken[i].url = taken[j].url => i = j
     /\ \A r, q \in pdf : r.co = q.co => r = q
     /\ \A r \in pdf, q \in due : q.co = r.co => r.size # 0 /\ r.size <= q.size
     /\ (\A i, j \in DOMAIN rows : rows[i].url = rows[j].url => rows[i] = rows[j]) =>
          Cardinality(pdf) = rules.docs \/ {q.co : q \in due} \subseteq {r.co : r \in pdf}

\* The usable documents, in the order of their ids, as the sequence of their types.
SizeOf(types, t) == Cardinality({k \in DOMAIN types : types[k] = t})
TopTypes(types, many) ==
  LET all == SetToSortSeq(ToSet(types), LAMBDA a, b : LexLess(<<-SizeOf(types, a), a>>, <<-SizeOf(types, b), b>>))
  IN SubSeq(all, 1, Min({many, Len(all)}))
Select30(types, many, each) ==
  LET of(t) == SetToSortSeq({k \in DOMAIN types : types[k] = t}, <)
      some(t) == SubSeq(of(t), 1, Min({each, Len(of(t))}))
      top == TopTypes(types, many)
  IN FlattenSeq([k \in DOMAIN top |-> some(top[k])])
\* build: a source that cannot be read is one line of the manifest, any other one
\* for each format, written or not.
Carriers == {"pdf", "docx", "xlsx"}
Build(sources, unread, unwritten) ==
  UNION {IF k \in unread THEN {[source |-> k, form |-> "none", ok |-> FALSE]}
         ELSE {[source |-> k, form |-> f, ok |-> <<k, f>> \notin unwritten] : f \in Carriers} :
           k \in ToSet(sources)}
\* The documents of a format are those of any other, unless one could not be
\* written, and which ones they are the manifest of the sources decides.
BalanceHolds(types, many, each, unread, unwritten) ==
  LET sources == Select30(types, many, each)
      built == Build(sources, unread, unwritten)
      of(f) == {e.source : e \in {e \in built : e.form = f /\ e.ok}}
  IN /\ IsInjective(sources) /\ {e.source : e \in built} = ToSet(sources)
     /\ \A f, g \in Carriers : of(f) \ of(g) \subseteq {u[1] : u \in unwritten}
     /\ \A k \in DOMAIN types \ ToSet(sources) :
          \/ Cardinality({j \in ToSet(sources) : types[j] = types[k]}) = each
          \/ \A j \in ToSet(sources) : SizeOf(types, types[j]) >= SizeOf(types, types[k])

----------------------------------------------------------------------------
VARIABLES
  bytes,     \* what the whole file of each document holds; twins hold the same
  raw,       \* the files: "none", "part", "page" (an error page) or "whole"
  listed,    \* corpus_manifest.jsonl
  tables,    \* operational.jsonl, canary.jsonl and mode_checks.jsonl
  sweep,     \* d1_sweep.json
  store,     \* the planted values that stand somewhere in the storage tree
  proc,      \* the command under way
  commands,  \* how many were given
  cut,       \* history: documents whose download did not end
  killed     \* history: a command was killed
corpusVars == <<bytes, raw, listed, tables, sweep, store, proc, commands, cut, killed>>

Tracks == {"operational", "canary"}
TrackChoices == Tracks \cup {"both"}
Row(d, result) == [doc |-> d, result |-> result]
NoRows == [rows |-> <<>>, checks |-> <<>>]
Resting == [step |-> "idle", at |-> 1, rows |-> <<>>, status |-> "none", docs |-> <<>>,
            todo |-> <<>>, held |-> NoRows, values |-> {}, exit |-> "none",
            choice |-> "both", limit |-> 0, canaries |-> 0]

CorpusInit ==
  /\ bytes \in {[d \in Docs |-> "A"], [d \in Docs |-> d]}
  /\ raw = [d \in Docs |-> "none"] /\ listed = [torn |-> FALSE, rows |-> <<>>]
  /\ tables = [operational |-> <<>>, canary |-> <<>>, checks |-> <<>>]
  /\ sweep = [form |-> "none", values |-> {}] /\ store = {}
  /\ proc = Resting /\ commands = 0 /\ cut = {} /\ killed = FALSE

Ends(code) == proc' = [proc EXCEPT !.step = "idle", !.at = 1, !.rows = <<>>, !.status = "none",
                                   !.todo = <<>>, !.held = NoRows, !.exit = code]

----------------------------------------------------------------------------
(* fetch.py                                                                *)

FetchStart ==
  /\ proc.step = "idle" /\ commands < MaxCommands /\ commands' = commands + 1
  /\ proc' = [Resting EXCEPT !.step = "download"]
  /\ UNCHANGED <<bytes, raw, listed, tables, sweep, store, cut, killed>>

\* A document whose file is there is not downloaded again.  A timeout leaves what
\* came so far, any other failure of the download nothing.
Download(comes) ==
  /\ proc.step = "download" /\ proc.at <= Len(Picks)
  /\ LET d == Picks[proc.at]
         there == raw[d] # "none"
     IN /\ there => comes = "whole"
        /\ raw' = IF there THEN raw ELSE [raw EXCEPT ![d] = comes]
        /\ cut' = IF ~there /\ comes = "part" THEN cut \cup {d} ELSE cut
        /\ proc' = [proc EXCEPT !.step = "judge",
                      !.status = IF comes \in {"whole", "page"} THEN "ok" ELSE "failed"]
  /\ UNCHANGED <<bytes, listed, tables, sweep, store, commands, killed>>

\* The hash of a file: twins that came whole have the same.
Hash(d) == IF raw[d] = "whole" THEN <<"whole", bytes[d]>> ELSE <<raw[d], d>>
HashesOf(rows) == {Hash(Picks[k]) : k \in {i \in DOMAIN rows : rows[i] = "ok"}}

\* Mutant: what was downloaded is not looked at.
ValidityUnchecked(d) == IF proc.status # "ok" THEN "download_failed"
                        ELSE IF Hash(d) \in HashesOf(proc.rows) THEN "duplicate" ELSE "ok"

\* Mutant: every file is a document of its own.
ValidityAlone(d) == IF proc.status # "ok" THEN "download_failed"
                    ELSE IF raw[d] = "page" THEN "html_not_document" ELSE "ok"

\* validate looks at the first bytes only: the beginning of a document passes.
Validity(d) == CASE proc.status # "ok" -> "download_failed"
                 [] proc.status = "ok" /\ Hash(d) \in HashesOf(proc.rows) -> "duplicate"
                 [] OTHER -> IF raw[d] = "page" THEN "html_not_document" ELSE "ok"

Judge ==
  /\ proc.step = "judge"
  /\ LET d == Picks[proc.at]  v == Validity(d)
     IN /\ raw' = IF v = "duplicate" THEN [raw EXCEPT ![d] = "none"] ELSE raw
        /\ proc' = [proc EXCEPT !.step = "download", !.at = @ + 1, !.rows = Append(@, v)]
  /\ UNCHANGED <<bytes, listed, tables, sweep, store, commands, cut, killed>>

\* The manifest is written in place, when all documents are done: a kill leaves a
\* beginning of it, that may end in the middle of a line.
TruncateManifest ==
  /\ proc.step = "download" /\ proc.at > Len(Picks)
  /\ listed' = [torn |-> FALSE, rows |-> <<>>] /\ proc' = [proc EXCEPT !.step = "manifest"]
  /\ UNCHANGED <<bytes, raw, tables, sweep, store, commands, cut, killed>>
WriteManifest ==
  /\ proc.step = "manifest"
  /\ listed' = [torn |-> FALSE, rows |-> proc.rows] /\ Ends("0")
  /\ UNCHANGED <<bytes, raw, tables, sweep, store, commands, cut, killed>>

----------------------------------------------------------------------------
(* run_bench.py                                                            *)

\* load_corpus: the rows that are ok and whose file is there.
LoadCorpus == LET ok(d) == \E k \in DOMAIN listed.rows : /\ Picks[k] = d /\ listed.rows[k] = "ok"
                                                        /\ raw[d] # "none"
              IN SelectSeq(Picks, ok)

\* Mutant: a document may be measured again.
TodoAgain(track, docs) == docs

DoneIds(track) == {r.doc : r \in ToSet(tables[track])}
Todo(track, docs) == SelectSeq(docs, LAMBDA d : d \notin DoneIds(track))

First(docs, n) == SubSeq(docs, 1, Min({n, Len(docs)}))

\* Mutant: the limit of the one track is the other's too.
UptoBoth(track, p) == First(p.docs, 1)

\* --limit is about the operational track, where 0 is no limit; the canaries have a
\* limit of their own, on the documents something can be planted in.
Upto(track, p) ==
  IF track = "canary" THEN First(SelectSeq(p.docs, LAMBDA d : d \in Injectable), p.canaries)
  ELSE IF p.limit > 0 THEN First(p.docs, p.limit) ELSE p.docs

\* _run_one_mode: the results files of a track are opened to append.
Track(p, track) == [p EXCEPT !.step = track, !.held = NoRows, !.todo = Todo(track, Upto(track, p))]

BenchStart(choice, limit, canaries) ==
  /\ proc.step = "idle" /\ commands < MaxCommands /\ commands' = commands + 1
  /\ LET p == [Resting EXCEPT !.docs = LoadCorpus, !.choice = choice, !.limit = limit,
                              !.canaries = canaries]
     IN proc' = IF listed.torn THEN [p EXCEPT !.exit = "raised"]
                ELSE IF p.docs = <<>> THEN [p EXCEPT !.exit = "1"]
                ELSE Track(p, IF choice = "canary" THEN "canary" ELSE "operational")
  /\ UNCHANGED <<bytes, raw, listed, tables, sweep, store, cut, killed>>

Held(row, checks) == [rows |-> Append(proc.held.rows, row), checks |-> proc.held.checks \o checks]
Flushed(file) == [tables EXCEPT ![file] = @ \o proc.held.rows]

\* run_operational: a document too large is named, and its row not flushed.  One
\* that is rejected, or that raises, has a row like any other.
Operate(result) ==
  /\ proc.step = "operational" /\ proc.todo # <<>>
  /\ LET row == Row(Head(proc.todo), result)
     IN IF result = "skipped"
        THEN /\ proc' = [proc EXCEPT !.todo = Tail(@), !.held = Held(row, <<>>)]
             /\ UNCHANGED tables
        ELSE /\ proc' = [proc EXCEPT !.todo = Tail(@), !.held = NoRows]
             /\ tables' = [tables EXCEPT !.operational = @ \o Held(row, <<>>).rows]
  /\ UNCHANGED <<bytes, raw, listed, sweep, store, commands, cut, killed>>

CloseOperational ==
  /\ proc.step = "operational" /\ proc.todo = <<>>
  /\ tables' = Flushed("operational")
  /\ IF proc.choice = "both" THEN proc' = Track(proc, "canary") ELSE Ends("0")
  /\ UNCHANGED <<bytes, raw, listed, sweep, store, commands, cut, killed>>

\* run_canary: the values are planted, the document is processed, what it leaves
\* in the storage tree stays there, and the mode is checked.  An error may come
\* before the values are planted; a document nothing can be planted in is like
\* one that is skipped.
Plant(result, planted, left) ==
  /\ proc.step = "canary" /\ proc.todo # <<>>
  /\ LET d == Head(proc.todo)
         check == IF result = "processed" THEN <<d>> ELSE <<>>
     IN /\ planted \in (CASE result = "skipped" -> {{}} [] result = "processed" -> {Planted[d]}
                          [] OTHER -> {{}, Planted[d]})
        /\ left \subseteq planted /\ store' = store \cup left
        /\ proc' = [proc EXCEPT !.todo = Tail(@), !.values = @ \cup planted,
                      !.held = Held(Row(d, result), check),
                      !.step = IF result = "skipped" THEN "canary" ELSE "flush rows"]
  /\ UNCHANGED <<bytes, raw, listed, tables, sweep, commands, cut, killed>>

\* A row is flushed before its check; at the end the checks are closed first.
Closing == proc.step = "canary" /\ proc.todo = <<>>
FlushRows ==
  /\ proc.step \in {"flush rows", "close rows"}
  /\ tables' = Flushed("canary")
  /\ proc' = [proc EXCEPT !.held.rows = <<>>,
                !.step = IF proc.step = "flush rows" THEN "flush checks" ELSE "sweep"]
  /\ UNCHANGED <<bytes, raw, listed, sweep, store, commands, cut, killed>>
FlushChecks ==
  /\ proc.step = "flush checks" \/ Closing
  /\ tables' = [tables EXCEPT !.checks = @ \o proc.held.checks]
  /\ proc' = [proc EXCEPT !.held.checks = <<>>, !.step = IF Closing THEN "close rows" ELSE "canary"]
  /\ UNCHANGED <<bytes, raw, listed, sweep, store, commands, cut, killed>>

\* full_tree_pii_sweep: of the values those that stand in some file of the tree.
Hits(values) == values \cap store

\* Mutant: only a run that found something writes its file.
SweepsHitsOnly ==
  /\ proc.step = "sweep"
  /\ sweep' = IF Hits(proc.values) = {} THEN sweep
              ELSE [form |-> "hits", values |-> proc.values]
  /\ Ends("0")
  /\ UNCHANGED <<bytes, raw, listed, tables, store, commands, cut, killed>>

\* The sweep of the whole tree for the values of this run; none if it planted none.
Sweep ==
  /\ proc.step = "sweep"
  /\ sweep' = IF proc.values = {} THEN sweep
              ELSE [form |-> IF Hits(proc.values) = {} THEN "clean" ELSE "hits",
                    values |-> proc.values]
  /\ Ends("0")
  /\ UNCHANGED <<bytes, raw, listed, tables, store, commands, cut, killed>>

----------------------------------------------------------------------------

\* A kill: a download stops in the middle, and of what is held a beginning is
\* in the file.
FileOf == IF proc.step = "operational" THEN "operational" ELSE "canary"
Killed(rows, checks) ==
  /\ proc.step # "idle"
  /\ rows \in 0..Len(proc.held.rows) /\ checks \in 0..Len(proc.held.checks)
  /\ tables' = [tables EXCEPT ![FileOf] = @ \o SubSeq(proc.held.rows, 1, rows),
                              !.checks = @ \o SubSeq(proc.held.checks, 1, checks)]
  /\ \/ UNCHANGED <<raw, cut>>
     \/ /\ proc.step = "download" /\ proc.at <= Len(Picks) /\ raw[Picks[proc.at]] = "none"
        /\ raw' = [raw EXCEPT ![Picks[proc.at]] = "part"] /\ cut' = cut \cup {Picks[proc.at]}
  /\ \/ UNCHANGED listed
     \/ proc.step = "manifest" /\ \E k \in DOMAIN proc.rows, torn \in BOOLEAN :
          listed' = [torn |-> torn, rows |-> SubSeq(proc.rows, 1, IF torn THEN k - 1 ELSE k)]
  /\ killed' = TRUE /\ Ends("killed")
  /\ UNCHANGED <<bytes, sweep, store, commands>>

Fetch == \/ FetchStart \/ Judge \/ TruncateManifest \/ WriteManifest
         \/ \E comes \in {"none", "part", "page", "whole"} : Download(comes)
Measure ==
  \/ \E choice \in TrackChoices, limit, canaries \in 0..1 : BenchStart(choice, limit, canaries)
  \/ \E result \in {"skipped", "processed", "rejected"} : Operate(result)
  \/ \E result \in {"skipped", "processed", "error"} : \E planted \in {{}} \cup {Planted[d] : d \in Docs} :
       \E left \in SUBSET planted : Plant(result, planted, left)
  \/ CloseOperational \/ FlushRows \/ FlushChecks \/ Sweep
CorpusNext == Fetch \/ Measure \/ \E rows, checks \in 0..Len(Picks) : Killed(rows, checks)

CorpusSpec == CorpusInit /\ [][CorpusNext]_corpusVars

----------------------------------------------------------------------------
Finished(command) == /\ proc.step = "idle" /\ proc.exit = "0"
                     /\ (proc.docs = <<>>) = (command = "fetch")
Of(rows, d) == {k \in DOMAIN rows : rows[k].doc = d}

\* No text is in the corpus twice, and what a fetch that ended calls usable is a
\* whole document, unless its download was cut: an error page never is, a
\* beginning is taken for the whole when the command is given again (fetch.main).
CorpusIsClean ==
  /\ \A i, j \in DOMAIN LoadCorpus : Hash(LoadCorpus[i]) = Hash(LoadCorpus[j]) => i = j
  /\ Finished("fetch") => \A d \in ToSet(LoadCorpus) : raw[d] = "whole" \/ d \in cut

\* However often it is killed and started again, a benchmark measures no document
\* twice in a track, and one that ended has measured all that its track and its
\* limits asked for (done_ids, run_operational, run_canary).
EachIsMeasuredOnce ==
  /\ \A track \in Tracks, d \in Docs : Cardinality(Of(tables[track], d)) <= 1
  /\ Finished("benchmark") =>
       \A track \in {t \in Tracks : proc.choice \in {t, "both"}}, k \in DOMAIN proc.docs :
         LET before == {j \in 1..k : proc.docs[j] \in Injectable}
             due == IF track = "canary" THEN k \in before /\ Cardinality(before) <= proc.canaries
                    ELSE proc.limit = 0 \/ k <= proc.limit
         IN due => Of(tables[track], proc.docs[k]) # {}

\* Without a kill every processed document has one check of its mode; with one the
\* check of a document that has its row may be lost for good.
ChecksFollowRows ==
  proc.step = "idle" /\ ~killed =>
    tables.checks = [k \in DOMAIN SelectSeq(tables.canary, LAMBDA r : r.result = "processed") |->
                       SelectSeq(tables.canary, LAMBDA r : r.result = "processed")[k].doc]

\* Who planted values has swept for them: a clean sweep says that none of the values
\* of the last run is left, wherever an earlier run left it (full_tree_pii_sweep).
SweepIsEarned ==
  Finished("benchmark") /\ proc.values # {} =>
    (sweep.form = "clean") = (proc.values \cap store = {}) /\ sweep.values = proc.values
=============================================================================
