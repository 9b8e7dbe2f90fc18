----------------------------- MODULE Scorecard ------------------------------
(***************************************************************************)
(* The scorecard (evaluation/scorecard.py): one command that runs up to    *)
(* four measurements one after another and writes one report, in a JSON    *)
(* and a Markdown file, under a run id of its own.                         *)
(*                                                                         *)
(* Several people may run it on the same day with the same tag; a process  *)
(* may end at any step.  Of a section the model keeps whether it ended     *)
(* well, whether it measured all it should, and whether a planted value    *)
(* got into what it returned; Scoring has the numbers.                     *)
(***************************************************************************)
EXTENDS Integers, FiniteSets, SequencesExt

CONSTANTS
  Runs,      \* the processes
  Options,   \* per process what it may be started with: llm, limit, real, sections
  Ids        \* 1 is <date>-<tag>, n is <date>-<tag>-<n>

Sections == <<"gold", "strict", "stress", "real">>
LlmSections == {"gold", "stress"}
None == "none"

VARIABLES
  works,    \* the run ids that have a working directory
  reports,  \* per run id the report: its two files, and what the card says
  planted,  \* has the raw-value guard anything to look for
  model,    \* is the language model reachable
  runs
scoreVars == <<works, reports, planted, model, runs>>

NoReport == [json |-> FALSE, md |-> FALSE, raw |-> FALSE, complete |-> FALSE, by |-> None]
NoRun == [step |-> "new", options |-> None, id |-> 0, done |-> <<>>, exit |-> None]

ScoreInit ==
  /\ works = {} /\ reports = [i \in {} |-> NoReport] /\ planted \in BOOLEAN /\ model \in BOOLEAN
  /\ runs = [r \in Runs |-> NoRun]

Exit(r, code) == runs' = [runs EXCEPT ![r].step = "ended", ![r].exit = code]

(* preflight, and the guard's values, before any work. *)
Preflight(r, options) ==
  /\ runs[r].step = "new"
  /\ runs' = [runs EXCEPT ![r] =
       IF (options.llm = "on" /\ options.sections \cap LlmSections # {} /\ ~model) \/ ~planted
       THEN [@ EXCEPT !.step = "ended", !.options = options, !.exit = "setup"]
       ELSE [@ EXCEPT !.step = "allocate", !.options = options]]
  /\ UNCHANGED <<works, reports, planted, model>>

(* allocate_run_id: the first id nobody has used. *)
Allocate(r) ==
  /\ runs[r].step = "allocate"
  /\ \E id \in Ids : /\ id \notin works \cup DOMAIN reports
                     /\ \A i \in 1 .. id - 1 : i \in works \cup DOMAIN reports
                     /\ runs' = [runs EXCEPT ![r].step = "work", ![r].id = id]
  /\ UNCHANGED <<works, reports, planted, model>>

\* Mutant: a directory that exists is taken.
MakeWorkAnyway(r) ==
  /\ runs[r].step = "work"
  /\ works' = works \cup {runs[r].id} /\ runs' = [runs EXCEPT ![r].step = "sections"]
  /\ UNCHANGED <<reports, planted, model>>

(* mkdir raises when another run made it in between. *)
MakeWork(r) ==
  /\ runs[r].step = "work"
  /\ IF runs[r].id \in works THEN Exit(r, "raised") /\ UNCHANGED works
     ELSE works' = works \cup {runs[r].id} /\ runs' = [runs EXCEPT ![r].step = "sections"]
  /\ UNCHANGED <<reports, planted, model>>

Section(name, status, whole, raw) == [name |-> name, status |-> status, whole |-> whole, raw |-> raw]
Wanted(r) == SelectSeq(Sections, LAMBDA s : s \in runs[r].options.sections)

(* _run_one: what a section raises is its result.  With --real 0 there is  *)
(* no real track; a limit leaves out part of every panel, but for a real   *)
(* track that asks for no more.                                            *)
RunSection(r, status, whole, raw) ==
  LET o == runs[r].options
      name == Wanted(r)[Len(runs[r].done) + 1]
      result == IF name = "real" /\ o.real = 0 THEN Section(name, "skipped", FALSE, FALSE)
                ELSE Section(name, status, whole, raw)
  IN /\ runs[r].step = "sections" /\ Len(runs[r].done) < Len(Wanted(r))
     /\ status = "error" => ~whole /\ ~raw
     /\ name \in LlmSections /\ o.llm = "on" /\ ~model => status = "error"
     /\ whole /\ o.limit > 0 => name = "real" /\ o.real <= o.limit
     /\ runs' = [runs EXCEPT ![r].done = Append(@, result)]
     /\ UNCHANGED <<works, reports, planted, model>>

\* Mutant: a section nobody asked for is not missed.
CompleteAsAsked(o, done) ==
  o.limit = 0 /\ \A s \in ToSet(done) : s.status \in {"ok", "skipped"} /\ (s.status = "ok" => s.whole)

(* skipped_sections, assemble. *)
Complete(o, done) ==
  LET skipped == {n \in ToSet(Sections) : \A s \in ToSet(done) : s.name = n => s.status = "skipped"}
  IN o.limit = 0 /\ skipped = {} /\ \A s \in ToSet(done) : s.status = "ok" /\ s.whole

\* Mutant: the report is written without a look at it.
ScanUnasked(r) ==
  /\ runs[r].step = "sections" /\ Len(runs[r].done) = Len(Wanted(r))
  /\ runs' = [runs EXCEPT ![r].step = "write"]
  /\ UNCHANGED <<works, reports, planted, model>>

(* write_outputs: both texts are scanned before there is a directory.      *)
Scan(r) ==
  /\ runs[r].step = "sections" /\ Len(runs[r].done) = Len(Wanted(r))
  /\ IF \E s \in ToSet(runs[r].done) : s.raw THEN Exit(r, "raw")
     ELSE runs' = [runs EXCEPT ![r].step = "write"]
  /\ UNCHANGED <<works, reports, planted, model>>

MakeReport(r) ==
  /\ runs[r].step = "write"
  /\ IF runs[r].id \in DOMAIN reports THEN Exit(r, "raised") /\ UNCHANGED reports
     ELSE /\ reports' = [i \in DOMAIN reports \cup {runs[r].id} |->
                           IF i = runs[r].id THEN [NoReport EXCEPT !.by = r] ELSE reports[i]]
          /\ runs' = [runs EXCEPT ![r].step = "json"]
  /\ UNCHANGED <<works, planted, model>>
WriteJson(r) ==
  /\ runs[r].step = "json"
  /\ reports' = [reports EXCEPT ![runs[r].id].json = TRUE,
                   ![runs[r].id].raw = \E s \in ToSet(runs[r].done) : s.raw,
                   ![runs[r].id].complete = Complete(runs[r].options, runs[r].done)]
  /\ runs' = [runs EXCEPT ![r].step = "md"]
  /\ UNCHANGED <<works, planted, model>>

WriteMarkdown(r) ==
  /\ runs[r].step = "md"
  /\ reports' = [reports EXCEPT ![runs[r].id].md = TRUE]
  /\ Exit(r, IF \E s \in ToSet(runs[r].done) : s.status = "error" THEN "section_error" ELSE "ok")
  /\ UNCHANGED <<works, planted, model>>

Kill(r) ==
  /\ runs[r].step \notin {"new", "ended"} /\ Exit(r, "killed")
  /\ UNCHANGED <<works, reports, planted, model>>
ModelGoes == /\ model /\ model' = FALSE /\ \E r \in Runs : runs[r].step = "sections"
             /\ UNCHANGED <<works, reports, planted, runs>>

ScoreNext ==
  \/ \E r \in Runs :
       \/ \E o \in Options[r] : Preflight(r, o)
       \/ Allocate(r) \/ MakeWork(r)
       \/ \E status \in {"ok", "error"}, whole, raw \in BOOLEAN : RunSection(r, status, whole, raw)
       \/ Scan(r) \/ MakeReport(r) \/ WriteJson(r) \/ WriteMarkdown(r) \/ Kill(r)
  \/ ModelGoes
ScoreSpec == ScoreInit /\ [][ScoreNext]_scoreVars

-----------------------------------------------------------------------------

(* Two runs never work in one directory, and a report is of the run that   *)
(* has its id: none is written over, none is made of two (allocate_run_id, *)
(* "An existing run id is never overwritten").                             *)
WorksAlone ==
  /\ \A r, s \in Runs : r # s /\ runs[r].id = runs[s].id /\ runs[r].id # 0 =>
       ~({runs[r].step, runs[s].step} \subseteq {"sections", "write", "json", "md"})
  /\ \A i \in DOMAIN reports : i \in works /\ runs[reports[i].by].id = i

(* No file of a report holds a planted value, whatever a section returned  *)
(* and wherever the writing was cut (write_outputs).                       *)
ReportsAreClean == \A i \in DOMAIN reports : ~reports[i].raw

(* A report that calls itself complete is of a run without a limit, of all *)
(* four sections, each ended well and measured in full; and the exit code  *)
(* 0 says that both files are there and no section failed (assemble,       *)
(* _execute).                                                              *)
CompleteIsWhole ==
  /\ \A i \in DOMAIN reports : reports[i].complete =>
       LET run == runs[reports[i].by]
       IN /\ run.options.limit = 0
          /\ [k \in DOMAIN run.done |-> run.done[k].name] = Sections
          /\ \A s \in ToSet(run.done) : s.status = "ok" /\ s.whole
  /\ \A r \in Runs : runs[r].exit = "ok" =>
       /\ reports[runs[r].id].json /\ reports[runs[r].id].md
       /\ \A s \in ToSet(runs[r].done) : s.status # "error"
=============================================================================
