----------------------------- MODULE Benchmark ------------------------------
(***************************************************************************)
(* A benchmark run that can be cut and resumed: main and run_mode of       *)
(* goldbench/run_gold.py and goldbench/run_stress.py, with the switch of   *)
(* the language model (llm_flag.py).  One line of a results file for each  *)
(* case; a run skips the cases that have one and appends the rest.         *)
(*                                                                         *)
(* One results directory, where both commands write under the same tag,    *)
(* and one process at a time.  A process may end at any step; a write may  *)
(* end in the middle, when the disk is full.  The model comes and goes.    *)
(* The verdict on a case is "pass", or "critical" when the document was    *)
(* approved with the value in it; a carrier file may be missing, and a     *)
(* document may raise, which the run takes for a result.                   *)
(***************************************************************************)
EXTENDS Integers, SequencesExt

CONSTANTS
  Cases,      \* the corpus, in its order
  MaxStarts   \* how often somebody starts the command

Kinds == {"gold", "stress"}
Modes == {"on", "off"}
None == "none"

VARIABLES
  config,    \* run_config.json: "none", "torn", a mode, or "unmarked" (older than the switch)
  lines,     \* the results files, results.jsonl and stress.jsonl
  model,     \* is the language model reachable
  run,       \* the process
  starts     \* how often it was started
benchVars == <<config, lines, model, run, starts>>

(* A line holds what was written of it: "whole"; "cut" before its end;     *)
(* "bare", all but the line feed; or "merged", of several rows.  Only a    *)
(* line of one whole row can be parsed.                                    *)
Row(case, mode, result) == [case |-> case, mode |-> mode, result |-> result, form |-> "whole"]
Readable == {"whole", "bare"}
Open == {"cut", "bare"}
Rows(kind) == SelectSeq(lines[kind], LAMBDA l : l.form \in Readable)
RowsOf(kind, case) == SelectSeq(Rows(kind), LAMBDA l : l.case = case)
AllRead(kind) == Len(Rows(kind)) = Len(lines[kind])

Idle == [step |-> "idle", kind |-> None, mode |-> None, limit |-> 0, todo |-> <<>>, exit |-> None]

(* done_ids: a line that cannot be parsed is not done. *)
DoneIds(kind) == {l.case : l \in ToSet(Rows(kind))}

(* The file is opened to append: after a line without its line feed the    *)
(* next row goes on in the same line.                                      *)
AppendTo(file, row, form) ==
  IF file # <<>> /\ Last(file).form \in Open \cup {"glued"}
  THEN Append(Front(file), [Last(file) EXCEPT !.form = IF form = "whole" THEN "merged" ELSE "glued"])
  ELSE Append(file, [row EXCEPT !.form = form])

BenchInit ==
  /\ \E older \in {<<>>, <<Row(Cases[1], "off", "pass")>>} :
       /\ lines = [kind \in Kinds |-> IF kind = "gold" THEN older ELSE <<>>]
       /\ config \in IF older = <<>> THEN {None} ELSE {None, "unmarked"}
  /\ model \in BOOLEAN /\ run = Idle /\ starts = 0

Exit(code) == run' = [run EXCEPT !.step = "idle", !.exit = code]

(* main: the switch is checked before anything is read or written.         *)
Start(kind, mode, limit) ==
  /\ run.step = "idle" /\ starts < MaxStarts
  /\ starts' = starts + 1
  /\ run' = IF mode = "on" /\ ~model THEN [Idle EXCEPT !.exit = "2"]
            ELSE [Idle EXCEPT !.step = "check", !.kind = kind, !.mode = mode, !.limit = limit]
  /\ UNCHANGED <<config, lines, model>>

\* Mutant: rows without a recorded mode are anybody's.
ResumableUnmarked(mode) == config \in {None, mode} \/ (config = "unmarked" /\ mode = "off")

(* check_resume.  Rows of before the switch were the heuristic auditor's.  *)
Resumable(mode) ==
  CASE config = "torn" -> FALSE
    [] config = "unmarked" -> mode = "off"
    [] config \in Modes -> config = mode
    [] config = None -> mode = "off" \/ \A kind \in Kinds : lines[kind] = <<>>

CheckResume ==
  /\ run.step = "check"
  /\ IF Resumable(run.mode) THEN run' = [run EXCEPT !.step = "config"] ELSE Exit("2")
  /\ UNCHANGED <<config, lines, model, starts>>

(* run_config.json is rewritten in place: it is empty for a while. *)
TruncateConfig ==
  /\ run.step = "config"
  /\ config' = "torn" /\ run' = [run EXCEPT !.step = "configured"]
  /\ UNCHANGED <<lines, model, starts>>
WriteConfig ==
  /\ run.step = "configured"
  /\ config' = run.mode /\ run' = [run EXCEPT !.step = "open"]
  /\ UNCHANGED <<lines, model, starts>>

\* Mutant: what is done is not asked for.
TodoOfAll(kind, limit) ==
  LET upTo(s) == IF limit = 0 THEN s ELSE SubSeq(s, 1, Min({limit, Len(s)}))
  IN upTo(Cases)

(* What is left to do: of the first cases (stress), or the first of what   *)
(* is left (gold).                                                         *)
Todo(kind, limit) ==
  LET upTo(s) == IF limit = 0 THEN s ELSE SubSeq(s, 1, Min({limit, Len(s)}))
      left(s) == SelectSeq(s, LAMBDA c : c \notin DoneIds(kind))
  IN IF kind = "stress" THEN left(upTo(Cases)) ELSE upTo(left(Cases))

(* run_mode: the model is asked for again, and no handler is left. *)
OpenRun ==
  /\ run.step = "open"
  /\ run' = IF run.mode = "on" /\ ~model THEN [run EXCEPT !.step = "idle", !.exit = "raised"]
            ELSE [run EXCEPT !.step = "rows", !.todo = Todo(run.kind, run.limit)]
  /\ UNCHANGED <<config, lines, model, starts>>

(* A model that is gone fails the audit, and nothing is approved.          *)
Results == (IF run.kind = "gold" THEN {"missing_carrier", "error"} ELSE {"error"})
             \cup (IF run.mode = "on" /\ ~model THEN {"pass"} ELSE {"pass", "critical"})
ProcessCase(result) ==
  /\ run.step = "rows" /\ run.todo # <<>> /\ result \in Results
  /\ lines' = [lines EXCEPT ![run.kind] = AppendTo(@, Row(Head(run.todo), run.mode, result), "whole")]
  /\ run' = [run EXCEPT !.todo = Tail(run.todo)]
  /\ UNCHANGED <<config, model, starts>>

DiskFull(result, form) ==
  /\ run.step = "rows" /\ run.todo # <<>> /\ result \in Results
  /\ lines' = [lines EXCEPT ![run.kind] = AppendTo(@, Row(Head(run.todo), run.mode, result), form)]
  /\ Exit("raised")
  /\ UNCHANGED <<config, model, starts>>

CriticalRows == {l \in ToSet(Rows("stress")) : l.result = "critical"}

\* Mutant: the lines that cannot be parsed are passed over.
SummarizeLenient ==
  /\ run.step = "rows" /\ run.todo = <<>>
  /\ Exit(IF run.kind = "stress" /\ CriticalRows # {} THEN "1" ELSE "0")
  /\ UNCHANGED <<config, lines, model, starts>>

(* The gold run ends; the stress run reads its file back, every line, and  *)
(* its exit code is the gate.                                              *)
Summarize ==
  /\ run.step = "rows" /\ run.todo = <<>>
  /\ Exit(IF run.kind = "gold" THEN "0" ELSE IF ~AllRead("stress") THEN "raised"
          ELSE IF CriticalRows # {} THEN "1" ELSE "0")
  /\ UNCHANGED <<config, lines, model, starts>>

Die ==
  /\ run.step # "idle" /\ Exit("killed")
  /\ UNCHANGED <<config, lines, model, starts>>
ModelTurns ==
  /\ run.step # "idle" /\ model' = ~model
  /\ UNCHANGED <<config, lines, run, starts>>

BenchNext ==
  \/ \E kind \in Kinds, mode \in Modes, limit \in 0 .. 1 : Start(kind, mode, limit)
  \/ CheckResume \/ TruncateConfig \/ WriteConfig \/ OpenRun
  \/ \E result \in {"missing_carrier", "error", "pass", "critical"} :
       ProcessCase(result) \/ \E form \in Open : DiskFull(result, form)
  \/ Summarize \/ Die \/ ModelTurns
BenchSpec == BenchInit /\ [][BenchNext]_benchVars

-----------------------------------------------------------------------------

(* Rows of the two modes are never in one directory, nor under the name of *)
(* the other (check_resume: "would silently mix LLM and non-LLM rows").    *)
NeverMixed ==
  LET rows == ToSet(Rows("gold")) \cup ToSet(Rows("stress"))
  IN /\ \A k, l \in rows : k.mode = l.mode
     /\ \A l \in rows : config \in Modes => l.mode = config

(* However often it is cut and resumed, a case is measured once: its row   *)
(* is there at most once, and it is there when the run over the whole      *)
(* corpus has ended and all lines can be parsed (done_ids, run_mode).      *)
MeasuredOnce ==
  /\ \A kind \in Kinds, c \in ToSet(Cases) : Len(RowsOf(kind, c)) <= 1
  /\ run.exit \in {"0", "1"} /\ run.limit = 0 /\ AllRead(run.kind) =>
       \A c \in ToSet(Cases) : Len(RowsOf(run.kind, c)) = 1

(* The exit code 0 of the stress command is a release gate: every case was *)
(* measured, in this run or before, and none was approved with its value   *)
(* in it; a row that was cut in the middle is never passed over            *)
(* (run_stress.main, summarize).                                           *)
ZeroIsEarned ==
  run.kind = "stress" /\ run.exit = "0" /\ run.limit = 0 =>
    \A c \in ToSet(Cases) : \E l \in ToSet(Rows("stress")) : l.case = c /\ l.result # "critical"
=============================================================================
