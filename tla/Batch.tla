------------------------------- MODULE Batch --------------------------------
(***************************************************************************)
(* The command that masks a folder (cli/anonymize_path.py): each file of   *)
(* the tree goes through the pipeline, the approved ones are written as    *)
(* PDFs under a masked name, and a manifest says at the end what became of *)
(* each.  The output folder lies inside the tree, and the command may be   *)
(* run again, or killed at any step.                                       *)
(*                                                                         *)
(* A name is a sequence, its stem and the number behind it, so that a      *)
(* masked name and a numbered one may be the same.  Of an output the model *)
(* keeps which file it was made of, and in which run.  The file system     *)
(* tells upper from lower case.                                            *)
(***************************************************************************)
EXTENDS Integers, SequencesExt

CONSTANTS
  Files,    \* the files of the tree with their masked names, in its order
  MaxRuns   \* how often the command is started

NoName == <<>>
Torn == [of |-> 0, run |-> 0]

VARIABLES
  out,       \* the output folder: name -> what the PDF is of
  manifest,  \* the rows of _manifest.json
  batch      \* the process
batchVars == <<out, manifest, batch>>

Idle == [step |-> "idle", runs |-> 0, todo |-> <<>>, used |-> {}, rows |-> <<>>]
BatchInit == out = [n \in {} |-> Torn] /\ manifest = <<>> /\ batch = Idle

(* The tree holds the outputs of earlier runs too, as files like others. *)
Tree == [k \in DOMAIN Files |-> [name |-> Files[k], dir |-> "tree", id |-> k]]
        \o [k \in 1 .. Cardinality(DOMAIN out) |->
              [name |-> SetToSeq(DOMAIN out)[k], dir |-> "out", id |-> Len(Files) + k]]

\* Mutant: every file is one of the user's.
IterFilesAll == Tree

(* _iter_files: nothing of the output folder. *)
IterFiles == SelectSeq(Tree, LAMBDA f : f.dir # "out")

Start ==
  /\ batch.step = "idle" /\ batch.runs < MaxRuns
  /\ batch' = [step |-> "files", runs |-> batch.runs + 1, todo |-> IterFiles, used |-> {}, rows |-> <<>>]
  /\ UNCHANGED <<out, manifest>>

\* Mutant: a second number is always free.
OutputNameSecond(safe) == IF safe \in batch.used THEN Append(safe, 2) ELSE safe

(* The masked name, or the first number behind it that is free in this run. *)
OutputName(safe) ==
  IF safe \notin batch.used THEN safe
  ELSE Append(safe, CHOOSE k \in 2 .. Cardinality(batch.used) + 2 :
                      /\ Append(safe, k) \notin batch.used
                      /\ \A j \in 2 .. k - 1 : Append(safe, j) \in batch.used)

Ended(row) == batch' = [batch EXCEPT !.todo = Tail(@), !.rows = Append(@, row)]
Row(status, output) == [of |-> Head(batch.todo).id, status |-> status, output |-> output]

(* Too large, not approved, or it raised before there was a name. *)
NoOutput(status) ==
  /\ batch.step = "files" /\ batch.todo # <<>>
  /\ status \in {"skipped", "review", "failed"}
  /\ Ended(Row(status, NoName))
  /\ UNCHANGED <<out, manifest>>

(* The document is approved; the write opens the file, and may fail.       *)
Write(ok) ==
  /\ batch.step = "files" /\ batch.todo # <<>>
  /\ LET file == Head(batch.todo)
         name == OutputName(file.name)
         pdf == IF ok THEN [of |-> file.id, run |-> batch.runs] ELSE Torn
     IN /\ out' = [n \in DOMAIN out \cup {name} |-> IF n = name THEN pdf ELSE out[n]]
        /\ batch' = [batch EXCEPT !.todo = Tail(@), !.used = @ \cup {name},
                       !.rows = Append(@, Row(IF ok THEN "ok" ELSE "failed", name))]
  /\ UNCHANGED manifest

WriteManifest ==
  /\ batch.step = "files" /\ batch.todo = <<>>
  /\ manifest' = batch.rows /\ batch' = [batch EXCEPT !.step = "idle"]
  /\ UNCHANGED out

Kill == batch.step = "files" /\ batch' = [batch EXCEPT !.step = "idle"] /\ UNCHANGED <<out, manifest>>

BatchNext ==
  \/ Start \/ WriteManifest \/ Kill
  \/ \E status \in {"skipped", "review", "failed"} : NoOutput(status)
  \/ \E ok \in BOOLEAN : Write(ok)
BatchSpec == BatchInit /\ [][BatchNext]_batchVars

-----------------------------------------------------------------------------

(* While a run writes, and when it has ended, the PDF behind each row "ok" *)
(* is of the file of that row and of this run: no two files share a name,  *)
(* a masked name that looks like a numbered one included (main, used).     *)
OutputsAreTheirs ==
  \A row \in ToSet(batch.rows) : row.status = "ok" => out[row.output] = [of |-> row.of, run |-> batch.runs]

(* However often it is run, the command never takes what it wrote for a    *)
(* file of the user: the manifest lists the files of the tree, each at     *)
(* most once (_iter_files: "never re-ingest our own output tree").         *)
OwnOutputIsNoInput ==
  \A rows \in {manifest, batch.rows} :
    /\ \A row \in ToSet(rows) : row.of \in DOMAIN Files
    /\ \A i, j \in DOMAIN rows : i # j => rows[i].of # rows[j].of
=============================================================================
