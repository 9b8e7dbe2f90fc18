----------------------------- MODULE CliProcess -----------------------------
(***************************************************************************)
(* One child process under a deadline: backend/app/chat/cli_process.py.    *)
(*                                                                         *)
(* The caller's thread writes the standard input, reads both output pipes  *)
(* through one selector and, whatever happens, kills the process group in  *)
(* the end.  The child and what it leaves behind in its group are the      *)
(* environment: they read or do not, write what they like, close a pipe,   *)
(* fork, exit, or hang.  Time is one bit: the deadline has passed or not.  *)
(* Data is counted in chunks: what one os.read or os.write moves.          *)
(***************************************************************************)
EXTENDS Integers, Sequences

CONSTANTS Words,      \* what a process can write, one chunk each
          NoError,
          PipeSize,   \* chunks a pipe of the operating system holds
          Limit       \* chunks of output a call may collect

ASSUME ProcessAssumption == PipeSize \in Nat \ {0} /\ Limit \in Nat
ASSUME NoErrorAssumption ==
  NoError \notin {"cli_not_found", "cli_timeout", "cli_output_limit"}

VARIABLES step,     \* where run() is
          batch,    \* the streams select() returned, not yet handled
          ready,    \* the streams still registered with the selector
          pending,  \* chunks of standard input not yet written
          output,   \* what has been read from each pipe
          error,    \* the code of the CliError being raised
          late,     \* the deadline has passed
          child, code, heirs,   \* the process, its exit code, its descendants
          wire,     \* chunks under way in each pipe
          held      \* the pipe ends that some process of the group holds

caller == <<step, batch, ready, pending, output, error>>
group == <<child, code, heirs>>
process == <<step, batch, ready, pending, output, error, late, child, code,
             heirs, wire, held>>

Outputs == {"out", "err"}
Streams == Outputs \cup {"in"}
Empty == [s \in Streams |-> <<>>]
Nothing == [p \in Outputs |-> <<>>]

ProcessInit ==
  /\ step = "rest" /\ batch = {} /\ ready = {} /\ pending = 0
  /\ output = Nothing /\ error = NoError /\ late = FALSE
  /\ child = "none" /\ code = 0 /\ heirs = FALSE
  /\ wire = Empty /\ held = {}

(* Popen and _Pipes: a group of its own, three pipes, and the standard     *)
(* input closed at once when there is nothing to write.                    *)
Start(stdin) ==
  /\ step = "rest"
  /\ step' = "pump" /\ batch' = {} /\ late' = FALSE /\ error' = NoError
  /\ ready' = IF stdin = 0 THEN Outputs ELSE Streams
  /\ pending' = stdin /\ output' = Nothing
  /\ child' = "running" /\ code' = 0 /\ heirs' = FALSE
  /\ wire' = Empty /\ held' = Streams

(* Popen fails: the binary has gone, nothing is running.                   *)
CannotStart ==
  /\ step = "rest"
  /\ step' = "over" /\ error' = "cli_not_found" /\ output' = Nothing
  /\ UNCHANGED <<batch, ready, pending, late, group, wire, held>>

Raise(e) == step' = "reap" /\ error' = e /\ batch' = {}

-----------------------------------------------------------------------------
(* The selector: a pipe can be read when it holds something or nobody can  *)
(* write it any more; it can be written when it has room or has no reader. *)

Readable(p) == wire[p] # <<>> \/ p \notin held
Writable == Len(wire["in"]) < PipeSize \/ "in" \notin held
Selected == {s \in ready : IF s = "in" THEN Writable ELSE Readable(s)}

(* pump() asks for the time before it waits for the streams.               *)
SelectStreams ==
  /\ step = "pump" /\ batch = {} /\ ready # {} /\ ~late
  /\ Selected # {}
  /\ batch' = Selected
  /\ UNCHANGED <<step, ready, pending, output, error, late, group, wire, held>>

PumpExpires ==
  /\ step = "pump" /\ batch = {} /\ ready # {} /\ late
  /\ Raise("cli_timeout")
  /\ UNCHANGED <<ready, pending, output, late, group, wire, held>>

(* The stream is at its end: it leaves the selector and its pipe closes.   *)
Close(s) == ready' = ready \ {s}

(* _write: one chunk; a child that reads no more makes it drop the rest.   *)
Write ==
  /\ step = "pump" /\ "in" \in batch
  /\ batch' = batch \ {"in"}
  /\ \/ /\ "in" \in held
        /\ pending' = pending - 1
        /\ wire' = [wire EXCEPT !["in"] = Append(@, "content")]
     \/ /\ "in" \notin held
        /\ pending' = 0
        /\ UNCHANGED wire
  /\ IF pending' = 0 THEN Close("in") ELSE UNCHANGED ready
  /\ UNCHANGED <<step, output, error, late, group, held>>

Collected(o) == Len(o["out"]) + Len(o["err"])

(* Mutant: each pipe has a limit of its own.                               *)
ReadPerPipe(p) ==
  /\ step = "pump" /\ p \in batch
  /\ IF wire[p] = <<>>
     THEN /\ Close(p) /\ batch' = batch \ {p}
          /\ UNCHANGED <<step, output, error, wire>>
     ELSE /\ output' = [output EXCEPT ![p] = Append(@, Head(wire[p]))]
          /\ wire' = [wire EXCEPT ![p] = Tail(@)]
          /\ IF Len(output'[p]) > Limit
             THEN Raise("cli_output_limit")
             ELSE batch' = batch \ {p} /\ UNCHANGED <<step, error>>
          /\ UNCHANGED ready
  /\ UNCHANGED <<pending, late, group, held>>

(* _read: nothing to read means the end of the stream; what was read       *)
(* counts against the one limit of both pipes.                             *)
Read(p) ==
  /\ step = "pump" /\ p \in batch
  /\ IF wire[p] = <<>>
     THEN /\ Close(p) /\ batch' = batch \ {p}
          /\ UNCHANGED <<step, output, error, wire>>
     ELSE /\ output' = [output EXCEPT ![p] = Append(@, Head(wire[p]))]
          /\ wire' = [wire EXCEPT ![p] = Tail(@)]
          /\ IF Collected(output') > Limit
             THEN Raise("cli_output_limit")
             ELSE batch' = batch \ {p} /\ UNCHANGED <<step, error>>
          /\ UNCHANGED ready
  /\ UNCHANGED <<pending, late, group, held>>

(* Mutant: the pump stops when the child has exited.                       *)
PumpEndsAtExit ==
  /\ step = "pump" /\ batch = {} /\ (ready = {} \/ child = "exited")
  /\ step' = "wait"
  /\ UNCHANGED <<batch, ready, pending, output, error, late, group, wire, held>>

PumpEnds ==
  /\ step = "pump" /\ batch = {} /\ ready = {}
  /\ step' = "wait"
  /\ UNCHANGED <<batch, ready, pending, output, error, late, group, wire, held>>

(* Mutant: the exit is awaited without a deadline.                         *)
WaitForever ==
  /\ step = "wait"
  /\ child = "exited" /\ Raise(NoError)
  /\ UNCHANGED <<ready, pending, output, late, group, wire, held>>

(* proc.wait under what is left of the deadline.                           *)
Wait ==
  /\ step = "wait"
  /\ \/ child = "exited" /\ Raise(NoError)
     \/ child = "running" /\ late /\ Raise("cli_timeout")
  /\ UNCHANGED <<ready, pending, output, late, group, wire, held>>

(* Mutant: only the child is killed, not its group.                        *)
ReapTheChild ==
  /\ step = "reap"
  /\ step' = "over"
  /\ child' = "none" /\ heirs' = heirs /\ held' = IF heirs THEN held ELSE {}
  /\ ready' = {} /\ pending' = 0 /\ wire' = Empty
  /\ UNCHANGED <<batch, output, error, late, code>>

(* _reap: the whole group is killed, the child awaited, the pipes closed.  *)
Reap ==
  /\ step = "reap"
  /\ step' = "over"
  /\ child' = "none" /\ heirs' = FALSE /\ held' = {}
  /\ ready' = {} /\ pending' = 0 /\ wire' = Empty
  /\ UNCHANGED <<batch, output, error, late, code>>

CallerStep ==
  \/ SelectStreams \/ PumpExpires \/ Write \/ PumpEnds \/ Wait \/ Reap
  \/ \E p \in Outputs : Read(p)

-----------------------------------------------------------------------------
(* The process group, as the operating system lets it behave.              *)

Alive == child = "running" \/ heirs

Says(p, w) ==
  /\ Alive /\ p \in held /\ Len(wire[p]) < PipeSize
  /\ wire' = [wire EXCEPT ![p] = Append(@, w)]
  /\ UNCHANGED <<caller, late, group, held>>

Hears ==
  /\ Alive /\ "in" \in held /\ wire["in"] # <<>>
  /\ wire' = [wire EXCEPT !["in"] = Tail(@)]
  /\ UNCHANGED <<caller, late, group, held>>

LetsGo(s) ==
  /\ Alive /\ s \in held
  /\ held' = held \ {s}
  /\ UNCHANGED <<caller, late, group, wire>>

Forks ==
  /\ child = "running" /\ ~heirs
  /\ heirs' = TRUE
  /\ UNCHANGED <<caller, late, child, code, wire, held>>

Exits(c) ==
  /\ child = "running"
  /\ child' = "exited" /\ code' = c
  /\ held' = IF heirs THEN held ELSE {}
  /\ UNCHANGED <<caller, late, heirs, wire>>

HeirsEnd ==
  /\ heirs
  /\ heirs' = FALSE
  /\ held' = IF child = "running" THEN held ELSE {}
  /\ UNCHANGED <<caller, late, child, code, wire>>

Deadline ==
  /\ step \in {"pump", "wait"} /\ ~late
  /\ late' = TRUE
  /\ UNCHANGED <<caller, group, wire, held>>
=============================================================================
