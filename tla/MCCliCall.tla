----------------------------- MODULE MCCliCall -----------------------------
(* Model values of CliCall for TLC.                                        *)
EXTENDS CliCall, TLC

MCWords == Flags \cup Login \cup Claude \cup Codex \cup {"content"}
MCClaudeSays == {"init", "tool_block", "done"}
MCCodexSays == {"message", "tool_item", "done"}

(* Over every stream of up to four events of each tool, and not only those *)
(* the run has its processes write, an answer is accepted exactly when the *)
(* stream is clean.                                                        *)
ASSUME ParseAcceptsWhatIsClean ==
  /\ \A s \in UNION {[1 .. n -> Claude] : n \in 0 .. 4} :
       (Parse("claude_cli", s) = "answer") = Clean("claude_cli", s)
  /\ \A s \in UNION {[1 .. n -> Codex] : n \in 0 .. 4} :
       (Parse("codex_cli", s) = "answer") = Clean("codex_cli", s)
=============================================================================
