------------------------------- MODULE CliCall -------------------------------
(***************************************************************************)
(* A chat or a status request to a provider that is a command line tool:   *)
(* backend/app/chat/cli.py and the CLI half of chat/providers.py, over the *)
(* child processes of CliProcess.                                          *)
(*                                                                         *)
(* A request is up to four child processes, one after the other: version,  *)
(* help, login state and, for a chat, the call that gets the document's    *)
(* text on its standard input.  Between any two of them the tool can be    *)
(* removed or installed.  What a process writes is one word a line: the    *)
(* flags its help lists, its login report, the events of its answer.       *)
(***************************************************************************)
EXTENDS CliProcess, FiniteSets, Functions, SequencesExt

CONSTANTS Flags,      \* the flags the help must list
          Content,    \* chunks of the chat envelope
          ClaudeSays, CodexSays  \* the events the tools write in a run

ASSUME CallAssumption == Content \in Nat \ {0} /\ Flags # {}
VARIABLES provider,   \* which tool
          posix,      \* supported(): process groups exist on this system
          asked,      \* what the browser asked for: "chat", "status", nothing
          stage,      \* the process under way
          installed,  \* the tool is on the disk (its owner's doing)
          found,      \* what status() has found out
          result      \* what the request returned last

call == <<provider, posix, asked, stage, installed, found, result>>
setup == <<provider, posix, installed>>
callVars == <<process, call>>

Tools == {"codex_cli", "claude_cli"}
ErrorCodes == {"cli_not_found", "cli_upgrade_required", "cli_login_required",
               "cli_timeout", "cli_output_limit", "cli_failed",
               "cli_unsafe_output"}
Problems == ErrorCodes \cup {"unsupported_os", "provider_unavailable"}
Unknown == [installed |-> FALSE, compatible |-> FALSE, authenticated |-> FALSE]

(* Lines of an answer.  Both tools end a turn with "done"; what an answer  *)
(* says is a text that can be used, nothing but blanks, or too much.       *)
Claude == {"init", "init_tools", "text_block", "tool_block", "tool_event",
           "done", "done_blank", "done_long", "failed", "other", "garbage"}
Codex == {"turn_started", "warning", "message", "message_blank",
          "message_long", "reasoning", "tool_item", "done", "failed",
          "other", "garbage"}
Login == {"logged_in", "logged_out"}

ASSUME CodesAssumption == NoError \notin ErrorCodes
ASSUME WordsAssumption ==
  /\ ClaudeSays \subseteq Claude /\ CodexSays \subseteq Codex
  /\ Flags \cup ClaudeSays \cup CodexSays \cup Login \cup {"content", "other"} \subseteq Words

-----------------------------------------------------------------------------
(* parse: event by event, over what the stream has shown so far.           *)

Opened == [answer |-> "", completed |-> FALSE, started |-> FALSE,
           error |-> NoError]
Ends == {"done", "done_blank", "done_long"}
Breaks(s, e) == [s EXCEPT !.error = e]
Tells(s, a) == [s EXCEPT !.answer = a]

(* Nothing of Claude's turn counts before its report of having no tools.   *)
ClaudeEvent(s, e) ==
  CASE e = "garbage" \/ (e = "failed" /\ s.started) -> Breaks(s, "cli_failed")
    [] \/ e \in {"tool_event", "init_tools", "tool_block"}
       \/ e \in {"failed", "text_block"} \cup Ends /\ ~s.started ->
         Breaks(s, "cli_unsafe_output")
    [] e = "init" -> [s EXCEPT !.started = TRUE]
    [] e = "other" \/ (e = "text_block" /\ s.started) -> s
    [] e \in Ends /\ s.started ->
         [s EXCEPT !.completed = TRUE,
                   !.answer = CASE e = "done" -> "text"
                                [] e = "done_long" -> "long"
                                [] e = "done_blank" -> ""]

(* A warning is an item of type error: allowed until the turn has started. *)
CodexEvent(s, e) ==
  CASE e \in {"garbage", "failed"} -> Breaks(s, "cli_failed")
    [] e = "turn_started" -> [s EXCEPT !.started = TRUE]
    [] e = "tool_item" \/ (e = "warning" /\ s.started) ->
         Breaks(s, "cli_unsafe_output")
    [] e = "message" -> Tells(s, "text")
    [] e = "message_long" -> Tells(s, "long")
    [] e = "message_blank" -> Tells(s, "")
    [] e = "done" -> [s EXCEPT !.completed = TRUE]
    [] OTHER -> s

(* After an error nothing is looked at any more.                           *)
Event(tool, s, e) ==
  CASE s.error # NoError -> s
    [] s.error = NoError /\ tool = "codex_cli" -> CodexEvent(s, e)
    [] OTHER -> ClaudeEvent(s, e)

(* What the stream has shown, line after line.                             *)
Shown(tool, lines) ==
  LET after[n \in 0 .. Len(lines)] ==
        IF n = 0 THEN Opened ELSE Event(tool, after[n - 1], lines[n])
  IN after

Parse(tool, lines) ==
  LET s == Shown(tool, lines)[Len(lines)]
  IN IF s.error # NoError THEN s.error
     ELSE IF s.completed /\ s.answer = "text" THEN "answer" ELSE "cli_failed"

-----------------------------------------------------------------------------
CallInit ==
  /\ ProcessInit
  /\ provider \in Tools /\ posix \in BOOLEAN
  /\ installed \in BOOLEAN
  /\ asked = "nothing" /\ stage = "rest"
  /\ found = Unknown /\ result = "none"

(* Mutant: the stage of the request is not reset.                          *)
AnswersOnly(r) ==
  /\ result' = r /\ asked' = "nothing" /\ UNCHANGED stage

Answers(r) ==
  /\ result' = r /\ asked' = "nothing" /\ stage' = "rest"

(* providers.chat and providers.status: nothing is looked up where no      *)
(* process can be run safely; then the binary is looked for.               *)
AskTool(what) ==
  /\ asked = "nothing"
  /\ found' = [Unknown EXCEPT !.installed = posix /\ installed]
  /\ CASE ~posix ->
            Answers(IF what = "chat" THEN "provider_unavailable" ELSE "unsupported_os")
       [] posix /\ ~installed -> Answers("cli_not_found")
       [] OTHER -> asked' = what /\ stage' = "version" /\ result' = "none"
  /\ UNCHANGED <<process, setup>>

(* One child process of the request begins, or its binary has gone.        *)
Run ==
  /\ stage \in {"version", "help", "login", "chat"}
  /\ IF installed
     THEN Start(IF stage = "chat" THEN Content ELSE 0)
     ELSE CannotStart
  /\ UNCHANGED call

(* run() has returned: what it gives is looked at, and it may run again.   *)
Returned ==
  /\ step = "over" /\ step' = "rest"
  /\ UNCHANGED <<batch, ready, pending, output, error, late, group, wire, held>>

(* An error of any of the processes ends the request with its code.        *)
RunFails ==
  /\ Returned /\ error # NoError
  /\ Answers(error)
  /\ UNCHANGED <<setup, found>>

Said(p) == {output[p][i] : i \in DOMAIN output[p]}

VersionKnown ==
  /\ Returned /\ error = NoError /\ stage = "version"
  /\ stage' = "help"
  /\ UNCHANGED <<setup, asked, found, result>>

HelpRead ==
  /\ Returned /\ error = NoError /\ stage = "help"
  /\ found' = [found EXCEPT !.compatible = Flags \subseteq Said("out")]
  /\ stage' = "login"
  /\ UNCHANGED <<setup, asked, result>>

(* _logged_in: Codex's report may stand in either output, among others;    *)
(* Claude's is JSON and must be all there is.                              *)
LoggedIn ==
  /\ code = 0
  /\ IF provider = "codex_cli"
     THEN "logged_in" \in Said("out") \cup Said("err")
     ELSE output["out"] = <<"logged_in">>

Problem(f) ==
  IF ~f.installed THEN "cli_not_found"
  ELSE IF ~f.compatible THEN "cli_upgrade_required"
  ELSE IF ~f.authenticated THEN "cli_login_required" ELSE "ok"

(* Mutant: the login is looked up, and not looked at.                      *)
LoginKnownAnyway ==
  /\ Returned /\ error = NoError /\ stage = "login"
  /\ found' = [found EXCEPT !.authenticated = LoggedIn]
  /\ CASE asked = "status" \/ ~found.compatible -> Answers(Problem(found'))
       [] asked = "chat" /\ found.compatible ->
            \/ ~installed /\ Answers("cli_not_found")
            \/ installed /\ Answers("cli_failed")
            \/ installed /\ stage' = "chat" /\ UNCHANGED <<asked, result>>
  /\ UNCHANGED setup

(* The last of the checks: a status request returns, a chat goes on only   *)
(* when nothing was found missing and the binary is still there; command() *)
(* then refuses a model whose name could be read as a flag (cli_failed).   *)
LoginKnown ==
  /\ Returned /\ error = NoError /\ stage = "login"
  /\ found' = [found EXCEPT !.authenticated = LoggedIn]
  /\ CASE asked = "status" \/ Problem(found') # "ok" -> Answers(Problem(found'))
       [] asked = "chat" /\ Problem(found') = "ok" ->
            \/ ~installed /\ Answers("cli_not_found")
            \/ installed /\ Answers("cli_failed")
            \/ installed /\ stage' = "chat" /\ UNCHANGED <<asked, result>>
  /\ UNCHANGED setup

(* Mutant: the exit code is not looked at.                                 *)
ChatReturnsAnyway ==
  /\ Returned /\ error = NoError /\ stage = "chat"
  /\ Answers(Parse(provider, output["out"]))
  /\ UNCHANGED <<setup, found>>

ChatReturns ==
  /\ Returned /\ error = NoError /\ stage = "chat"
  /\ Answers(IF code = 0 THEN Parse(provider, output["out"]) ELSE "cli_failed")
  /\ UNCHANGED <<setup, found>>

(* The owner of the computer installs or removes the tool: at any time,    *)
(* but it is looked at only while no process runs.                         *)
Install ==
  /\ step \in {"rest", "over"}
  /\ installed' = ~installed
  /\ UNCHANGED <<process, provider, posix, asked, stage, found, result>>

(* What the tool can say depends on what it was asked.                     *)
Speech ==
  CASE stage = "help" -> Flags
    [] stage = "login" -> Login
    [] stage = "chat" /\ provider = "codex_cli" -> CodexSays
    [] stage = "chat" /\ provider # "codex_cli" -> ClaudeSays
    [] OTHER -> {"other"}

Speaks == Alive /\ \/ \E w \in Speech : Says("out", w)
                   \/ Says("err", IF stage = "login" THEN "logged_in" ELSE "other")

CallStep == Run \/ RunFails \/ VersionKnown \/ HelpRead \/ LoginKnown \/ ChatReturns

CallNext ==
  \/ AskTool("chat") \/ AskTool("status")
  \/ CallStep \/ Install
  \/ CallerStep /\ UNCHANGED call
  \/ /\ \/ Speaks \/ Hears \/ Forks \/ HeirsEnd \/ Deadline
        \/ \E s \in Streams : LetsGo(s)
        \/ \E c \in {0, 1} : Exits(c)
     /\ UNCHANGED call

CallSpec == CallInit /\ [][CallNext]_callVars

(* The calling thread runs and time passes; the tool owes nothing.         *)
FairCallSpec ==
  /\ CallSpec
  /\ WF_callVars(CallerStep /\ UNCHANGED call)
  /\ WF_callVars(CallStep)
  /\ WF_callVars(Deadline /\ UNCHANGED call)

-----------------------------------------------------------------------------
(* The types.                                                              *)
StateOK ==
  /\ step \in {"rest", "pump", "wait", "reap", "over"}
  /\ batch \subseteq ready /\ ready \subseteq Streams /\ pending \in 0 .. Content
  /\ output \in [Outputs -> Seq(Words)] /\ wire \in [Streams -> Seq(Words)]
  /\ error \in ErrorCodes \cup {NoError} /\ late \in BOOLEAN
  /\ child \in {"none", "running", "exited"} /\ code \in {0, 1} /\ heirs \in BOOLEAN
  /\ held \subseteq Streams
  /\ asked \in {"nothing", "status", "chat"}
  /\ stage \in {"rest", "version", "help", "login", "chat"}
  /\ (stage = "rest") = (asked = "nothing")

(* Between two processes of a request, and after it, nobody of the process *)
(* group is alive and no pipe is open, however the run ended: by itself,   *)
(* at the deadline, at the output limit, or with a descendant left behind. *)
NobodyOutlivesTheRun ==
  step \in {"rest", "over"} =>
    child = "none" /\ ~heirs /\ held = {} /\ ready = {} /\ wire = Empty

(* Both outputs together never take more than the limit and one chunk.     *)
OutputIsBounded == Collected(output) <= Limit + 1

(* A run that returns without an error has read all that the group wrote:  *)
(* both outputs are at their end, nothing is left in a pipe.               *)
NothingIsCutOff ==
  step = "reap" /\ error = NoError =>
    \A p \in Outputs : wire[p] = <<>> /\ p \notin held

(* A document's text is on its way only to a tool that, in this request,   *)
(* has just been found installed, new enough and logged in.                *)
ContentNeedsTheChecks ==
  (pending > 0 \/ wire["in"] # <<>>) =>
    asked = "chat" /\ stage = "chat" /\ Problem(found) = "ok"

(* What an event stream must look like for its answer to be used, said of  *)
(* the whole stream: no sign of a tool anywhere, Claude's report of having *)
(* none before anything else that counts, and an end with a usable text.   *)
Clean(tool, s) ==
  LET Before(i, E) == \E j \in 1 .. i - 1 : s[j] \in E
      Final(E, e) == \E i \in DOMAIN s : s[i] = e /\ \A j \in DOMAIN s : j > i => s[j] \notin E
      Counts == {"text_block"} \cup Ends
  IN IF tool = "claude_cli"
     THEN /\ \A i \in DOMAIN s : s[i] \in Counts \cup {"init", "other"}
          /\ \A i \in DOMAIN s : s[i] \in Counts => Before(i, {"init"})
          /\ Final(Ends, "done")
     ELSE /\ \A i \in DOMAIN s : s[i] \notin {"tool_item", "failed", "garbage"}
          /\ \A i \in DOMAIN s : s[i] = "warning" => ~Before(i, {"turn_started"})
          /\ Final({"message", "message_blank", "message_long"}, "message")
          /\ \E i \in DOMAIN s : s[i] = "done"

(* An answer reaches the user only when the process ended well and its     *)
(* whole stream was clean; any other request leaves one of the fixed codes *)
(* (_Stream, complete).                                                    *)
AnswerIsClean ==
  /\ result \in Problems \cup {"none", "ok", "answer"}
  /\ result = "answer" => code = 0 /\ Clean(provider, output["out"])

(* Every request is answered, also when the tool hangs, never reads its    *)
(* input, or leaves a descendant behind that keeps the pipes open.         *)
RequestEnds == asked # "nothing" ~> asked = "nothing"

----------------------------------------------------------------------------
(* Whatever the tool does, the request holds it: it leaves no process      *)
(* behind, floods nothing, loses nothing it said, and gets the content     *)
(* only when it may (run, complete).                                       *)
ToolIsHeld ==
  /\ StateOK
  /\ NobodyOutlivesTheRun /\ OutputIsBounded /\ NothingIsCutOff
  /\ ContentNeedsTheChecks
=============================================================================
