# Screenwall, specified

Screenwall (`src/backend/app`, with a React front end) takes a PDF, DOCX or
XLSX file, masks the personal data in it, has a local language model audit the
masked text, lets a person review it, and only then offers the masked text for
download and for chat with a cloud provider. Everything it promises is a
statement about which text is in which file when: an approved document shows a
text that was audited, chat sees nothing else, a deleted document is gone. This
directory models the program those promises rest on, from the bytes of an upload
to the screen of the reviewer and the gates of the benchmarks, checks it with
TLC on small instances and proves the central invariants with TLAPS.

All paths below are relative to `src/backend/app/` unless they say otherwise.

## 1. Inventory

| Component | State it keeps | Operations | Talks to |
|---|---|---|---|
| storage (`storage/`, `services/storage_repository.py`) | five layers per document, one directory each: original; extracted text, mapping, decisions, audit terms; masked text and edits; record and findings; chat context | one atomic write per file, reads, delete layer by layer | everyone |
| document (`models/document.py`) | status, mode, revision, audited revision and digest, open items, reasons | `transition`, reasons | worker, review |
| upload (`api/documents.py`, `services/ingest.py`) | none | validate, store record and original, submit | storage, worker |
| worker (`pipeline/queue.py`, `runner.py`, `orchestrator.py`, `main.py`) | FIFO queue, one thread | run a job, recover at startup, stop | storage, engine, audit, settings |
| approval (`review/approval.py`) | none | approve (re-audit first), reject, delete | storage, audit |
| decisions (`review/decisions.py`, `store.py`, `targets.py`, `findings.py`, `audit_terms.py`) | `decisions.json`, audit terms | mask, unmask, keep at three scopes; re-mask | storage, engine, settings |
| review page (`review/payload.py`, `pages.py`) | none on the server | read everything, unlocked; place marks on page images | storage |
| locks (`services/locks.py`) | a weak-value table of re-entrant locks | take, take with timeout, release | every mutating path |
| user settings (`services/user_settings.py`, `pipeline/terms.py`) | `user_settings.json`, global term lists | read what is valid, read-modify-write, undo | worker, decisions |
| audit (`audit/`, `models/findings.py`) | none | LLM and heuristic audit of a text, parse an answer | worker, approval |
| engine (`anonymization/`) | none across runs | detect, resolve, number placeholders, propagate, map offsets | worker, decisions |
| recognizers (`anonymization/recognizers/`, `analyzer.py`) | none | patterns with scores, context words, checksums | engine, audit |
| extraction, language | none | blocks, reasons and language of a file | worker |
| chat (`chat/`, `api/chat.py`) | `chat_dispatches.jsonl` | pick sources, preview, ask with consent, check citations | storage, providers |
| command line providers (`chat/cli*.py`) | one child process at a time | spawn, pump, reap; version, help, login, chat | chat |
| web security (`security/`) | the session table | issue, check, expire | every request |
| command line (`cli/anonymize_path.py`) | an output folder with a manifest | mask a folder | worker |
| front end (`src/frontend/src`) | query cache, the open review with its revision, uploads, chat flow, settings draft | decide, approve, upload, ask, save | the API |
| evaluation (`src/backend/evaluation`) | results files, run directories, reports | measure, resume, gate | the whole pipeline |
| export rendering, system API, packaging, site, archive | none that matters | | |

**What is hard.** Request threads, the event loop and the worker thread meet on
one document, serialised by its lock, except that reads (review page, chat,
listing) take no lock. An operation is several file writes, each atomic on its
own; a write may fail, and the process may end, between any two. The revision,
the audited revision and the digest are kept by hand across all of that. The
locks themselves live in a weak table; the queue is stopped while it may be busy; sessions
are issued without a lock; a child process may fork, hang or flood its pipes.
Offsets are carried through several passes that each change the text. The browser
holds copies of all of it, with polls, reloads and answers that overtake one another.
The benchmarks are killed and resumed, and their gates must not pass on what
was not measured. `PROJECT.json` lists each such hazard at its line with the
properties that would catch it.

**What makes each part correct.** *Worker and approval*: nothing is approved
that a working LLM did not audit, and nothing silently. *Decisions*: an approved
document leaves approval before its text changes; an answer to a finding settles it; what
a reviewer masked is masked and what they kept stays open. *Delete*: nothing is left and
nothing comes back. *Destructive mode*: the original and what is derived from it
never reach the disk. *Recovery*: nothing stays in processing with nobody working
on it. *Locks*: one thread at a time per document. *Engine*: offsets map
back to exactly the masked characters, and every spelling of a masked value is masked.
*Extraction*: what is approved was read to its end. *Settings*: no
concurrent change is lost, an undo removes only its own change. *Chat*: what is
sent is what was consented to, and it is recorded first. *Review screen*: what a person
acts on is what they saw. *Evaluation*: a gate passes only on what was measured.

## 2. Modules

| Module | Models |
|---|---|
| `DocumentStore` | one document on disk, the operation that holds its lock, upload, delete, failing writes, the end of the process |
| `Processing` | the worker: job, extraction, mask/audit rounds, persistence, routing, `_fail` |
| `ReviewActions` | approve with its re-audit, a decision's re-mask, reject |
| `DocumentLifecycle` | composes the three with recovery at startup; `Spec`, `FairSpec`, the properties |
| `DocumentInvariant` | the inductive invariant `IInv`, in named parts, and what it takes for `LayersAgree`; the symmetry its two runs use |
| `DocumentPromise` | what one document promises its user, without files, locks or failures |
| `DocumentLocks` | the weak table of re-entrant locks, frame by frame |
| `ServerRuntime` | request threads, worker and main thread on several documents, over `DocumentLocks` |
| `TermLists` | the global term lists under decisions of several documents, their undo, and the settings dialog |
| `StoredSettings` | what is read of a settings file somebody edited |
| `Extraction`, `Reading` | one upload: its checks, its blocks, reasons and language; then mask, audit, repair, route |
| `Verdict` | what the answer of the language model becomes |
| `MaskText`, `MaskEngine` | units, edits, placeholders and terms; one call of `Engine.anonymize` with its passes |
| `ReviewDecisions` | decisions on spans, candidates and findings, over `MaskEngine` |
| `Identifiers` | recognizers, their scores and context words, the checksum of the national number |
| `PageMarks` | the marks over a page image |
| `ChatConsent` | the chat panel and the chat requests: preview, consent, record, send, over documents that behave as `DocumentPromise` says |
| `ChatSources` | chunks, sources, excerpts and citations |
| `CliProcess`, `CliCall` | one child process under a deadline; a request of up to four of them |
| `WebSessions` | the session table and the client with its one retry |
| `ReviewPage` | the review screen: query cache, requests, dialogs, a tab elsewhere, lost and late answers |
| `ReviewModel` | what the screen makes of a payload: sections, groups, keys, marked text |
| `Uploads` | the uploads of a tab |
| `Batch` | the command that masks a folder |
| `Scoring`, `Benchmark`, `Scorecard`, `Corpus` | scores and gates; a resumable benchmark; scorecards side by side; the benchmark over real filings |
| `MCCliCall`, `MCReading`, `MCReviewDecisions` | inputs and symmetry for TLC |
| `MCChatConsent`, `MCReviewPage` | the same, with the two scenes a run consists of |
| `MCValues`, `MCEvaluation` | bounded inputs for the pure parts, their properties; `MCEvaluation` adds the evaluation and the commands |
| `DocumentLifecycleProofs`, `ServerRuntimeProofs`, `TermListsProofs`, `ChatProofs` (chat and the command line providers), `WebSessionsProofs`, `ReviewPageProofs`, `ReadingProofs`, `ReviewDecisionsProofs` | theorems and proofs (section 4) |

How they fit together: `DocumentLifecycle` takes for granted that one operation at a time
works on a document; `DocumentLocks` shows it of the lock objects and `ServerRuntime` that the
threads use the locks so. `ChatConsent` sees documents through `DocumentPromise`, which
`DocumentLifecycle` is proved to implement. In `DocumentLifecycle` the engine yields any text and
an audit any verdict; `MaskEngine` with `ReviewDecisions`, and `Extraction` with `Reading`, say which, on small documents.

**One document.** `meta` is `document.json` with the fields the properties tell apart;
`audited` is `audited_revision + 1`, so 0 stands for -1, and `digest` is the
text itself instead of its hash. `openFindings`, `layer1`, `layer2`, `anon`,
`edits` and `context` are the other files: a masked text is a member of `Texts`,
`edits` is the text whose edits the file lists. Layer 2 is a set of two groups:
the extracted text, which decisions need, and the records (mapping, decisions,
audit terms). `pc`, `mem` and `work` are the
operation under the lock: its next step, its in-memory `Document`, its locals.
There is one `pc` for all operations because every one of them takes the lock
first and re-reads the document inside it; upload takes it for its two writes and
submits its job afterwards (`submitting`), on its own. `jobs` is the queue, as
far as this document is concerned.

One action per file write, with the memory updates between it and
the next write: `Reaudit` is `revision += 1; save_document`, `ReauditFindings`
the writes of `_record_reaudit` and the marking that follows them. A crash
(`Crash`) can therefore come between any two writes, a failing write
(`RequestFault`, `ProcessFault`, `FailFault`, `RestartFault`) in place of any. The reads an
operation makes under its lock are part of the step before them. Writes of records in layer 2 that
already exist change nothing in the model and belong to the step of the write
next to them. A delete overwrites the
files of a layer in directory order and then removes them: an overwritten file
counts as gone, since nobody can parse it, except `document.json`, whose
overwritten form is a state of its own (`Shredded`): the document is then in no
list and every request for it fails.

The engine returns any text and extraction one of three
outcomes. An audit returns any verdict the code can build: the LLM signal (True,
False, None), whether it is a clean approval, whether a residual is located
as open; a failed LLM is never clean (`fail_closed`) and a clean audit leaves
nothing open. Which decision a reviewer takes, and which terms it adds, only
changes which text comes out. Reasons, names, counts and times are left out.
`prefsReadable` is whether `user_settings.json` can be read, which someone
editing it by hand may change at any time.

`verdictOf` is not in the program: it remembers the best an LLM audit
established of each text (never read, reported on, report stored in review,
clean), so that properties can say *that text was audited* independently of the
program's own bookkeeping, which is what might be wrong.

**The server.** In `DocumentLocks` a lock object has an identity: `table` is the weak table, `owner` and
`depth` the objects, and a frame is one `with document_lock(...)` in progress. `Collect` is the
garbage collector, which may take an entry as soon as no frame refers to its object. Each access
to the table, the wait and the release are steps of their own. `ServerRuntime` adds what
the threads do between taking and leaving: requests, jobs, recovery, `Worker.start` and `stop` with its marker and its
join of five seconds. A run is two steps, since only its being under way matters here. Its locks
move exactly as `DocumentLocks` allows (`UsesLocks`, proved).

**Term lists.** `prefs` is `user_settings.json`: two sequences without repetition (the
order matters, the limit cuts at the end), the families, and one field that stands for the
other settings. A read-modify-write is one action, because `_LOCK` is held across it.
A decision takes one action per thing others can see: the change of the lists, the two reads of
them, the write of `decisions.json`, of layer 3, of the rest. Its undo and its restore are the
`except` branches, actions of their own, so that anybody else (or an end of the
process) can come before them. `Fails` covers every exception between two of these. The dialog
edits a draft of what the browser read last (`cache`); the query is refreshed at any moment or never.
`wanted` and `accepted` are history: what the user was told had succeeded.
A list at its limit cuts the new term off and says nothing (`_clean`), so
`wanted` takes a term only where the limit left it in the list.
Terms are keys here; how spellings are folded to keys is in `MaskText`.

**Text.** In `MaskText`, `MaskEngine` and `ReviewDecisions` a text is a sequence of symbols, a placeholder two of them, so that
a wrong offset can cut one. The analyzer is external: it reports
every occurrence of its patterns. Everything after it is the code's: gates, overlap resolution, table
pre-masking across cells, forced masks, propagation, numbering and the edit log. One action is one decision, or one audit
that reports something, with the whole re-mask and the relocation of findings that follow. In `Extraction` a file is what
its parser finds in it, word by word, and the reading goes part by part (page, sheet, body) until it is finished or
refused. What a parser can find is `FileOK` (pages with words in places of their own, sheets of rows of cells, bodies of
paragraphs and tables), which `FilesAssumption` asks of every file that is not refused at once; TLC checks it of the uploads of the run.
The images of a page have a share of its area in percent: below `MinShare` together they are read by nobody and remarked by nobody
(`pdf.py:46-64`), unless they cannot be measured, when any image counts.
`Reading` takes the extracted blocks through one action per step of the orchestrator; the heuristic sees the words
`Hard`, the language model answers anything of `Verdicts`. Its masking is that of the engine at the grain of words: terms the engine knows, each with a
rank for trust tier and score, and the terms of the always-mask list (`Candidates`); what lies inside a never-mask term is let go, unless that is an
always-mask term too (`Allowed`, `Vouched`); overlapping finds are settled by rank, length and place, and a find that holds accepted ones widens them
(`Take`); at the end other spellings of what was masked are looked for where nothing is (`Respelt`), the never-mask list or not. So a repair does not
simply add masks: a new term may win over an old find, widen it, or take with it the spellings that followed it. One word has one mask here; the gates,
forced masks, families of terms, values split over cells or lines, and everything by the letter, are in `MaskEngine`.

**Chat.** `tab` is the state of `useChatFlow` and of its conversation, `slot` the requests a
server thread handles, each with its next step. The reads of the records, and then of the
layer-5 files, are one action per document, since no lock holds them together. The documents are
not those of `DocumentLifecycle` but anything `DocumentPromise` allows (`DocumentMoves` takes a
step of the promise): what is found here therefore rests on the promise, which is
proved of the detailed model. A payload is what the preview hash covers; the hash is the payload itself, which
assumes that SHA-256 has no collisions. Retrieval is a function of question and texts and
so not in the payload. `Fails` is any error, timeout or end of the process, at any step.
A layer-5 text is read in one step because it is written by an atomic replacement.
`since` and `consents` are history.

**Child processes.** `CliProcess` has the caller at the grain of one `select`, one `os.read` or `os.write`, and
the child with its descendants as an environment that owes nothing: it may never read, write what it likes, close a
pipe, fork, exit or hang. Data is counted in chunks, time is one bit. The descendants of a tool are assumed to stay in its
process group, which is what `killpg` reaches. `CliCall` strings up to four runs together, and somebody may remove or
install the tool between any two.

**Browser.** `ReviewPage` has one tab: the cache of each query with its fetch under way, mutations, the dialogs, the polls of the library,
against a server that another tab changes too. Values and keys stand for spans and their ids, which are
given out anew by every re-mask. An answer may be late or lost (an answer is lost after the server gave it). `ReviewModel` holds the pure functions of the screen, `Uploads` its
queue of files. `WebSessions` has the session of the client on one side and the unlocked table on the other, at
each access to the table. A session id is its place in the order of issue, so the table is a set of ids and `born` gives each its
time. The browser may drop the cookie once (`lost`). `restored` and `raced` are history: the sessions an issue put back that another one had taken
out, and those lost to a copy; `disturbed` are the requests into whose second attempt something else came.

**Evaluation.** `Scoring` is the arithmetic: locating gold values, rates as pairs of numerator and denominator, gates, canaries, the strict and
real-filings parts of the scorecard, the rows and summaries of the two benches over real documents (`bist30/real_bench.py`, `corpus_bist10/run_bench.py`), what of a
document is still of use after the masking, and what a model that is asked for a masked value can still tell. `Benchmark`, `Scorecard` and `Corpus` are the commands, write by write, with kills and a full disk.
In `Corpus` the files of the filings benchmark have a buffer: a row is written to it, and a kill leaves a beginning of what was not flushed. A
command has its track (operational, canary or both), the limit of the first and that of the second; values can be planted only in the formats of `Injectable`; the
checks are closed before the rows; and the sweep looks in the whole storage tree for what this run planted (`Hits`).

## 3. Properties and runs

| Run | Module, configuration | Distinct states | Depth |
|---|---|---|---|
| `lifecycle` | DocumentInvariant, DocumentInvariant.cfg | 1.16 million | 55 |
| `liveness` | DocumentInvariant, Liveness.cfg | 0.20 million | 46 |
| `runtime` | ServerRuntime, ServerRuntime.cfg | 36 359 | 52 |
| `terms` | TermLists, TermLists.cfg | 2.01 million | 23 |
| `chat` | MCChatConsent | 0.97 million | 39 |
| `cli` | MCCliCall | 1.16 million | 59 |
| `web` | WebSessions, WebSessions.cfg | 2.62 million | 82 |
| `page` | MCReviewPage | 4.11 million | 27 |
| `reading` | MCReading | 40 488 | 12 |
| `masking` | MCReviewDecisions, MCReviewDecisions.cfg | 3 278 | 3 |
| `values` | MCEvaluation | 1.55 million | 25 |
| `resolve_disjoint` | MCReviewDecisions, ResolveDisjoint.cfg | a violation | |

A property of a configuration is a conjunction of named parts that belong together; the
lists below give the whole first and its parts after it. The parts are what the comments in the
modules explain; a run that fails says which whole is violated, and TLC's trace which part.

Deadlock is checked in `cli` only; everywhere else the system may rest for ever
(a settled or deleted document, a closed tab, a finished command).

`lifecycle`: two texts, up to three
revisions, two mask/audit rounds, one failing write, two ends of the process,
one change of the settings file.

- `ApprovalIsSound` (`ApprovedIsAudited`, `NoSilentApproval`, `ApprovedHasNoOpenFinding`): the text an approved document shows
  was audited, at this revision, and its report was clean or was first stored in
  review. The second approval after a 409 `audit_not_clean` skips the audit, so this
  depends on when the digest and the findings are written. The count in the record and the
  findings file never disagree on an approved document.
- `ChatContextIsSound` (`ContextIsAudited`, `ContextMatchesDownload`): what chat reads, unlocked, at any
  moment.
- `NothingIsKept` (`DestructiveKeepsNothing`, `NothingLeftBehind`): what must not be on disk.
- `NothingIsLost` (`LayersAgree`, `ProcessingHasAJob`): all layers agree at rest when nothing failed; a document shown as in processing has somebody working on it.
- `WorkerApprovesClean`: the routing rule, as seen from the step that stores the
  approval.
- `KeepsPromise`: the refinement of `DocumentPromise`. `phase` is the status as
  the library page groups it (an unreadable record is in no list, hence gone),
  `shown` what `GET /download` answers, `shared` what chat would read from layer 5, `audited` the texts an LLM read. Uploads,
  audits, approvals, withdrawals, rejections and deletes are steps of the promise and
  every other write must be invisible: the text shown is never replaced by another while it is
  shown, and a job or a recovery never brings back what was settled or deleted.
- `IInv`: the inductive invariant, `TypeOK` with it, checked before it was proved.

`liveness` (FairSpec, one text, two ends of the process, one failing write):
`DocumentSettles` (`ProcessingEnds`, `LockIsReleased`).
Fairness: an operation that has the lock goes on (a thread that runs Python code
to its end; the deadlines of the LLM client bound its waits), the upload's coroutine
submits, the worker thread takes the next job, and a process that ended is
started again (the user starts the app). Nobody has to upload, review or delete.
After a failed write a document may stay as last stored until the next start;
`runner._fail` says so, and `ProcessingEnds` promises nothing then.

`runtime`: two request threads, worker and main thread, two documents, two lock objects,
two requests, one end of the process, a clean stop.

- `MutualExclusion`: two threads never hold different lock objects of one document,
  whenever the entry of the weak table is collected and made again; a lock object may be reused for the other
  document.
- `NoWorkIsLost` (`EveryDocumentHasItsJob`, `CleanStopLeavesNoWork`): recovery goes through the documents while the worker already runs
  the first of them and requests delete others. A stop whose join returned in time leaves nothing half way. When the
  join times out the process ends with the worker in its run, as it may at any time.
- `UsesLocks`: what the threads do to the locks is a behaviour of `DocumentLocks`.
- `EverybodyIsServed` (`DeleteAnswers`, `QueueIsServed`): delete gives up after its timeout instead of waiting for a run; every waiting document gets
  its turn as long as each run ends. Fairness: each thread that can go on does, timeouts come, a process that ended is started; nothing
  is assumed of a run.

`terms`: two documents, three terms, lists of two, two decisions, one
failure, one end of the process, one save of the dialog.

- `DecisionsAreKept` (`DecisionsLoseNoTerm`, `FailedDecisionIsGone`): concurrent decisions lose no term the user was told
  is masked everywhere; after one failure `decisions.json` is what the last success left.
- `GlobalMaskApplies`: the re-mask of such a decision reads lists that hold its term.
- `UndoTouchesOnlyItsTerm`: the undo writes back the whole settings of before and
  must not take anybody else's change with it. This is what the comparison in `_commit` is for.

Two of these hold only without failures and dialog saves (`Undisturbed`); section 6 says what happens
with them. A list at its limit loses the new term by design of the validator
(`_MAX_TERMS`): the decision succeeds and the term is neither listed nor masked. The
properties claim a term only where the limit left it; three terms fill a list of two, and the theorems hold for any limit.

`chat`: two scenes, each with two changes of the documents (enough to be withdrawn and approved with
another text between preview and send) and two messages. In one there is one document under two
requests at once; in the other there are two documents, one request at a time.

- `SendsAreCovered` (`ConsentCoversSend`, `EverySendIsRecorded`, `SentWasApproved`): what leaves the computer is a confirmed
  payload, and one confirmation is good for one send; the record precedes the send, whatever fails; each document of a send was approved at some moment since the request was made, not only when it was previewed.
- `ConsentFitsSelection`: a preview that arrives after the user chose another provider or scope opens its
  dialog, but confirming it sends nothing.

`ChatInv`, the inductive invariant of section 4, was checked by this run before it was proved.

`cli`: status and chat requests to both tools, up to four child processes each, pipes of one chunk, a
limit of two chunks.

- `ToolIsHeld`, in three parts. `NobodyOutlivesTheRun`: after a run, however it ended, the group is dead and no pipe is open.
  `OutputIsBounded`, `NothingIsCutOff`: a flood is bounded by the limit and one chunk; a run that returns without error
  has read everything, also what a descendant wrote after the child had gone.
  `ContentNeedsTheChecks`: the document's text goes to a tool that this very request found installed, new enough
  and logged in.
- `AnswerIsClean`: an answer is shown exactly when the stream is whole and no tool ran in it. `ParseAcceptsWhatIsClean` (an assumption TLC evaluates)
  says so of every stream of up to four events, the theorem `ParseIsClean` of every stream.
- `RequestEnds`: every request is answered. Fairness: the calling thread runs, the deadline comes; the tool owes nothing.

`web`: two tabs, two requests under way, a table of two, three sessions, time and a restart.

- `SessionsHold`, in two parts. `RetryIsEnough`: the one retry of the client repairs every stale token, expired, evicted or lost session, unless something
  else comes into the second attempt.
  `SessionsAreKept`, `TableIsBounded`: what unlocked issues can do to the table: lose an insertion into a table being copied
  (`raced`, the window the code has), and pass the limit by as many issues as run at once and as many sessions as such a copy put back.
  An earlier bound without the second term was false: an issue that copies the table before another evicts writes the evicted session back.
- `CallsEnd`: no request waits for a promise that will not come. Fairness: each request goes on.

`page`: two scenes. *Review*: a tab with two values and two ids, two requests of its own under way, one change in another
tab, one failure. *Uploads*: three files, two moves of the reader, one answer lost.

- `ActsOnWhatWasShown` (`DecisionHitsWhatWasShown`, `ApprovedIsWhatWasSeen`, `RefusedSeesCurrent`): a decision and an approval reach what was on the screen when it was
  confirmed, however ids were given out since. Both except a torn page (section 6). A refusal is shown when the screen is at least as new as the refusal.
- `ScreenKeepsUp` (`SettledStays`, `WaitsAreServed`): an older poll does not bring a settled or deleted document back into
  the library; nobody waits for a reload that nobody fetches. A decision's answer that came too late may set the library back, because `usePatchSummary`
  compares no versions: the history variable `setBack` says when it did, and the next poll ends it; a deleted document stays away even then.
  `overtaken` is the same for the page: a late answer has left an older one, until the next fetch of the review. What decisions leave a document *in* review
  with is not remembered: only what settles it is. A fetch of the review that fails puts the problem screen in the place of the page, one of the
  library leaves what was there (`ReviewWorkspace.tsx:111`).
- `UploadsArrive` (`UploadsEnd`, `NeverPulledAway`, `ReadyIsShown`): a failure stops no file behind it; nobody is taken away from a review; what is
  ready is opened or offered.

`reading`: nineteen uploads, sound and bad, in all three formats, with six settings of the auditor, two sets of terms the engine knows, three pairs of
always-mask and never-mask lists (one with a term on both, one with a never-mask term inside another), and a
model that answers anything of six verdicts in each round. One verdict reports a term that overlaps finds of the first round in part.

- `ApprovalIsEarned`: an approval without a human rests on an answer of a trusted model about this very text.
- `RepairsHold` (`ReportedIsMasked`, `RepairKeepsMasks`): wherever a reported or always-mask term stands whole, a mask answers it (holds it, or overlaps
  it and reaches beyond it) unless a never-mask term vouches for the place; and a repair drops no find: each is answered in the next round. More is not true of
  the code: of two finds that overlap in part one wins and a part of the other stays open, and a spelling masked by propagation may come back when its find changed.
  A model that reports a placeholder (`Star`) asks for nothing.
- `BlocksHoldTheFile` (`ApprovedIsRead`, `BlocksInOrder`, `LanguageCovers`): every word of an approved upload is in its blocks: limits, broken parts and missing OCR must end at a human.
  `Content` leaves out what the extractors drop without a word (section 6), the small images of a page among it. Further,
  identifiers are unique and in reading order; the language stored is that of all blocks.
- `AuditorIsTrusted` (`OnlyTrustedHosts`, `RefusedFailsClosed`, and `AuditInv` of section 4): the refusal of an auditor, and that it
  does not become an approval.
- `UploadSettles`: under fairness of the worker every upload is settled.

`masking`: five documents of a few symbols, each built for one hazard (see MCReviewDecisions), under every
two decisions or audits in a row, at each scope.

- `OffsetsAgree` (`OffsetsMapBack`, `FindingsPointAtTheirText`): every edit list maps both ways, whatever passes wrote it; a finding stands where the page shows it.
- `ReviewerRules` (`ReviewersMasksHold`, `KeptStaysOpen`), `AnswerSettles`: what a decision promises, over the passes that follow it.
- `NothingSlipsBy` (`HitsAreMasked`, `SpellingsAreMasked`, `SplitValueIsWhole`): what is detected is masked, propagation is complete, values split across cells are masked as one.

`values`: the pure parts, each input one step from the first state, and four commands with their own behaviours.

- `SourcesAreExact`, chat sources: `ChunksKeepTheText`, `ChunksFit`, `ExcerptIsABeginning`, `CitationsResolve`. Every text of up to five tokens, three sizes.
- `ReviewerSeesAll`: `MarksAreRight`, `MarksAreWholeWords` on page images, and on the screen `UnitsAreShown`, `DecisionsAreReached`, `AttentionWins`,
  `ListsAreComplete`.
- `FormsAreSettled`, recognizers: `OneCompletion` (prefixes of nine digits, each with every pair of check digits and every digit read wrong), `FamilyIsSettled`, `BareNeedsItsWord`, `BackstopIsMasked`.
  The auditor's patterns are wider than the recognizers: an e-mail of an unknown domain, an oddly spaced IBAN, a dotted telephone number, a short bearer token, a number that is no
  card and a password by its label (`LeftToRepair`) are masked by the repair round only; every other form those patterns match is masked before the audit. A bare number needs a word near it,
  unless it has the form of a telephone number of another country.
- `InputIsReadWell`, answers and settings: `VerdictIsRead`, `NamedIsNotCleared`, `NamedIsNotKept`, `EntriesFallAlone`.
- `GatesAreEarned`, scores and gates: `MentionsApart`, `OpenWordsAreSeen`, `ScoreIsFair`, `GateMeansGone`, `LivePassIsLive`, `FailureStands`, `SubsetPassIsWhole`;
  `CanariesAreJudged`, `ModePassIsWhole` (a planted value is found in whatever carrier it was left, and a mode passes only on all its documents), `ScorersAgree`
  (the strict scorer and the gold scorer), `StrictIsEarned`, `RealIsWhole`; `CountsAddUp` (every document of a bench is in one count, under its format),
  `ScenariosAreSpread` (no domain has its second document before another its first), `RetentionIsEarned` (full only when no answer was lost, unmeasured when there was none),
  `AskedFairly` (the options of a question hold the answer once, and a failed call is no right guess).
  The release gate accepts over-masking of up to a tenth (`report_gold.py:292`), and so does `GateMeansGone`; a second document with eight or nine terms that had to stay puts the rate on both
  sides of the tolerance. The gate of the model looks at the audits of the gold section as well as of the stress section, and `LivePassIsLive` gives it both.
- `CommandsAreSafe`. The resumable benchmark (two cases, three starts): `NeverMixed`, `MeasuredOnce`, `ZeroIsEarned`. Two scorecards at
  once: `WorksAlone`, `ReportsAreClean`, `CompleteIsWhole`. The folder command (three files, two starts): `OutputsAreTheirs`, `OwnOutputIsNoInput`. The filings benchmark (two documents, of which values can be planted in one, three commands, each of any track and limits, of which any may be
  killed): `CorpusIsClean`, `EachIsMeasuredOnce`, `ChecksFollowRows`, `SweepIsEarned`, and of its selection `SelectionIsRight`.

**Why the bounds are enough.** `lifecycle`: operations on different documents
share only the queue's order and the settings file, which `runtime` and `terms` have. Two texts distinguish *this text*
from *another one*, and an operation handles at most two (the stored and the
new one). Three revisions allow a decision, a re-audit and a decision again after
the run that made revision 1. `MaxIterations` is 2, the most the configuration
allows (`config.py:191-195`). One failing write at each point suffices for the partial states; two ends of the
process cover one during the recovery of another. `runtime`: two request threads and the worker are the three that can meet on one lock; with two
documents an entry can be collected and its object reused. `terms`: the interference of an undo takes two decisions. `chat`: two requests can swap their consents.
`cli`: a pipe of one chunk blocks, a limit of two can be passed by either pipe. `web`: two tabs, the least that can evict and race one another. `page`: one change elsewhere per request of the tab makes
each kind of staleness. `masking` and `reading`: their inputs are chosen, not enumerated; they stand for the cases their comments name, and nothing is claimed of documents with more units.

## 4. Proofs

`DocumentLifecycleProofs` proves, for every set of texts and all bounds (the
assumptions are those of `DocumentStore`: `NoText` is no text, the bounds are
numbers), `Spec => []TypeOK`, `Spec => []IInv`, and from them
`ApprovedTextIsAudited`, `NeverSilent`, `NoOpenFinding`, `ChatContextIsAudited`, `ChatSeesTheDownload`, `NothingKept`,
`DeleteIsComplete`, `NobodyIsForgotten` (`ProcessingHasAJob`) and the step properties `WorkerRoutesClean` and
`DeletedForever` (`DeletedStaysDeleted`, in no run of its own). `ApprovalsAreSound`, `ChatContextsAreSound`, `NothingKeptOrLeft` and `NothingLost` put
them together as the runs check them. `FilesAgree` (`LayersAgree`) needs a second invariant, `LayersKnown`: what each step of an operation
has written so far, as long as nothing failed.

None of the safety properties is inductive: each speaks of the disk, and the
step that would break it is allowed or not by what the operation under the lock
remembers. `IInv` says what that is. `ControlOK`: each step still finds the status it checked,
because nobody else writes. `FreshOK`, `WorkerOK`: a document in processing was
never settled, so the worker's revision is 1, and what it is about to store is what was
audited. `ApprovalOK`: an approval works on the stored text, and its in-memory record
covers it. `RemaskOK`: from the first write of a re-mask on no audit covers the
document. `AuditRecordOK`: the audited revision is never ahead of the revision,
which is why a bump always takes coverage away. `CoverageOK`, `ApprovedOK`: what coverage and
approval say of the disk. `DeleteOK`, `AbsentOK`: how far a delete has come. One lemma per group of
actions shows that they keep it; the first lemmas of the module say what each record operation
returns, so that no leaf has to expand two updates of one record.

The same module proves `Spec => KeepsPromise`: the lemmas `StillWorking` to
`Vanishes` say when a change of the record, of layer 3 or of what was heard is a step of the
promise, and one lemma per group of actions says which of them each action is,
from what `IInv` knows at its step (that an approval stores the text it was audited for, that a
re-mask touches layer 3 only after it took the approval back, that the record goes after layer 3).

`ChatProofs` proves, for any documents, texts, questions, providers and number of
requests at once, and all bounds, `Spec => []ChatTypeOK` and `Spec => []ChatInv` of `ChatConsent`, and from them
`ConsentGiven` (`ConsentCoversSend`), `SendsRecorded` (`EverySendIsRecorded`) and
`SendsApproved` (`SentWasApproved`), together `SendsCovered` (`SendsAreCovered`), and `ConsentFits` (`ConsentFitsSelection`). It assumes that no provider is both local and in the cloud and that
the bounds are numbers; the text of a sent payload is typed because `ReadContext` refuses a missing layer 5.
`ConsentCoversSend` says nothing of a request on its way, so it is not inductive.
`RequestInv` says what each stage knows: a request that leaves carries a consent (its number and, as the hash,
its text); until it is sent nothing was sent under that number; once gate 4 let it pass, its text is the one consented to, and
from the record on it is in the file. `ConsentsApart` adds that no two requests carry the same consent, which
is what makes one send use up one confirmation, and `ApprovalSeen` that the history variable `since` misses no
approval. Most steps touch one request and nothing else: `Carried`, `Moved` and `PostInv` treat those at once;
a confirmation, a record and a send have a proof of their own.

`ServerRuntimeProofs` first proves of `DocumentLocks` mutual exclusion for any number of threads, documents and lock objects and any depth of
nesting (`OneWriterPerDocument`). `LockInv` ties every frame to the one object of its document: `FramesNest` (all frames of a thread are of one
document), `OneLockPerDocument` (a frame past the lookup has the object of the table), `EntriesAreLive`, `NoLockIsShared` and `CreatorIsGuarded` (an
entry is made once and only while nobody has one), `OwnerIsInside` (owner and recursion count are the frames in the block). Then it proves that the threads of
the server do nothing else to the locks (`RuntimeUsesLocks`, a refinement: every step is a step of `DocumentLocks` or leaves the
locks alone), so that exclusion carries over (`RuntimeExcludes`), and the types of queue and threads.
`RuntimeKeepsWork` (`NoWorkIsLost`) needs to know at every moment who is still to see a document that waits: `WorkIsKept` says that it is
in the queue, with the worker before its run is over, with the upload that will submit it, or with the recovery, which holds it in its list or in its hands.
`Roles` and `InTheirTime` say which thread does what in which phase, and `EndIsLast` that the end marker stands behind every job, so
that a worker that left on its own left an empty queue. The hard steps are those that hand a document over: the
recovery's submission while the worker already runs, a delete that meets the worker, the stop.

`TermListsProofs` proves, for any documents, terms, families, limit and bounds, `DecisionsKept` (`DecisionsAreKept`, with `TermsTyped`, `NoTermLost` and `FailedIsGone` as its parts),
`GlobalApplies` (`GlobalMaskApplies`) and `UndoIsOwn` (`UndoTouchesOnlyItsTerm`). The lemmas on lists come first: what a cut, a joined and a
removed term leave (`CutList`, `JoinedList`, `WithoutList`, `JoinedWithout`), that the validators make any draft storable and leave alone what is stored (`CleanStores`),
and what a decision's change does to the term it is about and to the others (`ChangeStores`). `ListsInv` adds to the types and to the property what a
decision under way knows (`Pending`): until something fails it has nothing to undo, the lists hold its term while nobody asked for the opposite,
also the copy it masks with, and what it changed differs from what it found in its own term only, which is what makes it sound to write the settings of before back.
`RestoreInv` is the invariant for `FailedIsGone`, and says what each stage of a
decision knows of `decisions.json`: until it saves, the last success is there; from then on only the copy it took
remembers it, and `restore` is reached by a fault alone, so that with one fault in all the restore itself goes through.
The undo of the lists, other documents' decisions and the dialog change nothing of this (`OthersKnow`, `OneKnows`).

`ChatProofs` also proves, for any pipe size, limit, content and set of words, `NobodyOutlives`, `OutputBounded`, `NothingCutOff` and
`ContentChecked`, together `ToolHeld` (`ToolIsHeld`). Its invariant says of each step of the caller which pipes may still hold something: a stream leaves the selector only at
its end (`ClosedIsDrained`), and content is pending only after the three checks of this request.
`ParseIsClean` says of the two parsers, for every stream of any length, that they accept exactly the clean ones and what they then return. The parsers fold
over lines; `ClaudeShows` and `CodexShows` say what the state after n lines knows of these n lines, and an induction over n carries it to the end. `AnswerClean`
(`AnswerIsClean`) brings this to the caller: `AnswerInv` ties what a finished run left in the buffer to the stream the tool wrote, and `Spoken` what is pending
to the checks it passed.

`WebSessionsProofs` proves, for any tabs, requests, limit of the table and time to live, `WebTyped` (`WebTypeOK`) and `SessionsHeld` (`SessionsHold`). `StoreInv` is about the
table: a copy that an issue filters misses only sessions that are excused (old, over the limit, or raced), and what an issue picked to evict is the oldest of a full table;
the bound of the table counts the issues that are past their eviction. `RetryInv` is about the client: a fetch runs for the request that waits for it, and an undisturbed second attempt has at
each step what `Repairs` says: no promise it could wait for is stale, its issue sees the table as it is, its token is of the live session in the jar.

`ReviewPageProofs` proves, for any document, keys, decisions at once and bounds, `ScreenIsCurrent` (`ScreenKeepsUp`) and `ReaderIsObeyed` (`ActsOnWhatWasShown`),
from one assumption, that no value has the name of a dialog. `PageInv` has the parts these need and none of them says by itself. `PagesFit`: a page of the document's revision that is not torn *is* the document,
wherever it travels, in the cache, in a fetch, in a request or in an answer; this is what makes a check of the revision enough. `NextSeen`: what a change will leave approved is
what the approval was shown. `SummariesFit`: a summary out of review is the last the document ever has, and every summary in review still on its way is older, so that whatever would bring a settled document back comes too
late and is known to. `SettledInv`: the poll, and the list unless a late answer has just set it back, are at least as new as what was settled. `WaitInv`: whoever waits for a reload has a fetch under way that will satisfy him. Every step is either one
of the server (`ServerStep`: the document moves, requests get their answers) or one of the tab (`TabStep`: the document rests), and the lemmas `...Served` and `...Keeps` say of each action which it is; each part of `PageInv` is then
preserved by the two kinds of step instead of by twenty actions.

`ReadingProofs` proves, for any files, settings, lists and answers, `AuditSound` (`AuditInv`) and from it `ApprovalEarned`, `HostsTrusted` and
`RefusedStaysClosed`, together `AuditorTrusted` (`AuditorIsTrusted`); then `ReadingSound` (`ReadingInv`) and from it `FileHeld` (`BlocksHoldTheFile`),
`ReportsMasked` (`ReportedIsMasked`), `RepairsKeepMasks` (`RepairKeepsMasks`) and both together, `RepairsDoHold` (`RepairsHold`). It assumes that what is not refused at once is a
file (`FilesAssumption`), that the limits are numbers (`LimitsAssumption`), that ranks are numbers and finitely many (`RanksAssumption`), and one or two rounds (`SettingsAssumption`).
`BlocksHoldTheFile` speaks of the extracted document only, so it is not inductive: `WordsRead` says of each stage that the parts up to `next` are in the blocks
or something was said that blocks the approval (`Told`), `OrderKept` which identifiers the parts already read have used, and `Settled` carries language and
reasons from the extraction to the approval. `RepairsHold` compares two rounds that were masked apart, and masks do not simply grow; what does grow are the candidates (`CandidatesGrow`: a longer
always-mask list adds finds and takes vouching away). `Veiled` says that the masks of a round are `MasksOf` its list, which repairs only lengthen, and that they are hidden. `AcceptedHolds`,
by induction over the turns (`TurnsAre`, `TakeHolds`), says of any finite set of finds that each is answered by an accepted one and that each accepted one has the place of some find; an answer to
a candidate of the first round is then found among the masks of the second.
Half of the module is about data: a list in the reading order of its keys (`RankOnto`, `OrderExists`, `OrderedHolds`), lists joined to one (`Flattened`), the columns
of a page (`PageGiven`, `SidesHold`), and where candidates and masks lie in a block (`CandidatesAre`, `MasksHold`, `MaskedStars`).

`ReviewDecisionsProofs` proves, for any documents, detectors, term lists, decisions and length limits, `ReviewInvariant` (`ReviewInv`) and from it
`OffsetsAlwaysAgree` (`OffsetsAgree`) and `MasksAlwaysHold` (`ReviewersMasksHold`). It assumes of the input what `CaseOK` says: texts are written in signs, a block has a cell, the
analyzer reports types and languages it has, families are those of `TYPES`, no term is both always and never masked, and a marked range is a pair of numbers.
Everything rests on one notion: an edit list is `Good` for a text of n symbols when its edits are in order, apart and inside, and written in placeholder halves only.
`GoodMapsBack` says that then the two offset maps are exact, and it is the only place where the maps are looked at. Each pass gets a lemma that it leaves a good list good
and that what was under an edit stays under one (`Grown`): forcing (`ForceGood`), splicing into the current text right to left, pre-masking across cells, propagation.
The hard one is splicing, which is given in offsets of the current text: an end of a range is literal, and its origin is known, or it lies in a replacement, which is then absorbed
whole with what the splice leaves of its text (`WholeIs`, `SplicedMarks`). When the new edit would still meet another one the engine raises (`spans.py:151`); then nothing is stored and the invariant
has nothing to keep. A finding is a place of a term in the masked text, so both its ends are literal (`TermEnds`), and the original text there is what the audit read.
Last, what is stored: `DecidedOK` says that kept and masked ranges lie in their units and no two document-wide masks are of one term, and one lemma per decision (`MaskKeeps`, `KeepKeeps`,
`UnmaskKeeps`, `UndoMaskKeeps`, `UndoKeepKeeps`, `ReauditKeeps`) that it stays so.

Induction over data. The library's induction theorems take an operator, which no installed prover can instantiate. Where a fold or a recursive function had
to be reasoned about (the parsers, the joined lists), the induction is over a set of numbers instead (`Upwards`): a set that holds 0 and with n also n + 1 holds
every number, and the set is the numbers for which the claim is true.

Only model-checked. Of the masking `KeptStaysOpen` and `NothingSlipsBy`. They compare what a pass finds in the text it is given with what stands in the original, and a pass before it may change
what is found: a gate looks at the words of the line, a regular expression finds the occurrences of a term one after another, so that a mask on one occurrence can
shift the next ones, and a company is found only between non-letters. They hold on the documents of the run and are not claimed of all.
The pure parts of `values`, and its commands. Liveness needs fairness and ENABLED, which the prover has not: `DocumentSettles`, `EverybodyIsServed`, `RequestEnds`,
`CallsEnd`, `UploadSettles`, `UploadsArrive`.

## 5. Not modelled

`run_pipeline` (the evaluation runners' synchronous entry); documents stored by older versions
(`upgrade_stored`, `_legacy_status`); `process_inline`, which only tests use; PDF previews and the rendering of exports; the masking of file names
and reject reasons; the HTTP transport of chat providers and auditors; BM25; the guard of the launch token, security headers, log redaction and
file modes; health and configuration. Of the evaluation: generators of corpora, the attack and inference benches, the mapping mode of the filings benchmark, report
layout. Packaging, the web site and the archive hold no logic of the product. What a
regular expression or a language model finds is data; parsers of file formats are external.

An original that a delete overwrote but could not remove counts as stored: the model then allows
every outcome of extraction, where the code will fail. Reviewers are assumed to use the
application: nothing but `user_settings.json` is edited by hand. Names that differ only in case are different files in `Batch`.
Two benchmark processes of one tag at the same time are not modelled; nothing in the code guards against them.

## 6. What was found while modelling

`resolve_disjoint` shows one: a rejected detection that contains two accepted ones widens both to its own range
(`anonymization/resolve.py:30-32`), so that `resolve_spans`, which "picks non-overlapping spans" (`resolve.py:9`), returns two equal ones.

The following were found while modelling. Where a property is named it stands in its module, and TLC finds it violated; the properties the
runs check are stated so that they hold beside it.

- `UnreadListsNeedAHuman` (DocumentLifecycle): the term lists are read when masking starts and `note_settings`
  asks at the end whether they can be read (`pipeline/runner.py:127`). A file repaired (or a
  transient read error gone) in between lets a document be approved without a human and without the
  always-mask list, which `runner.py:133-134` excludes.
- `UnfinishedDeleteIsListed` (DocumentLifecycle): `storage/local.py:92-94` says that a layer that cannot be
  removed leaves the document listed and the delete repeatable. Not when it
  is the record's own layer: `document.json` was overwritten by then.
- `NoTermIsLost` (TermLists): the settings dialog saves every field of a copy that the browser
  may have read long before, and no decision refreshes that copy. A term masked everywhere
  in between is dropped, also when only the default mode was changed, by one user in one tab. And the undo of `_commit` compares lists by value: if another
  decision asked for the same term in between, the lists compare equal and the undo takes that term too.
- `NoSendUnapproved` (ChatConsent): chat looks at the status of the record it read first. A
  document that is withdrawn after that is still sent (the confirmed text, and recorded), where
  `api/chat.py:12` says that no external call happens for a document that is not approved.
- `KeepsAreLocal` (ReviewDecisions): `overrides.py` says that a keep suppresses only what lies fully inside it; a
  detection that overlaps a kept one is dropped with it when both are resolved together.
- Torn pages: `_store_remask` and `_reaudit` store the new revision first, so that an approval is withdrawn before the text changes;
  a page read between that write and the following ones has the new revision and old
  content, and its decision is accepted (`models/document.py:149-151` says a stale one is refused). The properties of `page` except it.
- `models/findings.py:3-4` promises that malformed output of the model goes to a human. A number or `true` in place of the list of items
  raises instead (`AuditBreaks`): the run ends as failed, the re-audit of an approval with an error.
- `extraction/pdf.py:46-64`: text in images that together cover less than 15 % of their page is neither read nor remarked, so a document may be
  approved without it having been read; it is not in the output either. `ApprovedIsRead` excepts it.
- `extraction/xlsx.py`: comments beyond the limits, and comments that cannot be read, are dropped without a reason, where
  `extraction/base.py:21-22` wants one. And the text of a table ends after `_MAX_TABLE_CELLS`
  cells without one, a workbook only after `_MAX_CELLS`, four times as many.
- `chat/retrieval.py` says that a range such as `[S1-S3]` fails validation; it does when nothing else is cited, and otherwise is ignored.
- `cli/anonymize_path.py`: a second run leaves PDFs of files that are gone; a killed one leaves no manifest and perhaps a torn PDF.
- `evaluation/goldbench/run_stress.py:24-25` says that a run can be cut and continued. A row cut in the middle makes `summarize` raise on each later
  run; `report_gold` skips it. A document that raised counts as done and is never measured again.
- `evaluation/corpus_bist10/fetch.py`: a download that is cut keeps its beginning, which the next fetch takes for the whole file if its first bytes are right.
  `run_bench.py`: a kill between the flush of a document's rows and that of its checks loses its mode check for good, because its rows make it done; the sweep for
  planted values covers the documents of the last start only and overwrites the report of the one before. In the destructive mode every processed document is
  counted as an empty extraction of no characters, because the extracted layer it looks at is not kept.
- `evaluation/bist30`: a carrier on which the pipeline raises is in none of the rates. The attack's summary counts a call that failed as a wrong guess (the failures are also counted on their own).
- A run in which nothing was extracted has a value recall of 1.0 in `evaluation/bist30` and of 0.0 in `evaluation/corpus_bist10`; a critical value left in a file name counts as a residual of the export but not
  as a critical false negative; `complete` of the scorecard's real section accepts documents whose extraction was empty.
- `evaluation/scorecard.py`: the guard against raw values searches the JSON text, in which quotes, line breaks and backslashes of a value are escaped.
- `review/pages.py`: the search on the page goes over the border of two units, so a value may be marked in the wrong one.
- A mask for the whole document does not reach into an occurrence a reviewer kept, and taking back a mask that the audit repaired, for
  all documents, has no effect on this one.
- `frontend/src/api/queries.ts`: after `not_in_review` or `document_not_found` the screen is not reloaded; an upload whose document was deleted meanwhile stays "accepted".

## 7. What is left

- Theorems: the commands of the evaluation (`NeverMixed`, `EachIsMeasuredOnce`, `WorksAlone`) for any number of cases and starts; of the masking, that a kept occurrence stays open
  (the first part of `KeptStaysOpen`), which needs of each pass that a new edit inside a range comes from a span inside it.
- `MaskEngine` over documents that are enumerated instead of chosen.
- A reviewer who reads a torn page, as a process of `DocumentLifecycle` itself; an end of the server under an open review screen.
- The runners of the evaluation that use `run_pipeline`, and the guard of the launch token.
