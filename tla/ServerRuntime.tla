--------------------------- MODULE ServerRuntime ---------------------------
(***************************************************************************)
(* The threads of the server and the documents they meet on: request       *)
(* threads, the one worker thread with its queue (pipeline/queue.py) and   *)
(* the main thread, which starts the worker, recovers, serves and stops    *)
(* (main.py, lifespan).  Where DocumentLifecycle follows one document      *)
(* write by write, this module has several documents and real locks, and   *)
(* of a document only whether and how far it was processed.                *)
(***************************************************************************)
EXTENDS DocumentLocks

CONSTANTS Main, Worker,   \* two of Threads; the others serve requests
          NoDoc,
          MaxRequests,    \* bound on requests
          MaxEnds         \* bound on ends of the process

ASSUME RuntimeConstants == /\ {Main, Worker} \subseteq Threads /\ Main # Worker
                           /\ NoDoc \notin Docs
                           /\ MaxRequests \in Nat /\ MaxEnds \in Nat

VARIABLES status, mode, stored,  \* on disk: record, its mode, original kept
          phase, listed,         \* the main thread; what recover still has to see
          queue, worker, job,    \* the queue, its thread, its variable `job`
          act,                   \* what each thread does
          requests, ends         \* history of the bounds

diskVars == <<status, mode, stored>>
mainVars == <<phase, listed>>
queueVars == <<queue, worker, job>>
bounds == <<requests, ends>>
runtimeVars == <<lockVars, diskVars, mainVars, queueVars, act, bounds>>

Requests == Threads \ {Main, Worker}
Processing == {"queued", "busy"}
Idle == [what |-> "none", doc |-> NoDoc, step |-> "none"]
Jobs == [doc : Docs \cup {NoDoc}, data : BOOLEAN]
NoJob == [doc |-> NoDoc, data |-> FALSE]
End == [doc |-> NoDoc, data |-> TRUE]   \* None in the queue

\* The types of the queue, the threads and the documents (pipeline/queue.py).
RuntimeTypeOK ==
  /\ LockTypeOK
  /\ status \in [Docs -> {"none", "queued", "busy", "settled", "failed", "gone"}]
  /\ mode \in [Docs -> {"mapping", "destructive"}] /\ stored \in [Docs -> BOOLEAN]
  /\ phase \in {"off", "recovering", "serving", "stopping", "stopped"}
  /\ listed \subseteq Docs
  /\ queue \in Seq(Jobs) /\ job \in Jobs
  /\ worker \in {"none", "waiting", "running", "exited"}
  /\ act \in [Threads -> [what : {"none", "upload", "decide", "delete", "run", "recover"},
                          doc : Docs \cup {NoDoc},
                          step : {"none", "enter", "in", "half", "out", "submit"}]]
  /\ requests \in 0..MaxRequests /\ ends \in 0..MaxEnds

RuntimeInit ==
  /\ LockInit
  /\ status = [d \in Docs |-> "none"] /\ stored = [d \in Docs |-> FALSE]
  /\ mode \in [Docs -> {"mapping", "destructive"}]
  /\ phase = "off" /\ listed = {}
  /\ queue = <<>> /\ worker = "none" /\ job = NoJob
  /\ act = [t \in Threads |-> Idle]
  /\ requests = 0 /\ ends = 0

----------------------------------------------------------------------------
(* Calling a locked path: enter, wait, work, release, return.              *)

Doing(t, what, step) == act[t].what = what /\ act[t].step = step
Step(t, step) == act' = [act EXCEPT ![t].step = step]
Begin(t, what, d) == act' = [act EXCEPT ![t] = [what |-> what, doc |-> d, step |-> "enter"]]
Finish(t) == act' = [act EXCEPT ![t] = Idle]
Working(t, what, step) == At(t, "body") /\ Doing(t, what, step) /\ UNCHANGED lockVars

Call(t) == /\ act[t].step = "enter" /\ Enter(t, act[t].doc) /\ Step(t, "in")
           /\ UNCHANGED <<diskVars, mainVars, queueVars, bounds>>

Plumbing(t) == LockStep(t) /\ UNCHANGED <<diskVars, mainVars, queueVars, act, bounds>>

\* Mutant: an exception leaves the block without a release.
LeaveHeld(t) ==
  /\ act[t].step = "out" /\ At(t, "body") /\ Advance(t, Top(t).lock, "left")
  /\ UNCHANGED <<guard, table, owner, depth, diskVars, mainVars, queueVars, act, bounds>>

Leave(t) == /\ act[t].step = "out" /\ Release(t)
            /\ UNCHANGED <<diskVars, mainVars, queueVars, act, bounds>>

\* Back from the lock: a request answers, an upload still submits its job.
Return(t) ==
  /\ act[t].step = "out" /\ Outside(t) /\ t # Worker
  /\ IF act[t].what = "upload" THEN Step(t, "submit") ELSE Finish(t)
  /\ UNCHANGED <<lockVars, diskVars, mainVars, queueVars, bounds>>

----------------------------------------------------------------------------
(* Requests.                                                               *)

Request(t, what, d) ==
  /\ t \in Requests /\ act[t] = Idle /\ phase = "serving"
  /\ requests < MaxRequests /\ requests' = requests + 1
  /\ CASE what = "upload" -> status[d] = "none" /\ \A u \in Threads : act[u].doc # d
       [] what = "decide" -> status[d] \in {"settled", "failed"}
       [] what = "delete" -> status[d] \notin {"none", "gone"}
  /\ Begin(t, what, d)
  /\ UNCHANGED <<lockVars, diskVars, mainVars, queueVars, ends>>

\* _accept_upload: the record, then, in mapping mode, the original.
UploadRecord(t) ==
  /\ Working(t, "upload", "in")
  /\ status' = [status EXCEPT ![act[t].doc] = "queued"]
  /\ Step(t, IF mode[act[t].doc] = "mapping" THEN "half" ELSE "out")
  /\ UNCHANGED <<mode, stored, mainVars, queueVars, bounds>>

UploadOriginal(t) ==
  /\ Working(t, "upload", "half")
  /\ stored' = [stored EXCEPT ![act[t].doc] = TRUE]
  /\ Step(t, "out")
  /\ UNCHANGED <<status, mode, mainVars, queueVars, bounds>>

Submit(t) ==
  /\ Doing(t, "upload", "submit")
  /\ queue' = Append(queue, [doc |-> act[t].doc, data |-> mode[act[t].doc] = "destructive"])
  /\ Finish(t)
  /\ UNCHANGED <<lockVars, diskVars, mainVars, worker, job, bounds>>

\* A decision, approve, reject or download: reads again and works under the
\* lock, which is re-entrant for a locked path that calls another.
Helper(t) ==
  /\ Doing(t, "decide", "in") /\ At(t, "body") /\ Enter(t, act[t].doc)
  /\ UNCHANGED <<diskVars, mainVars, queueVars, act, bounds>>

Decide(t) ==
  /\ Working(t, "decide", "in") /\ Step(t, "out")
  /\ UNCHANGED <<diskVars, mainVars, queueVars, bounds>>

\* delete_document: 404 and 409 leave everything as it is.
DeleteAll(t) ==
  /\ Working(t, "delete", "in") /\ Step(t, "out")
  /\ LET d == act[t].doc
     IN IF status[d] \in {"gone", "busy"} THEN UNCHANGED diskVars
        ELSE /\ status' = [status EXCEPT ![d] = "gone"]
             /\ stored' = [stored EXCEPT ![d] = FALSE]
             /\ UNCHANGED mode
  /\ UNCHANGED <<mainVars, queueVars, bounds>>

\* Mutant: the timeout is not passed on.
GiveUpNever(t) == Doing(t, "delete", "never") /\ UNCHANGED runtimeVars

\* Only delete passes a timeout.
GiveUp(t) ==
  /\ Doing(t, "delete", "in") /\ TimeOut(t) /\ Step(t, "out")
  /\ UNCHANGED <<diskVars, mainVars, queueVars, bounds>>

----------------------------------------------------------------------------
(* The worker thread.                                                      *)

\* queue.get(): the end marker ends the thread.
TakeJob ==
  /\ worker = "waiting" /\ queue # <<>>
  /\ queue' = Tail(queue)
  /\ IF Head(queue) = End
     THEN worker' = "exited" /\ UNCHANGED <<job, act>>
     ELSE /\ worker' = "running" /\ job' = Head(queue)
          /\ Begin(Worker, "run", Head(queue).doc)
  /\ UNCHANGED <<lockVars, diskVars, mainVars, bounds>>

\* process_job under the lock: a document that is gone or no longer waits is
\* skipped; without bytes and original the run fails.
RunBegins ==
  /\ Working(Worker, "run", "in")
  /\ LET d == job.doc
         runs == status[d] \in Processing /\ (job.data \/ stored[d])
     IN /\ status' = [status EXCEPT ![d] = IF runs THEN "busy"
                                           ELSE IF @ \in Processing THEN "failed" ELSE @]
        /\ Step(Worker, IF runs THEN "half" ELSE "out")
  /\ UNCHANGED <<mode, stored, mainVars, queueVars, bounds>>

RunEnds ==
  /\ Working(Worker, "run", "half") /\ Step(Worker, "out")
  /\ \E result \in {"settled", "failed"} :
       status' = [status EXCEPT ![job.doc] = result]
  /\ UNCHANGED <<mode, stored, mainVars, queueVars, bounds>>

\* Mutant: a failed run ends the thread.
RunReturnsDead ==
  /\ Doing(Worker, "run", "out") /\ Outside(Worker)
  /\ job' = [job EXCEPT !.data = FALSE]
  /\ worker' = IF status[job.doc] = "failed" THEN "exited" ELSE "waiting"
  /\ Finish(Worker)
  /\ UNCHANGED <<lockVars, diskVars, mainVars, queue, bounds>>

\* Back in _loop: the bytes are dropped, `job` itself stays until the next one.
RunReturns ==
  /\ Doing(Worker, "run", "out") /\ Outside(Worker)
  /\ job' = [job EXCEPT !.data = FALSE]
  /\ worker' = "waiting" /\ Finish(Worker)
  /\ UNCHANGED <<lockVars, diskVars, mainVars, queue, bounds>>

WorkerStep == TakeJob \/ RunBegins \/ RunReturns

----------------------------------------------------------------------------
(* The main thread.                                                        *)

\* The worker is started first, then recover lists the documents.
Start ==
  /\ phase = "off" /\ phase' = "recovering"
  /\ listed' = {d \in Docs : status[d] \in Processing}
  /\ worker' = "waiting"
  /\ UNCHANGED <<lockVars, diskVars, queue, job, act, bounds>>

\* Mutant: the first document ends the recovery.
RecoverNextOnly ==
  /\ phase = "recovering" /\ act[Main] = Idle
  /\ \E d \in listed : listed' = {} /\ Begin(Main, "recover", d)
  /\ UNCHANGED <<lockVars, diskVars, phase, queueVars, bounds>>

RecoverNext ==
  /\ phase = "recovering" /\ act[Main] = Idle
  /\ \E d \in listed : listed' = listed \ {d} /\ Begin(Main, "recover", d)
  /\ UNCHANGED <<lockVars, diskVars, phase, queueVars, bounds>>

\* _recover_one: QUEUED is stored before the job is submitted.
RecoverOne ==
  /\ Working(Main, "recover", "in")
  /\ LET d == act[Main].doc
     IN CASE status[d] \notin Processing ->
               Step(Main, "out") /\ UNCHANGED <<status, queue>>
          [] status[d] \in Processing /\ mode[d] = "mapping" /\ stored[d] ->
               /\ status' = [status EXCEPT ![d] = "queued"]
               /\ queue' = Append(queue, [doc |-> d, data |-> FALSE])
               /\ Step(Main, "out")
          [] OTHER ->
               /\ status' = [status EXCEPT ![d] = "failed"]
               /\ Step(Main, "out") /\ UNCHANGED queue
  /\ UNCHANGED <<mode, stored, mainVars, worker, job, bounds>>

\* Requests are served once recover is through.
Serve == /\ phase = "recovering" /\ listed = {} /\ act[Main] = Idle
         /\ phase' = "serving"
         /\ UNCHANGED <<lockVars, diskVars, listed, queueVars, act, bounds>>

\* Mutant: the end marker is taken before the jobs that wait.
StopFirst ==
  /\ phase = "serving" /\ \A t \in Requests : act[t] = Idle
  /\ phase' = "stopping" /\ queue' = <<End>> \o queue
  /\ UNCHANGED <<lockVars, diskVars, listed, worker, job, act, bounds>>

\* Worker.stop, after the server has answered its requests.
Stop ==
  /\ phase = "serving" /\ \A t \in Requests : act[t] = Idle
  /\ phase' = "stopping" /\ queue' = Append(queue, End)
  /\ UNCHANGED <<lockVars, diskVars, listed, worker, job, act, bounds>>

\* join: the thread is over ...
Joined == /\ phase = "stopping" /\ worker = "exited" /\ phase' = "stopped"
          /\ UNCHANGED <<lockVars, diskVars, listed, queueVars, act, bounds>>

\* ... or it takes too long; the process ends then as it may at any time, and
\* with it the locks, the queue and the bytes.
ProcessEnds ==
  /\ phase # "off" /\ ends < MaxEnds /\ ends' = ends + 1
  /\ Vanish
  /\ phase' = "off" /\ listed' = {}
  /\ queue' = <<>> /\ worker' = "none" /\ job' = NoJob
  /\ act' = [t \in Threads |-> Idle]
  /\ UNCHANGED <<diskVars, requests>>

MainStep == Start \/ RecoverNext \/ RecoverOne \/ Serve \/ Joined

----------------------------------------------------------------------------
ThreadStep(t) == \/ Call(t) \/ Plumbing(t) \/ Leave(t) \/ Return(t)
                 \/ UploadRecord(t) \/ UploadOriginal(t) \/ Submit(t)
                 \/ Decide(t) \/ DeleteAll(t)

RuntimeNext ==
  \/ \E t \in Threads : ThreadStep(t) \/ GiveUp(t) \/ Helper(t)
  \/ \E t \in Requests, d \in Docs, what \in {"upload", "decide", "delete"} :
       Request(t, what, d)
  \/ WorkerStep \/ RunEnds \/ MainStep \/ Stop \/ ProcessEnds

RuntimeSpec == RuntimeInit /\ [][RuntimeNext]_runtimeVars

\* Every thread goes on when it can, acquire's timeout comes, the process is
\* started again.  Nothing is assumed of a run: a model may take forever.
RuntimeFairness ==
  /\ \A t \in Threads : WF_runtimeVars(ThreadStep(t)) /\ WF_runtimeVars(GiveUp(t))
  /\ WF_runtimeVars(WorkerStep) /\ WF_runtimeVars(MainStep)
FairRuntimeSpec == RuntimeSpec /\ RuntimeFairness

----------------------------------------------------------------------------
\* Several documents, recovered one after the other while the worker already
\* runs the first: no document is left in processing without its job.
EveryDocumentHasItsJob ==
  \A d \in Docs : phase \in {"serving", "stopping"} /\ status[d] \in Processing =>
    \/ \E i \in DOMAIN queue : queue[i] # End /\ queue[i].doc = d
    \/ act[Worker].doc = d
    \/ \E t \in Requests : act[t].what = "upload" /\ act[t].doc = d

\* A stop whose join returned in time leaves no document half way: the marker
\* is behind every job.
CleanStopLeavesNoWork ==
  phase = "stopped" => \A d \in Docs : status[d] \notin Processing

\* A request never waits for a run: delete gives up (document_busy), whoever
\* holds the lock.
DeleteAnswers ==
  \A t \in Requests : Doing(t, "delete", "in") ~> ~Doing(t, "delete", "in")

Running == Doing(Worker, "run", "half")

\* As long as each run ends, every document that waits gets its turn while the
\* server serves, over several documents, deletes and restarts.
QueueIsServed ==
  []<>~Running =>
    \A d \in Docs : status[d] = "queued" /\ phase = "serving"
                    ~> status[d] # "queued" \/ phase # "serving"

\* What the threads do to the locks is what DocumentLocks allows.
UsesLocks == LockSpec

----------------------------------------------------------------------------
\* No document is forgotten by the queue, a recovery or a stop (JobQueue.recover,
\* submit, stop).
NoWorkIsLost == RuntimeTypeOK /\ EveryDocumentHasItsJob /\ CleanStopLeavesNoWork

\* Requests and documents all get their turn (acquire's timeout, the worker).
EverybodyIsServed == DeleteAnswers /\ QueueIsServed
=============================================================================
