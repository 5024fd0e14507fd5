---------------------------- MODULE JobRegistry ----------------------------
(***************************************************************************)
(* The background jobs of the rakuyomi server (server/src/job): requests   *)
(* create a job, poll it, and cancel it, while the job's own task runs on  *)
(* another worker.                                                         *)
(*                                                                         *)
(* The registry is a HashMap behind an asynchronous mutex.  A poll TAKES   *)
(* the job out of the map, reads its result cell with the mutex released,  *)
(* and puts the job back when it has not ended; a cancel keeps the mutex   *)
(* while it sets the token, aborts the task and writes the result cell.    *)
(* A request whose client goes away is dropped at the await it is at, with *)
(* whatever it holds.                                                      *)
(*                                                                         *)
(* Three kinds of job: single-chapter downloads wait in FIFO order for one *)
(* of the Permits of the download semaphore; batch downloads (unread and   *)
(* scanlator) and library refreshes (chapters and details) work through a  *)
(* list of at most MaxItems items.                                         *)
(***************************************************************************)
EXTENDS Naturals, FiniteSets, Sequences

CONSTANTS Jobs,         \* the job ids that may be created
          ChapterJobs,  \* those created by /jobs/download-chapter
          BatchJobs,    \* those created by the unread and scanlator routes
          Handlers,     \* request handlers that may run at the same time
          NoJob,        \* a handler that works on no job
          Permits,      \* size of the download semaphore
          MaxItems      \* bound on the items of a batch or a refresh

RefreshJobs == Jobs \ (ChapterJobs \cup BatchJobs)

ASSUME JobKinds == /\ ChapterJobs \subseteq Jobs
                   /\ BatchJobs \subseteq Jobs
                   /\ ChapterJobs \cap BatchJobs = {}
                   /\ NoJob \notin Jobs

ASSUME PermitsAssumption == Permits \in Nat \ {0}

ASSUME MaxItemsAssumption == MaxItems \in Nat

VARIABLES
  registry,   \* the jobs in the map
  handler,    \* what each request handler is doing, and on which job
  known,      \* the jobs whose id was returned to a client
  task,       \* the stage of each job's task
  token,      \* the jobs whose cancellation token is set
  abort,      \* the chapter jobs whose task was told to abort
  cell,       \* the result each task has published so far
  left,       \* the items a batch or a refresh has still to do
  queue,      \* the chapter tasks waiting for a permit, oldest first
  permits,    \* the permits nobody holds
  delivered,  \* how often each job's final result was answered to a poll
  verdict,    \* the final result answered
  lost,       \* the jobs dropped together with the handler that owned them
  refused     \* the known jobs of which a cancel was answered "couldn't find job"

clientVars == <<delivered, verdict, lost, refused, known>>
taskVars == <<task, cell, left, queue, permits>>
vars == <<registry, handler, known, task, token, abort, cell, left, queue,
          permits, delivered, verdict, lost, refused>>

Stages == {"none", "queued", "starting", "running", "done", "aborted"}
Results == {"pending", "completed", "errored", "cancelled"}
HandlerSteps == {"idle", "insert", "taken", "reinsert", "aborting", "sending"}

Idle == [pc |-> "idle", job |-> NoJob]
At(h, pc) == handler[h].pc = pc
Goto(h, pc, j) == handler' = [handler EXCEPT ![h] = [pc |-> pc, job |-> j]]

\* Only a cancel keeps the registry mutex from one step to the next.
LockFree == \A h \in Handlers : handler[h].pc \notin {"aborting", "sending"}

Stopped == {"done", "aborted"}

Init ==
  /\ registry = {}
  /\ handler = [h \in Handlers |-> Idle]
  /\ known = {}
  /\ task = [j \in Jobs |-> "none"]
  /\ token = {}
  /\ abort = {}
  /\ cell = [j \in Jobs |-> "pending"]
  /\ left = [j \in Jobs |-> 0]
  /\ queue = <<>>
  /\ permits = Permits
  /\ delivered = [j \in Jobs |-> 0]
  /\ verdict = [j \in Jobs |-> "pending"]
  /\ lost = {}
  /\ refused = {}

-----------------------------------------------------------------------------
(* POST /jobs/...: the task is spawned first, then the job is inserted.     *)

CreateJob(h, j) ==
  /\ At(h, "idle") /\ task[j] = "none"
  /\ task' = [task EXCEPT ![j] = IF j \in ChapterJobs THEN "queued" ELSE "starting"]
  /\ queue' = IF j \in ChapterJobs THEN Append(queue, j) ELSE queue
  /\ Goto(h, "insert", j)
  /\ UNCHANGED <<registry, token, abort, cell, left, permits, clientVars>>

InsertJob(h) ==
  /\ At(h, "insert") /\ LockFree
  /\ registry' = registry \cup {handler[h].job}
  /\ known' = known \cup {handler[h].job}
  /\ handler' = [handler EXCEPT ![h] = Idle]
  /\ UNCHANGED <<taskVars, token, abort, delivered, verdict, lost, refused>>

-----------------------------------------------------------------------------
(* GET /jobs/{id}: remove the job, poll it, insert it again if unfinished.  *)

\* Fault: the job stays in the map while it is polled.
TakeJobKeepsIt(h, j) ==
  /\ At(h, "idle") /\ LockFree
  /\ j \in known \cap registry
  /\ Goto(h, "taken", j)
  /\ UNCHANGED <<registry, taskVars, token, abort, clientVars>>

TakeJob(h, j) ==
  /\ At(h, "idle") /\ LockFree
  /\ j \in known \cap registry
  /\ registry' = registry \ {j}
  /\ Goto(h, "taken", j)
  /\ UNCHANGED <<taskVars, token, abort, clientVars>>

\* Fault: an unfinished job is not put back.
PollPendingForgets(h) ==
  /\ At(h, "taken") /\ cell[handler[h].job] = "pending"
  /\ handler' = [handler EXCEPT ![h] = Idle]
  /\ UNCHANGED <<registry, taskVars, token, abort, clientVars>>

PollPending(h) ==
  /\ At(h, "taken") /\ cell[handler[h].job] = "pending"
  /\ Goto(h, "reinsert", handler[h].job)
  /\ UNCHANGED <<registry, taskVars, token, abort, clientVars>>

\* What a poll answers: a batch reports its cancellation as a completion, a
\* chapter download reports its own as an error.
Answer(j) ==
  IF cell[j] # "cancelled" THEN cell[j]
  ELSE IF j \in ChapterJobs THEN "errored" ELSE "completed"

PollEnded(h) ==
  LET j == handler[h].job IN
  /\ At(h, "taken") /\ cell[j] # "pending"
  /\ delivered' = [delivered EXCEPT ![j] = @ + 1]
  /\ verdict' = [verdict EXCEPT ![j] = Answer(j)]
  /\ handler' = [handler EXCEPT ![h] = Idle]
  /\ UNCHANGED <<registry, taskVars, token, abort, known, lost, refused>>

ReinsertJob(h) ==
  /\ At(h, "reinsert") /\ LockFree
  /\ registry' = registry \cup {handler[h].job}
  /\ handler' = [handler EXCEPT ![h] = Idle]
  /\ UNCHANGED <<taskVars, token, abort, clientVars>>

-----------------------------------------------------------------------------
(* DELETE /jobs/{id}: everything happens under the registry mutex.  Only a  *)
(* chapter download goes on to abort its task and to overwrite the result.  *)

\* Fault: every kind of job has its result overwritten by the cancel.
CancelJobOverwritesAll(h, j) ==
  /\ At(h, "idle") /\ LockFree
  /\ j \in known \cap registry
  /\ token' = token \cup {j}
  /\ Goto(h, "sending", j)
  /\ UNCHANGED <<registry, taskVars, abort, clientVars>>

CancelJob(h, j) ==
  /\ At(h, "idle") /\ LockFree
  /\ j \in known \cap registry
  /\ token' = token \cup {j}
  /\ \/ j \in ChapterJobs /\ Goto(h, "aborting", j)
     \/ j \notin ChapterJobs /\ UNCHANGED handler
  /\ UNCHANGED <<registry, taskVars, abort, clientVars>>

AbortTask(h) ==
  /\ At(h, "aborting")
  /\ abort' = abort \cup {handler[h].job}
  /\ Goto(h, "sending", handler[h].job)
  /\ UNCHANGED <<registry, taskVars, token, clientVars>>

SendCancelled(h) ==
  /\ At(h, "sending")
  /\ cell' = [cell EXCEPT ![handler[h].job] = "cancelled"]
  /\ handler' = [handler EXCEPT ![h] = Idle]
  /\ UNCHANGED <<registry, task, left, queue, permits, token, abort, clientVars>>

CancelNotFound(h, j) ==
  /\ At(h, "idle") /\ LockFree
  /\ j \in known \ registry
  /\ refused' = refused \cup {j}
  /\ UNCHANGED <<registry, handler, taskVars, token, abort, delivered, verdict,
                 lost, known>>

\* The client went away: the handler is dropped at an await.  Polling a
\* chapter download has no await between the removal and the second lock.
DropHandler(h) ==
  /\ \/ At(h, "insert") \/ At(h, "reinsert")
     \/ At(h, "taken") /\ handler[h].job \notin ChapterJobs
  /\ lost' = lost \cup {handler[h].job}
  /\ handler' = [handler EXCEPT ![h] = Idle]
  /\ UNCHANGED <<registry, taskVars, token, abort, known, delivered, verdict,
                 refused>>

-----------------------------------------------------------------------------
(* The task of a chapter download.                                          *)

AcquirePermit(j) ==
  /\ queue # <<>> /\ j = Head(queue) /\ j \notin abort
  /\ permits > 0
  /\ task' = [task EXCEPT ![j] = "running"]
  /\ queue' = Tail(queue)
  /\ permits' = permits - 1
  /\ UNCHANGED <<registry, handler, token, abort, cell, left, clientVars>>

\* do_job returns, send_replace publishes its result whatever the cell holds,
\* and the permit is dropped.  A task that is being polled when it is told to
\* abort still gets here.
FinishChapter(j) ==
  /\ j \in ChapterJobs /\ task[j] = "running"
  /\ \E r \in {"completed", "errored"} : cell' = [cell EXCEPT ![j] = r]
  /\ task' = [task EXCEPT ![j] = "done"]
  /\ permits' = permits + 1
  /\ UNCHANGED <<registry, handler, token, abort, left, queue, clientVars>>

\* The runtime drops an aborted task at its next await.  A task that waits
\* leaves the semaphore's queue; one that downloads gives its permit back.
Leave(i) == SubSeq(queue, 1, i - 1) \o SubSeq(queue, i + 1, Len(queue))

\* Faults: the task keeps its place in the queue; it gives back a permit it
\* does not have; only a task that runs is dropped.
AbortWaitingStaysQueued(j) ==
  /\ j \in abort /\ task[j] = "queued"
  /\ task' = [task EXCEPT ![j] = "aborted"]
  /\ UNCHANGED <<queue, registry, handler, token, abort, cell, left, permits, clientVars>>

AbortWaitingFreesPermit(j) ==
  /\ j \in abort /\ task[j] = "queued"
  /\ \E i \in 1..Len(queue) : queue[i] = j /\ queue' = Leave(i)
  /\ task' = [task EXCEPT ![j] = "aborted"]
  /\ permits' = permits + 1
  /\ UNCHANGED <<registry, handler, token, abort, cell, left, clientVars>>

AbortWaitingOnlyRuns(j) ==
  /\ j \in abort /\ task[j] = "running"
  /\ task' = [task EXCEPT ![j] = "aborted"]
  /\ permits' = permits + 1
  /\ UNCHANGED <<queue, registry, handler, token, abort, cell, left, clientVars>>

AbortWaiting(j) ==
  /\ j \in abort /\ task[j] = "queued"
  /\ \E i \in 1..Len(queue) : queue[i] = j /\ queue' = Leave(i)
  /\ task' = [task EXCEPT ![j] = "aborted"]
  /\ UNCHANGED <<registry, handler, token, abort, cell, left, permits, clientVars>>

\* Fault: the permit of an aborted download leaks.
AbortRunningLeaks(j) ==
  /\ j \in abort /\ task[j] = "running"
  /\ task' = [task EXCEPT ![j] = "aborted"]
  /\ UNCHANGED <<permits, registry, handler, token, abort, cell, left, queue, clientVars>>

AbortRunning(j) ==
  /\ j \in abort /\ task[j] = "running"
  /\ task' = [task EXCEPT ![j] = "aborted"]
  /\ permits' = permits + 1
  /\ UNCHANGED <<registry, handler, token, abort, cell, left, queue, clientVars>>

-----------------------------------------------------------------------------
(* The task of a batch download or of a library refresh.                    *)

PlanItems(j) ==
  /\ task[j] = "starting"
  /\ \E n \in 0..MaxItems : left' = [left EXCEPT ![j] = n]
  /\ task' = [task EXCEPT ![j] = "running"]
  /\ UNCHANGED <<registry, handler, token, abort, cell, queue, permits, clientVars>>

\* Fault: the task ends without publishing its result.
EndSilently(j, result) ==
  /\ task' = [task EXCEPT ![j] = "done"]
  /\ UNCHANGED <<cell, registry, handler, token, abort, left, queue, permits, clientVars>>

End(j, result) ==
  /\ cell' = [cell EXCEPT ![j] = result]
  /\ task' = [task EXCEPT ![j] = "done"]
  /\ UNCHANGED <<registry, handler, token, abort, left, queue, permits, clientVars>>

\* The database cannot be read.
PlanFails(j) == task[j] = "starting" /\ End(j, "errored")

DoItem(j) ==
  /\ j \notin ChapterJobs /\ task[j] = "running" /\ left[j] > 0
  /\ j \in RefreshJobs => j \notin token
  /\ left' = [left EXCEPT ![j] = @ - 1]
  /\ UNCHANGED <<registry, handler, task, token, abort, cell, queue, permits,
                 clientVars>>

\* A batch stops at the first chapter that fails or at a cancellation; a
\* refresh records an item's failure, goes on, and always ends as finished.
BatchItemFails(j) ==
  j \in BatchJobs /\ task[j] = "running" /\ left[j] > 0 /\ End(j, "errored")

BatchCancelled(j) ==
  /\ j \in BatchJobs /\ task[j] = "running" /\ left[j] > 0 /\ j \in token
  /\ End(j, "cancelled")

\* Faults: the loop ends one item early; a cancelled refresh does not leave
\* its loop.
FinishItemsEarly(j) ==
  /\ j \notin ChapterJobs /\ task[j] = "running"
  /\ left[j] <= 1 \/ (j \in RefreshJobs /\ j \in token)
  /\ End(j, "completed")

FinishItemsIgnoresToken(j) ==
  /\ j \notin ChapterJobs /\ task[j] = "running" /\ left[j] = 0
  /\ End(j, "completed")

FinishItems(j) ==
  /\ j \notin ChapterJobs /\ task[j] = "running"
  /\ left[j] = 0 \/ (j \in RefreshJobs /\ j \in token)
  /\ End(j, "completed")

-----------------------------------------------------------------------------
Resume(h) ==
  \/ InsertJob(h) \/ PollPending(h) \/ PollEnded(h) \/ ReinsertJob(h)
  \/ AbortTask(h) \/ SendCancelled(h)

Request(h, j) ==
  \/ CreateJob(h, j) \/ TakeJob(h, j) \/ CancelJob(h, j) \/ CancelNotFound(h, j)

TaskStep(j) ==
  \/ AcquirePermit(j) \/ FinishChapter(j) \/ AbortWaiting(j) \/ AbortRunning(j)
  \/ PlanItems(j) \/ PlanFails(j) \/ DoItem(j) \/ BatchItemFails(j)
  \/ BatchCancelled(j) \/ FinishItems(j)

Next ==
  \/ \E h \in Handlers : Resume(h) \/ DropHandler(h)
  \/ \E h \in Handlers, j \in Jobs : Request(h, j)
  \/ \E j \in Jobs : TaskStep(j)

Spec == Init /\ [][Next]_vars

\* The runtime polls a task that can go on, and a handler that was not
\* dropped; downloads and source calls return.
Fairness ==
  /\ \A j \in Jobs : WF_vars(TaskStep(j))
  /\ \A h \in Handlers : WF_vars(Resume(h))

FairSpec == Spec /\ Fairness

\* The client polls a job until it has the result (Job:poll in jobs/Job.lua).
PollingSpec ==
  FairSpec /\ \A j \in Jobs : SF_vars(\E h \in Handlers : TakeJob(h, j))

-----------------------------------------------------------------------------
(* Properties.                                                              *)

TypeOK ==
  /\ registry \subseteq Jobs
  /\ handler \in [Handlers -> [pc : HandlerSteps, job : Jobs \cup {NoJob}]]
  /\ known \subseteq Jobs
  /\ task \in [Jobs -> Stages]
  /\ token \subseteq Jobs
  /\ abort \subseteq ChapterJobs
  /\ cell \in [Jobs -> Results]
  /\ left \in [Jobs -> 0..MaxItems]
  /\ queue \in Seq(ChapterJobs)
  /\ permits \in 0..Permits
  /\ delivered \in [Jobs -> Nat]
  /\ verdict \in [Jobs -> Results]
  /\ lost \subseteq Jobs
  /\ refused \subseteq Jobs

\* The jobs a handler owns: not yet inserted, or taken out to be polled.
Holds(h) == IF handler[h].pc \in {"insert", "taken", "reinsert"}
            THEN {handler[h].job} ELSE {}

Registered(j) == j \in registry
Held(j) == \E h \in Handlers : j \in Holds(h)

\* No job is ever in two hands: never in the map while a handler owns it,
\* never owned by two handlers, and never back once it was answered or lost.
SingleOwner ==
  /\ \A h \in Handlers : Holds(h) \cap registry = {}
  /\ \A g, h \in Handlers : g # h => Holds(g) \cap Holds(h) = {}
  /\ \A j \in Jobs : j \in lost \/ delivered[j] > 0 => ~Registered(j) /\ ~Held(j)

\* A job that was created is in the map or in one handler's hands, unless its
\* result was answered or it was dropped with its handler: get_job's removal
\* and reinsertion lose nothing of themselves.
NoJobVanishes ==
  \A j \in Jobs : task[j] # "none" =>
     Registered(j) \/ Held(j) \/ delivered[j] > 0 \/ j \in lost

\* The final result of a job is answered at most once.
DeliveredOnce == \A j \in Jobs : delivered[j] <= 1

\* A job that nobody cancelled is answered only after its task ended, and a
\* batch or a refresh that is answered as completed with items left was
\* cancelled: "completed" is never answered early.
HonestVerdict ==
  \A j \in Jobs : delivered[j] > 0 /\ j \notin token =>
     /\ task[j] = "done"
     /\ verdict[j] = "completed" => left[j] = 0

\* The chapter tasks that hold a permit.
Running == {j \in ChapterJobs : task[j] = "running"}

\* Every permit of the download semaphore is free or held by a chapter task
\* that runs: an abort in the queue or during the download leaks none.
PermitsConserved == permits + Cardinality(Running) = Permits

\* The semaphore's queue holds exactly the chapter tasks that wait, once each.
QueueExact ==
  /\ \A i, k \in 1..Len(queue) : queue[i] = queue[k] => i = k
  /\ \A i \in 1..Len(queue) : task[queue[i]] = "queued"
  /\ \A j \in ChapterJobs : task[j] = "queued" => \E i \in 1..Len(queue) : queue[i] = j

\* A published result changes afterwards only if it is a chapter download
\* that was cancelled: cancel and task overwrite each other's result.
ResultStable ==
  [][\A j \in Jobs : cell[j] # "pending" /\ cell'[j] # cell[j] =>
        j \in ChapterJobs \cap token]_vars

\* A job whose token is set stops, wherever it was: in the queue, downloading,
\* or between two items.
CancelStopsTask(j) == j \in token ~> task[j] \in Stopped

\* A chapter that waits for a permit gets one or is aborted: the queue is FIFO.
NoStarvation(j) == task[j] = "queued" ~> task[j] # "queued"

\* A client that goes on polling gets the result, unless a request of its own
\* was dropped while it had the job.
ResultArrives(j) == j \in known ~> delivered[j] > 0 \/ j \in lost

\* "You can cancel the download at any time" (offline-mode.md:39): a cancel is
\* answered "couldn't find job" only of a job whose result was answered.
CancelAtAnyTime == \A j \in refused : delivered[j] > 0
=============================================================================
