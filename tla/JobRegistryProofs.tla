------------------------- MODULE JobRegistryProofs -------------------------
(***************************************************************************)
(* Proofs about JobRegistry, for every set of jobs and handlers and every  *)
(* number of permits.  IInv is the inductive invariant: the invariants     *)
(* TLC checks, and what ties a request handler, the map, a task and its    *)
(* result cell together between two steps.                                 *)
(***************************************************************************)
EXTENDS JobRegistry, FiniteSetTheorems, SequenceTheorems, TLAPS

-----------------------------------------------------------------------------
(* The inductive invariant, part by part.                                   *)

\* A handler that is busy works on a job.
HandlersBusy == \A h \in Handlers : ~At(h, "idle") => handler[h].job \in Jobs

\* Nobody knows, holds or has answered a job that was not created.
Created ==
  \A j \in Jobs : task[j] = "none" =>
    ~Registered(j) /\ ~Held(j) /\ delivered[j] = 0 /\ j \notin lost

\* A handler in the middle of a cancel holds the mutex alone, and its job is
\* a chapter download that stays in the map with its token set.
CancelUnderLock ==
  /\ \A h \in Handlers : handler[h].pc \in {"aborting", "sending"} =>
       handler[h].job \in registry \cap ChapterJobs \cap token
  /\ \A g, h \in Handlers :
       /\ handler[g].pc \in {"aborting", "sending"}
       /\ handler[h].pc \in {"aborting", "sending"}
       => g = h

\* A result is published by the task as it ends, or by the cancel of a
\* chapter download; a task that ends as completed has no item left.
CellsHonest ==
  \A j \in Jobs : cell[j] # "pending" =>
    \/ j \in ChapterJobs \cap token
    \/ /\ task[j] = "done"
       /\ j \notin token /\ cell[j] = "completed" => left[j] = 0

\* Only a cancelled job's result is the cancellation, and only a task that
\* started publishes one.
CancelledCells == \A j \in Jobs : cell[j] = "cancelled" => j \in token

NotYet == \A j \in Jobs : task[j] = "none" => cell[j] = "pending"

\* Only the tasks of batches and refreshes have items, a chapter download
\* never starts a list, and only a chapter download is queued or aborted.
KindsOfTask ==
  \A j \in Jobs :
    /\ j \in ChapterJobs => left[j] = 0 /\ task[j] # "starting"
    /\ j \notin ChapterJobs => task[j] \notin {"queued", "aborted"}

RunningFinite == IsFiniteSet(Running)

\* Who owns a job; what a task has published; who has a permit.
Ownership == /\ HandlersBusy /\ Created /\ SingleOwner /\ NoJobVanishes
             /\ DeliveredOnce /\ CancelUnderLock
Publishing == /\ KindsOfTask /\ CellsHonest /\ CancelledCells /\ NotYet
              /\ HonestVerdict
Semaphore == RunningFinite /\ PermitsConserved /\ QueueExact

IInv == TypeOK /\ Ownership /\ Publishing /\ Semaphore

-----------------------------------------------------------------------------
LEMMA InitIInv == Init => IInv
<1>. SUFFICES ASSUME Init PROVE IInv
  OBVIOUS
<1>1. TypeOK
  BY JobKinds, PermitsAssumption, MaxItemsAssumption
  DEF Init, TypeOK, Idle, HandlerSteps, Stages, Results
<1>2. Ownership
  BY DEF Init, Ownership, HandlersBusy, Created, SingleOwner, NoJobVanishes,
         DeliveredOnce, CancelUnderLock, Registered, Held, Holds, At, Idle
<1>3. Publishing
  BY DEF Init, Publishing, KindsOfTask, CellsHonest, CancelledCells, NotYet, HonestVerdict
<1>4. Running = {}
  BY JobKinds DEF Init, Running
<1>5. Semaphore
  BY <1>4, FS_EmptySet, PermitsAssumption, JobKinds
  DEF Init, Semaphore, RunningFinite, PermitsConserved, QueueExact
<1>. QED
  BY <1>1, <1>2, <1>3, <1>5 DEF IInv

-----------------------------------------------------------------------------
(* What a step leaves alone it keeps.                                       *)

LEMMA OwnershipKept ==
  ASSUME Ownership, UNCHANGED <<registry, handler, delivered, lost>>,
         token \subseteq token',
         \A j \in Jobs : task'[j] = "none" <=> task[j] = "none"
  PROVE  Ownership'
  BY DEF Ownership, HandlersBusy, Created, SingleOwner, NoJobVanishes,
         DeliveredOnce, CancelUnderLock, Registered, Held, Holds, At

LEMMA PublishingKept ==
  ASSUME Publishing, UNCHANGED <<task, cell, left, delivered, verdict>>,
         token \subseteq token'
  PROVE  Publishing'
  BY DEF Publishing, KindsOfTask, CellsHonest, CancelledCells, NotYet, HonestVerdict

LEMMA SemaphoreKept ==
  ASSUME Semaphore, UNCHANGED <<task, queue, permits>>
  PROVE  Semaphore'
  BY DEF Semaphore, RunningFinite, PermitsConserved, QueueExact, Running

\* A task that is no chapter download moves neither queue nor permits.
LEMMA SemaphoreKeptByItems ==
  ASSUME Semaphore, UNCHANGED <<queue, permits>>, queue \in Seq(ChapterJobs),
         NEW j \in Jobs \ ChapterJobs, NEW s,
         task \in [Jobs -> Stages], task' = [task EXCEPT ![j] = s]
  PROVE  Semaphore'
<1>1. Running' = Running
  BY JobKinds DEF Running
<1>2. \A k \in ChapterJobs : task'[k] = task[k]
  BY JobKinds
<1>. QED
  BY <1>1, <1>2 DEF Semaphore, RunningFinite, PermitsConserved, QueueExact

-----------------------------------------------------------------------------
(* Steps of a request handler.                                              *)

LEMMA InsertJobKeeps ==
  ASSUME IInv, NEW h \in Handlers, InsertJob(h)
  PROVE  IInv'
<1>. USE DEF IInv
<1>1. TypeOK'
  BY JobKinds DEF TypeOK, Ownership, HandlersBusy, InsertJob, taskVars, clientVars, HandlerSteps, Stages, Results, At, Idle
<1>2. Ownership'
  <2>1. HandlersBusy'
    BY JobKinds DEF TypeOK, Ownership, HandlersBusy, InsertJob, taskVars, clientVars, At, Idle, HandlerSteps
  <2>2. Created'
    BY JobKinds DEF TypeOK, Ownership, Created, HandlersBusy, Registered, Held, Holds, InsertJob, taskVars, clientVars, At, Idle, HandlerSteps
  <2>3. SingleOwner'
    BY JobKinds DEF TypeOK, Ownership, SingleOwner, Created, HandlersBusy, Registered, Held, Holds, InsertJob, taskVars, clientVars, At, Idle, HandlerSteps
  <2>4. NoJobVanishes'
    BY JobKinds DEF TypeOK, Ownership, NoJobVanishes, HandlersBusy, Registered, Held, Holds, InsertJob, taskVars, clientVars, At, Idle, HandlerSteps
  <2>5. DeliveredOnce'
    BY JobKinds DEF TypeOK, Ownership, DeliveredOnce, SingleOwner, HandlersBusy, Registered, Held, Holds, InsertJob, taskVars, clientVars, At, Idle, HandlerSteps
  <2>6. CancelUnderLock'
    BY JobKinds DEF TypeOK, Ownership, CancelUnderLock, LockFree, SingleOwner, HandlersBusy, Registered, Held, Holds, InsertJob, taskVars, clientVars, At, Idle, HandlerSteps
  <2>. QED
    BY <2>1, <2>2, <2>3, <2>4, <2>5, <2>6 DEF Ownership
<1>3. Publishing'
  BY PublishingKept DEF InsertJob, taskVars, clientVars
<1>4. Semaphore'
  BY SemaphoreKept DEF InsertJob, taskVars, clientVars
<1>. QED
  BY <1>1, <1>2, <1>3, <1>4

LEMMA TakeJobKeeps ==
  ASSUME IInv, NEW h \in Handlers, NEW j \in Jobs, TakeJob(h, j)
  PROVE  IInv'
<1>. USE DEF IInv
<1>1. TypeOK'
  BY JobKinds DEF TypeOK, Ownership, HandlersBusy, TakeJob, Goto, taskVars, clientVars, HandlerSteps, Stages, Results, At, Idle
<1>2. Ownership'
  <2>. handler[h].pc = "idle" /\ handler' = [handler EXCEPT ![h] = [pc |-> "taken", job |-> j]]
    BY DEF TakeJob, Goto, At
  <2>b. /\ registry' = registry \ {j} /\ j \in registry
        /\ UNCHANGED <<task, token, delivered, lost>>
    BY DEF TakeJob, taskVars, clientVars
  <2>c. \A g \in Handlers : Holds(g)' = IF g = h THEN {j} ELSE Holds(g)
    BY DEF TypeOK, Holds
  <2>d. \A g \in Handlers : j \notin Holds(g)
    BY <2>b DEF Ownership, SingleOwner
  <2>1. HandlersBusy'
    BY DEF TypeOK, Ownership, HandlersBusy, At
  <2>2. Created'
    BY <2>b, <2>c DEF Ownership, Created, Registered, Held
  <2>3. SingleOwner'
    <3>1. \A g \in Handlers : Holds(g)' \cap registry' = {}
      BY <2>b, <2>c DEF Ownership, SingleOwner
    <3>2. \A f, g \in Handlers : f # g => Holds(f)' \cap Holds(g)' = {}
      BY <2>c, <2>d DEF Ownership, SingleOwner
    <3>3. \A k \in Jobs : k \in lost' \/ delivered'[k] > 0 => ~Registered(k)' /\ ~Held(k)'
      BY <2>b, <2>c DEF Ownership, SingleOwner, Registered, Held
    <3>. QED
      BY <3>1, <3>2, <3>3 DEF SingleOwner, Registered, Held
  <2>4. NoJobVanishes'
    BY <2>b, <2>c, <2>d DEF Ownership, NoJobVanishes, Registered, Held, Holds
  <2>5. DeliveredOnce'
    BY <2>b DEF Ownership, DeliveredOnce
  <2>6. CancelUnderLock'
    BY <2>b DEF TypeOK, Ownership, CancelUnderLock, TakeJob, LockFree
  <2>. QED
    BY <2>1, <2>2, <2>3, <2>4, <2>5, <2>6 DEF Ownership
<1>3. Publishing'
  BY PublishingKept DEF TakeJob, Goto, taskVars, clientVars
<1>4. Semaphore'
  BY SemaphoreKept DEF TakeJob, Goto, taskVars, clientVars
<1>. QED
  BY <1>1, <1>2, <1>3, <1>4

LEMMA PollPendingKeeps ==
  ASSUME IInv, NEW h \in Handlers, PollPending(h)
  PROVE  IInv'
<1>. USE DEF IInv
<1>1. TypeOK'
  BY JobKinds DEF TypeOK, Ownership, HandlersBusy, PollPending, Goto, taskVars, clientVars, HandlerSteps, Stages, Results, At, Idle
<1>2. Ownership'
  <2>1. HandlersBusy'
    BY JobKinds DEF TypeOK, Ownership, HandlersBusy, PollPending, Goto, taskVars, clientVars, At, Idle, HandlerSteps
  <2>2. Created'
    BY JobKinds DEF TypeOK, Ownership, Created, HandlersBusy, Registered, Held, Holds, PollPending, Goto, taskVars, clientVars, At, Idle, HandlerSteps
  <2>3. SingleOwner'
    BY JobKinds DEF TypeOK, Ownership, SingleOwner, Created, HandlersBusy, Registered, Held, Holds, PollPending, Goto, taskVars, clientVars, At, Idle, HandlerSteps
  <2>4. NoJobVanishes'
    BY JobKinds DEF TypeOK, Ownership, NoJobVanishes, HandlersBusy, Registered, Held, Holds, PollPending, Goto, taskVars, clientVars, At, Idle, HandlerSteps
  <2>5. DeliveredOnce'
    BY JobKinds DEF TypeOK, Ownership, DeliveredOnce, SingleOwner, HandlersBusy, Registered, Held, Holds, PollPending, Goto, taskVars, clientVars, At, Idle, HandlerSteps
  <2>6. CancelUnderLock'
    BY JobKinds DEF TypeOK, Ownership, CancelUnderLock, LockFree, SingleOwner, HandlersBusy, Registered, Held, Holds, PollPending, Goto, taskVars, clientVars, At, Idle, HandlerSteps
  <2>. QED
    BY <2>1, <2>2, <2>3, <2>4, <2>5, <2>6 DEF Ownership
<1>3. Publishing'
  BY PublishingKept DEF PollPending, Goto, taskVars, clientVars
<1>4. Semaphore'
  BY SemaphoreKept DEF PollPending, Goto, taskVars, clientVars
<1>. QED
  BY <1>1, <1>2, <1>3, <1>4

LEMMA PollEndedKeeps ==
  ASSUME IInv, NEW h \in Handlers, PollEnded(h)
  PROVE  IInv'
<1>. USE DEF IInv
<1>1. TypeOK'
  BY JobKinds DEF TypeOK, Ownership, HandlersBusy, PollEnded, Answer, taskVars, clientVars, HandlerSteps, Stages, Results, At, Idle
<1>2. Ownership'
  <2>. PICK j \in Jobs : j = handler[h].job
    BY DEF Ownership, HandlersBusy, PollEnded, At
  <2>a. j \in Jobs /\ j \in Holds(h) /\ Held(j)
    BY DEF PollEnded, At, Holds, Held
  <2>b. delivered[j] = 0 /\ j \notin registry
    BY <2>a DEF TypeOK, Ownership, SingleOwner, Registered
  <2>c. /\ delivered' = [delivered EXCEPT ![j] = 1]
        /\ handler' = [handler EXCEPT ![h] = Idle]
        /\ UNCHANGED <<registry, task, token, lost>>
    BY <2>a, <2>b DEF PollEnded, taskVars, TypeOK
  <2>d. \A g \in Handlers : Holds(g)' = IF g = h THEN {} ELSE Holds(g)
    BY <2>c DEF TypeOK, Holds, Idle
  <2>e. \A g \in Handlers : g # h => j \notin Holds(g)
    BY <2>a DEF Ownership, SingleOwner
  <2>f. ~Held(j)' /\ \A k \in Jobs : Held(k)' => Held(k)
    BY <2>d, <2>e DEF Held
  <2>g. \A k \in Jobs : k # j => delivered'[k] = delivered[k]
    BY <2>c DEF TypeOK
  <2>1. HandlersBusy'
    BY <2>c DEF TypeOK, Ownership, HandlersBusy, At, Idle
  <2>2. Created'
    <3>1. task[j] # "none"
      BY <2>a DEF Ownership, Created
    <3>. QED
      BY <3>1, <2>c, <2>f, <2>g DEF Ownership, Created, Registered
  <2>3. SingleOwner'
    <3>1. \A g \in Handlers : Holds(g)' \cap registry' = {}
      BY <2>c, <2>d DEF Ownership, SingleOwner
    <3>2. \A f, g \in Handlers : f # g => Holds(f)' \cap Holds(g)' = {}
      BY <2>d DEF Ownership, SingleOwner
    <3>3. \A k \in Jobs : k \in lost' \/ delivered'[k] > 0 => ~Registered(k)' /\ ~Held(k)'
      BY <2>b, <2>c, <2>f, <2>g DEF Ownership, SingleOwner, Registered
    <3>. QED
      BY <3>1, <3>2, <3>3 DEF SingleOwner
  <2>4. NoJobVanishes'
    <3>. SUFFICES ASSUME NEW k \in Jobs, task'[k] # "none"
                  PROVE (Registered(k) \/ Held(k) \/ delivered[k] > 0 \/ k \in lost)'
      BY DEF NoJobVanishes
    <3>1. CASE k = j
      BY <3>1, <2>a, <2>c DEF TypeOK
    <3>2. CASE k # j
      <4>1. Held(k) => Held(k)'
        BY <3>2, <2>d DEF Held, Holds
      <4>. QED
        BY <3>2, <4>1, <2>a, <2>c DEF Ownership, NoJobVanishes, Registered, TypeOK
    <3>. QED
      BY <3>1, <3>2
  <2>5. DeliveredOnce'
    BY <2>a, <2>c DEF TypeOK, Ownership, DeliveredOnce
  <2>6. CancelUnderLock'
    BY <2>c DEF TypeOK, Ownership, CancelUnderLock, Idle
  <2>. QED
    BY <2>1, <2>2, <2>3, <2>4, <2>5, <2>6 DEF Ownership
<1>3. Publishing'
  <2>1. PICK j \in Jobs : j = handler[h].job
    BY DEF Ownership, HandlersBusy, PollEnded, At
  <2>2. /\ cell[j] # "pending" /\ UNCHANGED <<task, cell, left, token>>
        /\ verdict' = [verdict EXCEPT ![j] = Answer(j)]
        /\ delivered' = [delivered EXCEPT ![j] = @ + 1]
    BY <2>1 DEF PollEnded, taskVars
  <2>3. KindsOfTask' /\ CellsHonest' /\ NotYet'
    BY <2>2 DEF Publishing, KindsOfTask, CellsHonest, NotYet
  <2>4. HonestVerdict'
    <3>. SUFFICES ASSUME NEW k \in Jobs, delivered'[k] > 0, k \notin token
                  PROVE  task[k] = "done" /\ (verdict'[k] = "completed" => left[k] = 0)
      BY <2>2 DEF HonestVerdict
    <3>1. CASE k = j
      <4>1. task[j] = "done" /\ (cell[j] = "completed" => left[j] = 0)
        BY <2>1, <2>2, <3>1 DEF Publishing, CellsHonest
      <4>2. cell[j] # "cancelled"
        BY <2>1, <2>2, <3>1 DEF Publishing, CancelledCells
      <4>. QED
        BY <2>1, <2>2, <3>1, <4>1, <4>2 DEF TypeOK, Answer
    <3>2. CASE k # j
      BY <2>1, <2>2, <3>2 DEF TypeOK, Publishing, HonestVerdict
    <3>. QED
      BY <3>1, <3>2
  <2>5. CancelledCells'
    BY <2>2 DEF Publishing, CancelledCells
  <2>. QED
    BY <2>3, <2>4, <2>5 DEF Publishing
<1>4. Semaphore'
  BY SemaphoreKept DEF PollEnded, Answer, taskVars, clientVars
<1>. QED
  BY <1>1, <1>2, <1>3, <1>4

LEMMA ReinsertJobKeeps ==
  ASSUME IInv, NEW h \in Handlers, ReinsertJob(h)
  PROVE  IInv'
<1>. USE DEF IInv
<1>1. TypeOK'
  BY JobKinds DEF TypeOK, Ownership, HandlersBusy, ReinsertJob, taskVars, clientVars, HandlerSteps, Stages, Results, At, Idle
<1>2. Ownership'
  <2>1. HandlersBusy'
    BY JobKinds DEF TypeOK, Ownership, HandlersBusy, ReinsertJob, taskVars, clientVars, At, Idle, HandlerSteps
  <2>2. Created'
    BY JobKinds DEF TypeOK, Ownership, Created, HandlersBusy, Registered, Held, Holds, ReinsertJob, taskVars, clientVars, At, Idle, HandlerSteps
  <2>3. SingleOwner'
    BY JobKinds DEF TypeOK, Ownership, SingleOwner, Created, HandlersBusy, Registered, Held, Holds, ReinsertJob, taskVars, clientVars, At, Idle, HandlerSteps
  <2>4. NoJobVanishes'
    BY JobKinds DEF TypeOK, Ownership, NoJobVanishes, HandlersBusy, Registered, Held, Holds, ReinsertJob, taskVars, clientVars, At, Idle, HandlerSteps
  <2>5. DeliveredOnce'
    BY JobKinds DEF TypeOK, Ownership, DeliveredOnce, SingleOwner, HandlersBusy, Registered, Held, Holds, ReinsertJob, taskVars, clientVars, At, Idle, HandlerSteps
  <2>6. CancelUnderLock'
    BY JobKinds DEF TypeOK, Ownership, CancelUnderLock, LockFree, SingleOwner, HandlersBusy, Registered, Held, Holds, ReinsertJob, taskVars, clientVars, At, Idle, HandlerSteps
  <2>. QED
    BY <2>1, <2>2, <2>3, <2>4, <2>5, <2>6 DEF Ownership
<1>3. Publishing'
  BY PublishingKept DEF ReinsertJob, taskVars, clientVars
<1>4. Semaphore'
  BY SemaphoreKept DEF ReinsertJob, taskVars, clientVars
<1>. QED
  BY <1>1, <1>2, <1>3, <1>4

LEMMA CancelJobKeeps ==
  ASSUME IInv, NEW h \in Handlers, NEW j \in Jobs, CancelJob(h, j)
  PROVE  IInv'
<1>. USE DEF IInv
<1>1. TypeOK'
  <2>1. CASE j \in ChapterJobs
    <3>1. handler' = [handler EXCEPT ![h] = [pc |-> "aborting", job |-> j]]
      BY <2>1 DEF CancelJob, Goto
    <3>2. handler' \in [Handlers -> [pc : HandlerSteps, job : Jobs \cup {NoJob}]]
      BY <3>1 DEF TypeOK, HandlerSteps
    <3>. QED
      BY <3>2 DEF TypeOK, CancelJob, taskVars, clientVars
  <2>2. CASE j \notin ChapterJobs
    BY <2>2 DEF TypeOK, CancelJob, taskVars, clientVars
  <2>. QED
    BY <2>1, <2>2
<1>2. Ownership'
  <2>. handler[h].pc = "idle" /\ LockFree /\ j \in registry
    BY DEF CancelJob, At
  <2>. DEFINE busy == [handler EXCEPT ![h] = [pc |-> "aborting", job |-> j]]
  <2>h. handler' = handler \/ (j \in ChapterJobs /\ handler' = busy)
    BY DEF CancelJob, Goto
  <2>a. \A g \in Handlers : Holds(g)' = Holds(g)
    <3>1. CASE handler' = busy
      BY <3>1 DEF TypeOK, Holds
    <3>. QED
      BY <3>1, <2>h DEF Holds
  <2>b. UNCHANGED <<registry, task, delivered, lost>> /\ token' = token \cup {j}
    BY DEF CancelJob, taskVars, clientVars
  <2>1. HandlersBusy'
    <3>1. CASE handler' = busy
      BY <3>1 DEF TypeOK, Ownership, HandlersBusy, At
    <3>. QED
      BY <3>1, <2>h DEF Ownership, HandlersBusy, At
  <2>2. Created'
    BY <2>a, <2>b DEF Ownership, Created, Registered, Held
  <2>3. SingleOwner'
    BY <2>a, <2>b DEF Ownership, SingleOwner, Registered, Held
  <2>4. NoJobVanishes'
    BY <2>a, <2>b DEF Ownership, NoJobVanishes, Registered, Held
  <2>5. DeliveredOnce'
    BY <2>b DEF Ownership, DeliveredOnce
  <2>6. CancelUnderLock'
    <3>1. CASE handler' = busy /\ j \in ChapterJobs
      <4>1. \A g \in Handlers : handler'[g] = IF g = h THEN [pc |-> "aborting", job |-> j] ELSE handler[g]
        BY <3>1 DEF TypeOK
      <4>. QED
        BY <3>1, <4>1, <2>b DEF CancelUnderLock, LockFree
    <3>2. CASE handler' = handler
      BY <3>2, <2>b DEF Ownership, CancelUnderLock
    <3>. QED
      BY <3>1, <3>2, <2>h
  <2>. QED
    BY <2>1, <2>2, <2>3, <2>4, <2>5, <2>6 DEF Ownership
<1>3. Publishing'
  BY PublishingKept DEF CancelJob, Goto, taskVars, clientVars
<1>4. Semaphore'
  BY SemaphoreKept DEF CancelJob, Goto, taskVars, clientVars
<1>. QED
  BY <1>1, <1>2, <1>3, <1>4

LEMMA AbortTaskKeeps ==
  ASSUME IInv, NEW h \in Handlers, AbortTask(h)
  PROVE  IInv'
<1>. USE DEF IInv
<1>1. TypeOK'
  <2>1. handler[h].job \in ChapterJobs
    BY DEF Ownership, CancelUnderLock, AbortTask, At
  <2>. QED
    BY <2>1, JobKinds DEF TypeOK, AbortTask, Goto, taskVars, clientVars, HandlerSteps
<1>2. Ownership'
  <2>1. HandlersBusy'
    BY JobKinds DEF TypeOK, Ownership, HandlersBusy, AbortTask, Goto, taskVars, clientVars, At, Idle, HandlerSteps
  <2>2. Created'
    BY JobKinds DEF TypeOK, Ownership, Created, HandlersBusy, Registered, Held, Holds, AbortTask, Goto, taskVars, clientVars, At, Idle, HandlerSteps
  <2>3. SingleOwner'
    BY JobKinds DEF TypeOK, Ownership, SingleOwner, Created, HandlersBusy, Registered, Held, Holds, AbortTask, Goto, taskVars, clientVars, At, Idle, HandlerSteps
  <2>4. NoJobVanishes'
    BY JobKinds DEF TypeOK, Ownership, NoJobVanishes, HandlersBusy, Registered, Held, Holds, AbortTask, Goto, taskVars, clientVars, At, Idle, HandlerSteps
  <2>5. DeliveredOnce'
    BY JobKinds DEF TypeOK, Ownership, DeliveredOnce, SingleOwner, HandlersBusy, Registered, Held, Holds, AbortTask, Goto, taskVars, clientVars, At, Idle, HandlerSteps
  <2>6. CancelUnderLock'
    BY JobKinds DEF TypeOK, Ownership, CancelUnderLock, LockFree, SingleOwner, HandlersBusy, Registered, Held, Holds, AbortTask, Goto, taskVars, clientVars, At, Idle, HandlerSteps
  <2>. QED
    BY <2>1, <2>2, <2>3, <2>4, <2>5, <2>6 DEF Ownership
<1>3. Publishing'
  BY PublishingKept DEF AbortTask, Goto, taskVars, clientVars
<1>4. Semaphore'
  BY SemaphoreKept DEF AbortTask, Goto, taskVars, clientVars
<1>. QED
  BY <1>1, <1>2, <1>3, <1>4

LEMMA SendCancelledKeeps ==
  ASSUME IInv, NEW h \in Handlers, SendCancelled(h)
  PROVE  IInv'
<1>. USE DEF IInv
<1>1. TypeOK'
  BY JobKinds DEF TypeOK, Ownership, HandlersBusy, SendCancelled, taskVars, clientVars, HandlerSteps, Stages, Results, At, Idle
<1>2. Ownership'
  <2>1. HandlersBusy'
    BY JobKinds DEF TypeOK, Ownership, HandlersBusy, SendCancelled, taskVars, clientVars, At, Idle, HandlerSteps
  <2>2. Created'
    BY JobKinds DEF TypeOK, Ownership, Created, HandlersBusy, Registered, Held, Holds, SendCancelled, taskVars, clientVars, At, Idle, HandlerSteps
  <2>3. SingleOwner'
    BY JobKinds DEF TypeOK, Ownership, SingleOwner, Created, HandlersBusy, Registered, Held, Holds, SendCancelled, taskVars, clientVars, At, Idle, HandlerSteps
  <2>4. NoJobVanishes'
    BY JobKinds DEF TypeOK, Ownership, NoJobVanishes, HandlersBusy, Registered, Held, Holds, SendCancelled, taskVars, clientVars, At, Idle, HandlerSteps
  <2>5. DeliveredOnce'
    BY JobKinds DEF TypeOK, Ownership, DeliveredOnce, SingleOwner, HandlersBusy, Registered, Held, Holds, SendCancelled, taskVars, clientVars, At, Idle, HandlerSteps
  <2>6. CancelUnderLock'
    BY JobKinds DEF TypeOK, Ownership, CancelUnderLock, LockFree, SingleOwner, HandlersBusy, Registered, Held, Holds, SendCancelled, taskVars, clientVars, At, Idle, HandlerSteps
  <2>. QED
    BY <2>1, <2>2, <2>3, <2>4, <2>5, <2>6 DEF Ownership
<1>3. Publishing'
  <2>1. PICK j \in ChapterJobs \cap token : j = handler[h].job
    BY DEF Ownership, CancelUnderLock, SendCancelled, At
  <2>2. cell' = [cell EXCEPT ![j] = "cancelled"]
        /\ UNCHANGED <<task, left, token, delivered, verdict>>
    BY <2>1 DEF SendCancelled, clientVars
  <2>3. \A k \in Jobs : k # j => cell'[k] = cell[k]
    BY <2>2 DEF TypeOK
  <2>4. task[j] # "none"
    BY <2>1, JobKinds DEF Ownership, CancelUnderLock, Created, Registered, SendCancelled, At
  <2>5. KindsOfTask' /\ HonestVerdict'
    BY <2>2 DEF Publishing, KindsOfTask, HonestVerdict
  <2>6. CellsHonest' /\ CancelledCells' /\ NotYet'
    BY <2>1, <2>2, <2>3, <2>4 DEF Publishing, CellsHonest, CancelledCells, NotYet
  <2>. QED
    BY <2>5, <2>6 DEF Publishing
<1>4. Semaphore'
  BY SemaphoreKept DEF SendCancelled, taskVars, clientVars
<1>. QED
  BY <1>1, <1>2, <1>3, <1>4

LEMMA CancelNotFoundKeeps ==
  ASSUME IInv, NEW h \in Handlers, NEW j \in Jobs, CancelNotFound(h, j)
  PROVE  IInv'
<1>. USE DEF IInv
<1>1. TypeOK'
  BY JobKinds DEF TypeOK, Ownership, HandlersBusy, CancelNotFound, taskVars, clientVars, HandlerSteps, Stages, Results, At, Idle
<1>2. Ownership'
  <2>1. HandlersBusy'
    BY JobKinds DEF TypeOK, Ownership, HandlersBusy, CancelNotFound, taskVars, clientVars, At, Idle, HandlerSteps
  <2>2. Created'
    BY JobKinds DEF TypeOK, Ownership, Created, HandlersBusy, Registered, Held, Holds, CancelNotFound, taskVars, clientVars, At, Idle, HandlerSteps
  <2>3. SingleOwner'
    BY JobKinds DEF TypeOK, Ownership, SingleOwner, Created, HandlersBusy, Registered, Held, Holds, CancelNotFound, taskVars, clientVars, At, Idle, HandlerSteps
  <2>4. NoJobVanishes'
    BY JobKinds DEF TypeOK, Ownership, NoJobVanishes, HandlersBusy, Registered, Held, Holds, CancelNotFound, taskVars, clientVars, At, Idle, HandlerSteps
  <2>5. DeliveredOnce'
    BY JobKinds DEF TypeOK, Ownership, DeliveredOnce, SingleOwner, HandlersBusy, Registered, Held, Holds, CancelNotFound, taskVars, clientVars, At, Idle, HandlerSteps
  <2>6. CancelUnderLock'
    BY JobKinds DEF TypeOK, Ownership, CancelUnderLock, LockFree, SingleOwner, HandlersBusy, Registered, Held, Holds, CancelNotFound, taskVars, clientVars, At, Idle, HandlerSteps
  <2>. QED
    BY <2>1, <2>2, <2>3, <2>4, <2>5, <2>6 DEF Ownership
<1>3. Publishing'
  BY PublishingKept DEF CancelNotFound, taskVars, clientVars
<1>4. Semaphore'
  BY SemaphoreKept DEF CancelNotFound, taskVars, clientVars
<1>. QED
  BY <1>1, <1>2, <1>3, <1>4

LEMMA DropHandlerKeeps ==
  ASSUME IInv, NEW h \in Handlers, DropHandler(h)
  PROVE  IInv'
<1>. USE DEF IInv
<1>1. TypeOK'
  BY JobKinds DEF TypeOK, Ownership, HandlersBusy, DropHandler, taskVars, clientVars, HandlerSteps, Stages, Results, At, Idle
<1>2. Ownership'
  <2>1. HandlersBusy'
    BY JobKinds DEF TypeOK, Ownership, HandlersBusy, DropHandler, taskVars, clientVars, At, Idle, HandlerSteps
  <2>2. Created'
    BY JobKinds DEF TypeOK, Ownership, Created, HandlersBusy, Registered, Held, Holds, DropHandler, taskVars, clientVars, At, Idle, HandlerSteps
  <2>3. SingleOwner'
    BY JobKinds DEF TypeOK, Ownership, SingleOwner, Created, HandlersBusy, Registered, Held, Holds, DropHandler, taskVars, clientVars, At, Idle, HandlerSteps
  <2>4. NoJobVanishes'
    BY JobKinds DEF TypeOK, Ownership, NoJobVanishes, HandlersBusy, Registered, Held, Holds, DropHandler, taskVars, clientVars, At, Idle, HandlerSteps
  <2>5. DeliveredOnce'
    BY JobKinds DEF TypeOK, Ownership, DeliveredOnce, SingleOwner, HandlersBusy, Registered, Held, Holds, DropHandler, taskVars, clientVars, At, Idle, HandlerSteps
  <2>6. CancelUnderLock'
    BY JobKinds DEF TypeOK, Ownership, CancelUnderLock, LockFree, SingleOwner, HandlersBusy, Registered, Held, Holds, DropHandler, taskVars, clientVars, At, Idle, HandlerSteps
  <2>. QED
    BY <2>1, <2>2, <2>3, <2>4, <2>5, <2>6 DEF Ownership
<1>3. Publishing'
  BY PublishingKept DEF DropHandler, taskVars, clientVars
<1>4. Semaphore'
  BY SemaphoreKept DEF DropHandler, taskVars, clientVars
<1>. QED
  BY <1>1, <1>2, <1>3, <1>4

LEMMA CreateJobKeeps ==
  ASSUME IInv, NEW h \in Handlers, NEW j \in Jobs, CreateJob(h, j)
  PROVE  IInv'
<1>. USE DEF IInv
<1>1. TypeOK'
  BY JobKinds DEF TypeOK, Ownership, HandlersBusy, CreateJob, Goto, taskVars, clientVars, HandlerSteps, Stages, Results, At, Idle
<1>2. Ownership'
  <2>1. HandlersBusy'
    BY JobKinds DEF TypeOK, Ownership, HandlersBusy, CreateJob, Goto, taskVars, clientVars, At, Idle, HandlerSteps
  <2>2. Created'
    BY JobKinds DEF TypeOK, Ownership, Created, HandlersBusy, Registered, Held, Holds, CreateJob, Goto, taskVars, clientVars, At, Idle, HandlerSteps
  <2>3. SingleOwner'
    BY JobKinds DEF TypeOK, Ownership, SingleOwner, Created, HandlersBusy, Registered, Held, Holds, CreateJob, Goto, taskVars, clientVars, At, Idle, HandlerSteps
  <2>4. NoJobVanishes'
    BY JobKinds DEF TypeOK, Ownership, NoJobVanishes, HandlersBusy, Registered, Held, Holds, CreateJob, Goto, taskVars, clientVars, At, Idle, HandlerSteps
  <2>5. DeliveredOnce'
    BY JobKinds DEF TypeOK, Ownership, DeliveredOnce, SingleOwner, HandlersBusy, Registered, Held, Holds, CreateJob, Goto, taskVars, clientVars, At, Idle, HandlerSteps
  <2>6. CancelUnderLock'
    BY JobKinds DEF TypeOK, Ownership, CancelUnderLock, LockFree, SingleOwner, HandlersBusy, Registered, Held, Holds, CreateJob, Goto, taskVars, clientVars, At, Idle, HandlerSteps
  <2>. QED
    BY <2>1, <2>2, <2>3, <2>4, <2>5, <2>6 DEF Ownership
<1>3. Publishing'
  <2>1. cell[j] = "pending" /\ delivered[j] = 0
    BY DEF Ownership, Created, Publishing, CellsHonest, NotYet, CreateJob
  <2>2. /\ task' = [task EXCEPT ![j] = IF j \in ChapterJobs THEN "queued" ELSE "starting"]
        /\ UNCHANGED <<cell, left, token, delivered, verdict>>
    BY DEF CreateJob, clientVars
  <2>3. \A k \in Jobs : k # j => task'[k] = task[k]
    BY <2>2 DEF TypeOK
  <2>4. KindsOfTask'
    BY <2>2, <2>3 DEF TypeOK, Publishing, KindsOfTask
  <2>5. CellsHonest' /\ CancelledCells' /\ NotYet'
    BY <2>1, <2>2, <2>3 DEF Publishing, CellsHonest, CancelledCells, NotYet
  <2>6. HonestVerdict'
    BY <2>1, <2>2, <2>3 DEF Publishing, HonestVerdict
  <2>. QED
    BY <2>4, <2>5, <2>6 DEF Publishing
<1>4. Semaphore'
  <2>1. Running' = Running
    BY DEF TypeOK, CreateJob, Running
  <2>2. RunningFinite' /\ PermitsConserved'
    BY <2>1 DEF Semaphore, RunningFinite, PermitsConserved, CreateJob
  <2>3. QueueExact'
    <3>1. CASE j \in ChapterJobs
      <4>1. queue' = Append(queue, j) /\ task' = [task EXCEPT ![j] = "queued"] /\ task[j] = "none"
        BY <3>1 DEF CreateJob
      <4>2. /\ Len(queue) \in Nat /\ Len(queue') = Len(queue) + 1
            /\ \A i \in 1..Len(queue) : queue'[i] = queue[i] /\ queue'[i] \in ChapterJobs
            /\ queue'[Len(queue) + 1] = j
        BY <3>1, <4>1 DEF TypeOK
      <4>3. \A i \in 1..Len(queue) : queue[i] # j
        BY <4>1 DEF Semaphore, QueueExact
      <4>4. \A i, k \in 1..Len(queue') : queue'[i] = queue'[k] => i = k
        BY <4>2, <4>3 DEF Semaphore, QueueExact
      <4>5. \A i \in 1..Len(queue') : task'[queue'[i]] = "queued"
        BY <4>1, <4>2, JobKinds DEF TypeOK, Semaphore, QueueExact
      <4>6. \A k \in ChapterJobs : task'[k] = "queued" => \E i \in 1..Len(queue') : queue'[i] = k
        BY <4>1, <4>2, JobKinds DEF TypeOK, Semaphore, QueueExact
      <4>. QED
        BY <4>4, <4>5, <4>6 DEF QueueExact
    <3>2. CASE j \notin ChapterJobs
      <4>1. queue' = queue /\ \A k \in ChapterJobs : task'[k] = task[k]
        BY <3>2, JobKinds DEF TypeOK, CreateJob
      <4>2. \A i \in 1..Len(queue) : queue[i] \in ChapterJobs
        BY DEF TypeOK
      <4>. QED
        BY <4>1, <4>2 DEF Semaphore, QueueExact
    <3>. QED
      BY <3>1, <3>2
  <2>. QED
    BY <2>2, <2>3 DEF Semaphore
<1>. QED
  BY <1>1, <1>2, <1>3, <1>4

-----------------------------------------------------------------------------
(* The semaphore's queue and the set of the tasks that hold a permit.       *)

LEMMA LeaveProperties ==
  ASSUME NEW S, queue \in Seq(S), NEW i \in 1..Len(queue)
  PROVE  /\ Leave(i) \in Seq(S)
         /\ Len(Leave(i)) = Len(queue) - 1
         /\ \A k \in 1..Len(Leave(i)) :
              Leave(i)[k] = IF k < i THEN queue[k] ELSE queue[k + 1]
<1>. DEFINE before == SubSeq(queue, 1, i - 1)
            after == SubSeq(queue, i + 1, Len(queue))
<1>1. /\ before \in Seq(S) /\ Len(before) = i - 1
      /\ \A k \in 1..(i - 1) : before[k] = queue[k]
  <2>1. 1 \in Int /\ i - 1 \in Int /\ \A k \in 1..(i - 1) : queue[k] \in S
    OBVIOUS
  <2>. QED
    BY <2>1, SubSeqProperties, Z3
<1>2. /\ after \in Seq(S) /\ Len(after) = Len(queue) - i
      /\ \A k \in 1..(Len(queue) - i) : after[k] = queue[i + k]
  <2>1. i + 1 \in Int /\ Len(queue) \in Int
        /\ \A k \in (i + 1)..Len(queue) : queue[k] \in S
    OBVIOUS
  <2>. QED
    BY <2>1, SubSeqProperties, Z3
<1>3. /\ before \o after \in Seq(S) /\ Len(before \o after) = Len(before) + Len(after)
      /\ \A k \in 1..(Len(before) + Len(after)) :
           (before \o after)[k] = IF k <= Len(before) THEN before[k] ELSE after[k - Len(before)]
  BY <1>1, <1>2, ConcatProperties
<1>4. Leave(i) = before \o after
  BY DEF Leave
<1>. HIDE DEF before, after
<1>5. Len(Leave(i)) = Len(queue) - 1
  <2>1. Len(Leave(i)) = Len(before) + Len(after)
    BY <1>3, <1>4
  <2>2. Len(queue) \in Nat /\ i \in Nat
    OBVIOUS
  <2>. HIDE DEF Leave
  <2>. QED
    BY <2>1, <2>2, <1>1, <1>2
<1>6. ASSUME NEW k \in 1..Len(Leave(i))
      PROVE  Leave(i)[k] = IF k < i THEN queue[k] ELSE queue[k + 1]
  <2>1. CASE k < i
    BY <1>1, <1>2, <1>3, <1>4, <1>5, <2>1
  <2>2. CASE ~(k < i)
    <3>1. Leave(i)[k] = after[k - (i - 1)]
      BY <1>1, <1>2, <1>3, <1>4, <1>5, <2>2
    <3>2. k - (i - 1) \in 1..(Len(queue) - i) /\ i + (k - (i - 1)) = k + 1
      BY <1>5, <2>2
    <3>. QED
      BY <1>2, <2>2, <3>1, <3>2
  <2>. QED
    BY <2>1, <2>2
<1>. QED
  BY <1>3, <1>4, <1>5, <1>6

\* The waiting task j leaves the queue: so the queue stays exact.
LEMMA QueueShrinks ==
  ASSUME TypeOK, Semaphore, NEW i \in 1..Len(queue), NEW s \in Stages, s # "queued",
         task' = [task EXCEPT ![queue[i]] = s],
         queue' \in Seq(ChapterJobs), Len(queue') = Len(queue) - 1,
         \A k \in 1..Len(queue') : queue'[k] = IF k < i THEN queue[k] ELSE queue[k + 1]
  PROVE  QueueExact'
<1>1. queue \in Seq(ChapterJobs) /\ Len(queue) \in Nat /\ Len(queue') \in Nat
  BY DEF TypeOK
<1>2. \A a, b \in 1..Len(queue') : queue'[a] = queue'[b] => a = b
  BY <1>1 DEF Semaphore, QueueExact
<1>3. \A k \in 1..Len(queue') : \E m \in 1..Len(queue) : m # i /\ queue'[k] = queue[m]
  <2>. SUFFICES ASSUME NEW k \in 1..Len(queue')
                PROVE  \E m \in 1..Len(queue) : m # i /\ queue'[k] = queue[m]
    OBVIOUS
  <2>1. CASE k < i
    <3>1. k \in 1..Len(queue) /\ k # i /\ queue'[k] = queue[k]
      BY <1>1, <2>1
    <3>. QED
      BY <3>1
  <2>2. CASE ~(k < i)
    <3>1. k + 1 \in 1..Len(queue) /\ k + 1 # i /\ queue'[k] = queue[k + 1]
      BY <1>1, <2>2
    <3>. QED
      BY <3>1
  <2>. QED
    BY <2>1, <2>2
<1>4. ASSUME NEW k \in 1..Len(queue') PROVE task'[queue'[k]] = "queued"
  <2>1. PICK m \in 1..Len(queue) : m # i /\ queue'[k] = queue[m]
    BY <1>3
  <2>2. queue[m] # queue[i] /\ task[queue[m]] = "queued" /\ queue[m] \in Jobs
    BY <1>1, <2>1, JobKinds DEF Semaphore, QueueExact
  <2>. QED
    BY <2>1, <2>2 DEF TypeOK
<1>5. ASSUME NEW j \in ChapterJobs, task'[j] = "queued"
      PROVE  \E k \in 1..Len(queue') : queue'[k] = j
  <2>1. j # queue[i] /\ task[j] = "queued"
    BY <1>1, <1>5, JobKinds DEF TypeOK
  <2>2. PICK m \in 1..Len(queue) : queue[m] = j /\ m # i
    BY <2>1 DEF Semaphore, QueueExact
  <2>3. CASE m < i
    BY <1>1, <2>2, <2>3
  <2>4. CASE ~(m < i)
    <3>1. m - 1 \in 1..Len(queue') /\ queue'[m - 1] = queue[m]
      BY <1>1, <2>2, <2>4
    <3>. QED
      BY <2>2, <3>1
  <2>. QED
    BY <2>3, <2>4
<1>. QED
  BY <1>2, <1>4, <1>5 DEF QueueExact

\* A task that gives its permit back.
LEMMA PermitReturned ==
  ASSUME TypeOK, Semaphore, NEW j \in ChapterJobs, task[j] = "running",
         NEW s \in Stages, s \notin {"running", "queued"},
         task' = [task EXCEPT ![j] = s], permits' = permits + 1, queue' = queue
  PROVE  Semaphore' /\ permits' \in 0..Permits
<1>1. Running' = Running \ {j} /\ j \in Running
  BY JobKinds DEF TypeOK, Running
<1>2. /\ IsFiniteSet(Running') /\ Cardinality(Running') = Cardinality(Running) - 1
      /\ Cardinality(Running') \in Nat
  BY <1>1, FS_RemoveElement, FS_CardinalityType DEF Semaphore, RunningFinite
<1>3. \A i \in 1..Len(queue) : queue[i] # j
  BY DEF Semaphore, QueueExact
<1>4. QueueExact'
  BY <1>3, JobKinds DEF TypeOK, Semaphore, QueueExact
<1>5. Cardinality(Running) \in Nat
  BY FS_CardinalityType DEF Semaphore, RunningFinite
<1>. QED
  BY <1>2, <1>4, <1>5, PermitsAssumption
  DEF TypeOK, Semaphore, RunningFinite, PermitsConserved

-----------------------------------------------------------------------------
(* Steps of a task.  None of them touches the map, the handlers or what the *)
(* clients were answered.                                                   *)

\* The head of the queue is a chapter task that waits.
LEMMA HeadWaits ==
  ASSUME TypeOK, Semaphore, queue # <<>>
  PROVE  /\ Head(queue) = queue[1] /\ 1 \in 1..Len(queue)
         /\ queue[1] \in ChapterJobs /\ task[queue[1]] = "queued"
<1>1. Head(queue) = queue[1] /\ 1 \in 1..Len(queue)
  BY DEF TypeOK
<1>. QED
  BY <1>1 DEF TypeOK, Semaphore, QueueExact

LEMMA AcquirePermitKeeps ==
  ASSUME IInv, NEW j \in Jobs, AcquirePermit(j)
  PROVE  IInv'
<1>. USE DEF IInv
<1>1. TypeOK'
  <2>1. Tail(queue) \in Seq(ChapterJobs)
    BY HeadTailProperties DEF TypeOK, AcquirePermit
  <2>2. permits - 1 \in 0..Permits
    BY PermitsAssumption DEF TypeOK, AcquirePermit
  <2>. QED
    BY <2>1, <2>2 DEF TypeOK, AcquirePermit, clientVars, Stages
<1>2. Ownership'
  <2>1. /\ task' = [task EXCEPT ![j] = "running"] /\ task[j] = "queued"
        /\ UNCHANGED <<registry, handler, delivered, lost, token>>
    BY HeadWaits DEF AcquirePermit, clientVars
  <2>2. \A k \in Jobs : task'[k] = "none" <=> task[k] = "none"
    BY <2>1 DEF TypeOK
  <2>. QED
    BY <2>1, <2>2, OwnershipKept
<1>3. Publishing'
  <2>1. /\ task' = [task EXCEPT ![j] = "running"] /\ task[j] = "queued" /\ j \in ChapterJobs
        /\ UNCHANGED <<cell, left, token, delivered, verdict>>
    BY HeadWaits DEF AcquirePermit, clientVars
  <2>. QED
    BY <2>1 DEF TypeOK, Publishing, KindsOfTask, CellsHonest, CancelledCells, NotYet, HonestVerdict
<1>4. Semaphore'
  <2>1. /\ j = queue[1] /\ 1 \in 1..Len(queue) /\ j \in ChapterJobs /\ task[j] = "queued"
        /\ task' = [task EXCEPT ![j] = "running"] /\ permits' = permits - 1
        /\ permits > 0 /\ queue' = Tail(queue)
    BY HeadWaits DEF AcquirePermit
  <2>2. Running' = Running \cup {j} /\ j \notin Running
    BY <2>1 DEF TypeOK, Running
  <2>3. /\ RunningFinite' /\ Cardinality(Running') = Cardinality(Running) + 1
        /\ Cardinality(Running) \in Nat
    BY <2>2, FS_AddElement, FS_CardinalityType DEF Semaphore, RunningFinite
  <2>4. PermitsConserved'
    BY <2>1, <2>3, PermitsAssumption DEF TypeOK, Semaphore, PermitsConserved
  <2>5. /\ queue' \in Seq(ChapterJobs) /\ Len(queue') = Len(queue) - 1
        /\ \A k \in 1..Len(queue') : queue'[k] = queue[k + 1]
    BY <2>1, HeadTailProperties DEF TypeOK, AcquirePermit
  <2>6. \A k \in 1..Len(queue') : queue'[k] = IF k < 1 THEN queue[k] ELSE queue[k + 1]
    BY <2>5
  <2>7. QueueExact'
    BY <2>1, <2>5, <2>6, QueueShrinks DEF Stages
  <2>. QED
    BY <2>3, <2>4, <2>7 DEF Semaphore
<1>. QED
  BY <1>1, <1>2, <1>3, <1>4

LEMMA FinishChapterKeeps ==
  ASSUME IInv, NEW j \in Jobs, FinishChapter(j)
  PROVE  IInv'
<1>. USE DEF IInv
<1>1. TypeOK'
  <2>1. /\ j \in ChapterJobs /\ task[j] = "running" /\ permits' = permits + 1 /\ queue' = queue
        /\ task' = [task EXCEPT ![j] = "done"]
    BY DEF FinishChapter, TypeOK
  <2>2. permits' \in 0..Permits
    BY <2>1, PermitReturned DEF Stages
  <2>. QED
    BY <2>2, JobKinds DEF TypeOK, FinishChapter, clientVars, Stages, Results
<1>2. Ownership'
  <2>1. task' = [task EXCEPT ![j] = "done"] /\ UNCHANGED <<registry, handler, delivered, lost, token>>
    BY DEF FinishChapter, clientVars
  <2>2. task[j] # "none" /\ \A k \in Jobs : task'[k] = "none" <=> task[k] = "none"
    BY <2>1 DEF TypeOK, FinishChapter
  <2>. QED
    BY <2>1, <2>2, OwnershipKept
<1>3. Publishing'
  <2>1. KindsOfTask'
    BY JobKinds DEF TypeOK, Publishing, KindsOfTask, FinishChapter, clientVars, RefreshJobs
  <2>2. CellsHonest'
    BY JobKinds DEF TypeOK, Publishing, CellsHonest, KindsOfTask, FinishChapter, clientVars, RefreshJobs
  <2>3. CancelledCells'
    BY JobKinds DEF TypeOK, Publishing, CancelledCells, FinishChapter, clientVars, RefreshJobs
  <2>4. NotYet'
    BY JobKinds DEF TypeOK, Publishing, NotYet, FinishChapter, clientVars, RefreshJobs
  <2>5. HonestVerdict'
    BY JobKinds DEF TypeOK, Publishing, HonestVerdict, CellsHonest, FinishChapter, clientVars, RefreshJobs
  <2>. QED
    BY <2>1, <2>2, <2>3, <2>4, <2>5 DEF Publishing
<1>4. Semaphore'
  <2>1. /\ j \in ChapterJobs /\ task[j] = "running" /\ permits' = permits + 1 /\ queue' = queue
        /\ task' = [task EXCEPT ![j] = "done"]
    BY DEF FinishChapter, TypeOK
  <2>. QED
    BY <2>1, PermitReturned DEF Stages
<1>. QED
  BY <1>1, <1>2, <1>3, <1>4

LEMMA AbortRunningKeeps ==
  ASSUME IInv, NEW j \in Jobs, AbortRunning(j)
  PROVE  IInv'
<1>. USE DEF IInv
<1>1. TypeOK'
  <2>1. /\ j \in ChapterJobs /\ task[j] = "running" /\ permits' = permits + 1 /\ queue' = queue
        /\ task' = [task EXCEPT ![j] = "aborted"]
    BY DEF AbortRunning, TypeOK
  <2>2. permits' \in 0..Permits
    BY <2>1, PermitReturned DEF Stages
  <2>. QED
    BY <2>2, JobKinds DEF TypeOK, AbortRunning, clientVars, Stages, Results
<1>2. Ownership'
  <2>1. task' = [task EXCEPT ![j] = "aborted"] /\ UNCHANGED <<registry, handler, delivered, lost, token>>
    BY DEF AbortRunning, clientVars
  <2>2. task[j] # "none" /\ \A k \in Jobs : task'[k] = "none" <=> task[k] = "none"
    BY <2>1 DEF TypeOK, AbortRunning
  <2>. QED
    BY <2>1, <2>2, OwnershipKept
<1>3. Publishing'
  <2>1. KindsOfTask'
    BY JobKinds DEF TypeOK, Publishing, KindsOfTask, AbortRunning, clientVars, RefreshJobs
  <2>2. CellsHonest'
    BY JobKinds DEF TypeOK, Publishing, CellsHonest, KindsOfTask, AbortRunning, clientVars, RefreshJobs
  <2>3. CancelledCells'
    BY JobKinds DEF TypeOK, Publishing, CancelledCells, AbortRunning, clientVars, RefreshJobs
  <2>4. NotYet'
    BY JobKinds DEF TypeOK, Publishing, NotYet, AbortRunning, clientVars, RefreshJobs
  <2>5. HonestVerdict'
    BY JobKinds DEF TypeOK, Publishing, HonestVerdict, CellsHonest, AbortRunning, clientVars, RefreshJobs
  <2>. QED
    BY <2>1, <2>2, <2>3, <2>4, <2>5 DEF Publishing
<1>4. Semaphore'
  <2>1. /\ j \in ChapterJobs /\ task[j] = "running" /\ permits' = permits + 1 /\ queue' = queue
        /\ task' = [task EXCEPT ![j] = "aborted"]
    BY DEF AbortRunning, TypeOK
  <2>. QED
    BY <2>1, PermitReturned DEF Stages
<1>. QED
  BY <1>1, <1>2, <1>3, <1>4

LEMMA AbortWaitingKeeps ==
  ASSUME IInv, NEW j \in Jobs, AbortWaiting(j)
  PROVE  IInv'
<1>. USE DEF IInv
<1>1. TypeOK'
  <2>1. PICK i \in 1..Len(queue) : queue[i] = j /\ queue' = Leave(i)
    BY DEF AbortWaiting
  <2>2. /\ queue' \in Seq(ChapterJobs) /\ Len(queue') = Len(queue) - 1
        /\ \A k \in 1..Len(queue') : queue'[k] = IF k < i THEN queue[k] ELSE queue[k + 1]
    BY <2>1, LeaveProperties DEF TypeOK
  <2>. QED
    BY <2>2 DEF TypeOK, AbortWaiting, clientVars, Stages
<1>2. Ownership'
  <2>1. task' = [task EXCEPT ![j] = "aborted"] /\ UNCHANGED <<registry, handler, delivered, lost, token>>
    BY DEF AbortWaiting, clientVars
  <2>2. task[j] # "none" /\ \A k \in Jobs : task'[k] = "none" <=> task[k] = "none"
    BY <2>1 DEF TypeOK, AbortWaiting
  <2>. QED
    BY <2>1, <2>2, OwnershipKept
<1>3. Publishing'
  <2>1. KindsOfTask'
    BY JobKinds DEF TypeOK, Publishing, KindsOfTask, AbortWaiting, clientVars, RefreshJobs
  <2>2. CellsHonest'
    BY JobKinds DEF TypeOK, Publishing, CellsHonest, KindsOfTask, AbortWaiting, clientVars, RefreshJobs
  <2>3. CancelledCells'
    BY JobKinds DEF TypeOK, Publishing, CancelledCells, AbortWaiting, clientVars, RefreshJobs
  <2>4. NotYet'
    BY JobKinds DEF TypeOK, Publishing, NotYet, AbortWaiting, clientVars, RefreshJobs
  <2>5. HonestVerdict'
    BY JobKinds DEF TypeOK, Publishing, HonestVerdict, CellsHonest, AbortWaiting, clientVars, RefreshJobs
  <2>. QED
    BY <2>1, <2>2, <2>3, <2>4, <2>5 DEF Publishing
<1>4. Semaphore'
  <2>1. PICK i \in 1..Len(queue) : queue[i] = j /\ queue' = Leave(i)
    BY DEF AbortWaiting
  <2>2. /\ queue' \in Seq(ChapterJobs) /\ Len(queue') = Len(queue) - 1
        /\ \A k \in 1..Len(queue') : queue'[k] = IF k < i THEN queue[k] ELSE queue[k + 1]
    BY <2>1, LeaveProperties DEF TypeOK
  <2>3. /\ task' = [task EXCEPT ![j] = "aborted"] /\ task[j] = "queued" /\ permits' = permits
    BY DEF AbortWaiting
  <2>4. QueueExact'
    BY <2>1, <2>2, <2>3, QueueShrinks DEF Stages
  <2>5. Running' = Running
    BY <2>3 DEF TypeOK, Running
  <2>. QED
    BY <2>3, <2>4, <2>5 DEF Semaphore, RunningFinite, PermitsConserved
<1>. QED
  BY <1>1, <1>2, <1>3, <1>4

LEMMA PlanItemsKeeps ==
  ASSUME IInv, NEW j \in Jobs, PlanItems(j)
  PROVE  IInv'
<1>. USE DEF IInv
<1>1. TypeOK'
  BY JobKinds, MaxItemsAssumption DEF TypeOK, PlanItems, clientVars, Stages, Results
<1>2. Ownership'
  <2>1. task' = [task EXCEPT ![j] = "running"] /\ UNCHANGED <<registry, handler, delivered, lost, token>>
    BY DEF PlanItems, clientVars
  <2>2. task[j] # "none" /\ \A k \in Jobs : task'[k] = "none" <=> task[k] = "none"
    BY <2>1 DEF TypeOK, PlanItems
  <2>. QED
    BY <2>1, <2>2, OwnershipKept
<1>3. Publishing'
  <2>1. KindsOfTask'
    BY JobKinds DEF TypeOK, Publishing, KindsOfTask, PlanItems, clientVars, RefreshJobs
  <2>2. CellsHonest'
    BY JobKinds DEF TypeOK, Publishing, CellsHonest, KindsOfTask, PlanItems, clientVars, RefreshJobs
  <2>3. CancelledCells'
    BY JobKinds DEF TypeOK, Publishing, CancelledCells, PlanItems, clientVars, RefreshJobs
  <2>4. NotYet'
    BY JobKinds DEF TypeOK, Publishing, NotYet, PlanItems, clientVars, RefreshJobs
  <2>5. HonestVerdict'
    BY JobKinds DEF TypeOK, Publishing, HonestVerdict, CellsHonest, PlanItems, clientVars, RefreshJobs
  <2>. QED
    BY <2>1, <2>2, <2>3, <2>4, <2>5 DEF Publishing
<1>4. Semaphore'
  <2>1. j \notin ChapterJobs
    BY DEF Publishing, KindsOfTask, PlanItems, RefreshJobs
  <2>. QED
    BY <2>1, JobKinds, SemaphoreKeptByItems DEF TypeOK, PlanItems
<1>. QED
  BY <1>1, <1>2, <1>3, <1>4

LEMMA PlanFailsKeeps ==
  ASSUME IInv, NEW j \in Jobs, PlanFails(j)
  PROVE  IInv'
<1>. USE DEF IInv
<1>1. TypeOK'
  BY JobKinds, MaxItemsAssumption DEF TypeOK, PlanFails, End, clientVars, Stages, Results
<1>2. Ownership'
  <2>1. task' = [task EXCEPT ![j] = "done"] /\ UNCHANGED <<registry, handler, delivered, lost, token>>
    BY DEF PlanFails, End, clientVars
  <2>2. task[j] # "none" /\ \A k \in Jobs : task'[k] = "none" <=> task[k] = "none"
    BY <2>1 DEF TypeOK, PlanFails, End
  <2>. QED
    BY <2>1, <2>2, OwnershipKept
<1>3. Publishing'
  <2>1. KindsOfTask'
    BY JobKinds DEF TypeOK, Publishing, KindsOfTask, PlanFails, End, clientVars, RefreshJobs
  <2>2. CellsHonest'
    BY JobKinds DEF TypeOK, Publishing, CellsHonest, KindsOfTask, PlanFails, End, clientVars, RefreshJobs
  <2>3. CancelledCells'
    BY JobKinds DEF TypeOK, Publishing, CancelledCells, PlanFails, End, clientVars, RefreshJobs
  <2>4. NotYet'
    BY JobKinds DEF TypeOK, Publishing, NotYet, PlanFails, End, clientVars, RefreshJobs
  <2>5. HonestVerdict'
    BY JobKinds DEF TypeOK, Publishing, HonestVerdict, CellsHonest, PlanFails, End, clientVars, RefreshJobs
  <2>. QED
    BY <2>1, <2>2, <2>3, <2>4, <2>5 DEF Publishing
<1>4. Semaphore'
  <2>1. j \notin ChapterJobs
    BY DEF Publishing, KindsOfTask, PlanFails, End, RefreshJobs
  <2>. QED
    BY <2>1, JobKinds, SemaphoreKeptByItems DEF TypeOK, PlanFails, End
<1>. QED
  BY <1>1, <1>2, <1>3, <1>4

LEMMA BatchItemFailsKeeps ==
  ASSUME IInv, NEW j \in Jobs, BatchItemFails(j)
  PROVE  IInv'
<1>. USE DEF IInv
<1>1. TypeOK'
  BY JobKinds, MaxItemsAssumption DEF TypeOK, BatchItemFails, End, clientVars, Stages, Results
<1>2. Ownership'
  <2>1. task' = [task EXCEPT ![j] = "done"] /\ UNCHANGED <<registry, handler, delivered, lost, token>>
    BY DEF BatchItemFails, End, clientVars
  <2>2. task[j] # "none" /\ \A k \in Jobs : task'[k] = "none" <=> task[k] = "none"
    BY <2>1 DEF TypeOK, BatchItemFails, End
  <2>. QED
    BY <2>1, <2>2, OwnershipKept
<1>3. Publishing'
  <2>1. KindsOfTask'
    BY JobKinds DEF TypeOK, Publishing, KindsOfTask, BatchItemFails, End, clientVars, RefreshJobs
  <2>2. CellsHonest'
    BY JobKinds DEF TypeOK, Publishing, CellsHonest, KindsOfTask, BatchItemFails, End, clientVars, RefreshJobs
  <2>3. CancelledCells'
    BY JobKinds DEF TypeOK, Publishing, CancelledCells, BatchItemFails, End, clientVars, RefreshJobs
  <2>4. NotYet'
    BY JobKinds DEF TypeOK, Publishing, NotYet, BatchItemFails, End, clientVars, RefreshJobs
  <2>5. HonestVerdict'
    BY JobKinds DEF TypeOK, Publishing, HonestVerdict, CellsHonest, BatchItemFails, End, clientVars, RefreshJobs
  <2>. QED
    BY <2>1, <2>2, <2>3, <2>4, <2>5 DEF Publishing
<1>4. Semaphore'
  <2>1. j \notin ChapterJobs
    BY DEF Publishing, KindsOfTask, BatchItemFails, End, RefreshJobs
  <2>. QED
    BY <2>1, JobKinds, SemaphoreKeptByItems DEF TypeOK, BatchItemFails, End
<1>. QED
  BY <1>1, <1>2, <1>3, <1>4

LEMMA BatchCancelledKeeps ==
  ASSUME IInv, NEW j \in Jobs, BatchCancelled(j)
  PROVE  IInv'
<1>. USE DEF IInv
<1>1. TypeOK'
  BY JobKinds, MaxItemsAssumption DEF TypeOK, BatchCancelled, End, clientVars, Stages, Results
<1>2. Ownership'
  <2>1. task' = [task EXCEPT ![j] = "done"] /\ UNCHANGED <<registry, handler, delivered, lost, token>>
    BY DEF BatchCancelled, End, clientVars
  <2>2. task[j] # "none" /\ \A k \in Jobs : task'[k] = "none" <=> task[k] = "none"
    BY <2>1 DEF TypeOK, BatchCancelled, End
  <2>. QED
    BY <2>1, <2>2, OwnershipKept
<1>3. Publishing'
  <2>1. KindsOfTask'
    BY JobKinds DEF TypeOK, Publishing, KindsOfTask, BatchCancelled, End, clientVars, RefreshJobs
  <2>2. CellsHonest'
    BY JobKinds DEF TypeOK, Publishing, CellsHonest, KindsOfTask, BatchCancelled, End, clientVars, RefreshJobs
  <2>3. CancelledCells'
    BY JobKinds DEF TypeOK, Publishing, CancelledCells, BatchCancelled, End, clientVars, RefreshJobs
  <2>4. NotYet'
    BY JobKinds DEF TypeOK, Publishing, NotYet, BatchCancelled, End, clientVars, RefreshJobs
  <2>5. HonestVerdict'
    BY JobKinds DEF TypeOK, Publishing, HonestVerdict, CellsHonest, BatchCancelled, End, clientVars, RefreshJobs
  <2>. QED
    BY <2>1, <2>2, <2>3, <2>4, <2>5 DEF Publishing
<1>4. Semaphore'
  <2>1. j \notin ChapterJobs
    BY DEF Publishing, KindsOfTask, BatchCancelled, End, RefreshJobs
  <2>. QED
    BY <2>1, JobKinds, SemaphoreKeptByItems DEF TypeOK, BatchCancelled, End
<1>. QED
  BY <1>1, <1>2, <1>3, <1>4

LEMMA FinishItemsKeeps ==
  ASSUME IInv, NEW j \in Jobs, FinishItems(j)
  PROVE  IInv'
<1>. USE DEF IInv
<1>1. TypeOK'
  BY JobKinds, MaxItemsAssumption DEF TypeOK, FinishItems, End, clientVars, Stages, Results
<1>2. Ownership'
  <2>1. task' = [task EXCEPT ![j] = "done"] /\ UNCHANGED <<registry, handler, delivered, lost, token>>
    BY DEF FinishItems, End, clientVars
  <2>2. task[j] # "none" /\ \A k \in Jobs : task'[k] = "none" <=> task[k] = "none"
    BY <2>1 DEF TypeOK, FinishItems, End
  <2>. QED
    BY <2>1, <2>2, OwnershipKept
<1>3. Publishing'
  <2>1. KindsOfTask'
    BY JobKinds DEF TypeOK, Publishing, KindsOfTask, FinishItems, End, clientVars, RefreshJobs
  <2>2. CellsHonest'
    BY JobKinds DEF TypeOK, Publishing, CellsHonest, KindsOfTask, FinishItems, End, clientVars, RefreshJobs
  <2>3. CancelledCells'
    BY JobKinds DEF TypeOK, Publishing, CancelledCells, FinishItems, End, clientVars, RefreshJobs
  <2>4. NotYet'
    BY JobKinds DEF TypeOK, Publishing, NotYet, FinishItems, End, clientVars, RefreshJobs
  <2>5. HonestVerdict'
    BY JobKinds DEF TypeOK, Publishing, HonestVerdict, CellsHonest, FinishItems, End, clientVars, RefreshJobs
  <2>. QED
    BY <2>1, <2>2, <2>3, <2>4, <2>5 DEF Publishing
<1>4. Semaphore'
  <2>1. j \notin ChapterJobs
    BY DEF Publishing, KindsOfTask, FinishItems, End, RefreshJobs
  <2>. QED
    BY <2>1, JobKinds, SemaphoreKeptByItems DEF TypeOK, FinishItems, End
<1>. QED
  BY <1>1, <1>2, <1>3, <1>4

LEMMA DoItemKeeps ==
  ASSUME IInv, NEW j \in Jobs, DoItem(j)
  PROVE  IInv'
<1>. USE DEF IInv
<1>1. TypeOK'
  BY JobKinds, MaxItemsAssumption DEF TypeOK, DoItem, clientVars, Stages, Results
<1>2. Ownership'
  BY OwnershipKept DEF DoItem, clientVars
<1>3. Publishing'
  <2>1. KindsOfTask'
    BY JobKinds DEF TypeOK, Publishing, KindsOfTask, DoItem, clientVars, RefreshJobs
  <2>2. CellsHonest'
    BY JobKinds DEF TypeOK, Publishing, CellsHonest, KindsOfTask, DoItem, clientVars, RefreshJobs
  <2>3. CancelledCells'
    BY JobKinds DEF TypeOK, Publishing, CancelledCells, DoItem, clientVars, RefreshJobs
  <2>4. NotYet'
    BY JobKinds DEF TypeOK, Publishing, NotYet, DoItem, clientVars, RefreshJobs
  <2>5. HonestVerdict'
    BY JobKinds DEF TypeOK, Publishing, HonestVerdict, CellsHonest, DoItem, clientVars, RefreshJobs
  <2>. QED
    BY <2>1, <2>2, <2>3, <2>4, <2>5 DEF Publishing
<1>4. Semaphore'
  BY SemaphoreKept DEF DoItem
<1>. QED
  BY <1>1, <1>2, <1>3, <1>4

-----------------------------------------------------------------------------
LEMMA StutterKeeps ==
  ASSUME IInv, UNCHANGED vars
  PROVE  IInv'
<1>1. TypeOK'
  BY DEF IInv, TypeOK, vars
<1>2. Ownership'
  BY OwnershipKept DEF IInv, vars
<1>3. Publishing' /\ Semaphore'
  BY PublishingKept, SemaphoreKept DEF IInv, vars
<1>. QED
  BY <1>1, <1>2, <1>3 DEF IInv

LEMMA NextKeepsIInv == IInv /\ [Next]_vars => IInv'
<1>. SUFFICES ASSUME IInv, [Next]_vars PROVE IInv'
  OBVIOUS
<1>1. CASE UNCHANGED vars
  BY <1>1, StutterKeeps
<1>2. ASSUME NEW h \in Handlers, Resume(h) PROVE IInv'
  BY <1>2, InsertJobKeeps, PollPendingKeeps, PollEndedKeeps, ReinsertJobKeeps,
     AbortTaskKeeps, SendCancelledKeeps DEF Resume
<1>3. ASSUME NEW h \in Handlers, DropHandler(h) PROVE IInv'
  BY <1>3, DropHandlerKeeps
<1>4. ASSUME NEW h \in Handlers, NEW j \in Jobs, Request(h, j) PROVE IInv'
  BY <1>4, CreateJobKeeps, TakeJobKeeps, CancelJobKeeps, CancelNotFoundKeeps DEF Request
<1>5. ASSUME NEW j \in Jobs, TaskStep(j) PROVE IInv'
  BY <1>5, AcquirePermitKeeps, FinishChapterKeeps, AbortWaitingKeeps,
     AbortRunningKeeps, PlanItemsKeeps, PlanFailsKeeps, DoItemKeeps,
     BatchItemFailsKeeps, BatchCancelledKeeps, FinishItemsKeeps DEF TaskStep
<1>. QED
  BY <1>1, <1>2, <1>3, <1>4, <1>5 DEF Next

-----------------------------------------------------------------------------
(* The theorems.                                                            *)

THEOREM Invariance == Spec => []IInv
  BY InitIInv, NextKeepsIInv, PTL DEF Spec

\* Every variable of the job registry keeps its type.
THEOREM TypeCorrect == Spec => []TypeOK
<1>. IInv => TypeOK
  BY DEF IInv
<1>. QED
  BY Invariance, PTL

\* A job is in the map or in one handler's hands, never in two, and never
\* again once it was answered or lost: get_job's remove and insert are safe.
THEOREM OneOwner == Spec => []SingleOwner
<1>. IInv => SingleOwner
  BY DEF IInv, Ownership
<1>. QED
  BY Invariance, PTL

\* A created job is never lost but by a dropped request.
THEOREM NothingVanishes == Spec => []NoJobVanishes
<1>. IInv => NoJobVanishes
  BY DEF IInv, Ownership
<1>. QED
  BY Invariance, PTL

\* The final result is answered at most once, whatever polls overlap.
THEOREM AnsweredOnce == Spec => []DeliveredOnce
<1>. IInv => DeliveredOnce
  BY DEF IInv, Ownership
<1>. QED
  BY Invariance, PTL

\* A job nobody cancelled is answered only after its task ended, and as
\* completed only with no item left.
THEOREM VerdictHonest == Spec => []HonestVerdict
<1>. IInv => HonestVerdict
  BY DEF IInv, Publishing
<1>. QED
  BY Invariance, PTL

\* No abort, in the queue or during a download, leaks or forges a permit.
THEOREM NoPermitLeaks == Spec => []PermitsConserved
<1>. IInv => PermitsConserved
  BY DEF IInv, Semaphore
<1>. QED
  BY Invariance, PTL

\* The semaphore's queue holds the waiting chapter tasks, once each.
THEOREM QueueIsExact == Spec => []QueueExact
<1>. IInv => QueueExact
  BY DEF IInv, Semaphore
<1>. QED
  BY Invariance, PTL

\* A published result is overwritten only for a cancelled chapter download.
THEOREM StableResult == Spec => ResultStable
<1>. DEFINE Stable == \A j \in Jobs : cell[j] # "pending" /\ cell'[j] # cell[j] =>
                        j \in ChapterJobs \cap token
<1>1. ASSUME IInv, [Next]_vars PROVE [Stable]_vars
  <2>. SUFFICES ASSUME NEW j \in Jobs, cell[j] # "pending", cell'[j] # cell[j]
                PROVE  j \in ChapterJobs \cap token
    OBVIOUS
  <2>1. j \in ChapterJobs \cap token \/ task[j] = "done"
    BY <1>1 DEF IInv, Publishing, CellsHonest
  <2>2. PICK k \in Jobs : FinishChapter(k) \/ PlanFails(k) \/ BatchItemFails(k)
                          \/ BatchCancelled(k) \/ FinishItems(k)
                          \/ \E h \in Handlers : SendCancelled(h)
    BY <1>1 DEF Next, Resume, Request, TaskStep, vars, taskVars, InsertJob, PollPending,
       PollEnded, ReinsertJob, AbortTask, DropHandler, CreateJob, TakeJob, CancelJob,
       CancelNotFound, AcquirePermit, AbortWaiting, AbortRunning, PlanItems, DoItem
  <2>3. CASE \E h \in Handlers : SendCancelled(h)
    <3>1. PICK h \in Handlers : SendCancelled(h)
      BY <2>3
    <3>2. j = handler[h].job
      BY <1>1, <3>1 DEF IInv, TypeOK, SendCancelled
    <3>. QED
      BY <1>1, <3>1, <3>2 DEF IInv, Ownership, CancelUnderLock, SendCancelled, At
  <2>4. CASE ~\E h \in Handlers : SendCancelled(h)
    <3>1. j = k /\ task[k] \in {"running", "starting"}
      BY <1>1, <2>2, <2>4 DEF IInv, TypeOK, FinishChapter, PlanFails, BatchItemFails,
         BatchCancelled, FinishItems, End
    <3>. QED
      BY <2>1, <3>1
  <2>. QED
    BY <2>3, <2>4
<1>2. [][Stable]_vars => ResultStable
  BY DEF ResultStable
<1>. QED
  BY <1>1, <1>2, Invariance, PTL DEF Spec, ResultStable
=============================================================================
