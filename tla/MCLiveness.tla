----------------------------- MODULE MCLiveness -----------------------------
(***************************************************************************)
(* Progress of the components that work with queues, for TLC: requests of  *)
(* handlers that keep to one order of the locks, for a circle of others    *)
(* ends only when a client goes away; two chapter downloads that share one *)
(* permit; and two downloads to a folder with room for one chapter.        *)
(* A behaviour is one of one component, and the others rest in an initial  *)
(* state.  Of actors that are alike the first stands for all.              *)
(***************************************************************************)
EXTENDS SharedLocks

CONSTANTS NULL, a1, a2, h1, h2, c1, c2, t1, t2, r1, r2

VARIABLES part,
  registry, handler, known, task, token, abort, cell, left, queue, permits, delivered,
  verdict, lost, refused,
  disk, order, ram, counter, deleter, upset, download

registryVars == <<registry, handler, known, task, token, abort, cell, left, queue, permits,
                  delivered, verdict, lost, refused>>
folderVars == <<disk, order, ram, counter, deleter, upset, download>>
locksVars == <<request, line, thread>>

-----------------------------------------------------------------------------
OneOrder == DOMAIN Script \ SettingsFirst

Downloads == {a1, a2}
Jobs == INSTANCE JobRegistry WITH
  Jobs <- Downloads, ChapterJobs <- Downloads, BatchJobs <- {}, Handlers <- {h1, h2},
  NoJob <- NULL, Permits <- 1, MaxItems <- 1

Folder == INSTANCE ChapterStorage WITH
  task <- download, Tasks <- {t1, t2}, Chapters <- {c1, c2}, NoChapter <- NULL,
  Sizes <- {1}, Limit <- 1, WordSize <- 6, RamModes <- {FALSE}

-----------------------------------------------------------------------------
EachInit == part \in {"locks", "jobs", "folder"} /\ Init /\ Jobs!Init /\ Folder!Init

EachNext ==
  /\ part' = part
  /\ \/ part = "locks" /\ Next /\ UNCHANGED <<registryVars, folderVars>>
     \/ part = "jobs" /\ Jobs!Next /\ UNCHANGED <<folderVars, locksVars>>
     \/ part = "folder" /\ Folder!Next /\ UNCHANGED <<registryVars, locksVars>>

EachVars == <<part, registryVars, folderVars, locksVars>>
EachSpec == EachInit /\ [][EachNext]_EachVars

\* What each component assumes: the runtime polls what can go on, the client goes on
\* polling its jobs, and file operations, timers and the saving of a setting end.
EachFairSpec ==
  /\ EachSpec
  /\ \A r \in Requests :
       /\ WF_locksVars(part = "locks" /\ HandlerStep(r))
       /\ WF_locksVars(part = "locks" /\ SettingSaved(r))
  /\ \A j \in Downloads :
       /\ WF_registryVars(part = "jobs" /\ Jobs!TaskStep(j))
       /\ SF_registryVars(part = "jobs" /\ \E h \in {h1, h2} : Jobs!TakeJob(h, j))
  /\ \A h \in {h1, h2} : WF_registryVars(part = "jobs" /\ Jobs!Resume(h))
  /\ \A t \in {t1, t2} : WF_folderVars(part = "folder" /\ Folder!Persist(t))

-----------------------------------------------------------------------------
(* Properties.                                                             *)

\* Every request is answered or given up, with sources that never answer and sources that
\* save a setting while the caller holds the source manager (server/src/state.rs).
RequestsEnd == RequestEnds(r1)

\* A chapter that waits for a permit gets one or is aborted: the queue is FIFO
\* (the download semaphore of the jobs).
NoStarvation == Jobs!NoStarvation(a1)

\* A job whose token is set stops, whether it waits in the queue or downloads.
CancelStopsTask == Jobs!CancelStopsTask(a1)

\* A client that goes on polling gets the result, unless a request of its own was dropped
\* while it had the job (Job:poll of the frontend; the poll handler takes the job out).
ResultArrives == Jobs!ResultArrives(a1)

\* A download that looks for room stores its chapter or gives up, unless others take the
\* files it chooses before it has read their length: any other round lowers its copy of
\* the counter, whatever others add meanwhile (persist_chapter).
PersistEnds == Folder!PersistEnds(t1)
=============================================================================
