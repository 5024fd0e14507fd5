--------------------------- MODULE SourceRequests ---------------------------
(***************************************************************************)
(* Requests that call sources, the tokens that cancel them, and the health *)
(* history they leave (server/src/manga/routes.rs, source_health.rs,       *)
(* usecases/search_mangas.rs, server/src/job/refresh_library_*.rs).        *)
(* A search asks its sources at once, a library refresh its manga one by   *)
(* one, and the other requests ask once.  Each answer is an observation,   *)
(* and the observations of a request are recorded together at its end.     *)
(* An observation's time is its own: the clock moves with each one.        *)
(***************************************************************************)
EXTENDS Naturals, Sequences, SequencesExt, FiniteSets, Lines

CONSTANTS Requests,       \* each is made once
          Kind,           \* [Requests -> {"search", "refresh", "library"}]
          Jobs,           \* [Requests -> what is asked: pairs of a source and an item]
          MaxObservations, Retention, FailureWindow,
          MaxTime,        \* bound of the clock
          MaxDisturbances \* bound: failed writes, restarts, cancellations, timeouts, delays

VARIABLES now, memory, disk,   \* SourceHealthStore: its map, and its file
          request,             \* what each request is doing
          store,               \* cancel_token_store: the ids with a token
          cleanup,             \* tasks spawned by TokenGuard::drop
          disturbances,
          recorded             \* history: all that was recorded, in order

vars == <<now, memory, disk, request, store, cleanup, disturbances, recorded>>

Sources == {j[1] : j \in UNION {Jobs[r] : r \in Requests}}
Cancellable == {r \in Requests : Kind[r] # "library"}
Fresh == [pc |-> "new", cancelled |-> FALSE, left |-> {}, batch |-> <<>>]
At(r, pc) == request[r].pc = pc
Health == <<memory, disk, recorded>>
Tokens == <<store, cleanup>>

Init ==
  /\ now = 0
  /\ memory = [s \in Sources |-> <<>>] /\ disk = memory /\ recorded = memory
  /\ request = [r \in Requests |-> Fresh]
  /\ store = {} /\ cleanup = {} /\ disturbances = 0

Disturb == disturbances < MaxDisturbances /\ disturbances' = disturbances + 1
Calm == UNCHANGED disturbances

-----------------------------------------------------------------------------
(* source_health.rs                                                        *)

\* A source that is asked is observed: whether it has answered, and when.
Observation(r, j, ok) ==
  [source |-> j[1], item |-> j[2], operation |-> Kind[r], ok |-> ok, at |-> now + 1]

Of(batch, s) == {i \in DOMAIN batch : batch[i].source = s}
\* SourceHealthBatch::push: the newest of each source are kept.
Push(batch, o) ==
  LET same == Of(batch, o.source)
  IN  Append(IF Cardinality(same) < MaxObservations THEN batch
             ELSE Pick(batch, DOMAIN batch \ {Place(same, 1)}), o)

FaultAll(s) == s         \* fault: nothing is drained
FaultOldest(s) ==        \* fault: the wrong end is drained
  IF Len(s) > MaxObservations THEN SubSeq(s, 1, MaxObservations) ELSE s
Newest(s) == IF Len(s) > MaxObservations THEN SubSeq(s, Len(s) - MaxObservations + 1, Len(s)) ELSE s
\* Of observations no two have the same time.
ByTime(S) == CHOOSE s \in SetToSeqs(S) : \A i, j \in DOMAIN s : i < j => s[i].at < s[j].at
Recent(s, time) == {o \in ToSet(s) : o.at + Retention >= time}
prune(history, time) == [s \in DOMAIN history |-> Newest(ByTime(Recent(history[s], time)))]

Extended(history, batch) == [s \in DOMAIN history |-> history[s] \o Pick(batch, Of(batch, s))]

\* summarize: the verdict on a source's history, sorted by time.
ActiveFailures(s, time) ==
  {i \in DOMAIN s : /\ ~s[i].ok /\ s[i].at + FailureWindow >= time
                    /\ \A j \in DOMAIN s : s[j].ok => s[i].at > s[j].at}
summarize(s, time) ==
  LET failures == ActiveFailures(s, time)
  IN  IF s # <<>> /\ Last(s).ok THEN "healthy"
      ELSE IF /\ Cardinality(failures) >= 3
              /\ \/ Cardinality({s[i].item : i \in failures}) >= 2
                 \/ Cardinality({s[i].operation : i \in failures}) >= 2
           THEN "failing" ELSE "unknown"

\* The file is replaced as a whole, or stays as it was.
atomic_write(history, written) == disk' = IF written THEN history ELSE disk
\* record_batch: memory first, then the file, which may fail.  The clock is read just before
\* the lock is taken.
record_batch(batch, written) ==
  IF batch = <<>> THEN UNCHANGED Health
  ELSE /\ memory' = prune(Extended(memory, batch), now)
       /\ atomic_write(memory', written)
       /\ recorded' = Extended(recorded, batch)

-----------------------------------------------------------------------------
(* Requests                                                                *)

\* fault: the guard is not bound to a name, and is dropped at once
FaultDropsGuard(r) == store' = store \cup {r} /\ cleanup' = cleanup \cup {r}
create_token(r) == store' = store \cup {r} /\ UNCHANGED cleanup

\* Until here the handler waits for other mutexes, and cannot be cancelled.
Register(r) ==
  /\ Calm
  /\ At(r, "new")
  /\ IF r \in Cancellable THEN create_token(r) ELSE UNCHANGED Tokens
  /\ request' = [request EXCEPT ![r].pc = "working", ![r].left = Jobs[r]]
  /\ UNCHANGED <<now, Health>>

Sequential(r) == Kind[r] = "library"

Observe(r, j, ok) ==
  /\ Calm
  /\ At(r, "working") /\ j \in request[r].left /\ now < MaxTime
  /\ now' = now + 1
  /\ request' = [request EXCEPT ![r].left = @ \ {j},
                   ![r].batch = Push(@, Observation(r, j, ok))]
  /\ UNCHANGED <<Health, Tokens>>

\* A source answers, fails, or does not answer within 30 seconds.
SearchAnswer(r, j, ok) == Kind[r] = "search" /\ Observe(r, j, ok)
RefreshAnswer(r, j, ok) == Kind[r] = "refresh" /\ Observe(r, j, ok)
\* A missing source is a failure too; a cancelled refresh asks no further manga.
LibraryAnswer(r, j, ok) == Sequential(r) /\ ~request[r].cancelled /\ Observe(r, j, ok)

\* TokenGuard::drop leaves the removal to a task.
Leave(r) ==
  /\ request' = [request EXCEPT ![r] = [Fresh EXCEPT !.pc = "done"]]
  /\ cleanup' = IF r \in store THEN cleanup \cup {r} ELSE cleanup

Respond(r, written) ==
  /\ At(r, "working")
  /\ request[r].left = {} \/ (Sequential(r) /\ request[r].cancelled)
  /\ IF written THEN Calm ELSE Disturb
  /\ record_batch(request[r].batch, written)
  /\ Leave(r) /\ UNCHANGED <<now, store>>

FaultRunsOn(r) ==   \* fault: the token is looked at between sources only
  /\ Calm
  /\ At(r, "working") /\ Kind[r] = "search" /\ request[r].cancelled /\ request[r].left = {}
  /\ Leave(r) /\ UNCHANGED <<now, Health, store>>

\* A search that is cancelled, or has run for 59 seconds, drops what it has found; its
\* token stops its workers.
SearchStops(r) ==
  /\ Calm
  /\ At(r, "working") /\ Kind[r] = "search" /\ request[r].cancelled
  /\ Leave(r) /\ UNCHANGED <<now, Health, store>>

SearchTimesOut(r) ==
  /\ Disturb
  /\ At(r, "working") /\ Kind[r] = "search"
  /\ Leave(r) /\ UNCHANGED <<now, Health, store>>

\* The client goes away.
Drop(r) ==
  /\ Disturb
  /\ r \in Cancellable /\ At(r, "working")
  /\ Leave(r) /\ UNCHANGED <<now, Health, store>>

CleanUp(r) ==
  /\ Calm
  /\ r \in cleanup
  /\ store' = store \ {r} /\ cleanup' = cleanup \ {r}
  /\ UNCHANGED <<now, Health, request>>

\* An id without a token is no error: its request has ended, or has not registered yet.
post_cancel_request(r) ==
  /\ Disturb
  /\ r \in store
  /\ store' = store \ {r}
  /\ request' = [request EXCEPT ![r].cancelled = At(r, "working")]
  /\ UNCHANGED <<now, Health, cleanup>>

CancelJob(r) ==
  /\ Disturb
  /\ Sequential(r) /\ At(r, "working") /\ ~request[r].cancelled
  /\ request' = [request EXCEPT ![r].cancelled = TRUE]
  /\ UNCHANGED <<now, Health, Tokens>>

Tick == Disturb /\ now < MaxTime /\ now' = now + 1 /\ UNCHANGED <<Health, request, Tokens>>

\* SourceHealthStore::open: what was recorded and not written is forgotten.
Restart ==
  /\ Disturb
  /\ memory' = prune(disk, now)
  /\ recorded' = IF disk = memory THEN recorded ELSE disk
  /\ request' = [r \in Requests |-> IF request[r].pc = "new" THEN Fresh ELSE [Fresh EXCEPT !.pc = "done"]]
  /\ store' = {} /\ cleanup' = {}
  /\ UNCHANGED <<now, disk>>

Next ==
  \/ Tick \/ Restart
  \/ \E r \in Requests :
       \/ Register(r) \/ SearchStops(r) \/ SearchTimesOut(r) \/ Drop(r)
       \/ \E written \in BOOLEAN : Respond(r, written)
       \/ \E j \in Jobs[r], ok \in BOOLEAN :
            SearchAnswer(r, j, ok) \/ RefreshAnswer(r, j, ok) \/ LibraryAnswer(r, j, ok)
       \/ CleanUp(r) \/ post_cancel_request(r) \/ CancelJob(r)

Spec == Init /\ [][Next]_vars

\* A search that is cancelled is polled; that sources answer is not assumed.
Fairness == \A r \in Requests : WF_vars(SearchStops(r))

-----------------------------------------------------------------------------
TypeOK ==
  /\ now \in 0..MaxTime /\ store \cup cleanup \subseteq Cancellable
  /\ \A s \in Sources : Len(memory[s]) <= MaxObservations
  /\ \A s \in Sources : \A i \in DOMAIN memory[s] : memory[s][i].source = s
  /\ \A r \in Requests : request[r].left \subseteq Jobs[r]
  /\ \A r \in Requests : request[r].pc \in {"new", "working", "done"}

\* The bounded history judges a source as all that was observed of it would: in
\* whatever order requests that overlap record their observations, with failed writes
\* and restarts.  Only a failing source may be unknown to it, when the other items or
\* operations that failed are among what was pruned.
SummaryHonest ==
  \A s \in Sources :
    LET kept == summarize(memory[s], now)
        whole == summarize(ByTime(ToSet(recorded[s])), now)
    IN  \/ kept = whole
        \/ kept = "unknown" /\ whole = "failing"
        \/ kept = "unknown" /\ whole = "healthy" /\ memory[s] = <<>>

\* Ids are not reused, and then a client that cancels while its request waits for sources
\* finds its token: it ends a search although no source ever answers.
CancelFinds ==
  \A r \in Cancellable : At(r, "working") => r \in store \/ request[r].cancelled
CancelStopsSearch ==
  \A r \in Requests : (Kind[r] = "search" /\ request[r].cancelled) ~> At(r, "done")
=============================================================================
