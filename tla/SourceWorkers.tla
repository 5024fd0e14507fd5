--------------------------- MODULE SourceWorkers ---------------------------
(***************************************************************************)
(* The runtimes that run a source's script on a thread of its own, and the *)
(* calls that wait for it: Keiyoushi extensions (keiyoushi/mod.rs),        *)
(* LNReader plugins (lnreader/mod.rs, runtime.rs) and MangaYomi extensions *)
(* in Dart and JavaScript (mangayomi/mod.rs, runtime.rs, js/mod.rs).       *)
(* A call of the host is a series of requests to the script.  A request is *)
(* queued at the worker that the source holds a handle of; its caller      *)
(* waits for a minute at most and then drops the handle, whoever's it is.  *)
(* A worker that is left behind goes on with its queue.                    *)
(***************************************************************************)
EXTENDS Naturals, Sequences

CONSTANTS NULL, Calls, Chapters, Runtimes,
          MaxWorkers,      \* enough: workers that a caller or the handle can reach
          MaxBootFailures  \* bound: starts that fail

VARIABLES runtime,   \* which of the four the source is for
          calls, handle, workers,
          failures,  \* boots that have failed
          astray     \* history: an answer was not made from what its own request saw

vars == <<runtime, calls, handle, workers, failures, astray>>

\* must: the call fails with this request.
Request(what, chapter, must) == [what |-> what, chapter |-> chapter, must |-> must]
Ask == Request("ask", NULL, TRUE)
Try == Request("ask", NULL, FALSE)

-----------------------------------------------------------------------------
(* The calls of the host, by the requests they make                        *)

keiyoushi_get_manga_list == {<<Ask>>}
keiyoushi_search_mangas == {<<Ask>>}
keiyoushi_get_manga_details == {<<Ask>>}
keiyoushi_get_chapter_list == {<<Ask>>}
keiyoushi_get_page_list == {<<Request("pages", ch, TRUE)>> : ch \in Chapters}
keiyoushi_fetch_page_image == {<<Request("image", ch, TRUE)>> : ch \in Chapters}
keiyoushi_get_image_request == {<<>>}
keiyoushi_get_manga_update_next == {<<>>} \cup keiyoushi_get_manga_details
KeiyoushiCalls ==
  keiyoushi_get_manga_list \cup keiyoushi_search_mangas \cup keiyoushi_get_manga_details \cup
  keiyoushi_get_chapter_list \cup keiyoushi_get_page_list \cup keiyoushi_fetch_page_image \cup
  keiyoushi_get_image_request \cup keiyoushi_get_manga_update_next

lnreader_get_manga_list == {<<Ask>>}
lnreader_search_mangas == {<<Ask>>}
lnreader_get_manga_details == {<<Ask>>}
\* The novel, and its other pages or the addresses of the chapters.
lnreader_get_chapter_list == {<<Ask>>, <<Ask, Ask>>, <<Ask, Try>>}
lnreader_get_page_list == {<<Ask>>}
lnreader_get_image_request == {<<>>}
lnreader_get_manga_list_next == {<<Ask>>}
lnreader_get_search_manga_list_next == {<<Ask>>}
lnreader_get_manga_update_next == {<<>>, <<Ask>>}
lnreader_get_page_list_next == {<<Ask>>}
LnReaderCalls ==
  lnreader_get_manga_list \cup lnreader_search_mangas \cup lnreader_get_manga_details \cup
  lnreader_get_chapter_list \cup lnreader_get_page_list \cup lnreader_get_image_request \cup
  lnreader_get_manga_list_next \cup lnreader_get_search_manga_list_next \cup
  lnreader_get_manga_update_next \cup lnreader_get_page_list_next

mangayomi_get_manga_list == {<<Ask>>}
mangayomi_search_mangas == {<<Ask>>}
mangayomi_get_manga_details == {<<Ask>>}
mangayomi_get_chapter_list == {<<Ask>>}
mangayomi_get_page_list == {<<Ask>>}
mangayomi_headers == <<Try>>
mangayomi_get_image_request == {mangayomi_headers}
mangayomi_get_manga_list_next == {<<Ask>>}
mangayomi_get_search_manga_list_next == {<<Ask>>}
mangayomi_get_manga_update_next == {<<>>, <<Ask>>}
mangayomi_get_page_list_next == {<<Ask>>}
MangayomiCalls ==
  mangayomi_get_manga_list \cup mangayomi_search_mangas \cup mangayomi_get_manga_details \cup
  mangayomi_get_chapter_list \cup mangayomi_get_page_list \cup mangayomi_get_image_request \cup
  mangayomi_get_manga_list_next \cup mangayomi_get_search_manga_list_next \cup
  mangayomi_get_manga_update_next \cup mangayomi_get_page_list_next

Scripts ==
  CASE runtime = "keiyoushi" -> KeiyoushiCalls
    [] runtime = "lnreader" -> LnReaderCalls
    [] OTHER -> MangayomiCalls

-----------------------------------------------------------------------------
Idle == [steps |-> <<>>, pc |-> "idle", attempts |-> 0, starts |-> 0]

Init ==
  /\ runtime \in Runtimes
  /\ calls = [c \in Calls |-> Idle]
  /\ handle = NULL /\ workers = <<>> /\ failures = 0 /\ astray = FALSE

Goes(c, pc) == calls' = [calls EXCEPT ![c].pc = pc]
At(c, pc) == calls[c].pc = pc

Begin(c) ==
  /\ At(c, "idle") /\ calls[c] = Idle
  /\ \E script \in Scripts \ {<<>>} : calls' = [calls EXCEPT ![c].steps = script, ![c].pc = "check"]
  /\ UNCHANGED <<runtime, handle, workers, failures, astray>>

\* What comes of the answer, or of the failure to get one.
After(call, ok) ==
  LET rest == Tail(call.steps)
  IN  IF rest = <<>> \/ (~ok /\ Head(call.steps).must) THEN [Idle EXCEPT !.pc = "done"]
      ELSE [Idle EXCEPT !.pc = "check", !.steps = rest]

\* What a start costs: in Keiyoushi an attempt of three, in LNReader the only start that
\* there is, and nothing in MangaYomi.
FaultForgetsAttempts(call) == [call EXCEPT !.attempts = 0, !.pc = "start"]
invoke_keiyoushi(call) ==
  IF call.attempts + 1 >= 3 THEN After(call, FALSE) ELSE [call EXCEPT !.attempts = @ + 1, !.pc = "start"]
invoke_lnreader(call) ==
  IF call.starts + 1 >= 2 THEN After(call, FALSE) ELSE [call EXCEPT !.starts = @ + 1, !.pc = "start"]
invoke_mangayomi(call) == [call EXCEPT !.pc = "start"]
invoke_mangayomi_js(call) == [call EXCEPT !.pc = "start"]

FinishedHandle == IF handle = NULL THEN TRUE ELSE workers[handle].state = "finished"
Live(w) == w \in DOMAIN workers
\* A worker that no handle leads to and no caller waits for does nothing that another
\* would notice: it is left out, though its thread may never end.
Kept(ws, h) ==
  LET kept == {w \in DOMAIN ws : w = h \/ \E i \in DOMAIN ws[w].queue : ws[w].queue[i].call # NULL}
  IN  [w \in kept |-> ws[w]]

Restart(c) ==
  /\ At(c, "check") /\ FinishedHandle
  /\ handle' = NULL /\ workers' = Kept(workers, NULL)
  /\ calls' = [calls EXCEPT ![c] =
       CASE runtime = "keiyoushi" -> invoke_keiyoushi(@)
         [] runtime = "lnreader" -> invoke_lnreader(@)
         [] runtime = "mangayomi" -> invoke_mangayomi(@)
         [] OTHER -> invoke_mangayomi_js(@)]
  /\ UNCHANGED <<runtime, failures, astray>>

\* The handle was given up before, so two callers may each start a worker.
Unused == CHOOSE w \in 1..MaxWorkers : ~Live(w) \/ (w = handle /\ w \notin DOMAIN Kept(workers, NULL))
start_worker(c) ==
  /\ At(c, "start")
  /\ workers' = [w \in DOMAIN Kept(workers, NULL) \cup {Unused} |->
       IF w = Unused THEN [state |-> "boot", queue |-> <<>>, engine |-> NULL] ELSE workers[w]]
  /\ handle' = Unused
  /\ Goes(c, "check")
  /\ UNCHANGED <<runtime, failures, astray>>

Queued(c) == [call |-> c, what |-> Head(calls[c].steps).what, chapter |-> Head(calls[c].steps).chapter]
\* To a worker that has ended but whose thread has not, nothing can be sent.
Send(c) ==
  /\ At(c, "check") /\ ~FinishedHandle
  /\ IF workers[handle].state = "ended"
     THEN calls' = [calls EXCEPT ![c] = After(@, FALSE)] /\ UNCHANGED workers
     ELSE /\ workers' = [workers EXCEPT ![handle].queue = Append(@, Queued(c))]
          /\ Goes(c, "wait")
  /\ UNCHANGED <<runtime, handle, failures, astray>>

\* Its requests in the queues, which nobody waits for any more.
Orphaned(c, ws) ==
  [w \in DOMAIN ws |-> [ws[w] EXCEPT !.queue = [i \in DOMAIN @ |-> IF @[i].call = c THEN [@[i] EXCEPT !.call = NULL] ELSE @[i]]]]
Again(call) ==
  IF call.attempts + 1 >= 2 THEN After(call, FALSE) ELSE [call EXCEPT !.attempts = @ + 1, !.pc = "check"]
\* The minute is over, or the worker has ended with the request.
GiveUp(c) ==
  /\ At(c, "wait")
  /\ handle' = NULL
  /\ workers' = Kept(Orphaned(c, workers), NULL)
  /\ calls' = [calls EXCEPT ![c] = Again(@)]
  /\ UNCHANGED <<runtime, failures, astray>>

\* After a probe, whose source has no other call.
stop_worker ==
  /\ handle # NULL /\ \A c \in Calls : calls[c].pc \in {"idle", "done"}
  /\ handle' = NULL
  /\ workers' = Kept(workers, NULL)
  /\ UNCHANGED <<runtime, calls, failures, astray>>

-----------------------------------------------------------------------------
(* The worker                                                              *)

In(w, state) == Live(w) /\ workers[w].state = state
Becomes(w, worker) == workers' = Kept([workers EXCEPT ![w] = worker], handle)

\* stash: the chapter whose grants the extension holds, or NULL: none, or what a parse that
\* failed has left there.
boot_engine == [last_url |-> NULL, page_list_chapter |-> NULL, stash |-> NULL]
Boot(w) ==
  /\ In(w, "boot")
  /\ \/ Becomes(w, [workers[w] EXCEPT !.state = "ready", !.engine = boot_engine]) /\ UNCHANGED failures
     \/ failures < MaxBootFailures /\ failures' = failures + 1
        /\ Becomes(w, [workers[w] EXCEPT !.state = "ended", !.queue = <<>>])
  /\ UNCHANGED <<runtime, calls, handle, astray>>

\* The older interface is tried where the extension lacks the newer one.
call_fallback(coro, classic) == IF coro = "missing" THEN classic ELSE coro
Parses == {call_fallback(coro, classic) : coro \in {"ok", "error", "missing"}, classic \in {"ok", "error"}}
\* Of the requests over the network the last is remembered.
execute_request(engine, r) == [engine EXCEPT !.last_url = r]
base(engine) == engine.last_url

Fresh(engine) == [engine EXCEPT !.last_url = NULL]

GetPages(engine, ch) == [engine EXCEPT !.page_list_chapter = ch, !.stash = ch]
\* A parse that fails may have changed the stash by then, and the chapter stays noted.
FailedParse(engine) == {engine, [engine EXCEPT !.stash = NULL]}
FaultAnyChapter(engine, ch) == engine.page_list_chapter # NULL
Stashed(engine, ch) == engine.page_list_chapter = ch

\* The engines that a request may leave, with its outcome.
handle_request(engine, request) ==
  LET Outcome(e, ok) == [engine |-> e, ok |-> ok]
      Parsed(ch) ==
        UNION {IF p = "ok" THEN {Outcome(GetPages(engine, ch), TRUE)}
               ELSE {Outcome(e, FALSE) : e \in FailedParse(engine)} : p \in Parses}
  IN  CASE request.what = "pages" -> Parsed(request.chapter)
        [] request.what = "image" ->
             LET parsed == IF Stashed(engine, request.chapter) THEN {Outcome(engine, TRUE)}
                           ELSE Parsed(request.chapter)
             IN  {Outcome(o.engine, o.ok /\ fetched) : o \in parsed, fetched \in BOOLEAN}
        [] OTHER -> {Outcome(engine, p = "ok") : p \in Parses}

\* Keiyoushi's worker goes on, and the others end, when nobody waits for the answer.
worker_loop_keiyoushi(heard) == "ready"
worker_loop_lnreader(heard) == IF heard THEN "ready" ELSE "ended"
worker_loop_mangayomi(heard) == IF heard THEN "ready" ELSE "ended"
worker_loop_mangayomi_js(heard) == IF heard THEN "ready" ELSE "ended"
Afterwards(heard) ==
  CASE runtime = "keiyoushi" -> worker_loop_keiyoushi(heard)
    [] runtime = "lnreader" -> worker_loop_lnreader(heard)
    [] runtime = "mangayomi" -> worker_loop_mangayomi(heard)
    [] OTHER -> worker_loop_mangayomi_js(heard)

Wrong(r, outcome) ==
  outcome.ok /\ (\/ r.what = "image" /\ outcome.engine.stash \notin {NULL, r.chapter}
                 \/ base(outcome.engine) \notin {NULL, r.call})

\* The worker runs the first request, for as long as that takes, and answers.
Reply(w) ==
  /\ In(w, "ready") /\ workers[w].queue # <<>>
  /\ LET r == Head(workers[w].queue)
         heard == r.call # NULL
         then == Afterwards(heard)
         engine == Fresh(workers[w].engine)
     IN  \E seen \in {engine, IF runtime = "keiyoushi" THEN execute_request(engine, r.call) ELSE engine} :
         \E outcome \in handle_request(seen, r) :
           /\ astray' = (astray \/ Wrong(r, outcome))
           /\ Becomes(w, [state |-> then, engine |-> outcome.engine,
                          queue |-> IF then = "ready" THEN Tail(workers[w].queue) ELSE <<>>])
           /\ IF heard THEN calls' = [calls EXCEPT ![r.call] = After(@, outcome.ok)] ELSE UNCHANGED calls
  /\ UNCHANGED <<runtime, handle, failures>>

\* The thread of the worker that the handle leads to is over.
Finish(w) ==
  /\ In(w, "ended") /\ w = handle
  /\ Becomes(w, [workers[w] EXCEPT !.state = "finished"])
  /\ UNCHANGED <<runtime, calls, handle, failures, astray>>

-----------------------------------------------------------------------------
Next ==
  \/ \E c \in Calls : Begin(c) \/ Restart(c) \/ start_worker(c) \/ Send(c) \/ GiveUp(c)
  \/ \E w \in 1..MaxWorkers : Boot(w) \/ Reply(w) \/ Finish(w)
  \/ stop_worker

Spec == Init /\ [][Next]_vars
\* A waiting thread is woken at its deadline.  Nothing is assumed of the script itself.
Fairness ==
  /\ \A c \in Calls :
       WF_vars(Restart(c) \/ start_worker(c) \/ Send(c) \/ GiveUp(c))
  /\ \A w \in 1..MaxWorkers : WF_vars(Boot(w)) /\ WF_vars(Finish(w))

-----------------------------------------------------------------------------
TypeOK ==
  /\ handle \in {NULL} \cup DOMAIN workers
  /\ \A w \in DOMAIN workers :
       workers[w].state \in {"boot", "ready", "ended", "finished"}
  /\ \A c \in Calls : calls[c].pc \in {"idle", "check", "start", "wait", "done"}

\* An image is never fetched with the grants of another chapter whose page list was read,
\* and an answer is completed with an address of its own request, whatever the engine did
\* for other callers, and for those that have left.  What a parse that failed has left in
\* the stash is the extension's affair: an image of the chapter read before it is fetched
\* with that.
AnswersOwn == ~astray

\* Every call comes back, though the script hang, fail to start, or be restarted under it
\* by another caller.
InvokeEnds == \A c \in Calls : calls[c].pc \in {"check", "start", "wait"} ~> calls[c].pc \in {"idle", "done"}
=============================================================================
