----------------------------- MODULE SharedLocks -----------------------------
(***************************************************************************)
(* The async mutexes that request handlers share (server/src/state.rs):    *)
(* chapter storage, settings, source manager, cancel tokens and the job    *)
(* registry.                                                               *)
(*                                                                         *)
(* A handler is the sequence of its lock operations.  Guards that live to  *)
(* the end of the handler have no release of their own; temporaries are    *)
(* released at the end of their statement.  The mutexes are fair: whoever  *)
(* is first in a mutex's line holds it.  A call to a content source runs   *)
(* on a thread of its own, which may save one of the source's settings,    *)
(* and for that takes the source manager's mutex (defaults.set); handlers  *)
(* give up on a call after 60 seconds, and the thread goes on.             *)
(***************************************************************************)
EXTENDS Naturals, Sequences, SequencesExt, FiniteSets, Lines

CONSTANTS Requests,  \* the requests that may be in progress at one time
          Handlers   \* the handlers they may be for

Locks == {"storage", "settings", "sources", "tokens", "registry"}

Take(l) == <<"take", l>>
Free(l) == <<"free", l>>
Call == <<"call", "source">>

-----------------------------------------------------------------------------
(* The handlers.                                                            *)

GetMangaLibrary == <<Take("storage"), Take("settings"), Take("sources")>>
CheckMangasUpdate ==
  <<Take("storage"), Take("sources"), Take("tokens"), Free("tokens"), Call>>
SearchMangas ==
  <<Take("tokens"), Free("tokens"), Take("storage"), Free("storage"),
    Take("settings"), Free("settings"), Take("sources"), Free("sources"), Call>>
AddMangaToLibrary ==
  <<Take("settings"), Take("storage"), Free("storage"), Take("sources"), Free("sources")>>
RemoveMangaFromLibrary == <<Take("settings"), Free("settings"), Take("storage")>>
GetCachedMangaChapters == <<Take("storage"), Take("settings")>>
GetCachedMangaDetails ==
  <<Take("storage"), Take("tokens"), Free("tokens"), Take("sources"), Free("sources")>>
RefreshMangaDetails ==
  <<Take("sources"), Free("sources"), Take("storage"), Take("tokens"), Free("tokens"), Call>>
DownloadMangaChapter ==
  <<Take("tokens"), Free("tokens"), Take("storage"), Take("settings"), Free("settings"),
    Free("storage"), Take("sources"), Free("sources"), Call>>
LinkTrackingBinding == <<Take("settings"), Take("storage")>>
UpdateSettings == <<Take("storage"), Take("settings")>>
GetSettings == <<Take("settings"), Free("settings")>>
GetMangasInPlaylist == <<Take("settings"), Take("storage"), Take("sources")>>
\* Fault: the source manager before the settings.
SetStoredSettingsReversed == <<Take("sources"), Take("settings")>>
SetSourceStoredSettings == <<Take("settings"), Take("sources")>>
UninstallSource == <<Take("sources")>>
CreateScanlatorJob ==
  <<Take("storage"), Free("storage"), Take("sources"), Free("sources"),
    Take("settings"), Take("registry")>>
PostCancelRequest == <<Take("tokens"), Free("tokens")>>

Script ==
  [get_manga_library |-> GetMangaLibrary,
   check_mangas_update |-> CheckMangasUpdate,
   get_mangas |-> SearchMangas,
   add_manga_to_library |-> AddMangaToLibrary,
   remove_manga_from_library |-> RemoveMangaFromLibrary,
   get_cached_manga_chapters |-> GetCachedMangaChapters,
   get_cached_manga_details |-> GetCachedMangaDetails,
   refresh_manga_details |-> RefreshMangaDetails,
   download_manga_chapter |-> DownloadMangaChapter,
   link_tracking_binding |-> LinkTrackingBinding,
   update_settings |-> UpdateSettings,
   get_settings |-> GetSettings,
   get_mangas_in_playlist |-> GetMangasInPlaylist,
   set_source_stored_settings |-> SetSourceStoredSettings,
   uninstall_source |-> UninstallSource,
   create_download_scanlator_chapters_job |-> CreateScanlatorJob,
   post_cancel_request |-> PostCancelRequest]

\* The handlers that take the settings while they hold the chapter storage,
\* and those that take the chapter storage while they hold the settings.
StorageFirst == {"get_manga_library", "get_cached_manga_chapters",
                 "download_manga_chapter", "update_settings"}
SettingsFirst == {"add_manga_to_library", "link_tracking_binding",
                  "get_mangas_in_playlist"}

ASSUME HandlersKnown == Handlers \subseteq DOMAIN Script

VARIABLES
  request,  \* the handler of each request, and how far it is
  line,     \* who holds each mutex (the first), and who waits for it
  thread    \* the thread of the source each request has called

vars == <<request, line, thread>>

None == [handler |-> "none", step |-> 1]

\* Who stands in a line: a request, or the source thread it has started.
Handler(r) == <<r, "handler">>
Thread(r) == <<r, "source">>
Actors == {Handler(r) : r \in Requests} \cup {Thread(r) : r \in Requests}

Active(r) == request[r].handler # "none"
Steps(r) == Script[request[r].handler]
Ended(r) == request[r].step > Len(Steps(r))
Doing(r, op) == Active(r) /\ ~Ended(r) /\ Steps(r)[request[r].step] = op

Holds(x, l) == line[l] # <<>> /\ Head(line[l]) = x
WaitsFor(x, l) == x \in ToSet(line[l]) /\ ~Holds(x, l)

Advance(r) == request' = [request EXCEPT ![r].step = @ + 1]

Init ==
  /\ request = [r \in Requests |-> None]
  /\ line = [l \in Locks |-> <<>>]
  /\ thread = [r \in Requests |-> "none"]

-----------------------------------------------------------------------------
(* Handlers.                                                                *)

Arrive(r, h) ==
  /\ ~Active(r) /\ thread[r] = "none"
  /\ request' = [request EXCEPT ![r] = [handler |-> h, step |-> 1]]
  /\ UNCHANGED <<line, thread>>

\* Fault: a handler that waits asks again.
QueueAgain(r, l) ==
  /\ Doing(r, Take(l)) /\ ~Holds(Handler(r), l) /\ Len(line[l]) < 4
  /\ line' = [line EXCEPT ![l] = Append(@, Handler(r))]
  /\ UNCHANGED <<request, thread>>

Queue(r, l) ==
  /\ Doing(r, Take(l)) /\ Handler(r) \notin ToSet(line[l])
  /\ line' = [line EXCEPT ![l] = Append(@, Handler(r))]
  /\ UNCHANGED <<request, thread>>

Granted(r, l) ==
  /\ Doing(r, Take(l)) /\ Holds(Handler(r), l)
  /\ Advance(r)
  /\ UNCHANGED <<line, thread>>

Release(r, l) ==
  /\ Doing(r, Free(l))
  /\ line' = [line EXCEPT ![l] = Tail(@)]
  /\ Advance(r)
  /\ UNCHANGED thread

CallSource(r) ==
  /\ Doing(r, Call) /\ thread[r] = "none"
  /\ thread' = [thread EXCEPT ![r] = "running"]
  /\ UNCHANGED <<request, line>>

CallReturns(r) ==
  /\ Doing(r, Call) /\ thread[r] = "answered"
  /\ thread' = [thread EXCEPT ![r] = "none"]
  /\ Advance(r)
  /\ UNCHANGED line

\* Fault: the call is waited for without a deadline.
CallNeverTimesOut(r) == FALSE /\ UNCHANGED vars

CallTimesOut(r) ==
  /\ Doing(r, Call) /\ thread[r] \in {"running", "saving"}
  /\ thread' = [thread EXCEPT ![r] = IF @ = "running" THEN "abandoned" ELSE "lateSaving"]
  /\ Advance(r)
  /\ UNCHANGED line

\* The handler's frame and its future drop every guard, held or awaited.
Leave(r) ==
  /\ request' = [request EXCEPT ![r] = None]
  /\ line' = [l \in Locks |-> Without(line[l], Handler(r))]

Respond(r) ==
  /\ Active(r) /\ Ended(r)
  /\ Leave(r)
  /\ UNCHANGED thread

\* The client goes away, and the server drops the handler.
Drop(r) ==
  /\ Active(r)
  /\ Leave(r)
  /\ thread' = [thread EXCEPT ![r] =
       CASE @ = "running" -> "abandoned" [] @ = "saving" -> "lateSaving"
         [] @ = "answered" -> "none" [] OTHER -> @]

-----------------------------------------------------------------------------
(* The source's thread.                                                     *)

\* SourceSettings::save, called from the source's own code.
SaveSetting(r) ==
  /\ thread[r] \in {"running", "abandoned"}
  /\ Thread(r) \notin ToSet(line["sources"])
  /\ line' = [line EXCEPT !["sources"] = Append(@, Thread(r))]
  /\ thread' = [thread EXCEPT ![r] = IF @ = "running" THEN "saving" ELSE "lateSaving"]
  /\ UNCHANGED request

SettingSaved(r) ==
  /\ Holds(Thread(r), "sources")
  /\ line' = [line EXCEPT !["sources"] = Tail(@)]
  /\ thread' = [thread EXCEPT ![r] = IF @ = "saving" THEN "running" ELSE "abandoned"]
  /\ UNCHANGED request

SourceAnswers(r) ==
  /\ thread[r] \in {"running", "abandoned"}
  /\ thread' = [thread EXCEPT ![r] = IF @ = "running" THEN "answered" ELSE "none"]
  /\ UNCHANGED <<request, line>>

-----------------------------------------------------------------------------
HandlerStep(r) ==
  \/ \E l \in Locks : Queue(r, l) \/ Granted(r, l) \/ Release(r, l)
  \/ CallSource(r) \/ CallReturns(r) \/ CallTimesOut(r) \/ Respond(r)

Next ==
  \E r \in Requests :
    \/ \E h \in Handlers : Arrive(r, h)
    \/ HandlerStep(r) \/ Drop(r)
    \/ SaveSetting(r) \/ SettingSaved(r) \/ SourceAnswers(r)

Spec == Init /\ [][Next]_vars

\* The runtime polls a handler that can go on, the timer fires, and a save
\* ends; that a source ever answers is not assumed.
FairSpec ==
  Spec /\ \A r \in Requests : WF_vars(HandlerStep(r)) /\ WF_vars(SettingSaved(r))

-----------------------------------------------------------------------------
(* Properties.                                                              *)

TypeOK ==
  /\ request \in [Requests -> [handler : DOMAIN Script \cup {"none"}, step : 1..12]]
  /\ \A l \in Locks : line[l] \in Seq(Actors)
  /\ \A l \in Locks : Len(line[l]) = Cardinality(ToSet(line[l]))
  /\ thread \in [Requests -> {"none", "running", "saving", "answered", "abandoned",
                              "lateSaving"}]

\* Requests that wait for one another in a circle.
Circular(S) ==
  \A r \in S : \E l \in Locks, q \in S :
    WaitsFor(Handler(r), l) /\ Holds(Handler(q), l)

Deadlocks == {S \in SUBSET Requests : S # {} /\ Circular(S)}

\* Requests wait for one another in a circle only when one takes the settings
\* while it holds the chapter storage and another does the reverse: no other
\* handlers, in any number, close a circle.
DeadlocksMixOrders ==
  \A S \in Deadlocks :
    /\ \E r \in S : request[r].handler \in StorageFirst
    /\ \E r \in S : request[r].handler \in SettingsFirst

\* Every request is answered or given up, with sources that never answer and
\* sources that save a setting while the caller holds the source manager.
RequestEnds(r) == Active(r) ~> ~Active(r)
=============================================================================
