-------------------------- MODULE SharedLocksProofs --------------------------
(***************************************************************************)
(* Proofs about SharedLocks, for any number of requests.                   *)
(***************************************************************************)
EXTENDS SharedLocks, OrderLemmas

-----------------------------------------------------------------------------
(* Scripts.                                                                 *)

Operations == {Take(l) : l \in Locks} \cup {Free(l) : l \in Locks} \cup {Call}
Scripts == {Script[h] : h \in DOMAIN Script}

\* The locks a handler has taken and not released before step n of its script.
HeldAt(ops, n) ==
  {l \in Locks : \E i \in 1..(n - 1) :
                   ops[i] = Take(l) /\ \A j \in (i + 1)..(n - 1) : ops[j] # Free(l)}

\* A script releases only what it has taken.
Frees(ops) == \A n \in 1..Len(ops), l \in Locks : ops[n] = Free(l) => l \in HeldAt(ops, n)

\* A script takes its locks in an order.
Ascends(ops, Rank) ==
  \A n \in 1..Len(ops), l \in Locks :
    ops[n] = Take(l) => \A k \in HeldAt(ops, n) : Rank[k] < Rank[l]

StorageOrder ==
  [l \in Locks |-> IF l = "storage" THEN 1 ELSE IF l = "settings" THEN 2
                   ELSE IF l = "sources" THEN 3 ELSE IF l = "tokens" THEN 4 ELSE 5]
SettingsOrder ==
  [l \in Locks |-> IF l = "settings" THEN 1 ELSE IF l = "storage" THEN 2
                   ELSE IF l = "sources" THEN 3 ELSE IF l = "tokens" THEN 4 ELSE 5]

LEMMA ScriptsAre ==
  DOMAIN Script = {"get_manga_library", "check_mangas_update", "get_mangas", "add_manga_to_library",
                   "remove_manga_from_library", "get_cached_manga_chapters",
                   "get_cached_manga_details", "refresh_manga_details", "download_manga_chapter",
                   "link_tracking_binding", "update_settings", "get_settings",
                   "get_mangas_in_playlist", "set_source_stored_settings", "uninstall_source",
                   "create_download_scanlator_chapters_job", "post_cancel_request"}
BY DEF Script

\* What the deadlocks depend on: who releases what it has taken, and takes locks in order.
Orderly(h) ==
  /\ Len(Script[h]) \in 1..9 /\ Frees(Script[h])
  /\ (h \notin SettingsFirst => Ascends(Script[h], StorageOrder))
  /\ (h \notin StorageFirst => Ascends(Script[h], SettingsOrder))

LEMMA ScriptsOrderly == \A h \in DOMAIN Script : Orderly(h)
<1> USE DEF Orderly, Frees, Ascends, HeldAt, Take, Free, Call, Locks, StorageOrder, SettingsOrder,
            StorageFirst, SettingsFirst
<1>1. Orderly("get_manga_library")
  <2>1. Script["get_manga_library"] = GetMangaLibrary  BY DEF Script
  <2> QED  BY <2>1 DEF GetMangaLibrary
<1>2. Orderly("check_mangas_update")
  <2>1. Script["check_mangas_update"] = CheckMangasUpdate  BY DEF Script
  <2> QED  BY <2>1 DEF CheckMangasUpdate
<1>3. Orderly("get_mangas")
  <2>1. Script["get_mangas"] = SearchMangas  BY DEF Script
  <2> QED  BY <2>1 DEF SearchMangas
<1>4. Orderly("add_manga_to_library")
  <2>1. Script["add_manga_to_library"] = AddMangaToLibrary  BY DEF Script
  <2> QED  BY <2>1 DEF AddMangaToLibrary
<1>5. Orderly("remove_manga_from_library")
  <2>1. Script["remove_manga_from_library"] = RemoveMangaFromLibrary  BY DEF Script
  <2> QED  BY <2>1 DEF RemoveMangaFromLibrary
<1>6. Orderly("get_cached_manga_chapters")
  <2>1. Script["get_cached_manga_chapters"] = GetCachedMangaChapters  BY DEF Script
  <2> QED  BY <2>1 DEF GetCachedMangaChapters
<1>7. Orderly("get_cached_manga_details")
  <2>1. Script["get_cached_manga_details"] = GetCachedMangaDetails  BY DEF Script
  <2> QED  BY <2>1 DEF GetCachedMangaDetails
<1>8. Orderly("refresh_manga_details")
  <2>1. Script["refresh_manga_details"] = RefreshMangaDetails  BY DEF Script
  <2> QED  BY <2>1 DEF RefreshMangaDetails
<1>9. Orderly("download_manga_chapter")
  <2>1. Script["download_manga_chapter"] = DownloadMangaChapter  BY DEF Script
  <2> QED  BY <2>1 DEF DownloadMangaChapter
<1>10. Orderly("link_tracking_binding")
  <2>1. Script["link_tracking_binding"] = LinkTrackingBinding  BY DEF Script
  <2> QED  BY <2>1 DEF LinkTrackingBinding
<1>11. Orderly("update_settings")
  <2>1. Script["update_settings"] = UpdateSettings  BY DEF Script
  <2> QED  BY <2>1 DEF UpdateSettings
<1>12. Orderly("get_settings")
  <2>1. Script["get_settings"] = GetSettings  BY DEF Script
  <2> QED  BY <2>1 DEF GetSettings
<1>13. Orderly("get_mangas_in_playlist")
  <2>1. Script["get_mangas_in_playlist"] = GetMangasInPlaylist  BY DEF Script
  <2> QED  BY <2>1 DEF GetMangasInPlaylist
<1>14. Orderly("set_source_stored_settings")
  <2>1. Script["set_source_stored_settings"] = SetSourceStoredSettings  BY DEF Script
  <2> QED  BY <2>1 DEF SetSourceStoredSettings
<1>15. Orderly("uninstall_source")
  <2>1. Script["uninstall_source"] = UninstallSource  BY DEF Script
  <2> QED  BY <2>1 DEF UninstallSource
<1>16. Orderly("create_download_scanlator_chapters_job")
  <2>1. Script["create_download_scanlator_chapters_job"] = CreateScanlatorJob  BY DEF Script
  <2> QED  BY <2>1 DEF CreateScanlatorJob
<1>17. Orderly("post_cancel_request")
  <2>1. Script["post_cancel_request"] = PostCancelRequest  BY DEF Script
  <2> QED  BY <2>1 DEF PostCancelRequest
<1> HIDE DEF Orderly, Frees, Ascends, HeldAt, Take, Free, Call, Locks, StorageOrder, SettingsOrder,
             StorageFirst, SettingsFirst
<1> QED
  BY ScriptsAre, <1>1, <1>2, <1>3, <1>4, <1>5, <1>6, <1>7, <1>8, <1>9,
     <1>10, <1>11, <1>12, <1>13, <1>14, <1>15, <1>16, <1>17

LEMMA HeldNext ==
  ASSUME NEW ops, NEW n \in Nat \ {0}
  PROVE  \A l \in Locks : l \in HeldAt(ops, n + 1)
                          <=> ops[n] = Take(l) \/ (l \in HeldAt(ops, n) /\ ops[n] # Free(l))
<1> SUFFICES ASSUME NEW l \in Locks
             PROVE  l \in HeldAt(ops, n + 1)
                      <=> ops[n] = Take(l) \/ (l \in HeldAt(ops, n) /\ ops[n] # Free(l))
  OBVIOUS
<1>1. Take(l) # Free(l)  BY DEF Take, Free
<1>2. CASE ops[n] = Take(l)
  <2>1. n \in 1..((n + 1) - 1) /\ \A j \in (n + 1)..((n + 1) - 1) : ops[j] # Free(l)  OBVIOUS
  <2> QED  BY <1>2, <2>1 DEF HeldAt
<1>3. CASE ops[n] = Free(l)
  <2>1. \A i \in 1..((n + 1) - 1) : ops[i] = Take(l) => i # n /\ n \in (i + 1)..((n + 1) - 1)
    BY <1>1, <1>3
  <2> QED  BY <1>1, <1>3, <2>1 DEF HeldAt
<1>4. CASE ops[n] # Take(l) /\ ops[n] # Free(l)
  <2>1. \A i \in 1..((n + 1) - 1) : ops[i] = Take(l) => i \in 1..(n - 1)  BY <1>4
  <2>2. \A i \in 1..(n - 1) : i \in 1..((n + 1) - 1) /\ (i + 1)..((n + 1) - 1) = ((i + 1)..(n - 1)) \cup {n}
    OBVIOUS
  <2> QED  BY <1>4, <2>1, <2>2 DEF HeldAt
<1> QED  BY <1>2, <1>3, <1>4

LEMMA HeldFirst == \A ops : HeldAt(ops, 1) = {}
BY DEF HeldAt

-----------------------------------------------------------------------------
(* The invariant: a handler stands in the lines of the locks it has taken   *)
(* and of the one it is about to take, and heads those it has taken.        *)

Requested ==
  /\ request \in [Requests -> [handler : (DOMAIN Script) \cup {"none"}, step : Nat]]
  /\ \A r \in Requests : request[r].step \in 1..(IF Active(r) THEN Len(Steps(r)) + 1 ELSE 1)

Queued == line \in [Locks -> Seq(Actors)] /\ \A l \in Locks : Line(line[l], Actors)

Threaded == thread \in [Requests -> {"none", "running", "saving", "answered", "abandoned", "lateSaving"}]

Taken(r) == IF Active(r) THEN HeldAt(Steps(r), request[r].step) ELSE {}

Accounted(r) == \A l \in Locks : Handler(r) \in ToSet(line[l]) => l \in Taken(r) \/ Doing(r, Take(l))
Heading(r) == \A l \in Taken(r) : Holds(Handler(r), l)

IInv == Requested /\ Queued /\ Threaded /\ \A r \in Requests : Accounted(r) /\ Heading(r)

LEMMA Names ==
  /\ \A r, q : Handler(r) = Handler(q) => r = q
  /\ \A r, q : Handler(r) # Thread(q)
  /\ \A r \in Requests : Handler(r) \in Actors /\ Thread(r) \in Actors
BY DEF Handler, Thread, Actors

LEMMA StepsKnown ==
  ASSUME Requested, NEW r \in Requests, Active(r)
  PROVE  /\ request[r].handler \in DOMAIN Script /\ Orderly(request[r].handler)
         /\ Len(Steps(r)) \in 1..9 /\ request[r].step \in 1..(Len(Steps(r)) + 1)
<1>1. request[r].handler \in DOMAIN Script  BY DEF Requested, Active
<1> QED  BY <1>1, ScriptsOrderly DEF Requested, Steps, Orderly

LEMMA DoingOne ==
  \A r, l, k : Doing(r, Take(l)) /\ Doing(r, Take(k)) => l = k
BY DEF Doing, Take

LEMMA TakenLocks == \A r : Taken(r) \subseteq Locks
BY DEF Taken, HeldAt

\* A request that stays where it is, with its place in every line, keeps what is said of it.
LEMMA Unmoved ==
  ASSUME NEW r \in Requests, Accounted(r), Heading(r), request'[r] = request[r],
         \A l \in Locks : Handler(r) \in ToSet(line'[l]) => Handler(r) \in ToSet(line[l]),
         \A l \in Locks : Holds(Handler(r), l) => Holds(Handler(r), l)'
  PROVE  Accounted(r)' /\ Heading(r)'
<1>1. Taken(r)' = Taken(r) /\ \A op : Doing(r, op)' <=> Doing(r, op)
  BY DEF Taken, Doing, Active, Ended, Steps
<1>2. Accounted(r)'  BY <1>1 DEF Accounted
<1>3. Heading(r)'  BY <1>1, TakenLocks DEF Heading
<1> QED  BY <1>2, <1>3

\* A handler that goes on to its next operation.
LEMMA Advancing ==
  ASSUME Requested, NEW r \in Requests, Active(r), ~Ended(r), Advance(r)
  PROVE  /\ Requested' /\ \A q \in Requests \ {r} : request'[q] = request[q]
         /\ Active(r)' /\ Steps(r)' = Steps(r)
         /\ \A l \in Locks : l \in Taken(r)'
                <=> Doing(r, Take(l)) \/ (l \in Taken(r) /\ ~Doing(r, Free(l)))
<1> DEFINE n == request[r].step
<1>1. n \in 1..Len(Steps(r)) /\ Len(Steps(r)) \in 1..9  BY StepsKnown DEF Ended
<1>2. request' = [request EXCEPT ![r].step = n + 1]  BY DEF Advance
<1> HIDE DEF n
<1>3. /\ request'[r].handler = request[r].handler /\ request'[r].step = n + 1
      /\ \A q \in Requests \ {r} : request'[q] = request[q]
  BY <1>2 DEF Requested
<1>4. Active(r)' /\ Steps(r)' = Steps(r)  BY <1>3 DEF Active, Steps
<1>5. Requested'
  <2>1. request' \in [Requests -> [handler : (DOMAIN Script) \cup {"none"}, step : Nat]]
    <3>1. n + 1 \in Nat  BY <1>1
    <3> QED  BY <1>2, <3>1 DEF Requested
  <2>2. ASSUME NEW q \in Requests
        PROVE  request'[q].step \in 1..(IF Active(q)' THEN Len(Steps(q)') + 1 ELSE 1)
    <3>1. CASE q = r  BY <1>1, <1>3, <1>4, <3>1
    <3>2. CASE q # r
      <4>1. request'[q] = request[q]  BY <1>3, <3>2
      <4>2. (Active(q)' <=> Active(q)) /\ Steps(q)' = Steps(q)  BY <4>1 DEF Active, Steps
      <4> QED  BY <4>1, <4>2 DEF Requested
    <3> QED  BY <3>1, <3>2
  <2> QED  BY <2>1, <2>2 DEF Requested
<1>6. n \in Nat \ {0}  BY <1>1
<1>7. Taken(r) = HeldAt(Steps(r), n) /\ Taken(r)' = HeldAt(Steps(r), n + 1)
  BY <1>3, <1>4 DEF Taken, n
<1>8. \A op : Doing(r, op) <=> Steps(r)[n] = op  BY DEF Doing, n
<1> QED  BY <1>3, <1>4, <1>5, <1>6, <1>7, <1>8, HeldNext

-----------------------------------------------------------------------------
(* The steps.                                                               *)

LEMMA ArriveKeeps ==
  ASSUME IInv, NEW r \in Requests, NEW h \in Handlers, Arrive(r, h)
  PROVE  IInv'
<1>1. Requested /\ Queued /\ Threaded /\ \A q \in Requests : Accounted(q) /\ Heading(q)  BY DEF IInv
<1>2. ~Active(r) /\ request' = [request EXCEPT ![r] = [handler |-> h, step |-> 1]]
      /\ UNCHANGED <<line, thread>>
  BY DEF Arrive
<1>3. h \in DOMAIN Script /\ h # "none" /\ Orderly(h)
  <2>1. h \in DOMAIN Script  BY HandlersKnown
  <2> QED  BY <2>1, ScriptsAre, ScriptsOrderly
<1>4. request'[r] = [handler |-> h, step |-> 1] /\ \A q \in Requests \ {r} : request'[q] = request[q]
  BY <1>1, <1>2 DEF Requested
<1>5. Active(r)' /\ Steps(r)' = Script[h] /\ Len(Script[h]) \in 1..9
  BY <1>3, <1>4 DEF Active, Steps, Orderly
<1>6. Requested'
  <2>1. request' \in [Requests -> [handler : (DOMAIN Script) \cup {"none"}, step : Nat]]
    BY <1>1, <1>2, <1>3 DEF Requested
  <2>2. ASSUME NEW q \in Requests
        PROVE  request'[q].step \in 1..(IF Active(q)' THEN Len(Steps(q)') + 1 ELSE 1)
    <3>1. CASE q = r  BY <1>4, <1>5, <3>1
    <3>2. CASE q # r
      <4>1. request'[q] = request[q]  BY <1>4, <3>2
      <4>2. (Active(q)' <=> Active(q)) /\ Steps(q)' = Steps(q)  BY <4>1 DEF Active, Steps
      <4> QED  BY <1>1, <4>1, <4>2 DEF Requested
    <3> QED  BY <3>1, <3>2
  <2> QED  BY <2>1, <2>2 DEF Requested
<1>7. Accounted(r)' /\ Heading(r)'
  <2>1. Taken(r) = {} /\ \A op : ~Doing(r, op)  BY <1>2 DEF Taken, Doing
  <2>2. \A l \in Locks : Handler(r) \notin ToSet(line[l])  BY <1>1, <2>1 DEF Accounted
  <2>3. Taken(r)' = {}  BY <1>4, HeldFirst DEF Taken
  <2> QED  BY <1>2, <2>2, <2>3 DEF Accounted, Heading
<1>8. \A q \in Requests \ {r} : Accounted(q)' /\ Heading(q)'
  BY <1>1, <1>2, <1>4, Unmoved DEF Holds
<1> QED  BY <1>1, <1>2, <1>6, <1>7, <1>8 DEF IInv, Queued, Threaded

LEMMA QueueKeeps ==
  ASSUME IInv, NEW r \in Requests, NEW l \in Locks, Queue(r, l)
  PROVE  IInv'
<1>1. Requested /\ Queued /\ Threaded /\ \A q \in Requests : Accounted(q) /\ Heading(q)  BY DEF IInv
<1>2. Doing(r, Take(l)) /\ Handler(r) \notin ToSet(line[l])
      /\ line' = [line EXCEPT ![l] = Append(line[l], Handler(r))] /\ UNCHANGED <<request, thread>>
  BY DEF Queue
<1>3. Line(line[l], Actors) /\ Handler(r) \in Actors  BY <1>1, Names DEF Queued
<1> DEFINE s == Append(line[l], Handler(r))
<1>4. /\ Line(s, Actors) /\ ToSet(s) = ToSet(line[l]) \cup {Handler(r)}
      /\ s # <<>> /\ (line[l] # <<>> => Head(s) = Head(line[l]))
  BY <1>2, <1>3, Joining
<1> HIDE DEF s
<1>5. \A k \in Locks : line'[k] = IF k = l THEN s ELSE line[k]  BY <1>1, <1>2 DEF Queued, s
<1>6. Queued'
  <2>1. line' \in [Locks -> Seq(Actors)]
    <3>1. s \in Seq(Actors) /\ line' = [line EXCEPT ![l] = s]  BY <1>2, <1>4 DEF Line, s
    <3> QED  BY <1>1, <3>1 DEF Queued
  <2>2. \A k \in Locks : Line(line'[k], Actors)  BY <1>1, <1>4, <1>5 DEF Queued
  <2> QED  BY <2>1, <2>2 DEF Queued
<1>8. \A x : \A k \in Locks : Holds(x, k) => Holds(x, k)'  BY <1>4, <1>5 DEF Holds
<1>9. ASSUME NEW q \in Requests \ {r} PROVE Accounted(q)' /\ Heading(q)'
  <2>1. \A k \in Locks : Handler(q) \in ToSet(line'[k]) => Handler(q) \in ToSet(line[k])
    BY <1>4, <1>5, Names
  <2> QED  BY <1>1, <1>2, <1>8, <2>1, Unmoved
<1>10. Accounted(r)' /\ Heading(r)'
  <2>1. Taken(r)' = Taken(r) /\ \A op : Doing(r, op)' <=> Doing(r, op)
    BY <1>2 DEF Taken, Doing, Active, Ended, Steps
  <2>2. Accounted(r)'  BY <1>1, <1>2, <1>5, <2>1 DEF Accounted
  <2>3. Heading(r)'  BY <1>1, <1>8, <2>1, TakenLocks DEF Heading
  <2> QED  BY <2>2, <2>3
<1>11. Requested'  BY <1>1, <1>2 DEF Requested, Active, Steps
<1> QED  BY <1>1, <1>2, <1>6, <1>9, <1>10, <1>11 DEF IInv, Threaded

\* A handler goes on, and leaves the lines as they are.
LEMMA GoingOnKeeps ==
  ASSUME IInv, NEW r \in Requests, Active(r), ~Ended(r), Advance(r), UNCHANGED line, Threaded',
         \A l \in Locks : ~Doing(r, Free(l)) /\ (Doing(r, Take(l)) => Holds(Handler(r), l))
  PROVE  IInv'
<1>1. Requested /\ Queued /\ Threaded /\ \A q \in Requests : Accounted(q) /\ Heading(q)  BY DEF IInv
<1>2. /\ Requested' /\ \A q \in Requests \ {r} : request'[q] = request[q]
      /\ \A l \in Locks : l \in Taken(r)' <=> Doing(r, Take(l)) \/ (l \in Taken(r) /\ ~Doing(r, Free(l)))
  BY <1>1, Advancing
<1>3. \A x, l : Holds(x, l)' <=> Holds(x, l)  BY DEF Holds
<1>4. \A q \in Requests \ {r} : Accounted(q)' /\ Heading(q)'  BY <1>1, <1>2, <1>3, Unmoved
<1>5. Accounted(r)'  BY <1>1, <1>2 DEF Accounted
<1>6. Heading(r)'
  <2>1. Taken(r)' \subseteq Locks  BY DEF Taken, HeldAt
  <2> QED  BY <1>1, <1>2, <1>3, <2>1 DEF Heading
<1>7. Queued'  BY <1>1 DEF Queued
<1> QED  BY <1>2, <1>4, <1>5, <1>6, <1>7 DEF IInv

LEMMA ReleaseKeeps ==
  ASSUME IInv, NEW r \in Requests, NEW l \in Locks, Release(r, l)
  PROVE  IInv'
<1>1. Requested /\ Queued /\ Threaded /\ \A q \in Requests : Accounted(q) /\ Heading(q)  BY DEF IInv
<1>2. Doing(r, Free(l)) /\ Advance(r) /\ line' = [line EXCEPT ![l] = Tail(line[l])] /\ UNCHANGED thread
  BY DEF Release
<1>3. Active(r) /\ ~Ended(r)  BY <1>2 DEF Doing
<1>4. /\ Requested' /\ \A q \in Requests \ {r} : request'[q] = request[q]
      /\ \A k \in Locks : k \in Taken(r)' <=> Doing(r, Take(k)) \/ (k \in Taken(r) /\ ~Doing(r, Free(k)))
  BY <1>1, <1>2, <1>3, Advancing
<1>5. l \in Taken(r)
  <2>1. Frees(Steps(r)) /\ request[r].step \in 1..Len(Steps(r)) /\ Steps(r)[request[r].step] = Free(l)
    BY <1>1, <1>2, <1>3, StepsKnown DEF Orderly, Doing, Ended, Steps
  <2> QED  BY <1>3, <2>1 DEF Frees, Taken
<1>6. Holds(Handler(r), l)  BY <1>1, <1>5 DEF Heading
<1> DEFINE s == Tail(line[l])
<1>7. line[l] # <<>> /\ Head(line[l]) = Handler(r) /\ Line(line[l], Actors)  BY <1>1, <1>6 DEF Holds, Queued
<1>8. Line(s, Actors) /\ ToSet(s) = ToSet(line[l]) \ {Handler(r)}  BY <1>7, Leaving
<1> HIDE DEF s
<1>9. \A k \in Locks : line'[k] = IF k = l THEN s ELSE line[k]  BY <1>1, <1>2 DEF Queued, s
<1>10. Queued'
  <2>1. line' \in [Locks -> Seq(Actors)]
    <3>1. s \in Seq(Actors) /\ line' = [line EXCEPT ![l] = s]  BY <1>2, <1>8 DEF Line, s
    <3> QED  BY <1>1, <3>1 DEF Queued
  <2>2. \A k \in Locks : Line(line'[k], Actors)  BY <1>1, <1>8, <1>9 DEF Queued
  <2> QED  BY <2>1, <2>2 DEF Queued
<1>11. ASSUME NEW q \in Requests \ {r} PROVE Accounted(q)' /\ Heading(q)'
  <2>1. \A k \in Locks : Handler(q) \in ToSet(line'[k]) => Handler(q) \in ToSet(line[k])
    BY <1>8, <1>9
  <2>2. \A k \in Locks : Holds(Handler(q), k) => Holds(Handler(q), k)'
    BY <1>7, <1>9, Names DEF Holds
  <2> QED  BY <1>1, <1>4, <2>1, <2>2, Unmoved
<1>12. \A k \in Locks : ~Doing(r, Take(k)) /\ (Doing(r, Free(k)) => k = l)
  BY <1>2 DEF Doing, Take, Free
<1>13. Accounted(r)'
  <2> SUFFICES ASSUME NEW k \in Locks, Handler(r) \in ToSet(line'[k]) PROVE k \in Taken(r)'
    BY DEF Accounted
  <2>1. k # l /\ Handler(r) \in ToSet(line[k])  BY <1>8, <1>9
  <2> QED  BY <1>1, <1>4, <1>12, <2>1 DEF Accounted
<1>14. Heading(r)'
  <2> SUFFICES ASSUME NEW k \in Taken(r)' PROVE Holds(Handler(r), k)'  BY DEF Heading
  <2>1. k \in Locks  BY DEF Taken, HeldAt
  <2>2. k \in Taken(r) /\ k # l  BY <1>2, <1>4, <1>12, <2>1
  <2> QED  BY <1>1, <1>9, <2>1, <2>2 DEF Heading, Holds
<1> QED  BY <1>1, <1>2, <1>4, <1>10, <1>11, <1>13, <1>14 DEF IInv, Threaded

LEMMA LeaveKeeps ==
  ASSUME IInv, NEW r \in Requests, Leave(r), Threaded'
  PROVE  IInv'
<1>1. Requested /\ Queued /\ Threaded /\ \A q \in Requests : Accounted(q) /\ Heading(q)  BY DEF IInv
<1>2. request' = [request EXCEPT ![r] = None] /\ line' = [l \in Locks |-> Without(line[l], Handler(r))]
  BY DEF Leave
<1>3. request'[r] = None /\ \A q \in Requests \ {r} : request'[q] = request[q]
  BY <1>1, <1>2 DEF Requested
<1>4. ~Active(r)'  BY <1>3 DEF Active, None
<1>5. Requested'
  <2>1. request' \in [Requests -> [handler : (DOMAIN Script) \cup {"none"}, step : Nat]]
    BY <1>1, <1>2 DEF Requested, None
  <2>2. ASSUME NEW q \in Requests
        PROVE  request'[q].step \in 1..(IF Active(q)' THEN Len(Steps(q)') + 1 ELSE 1)
    <3>1. CASE q = r  BY <1>3, <1>4, <3>1 DEF None
    <3>2. CASE q # r
      <4>1. request'[q] = request[q]  BY <1>3, <3>2
      <4>2. (Active(q)' <=> Active(q)) /\ Steps(q)' = Steps(q)  BY <4>1 DEF Active, Steps
      <4> QED  BY <1>1, <4>1, <4>2 DEF Requested
    <3> QED  BY <3>1, <3>2
  <2> QED  BY <2>1, <2>2 DEF Requested
<1>6. ASSUME NEW l \in Locks
      PROVE  /\ Line(line'[l], Actors) /\ ToSet(line'[l]) = ToSet(line[l]) \ {Handler(r)}
             /\ \A x : x # Handler(r) /\ Holds(x, l) => Holds(x, l)'
  <2>1. line'[l] = Without(line[l], Handler(r)) /\ Line(line[l], Actors)  BY <1>1, <1>2 DEF Queued
  <2> QED  BY <2>1, GivingUp DEF Holds
<1>7. Queued'  BY <1>2, <1>6 DEF Queued, Line
<1>8. ASSUME NEW q \in Requests \ {r} PROVE Accounted(q)' /\ Heading(q)'
  <2>1. Handler(q) # Handler(r)  BY Names
  <2> QED  BY <1>1, <1>3, <1>6, <2>1, Unmoved
<1>9. Accounted(r)' /\ Heading(r)'
  BY <1>4, <1>6 DEF Accounted, Heading, Taken
<1> QED  BY <1>5, <1>7, <1>8, <1>9 DEF IInv

\* A source's thread stands in a line of handlers like another of them.
LEMMA SaveKeeps ==
  ASSUME IInv, NEW r \in Requests, SaveSetting(r) \/ SettingSaved(r)
  PROVE  IInv'
<1>1. Requested /\ Queued /\ Threaded /\ \A q \in Requests : Accounted(q) /\ Heading(q)  BY DEF IInv
<1>2. UNCHANGED request  BY DEF SaveSetting, SettingSaved
<1>3. Threaded'  BY <1>1 DEF SaveSetting, SettingSaved, Threaded
<1> DEFINE old == line["sources"]
           s == line'["sources"]
<1>4. "sources" \in Locks /\ Line(old, Actors) /\ Thread(r) \in Actors  BY <1>1, Names DEF Queued, Locks
<1>5. /\ Line(s, Actors) /\ (\A q : Handler(q) \in ToSet(s) => Handler(q) \in ToSet(old))
      /\ (\A q : old # <<>> /\ Head(old) = Handler(q) => s # <<>> /\ Head(s) = Handler(q))
      /\ line' = [line EXCEPT !["sources"] = s]
  <2>1. CASE SaveSetting(r)
    <3>1. Thread(r) \notin ToSet(old) /\ line' = [line EXCEPT !["sources"] = Append(old, Thread(r))]
      BY <2>1 DEF SaveSetting
    <3>2. s = Append(old, Thread(r))  BY <1>1, <1>4, <3>1 DEF Queued
    <3> HIDE DEF old, s
    <3> QED  BY <1>4, <3>1, <3>2, Joining, Names
  <2>2. CASE SettingSaved(r)
    <3>1. old # <<>> /\ Head(old) = Thread(r) /\ line' = [line EXCEPT !["sources"] = Tail(old)]
      BY <2>2 DEF SettingSaved, Holds
    <3>2. s = Tail(old)  BY <1>1, <1>4, <3>1 DEF Queued
    <3> HIDE DEF old, s
    <3> QED  BY <1>4, <3>1, <3>2, Leaving, Names
  <2> QED  BY <2>1, <2>2
<1>6. \A l \in Locks : line'[l] = IF l = "sources" THEN s ELSE line[l]  BY <1>1, <1>5 DEF Queued
<1>7. Queued'
  <2>1. line' \in [Locks -> Seq(Actors)]
    <3> HIDE DEF s, old
    <3> QED  BY <1>1, <1>5 DEF Queued, Line
  <2> QED  BY <1>1, <1>5, <1>6, <2>1 DEF Queued
<1>8. ASSUME NEW q \in Requests PROVE Accounted(q)' /\ Heading(q)'
  <2>1. \A l \in Locks : Handler(q) \in ToSet(line'[l]) => Handler(q) \in ToSet(line[l])
    BY <1>5, <1>6
  <2>2. \A l \in Locks : Holds(Handler(q), l) => Holds(Handler(q), l)'  BY <1>5, <1>6 DEF Holds
  <2> QED  BY <1>1, <1>2, <2>1, <2>2, Unmoved
<1>9. Requested'  BY <1>1, <1>2 DEF Requested, Active, Steps
<1> QED  BY <1>3, <1>7, <1>8, <1>9 DEF IInv

LEMMA ThreadKeeps ==
  ASSUME IInv, UNCHANGED <<request, line>>, Threaded'
  PROVE  IInv'
<1>1. Requested' /\ Queued'  BY DEF IInv, Requested, Queued, Active, Steps
<1>2. \A q \in Requests : Accounted(q)' /\ Heading(q)'  BY Unmoved DEF IInv, Holds
<1> QED  BY <1>1, <1>2 DEF IInv

LEMMA NextKeeps == IInv /\ [Next]_vars => IInv'
<1> SUFFICES ASSUME IInv, [Next]_vars PROVE IInv'  OBVIOUS
<1>1. Threaded  BY DEF IInv
<1>2. ASSUME NEW r \in Requests, CallSource(r) \/ SourceAnswers(r) PROVE IInv'
  <2>1. UNCHANGED <<request, line>> /\ Threaded'  BY <1>1, <1>2 DEF CallSource, SourceAnswers, Threaded
  <2> QED  BY <2>1, ThreadKeeps
<1>3. ASSUME NEW r \in Requests, CallReturns(r) \/ CallTimesOut(r) PROVE IInv'
  <2>1. Doing(r, Call) /\ Advance(r) /\ UNCHANGED line /\ Threaded'
    BY <1>1, <1>3 DEF CallReturns, CallTimesOut, Threaded
  <2>2. \A l \in Locks : ~Doing(r, Free(l)) /\ ~Doing(r, Take(l))  BY <2>1 DEF Doing, Call, Take, Free
  <2> QED  BY <2>1, <2>2, GoingOnKeeps DEF Doing
<1>4. ASSUME NEW r \in Requests, NEW l \in Locks, Granted(r, l) PROVE IInv'
  <2>1. Doing(r, Take(l)) /\ Holds(Handler(r), l) /\ Advance(r) /\ UNCHANGED <<line, thread>>
    BY <1>4 DEF Granted
  <2>2. \A k \in Locks : ~Doing(r, Free(k)) /\ (Doing(r, Take(k)) => Holds(Handler(r), k))
    BY <2>1, DoingOne DEF Doing, Take, Free
  <2>3. Threaded'  BY <1>1, <2>1 DEF Threaded
  <2> QED  BY <2>1, <2>2, <2>3, GoingOnKeeps DEF Doing
<1>5. ASSUME NEW r \in Requests, Respond(r) \/ Drop(r) PROVE IInv'
  <2>1. Leave(r)  BY <1>5 DEF Respond, Drop
  <2>2. Threaded'
    <3>1. CASE Respond(r)  BY <1>1, <3>1 DEF Respond, Threaded
    <3>2. CASE Drop(r)
      <4> DEFINE c == CASE thread[r] = "running" -> "abandoned" [] thread[r] = "saving" -> "lateSaving"
                        [] thread[r] = "answered" -> "none" [] OTHER -> thread[r]
      <4>1. thread' = [thread EXCEPT ![r] = c]  BY <3>2 DEF Drop
      <4>2. c \in {"none", "running", "saving", "answered", "abandoned", "lateSaving"}
        BY <1>1 DEF Threaded
      <4> HIDE DEF c
      <4> QED  BY <1>1, <4>1, <4>2 DEF Threaded
    <3> QED  BY <1>5, <3>1, <3>2
  <2> QED  BY <2>1, <2>2, LeaveKeeps
<1>6. CASE UNCHANGED vars
  <2>1. UNCHANGED <<request, line>> /\ Threaded'  BY <1>1, <1>6 DEF vars, Threaded
  <2> QED  BY <2>1, ThreadKeeps
<1> QED
  BY <1>2, <1>3, <1>4, <1>5, <1>6, ArriveKeeps, QueueKeeps, ReleaseKeeps, SaveKeeps DEF Next, HandlerStep

LEMMA InitIInv == Init => IInv
<1> SUFFICES ASSUME Init PROVE IInv  OBVIOUS
<1>1. request = [r \in Requests |-> None] /\ line = [l \in Locks |-> <<>>]
      /\ thread = [r \in Requests |-> "none"]
  BY DEF Init
<1>2. \A r \in Requests : request[r] = None /\ ~Active(r)  BY <1>1 DEF Active, None
<1>3. Requested  BY <1>1, <1>2 DEF Requested, None
<1>4. <<>> \in Seq(Actors) /\ Line(<<>>, Actors) /\ \A x : x \notin ToSet(<<>>)
  <2>1. <<>> \in Seq(Actors) /\ Len(<<>>) = 0 /\ DOMAIN <<>> = {}  BY EmptySeq
  <2> QED  BY <2>1 DEF Line, Distinct, ToSet
<1>5. Queued  BY <1>1, <1>4 DEF Queued
<1>6. \A r \in Requests : Accounted(r) /\ Heading(r)
  BY <1>1, <1>2, <1>4 DEF Accounted, Heading, Taken
<1>7. Threaded  BY <1>1 DEF Threaded
<1> QED  BY <1>3, <1>5, <1>6, <1>7 DEF IInv

LEMMA Invariance == Spec => []IInv
BY InitIInv, NextKeeps, PTL DEF Spec

-----------------------------------------------------------------------------
\* Nobody is twice in a line, and no handler runs past its end.
THEOREM TypeCorrect == Spec => []TypeOK
<1>1. IInv => TypeOK
  <2> SUFFICES ASSUME IInv PROVE TypeOK  OBVIOUS
  <2>1. Requested /\ Queued /\ Threaded  BY DEF IInv
  <2>2. ASSUME NEW r \in Requests PROVE request[r].step \in 1..12
    <3>1. CASE Active(r)
      <4>1. Len(Steps(r)) \in 1..9 /\ request[r].step \in 1..(Len(Steps(r)) + 1)
        BY <2>1, <3>1, StepsKnown
      <4> DEFINE n == Len(Steps(r))
                 k == request[r].step
      <4>2. n \in 1..9 /\ k \in 1..(n + 1)  BY <4>1
      <4> HIDE DEF n, k
      <4>3. k \in 1..12  BY <4>2
      <4> QED  BY <4>3 DEF k
    <3>2. CASE ~Active(r)  BY <2>1, <3>2 DEF Requested
    <3> QED  BY <3>1, <3>2
  <2>3. request \in [Requests -> [handler : (DOMAIN Script) \cup {"none"}, step : 1..12]]
    <3>1. \A r \in Requests : request[r] \in [handler : (DOMAIN Script) \cup {"none"}, step : 1..12]
      BY <2>1, <2>2 DEF Requested
    <3> QED  BY <2>1, <3>1 DEF Requested
  <2>4. \A l \in Locks : line[l] \in Seq(Actors) /\ Len(line[l]) = Cardinality(ToSet(line[l]))
    BY <2>1, LengthIsSize DEF Queued
  <2> QED  BY <2>1, <2>3, <2>4 DEF TypeOK, Threaded
<1> QED  BY <1>1, Invariance, PTL

\* What a request that waits has taken comes before what it waits for.
LEMMA WaitsUpwards ==
  ASSUME IInv, NEW S \in Deadlocks, NEW Rank, \A r \in S : Ascends(Script[request[r].handler], Rank),
         \A l \in Locks : Rank[l] \in 1..5
  PROVE  FALSE
<1>1. Requested /\ Queued /\ \A q \in Requests : Accounted(q) /\ Heading(q)  BY DEF IInv
<1>2. S \subseteq Requests /\ S # {} /\ Circular(S)  BY DEF Deadlocks
<1>3. ASSUME NEW r \in S, NEW l \in Locks, WaitsFor(Handler(r), l)
      PROVE  Doing(r, Take(l)) /\ Active(r) /\ \A k \in Taken(r) : Rank[k] < Rank[l]
  <2>1. Handler(r) \in ToSet(line[l]) /\ ~Holds(Handler(r), l)  BY <1>3 DEF WaitsFor
  <2>2. Doing(r, Take(l))  BY <1>1, <1>2, <2>1 DEF Accounted, Heading
  <2>3. Active(r) /\ request[r].step \in 1..Len(Steps(r)) /\ Steps(r)[request[r].step] = Take(l)
    BY <1>1, <1>2, <2>2, StepsKnown DEF Doing, Ended
  <2>4. Ascends(Steps(r), Rank)  BY DEF Steps
  <2>5. \A k \in HeldAt(Steps(r), request[r].step) : Rank[k] < Rank[l]  BY <2>3, <2>4 DEF Ascends
  <2> QED  BY <2>2, <2>3, <2>5 DEF Taken
<1>4. ASSUME NEW l \in Locks, NEW q \in S, Holds(Handler(q), l)
      PROVE  \E k \in Locks : (\E p \in S : Holds(Handler(p), k) /\ WaitsFor(Handler(q), k)) /\ Rank[l] < Rank[k]
  <2>1. PICK k \in Locks, p \in S : WaitsFor(Handler(q), k) /\ Holds(Handler(p), k)
    BY <1>2 DEF Circular
  <2>2. Doing(q, Take(k)) /\ \A j \in Taken(q) : Rank[j] < Rank[k]  BY <1>3, <2>1
  <2>3. Handler(q) \in ToSet(line[l])
    <3>1. line[l] # <<>> /\ Head(line[l]) = Handler(q) /\ line[l] \in Seq(Actors)
      BY <1>1, <1>4 DEF Holds, Queued
    <3>2. 1 \in 1..Len(line[l]) /\ line[l][1] = Handler(q)  BY <3>1, Members
    <3> QED  BY <3>1, <3>2, Members
  <2>4. l # k  BY <1>4, <2>1 DEF WaitsFor
  <2>5. l \in Taken(q)  BY <1>1, <1>2, <2>2, <2>3, <2>4, DoingOne DEF Accounted
  <2> QED  BY <2>1, <2>2, <2>5
<1> DEFINE Blocked == {l \in Locks : \E q \in S : Holds(Handler(q), l)}
           ranks == {n \in 1..5 : \E l \in Blocked : Rank[l] = n}
<1>5. PICK l \in Blocked : TRUE
  BY <1>2 DEF Circular
<1>6. Rank[l] \in ranks  OBVIOUS
<1>7. ranks \in SUBSET Int /\ IsFiniteSet(ranks)
  <2>1. ranks \subseteq 1..5  OBVIOUS
  <2> HIDE DEF ranks
  <2> DEFINE Five == 1..5
  <2>2. IsFiniteSet(Five)
    <3>1. 1 \in Int /\ 5 \in Int  OBVIOUS
    <3> QED  BY <3>1, FS_Interval
  <2>3. ranks \subseteq Five /\ Five \subseteq Int  BY <2>1
  <2> HIDE DEF Five
  <2> QED  BY <2>2, <2>3, FS_Subset
<1>8. PICK m \in ranks : \A n \in ranks : m >= n
  <2> HIDE DEF ranks
  <2> QED  BY <1>6, <1>7, MaxOfSet
<1>9. PICK k \in Blocked : Rank[k] = m  OBVIOUS
<1>10. PICK j \in Blocked : Rank[k] < Rank[j]  BY <1>4, <1>9
<1>11. Rank[j] \in ranks  OBVIOUS
<1> QED  BY <1>7, <1>8, <1>9, <1>10, <1>11

\* Requests wait for one another in a circle only when one of them takes the settings
\* while it holds the chapter storage and one does the reverse: without either kind there
\* is an order in which all the others take their locks.
THEOREM CirclesMixOrders == Spec => []DeadlocksMixOrders
<1>1. IInv => DeadlocksMixOrders
  <2> SUFFICES ASSUME IInv, NEW S \in Deadlocks
               PROVE  /\ \E r \in S : request[r].handler \in StorageFirst
                      /\ \E r \in S : request[r].handler \in SettingsFirst
    BY DEF DeadlocksMixOrders
  <2>1. ASSUME NEW r \in S PROVE request[r].handler \in DOMAIN Script /\ Orderly(request[r].handler)
    <3>1. r \in Requests /\ Requested /\ Accounted(r) /\ Heading(r)  BY DEF IInv, Deadlocks
    <3>2. PICK l \in Locks : WaitsFor(Handler(r), l)  BY DEF Deadlocks, Circular
    <3>3. Active(r)  BY <3>1, <3>2 DEF WaitsFor, Accounted, Taken, Doing
    <3> QED  BY <3>1, <3>3, StepsKnown
  <2>2. ASSUME \A r \in S : request[r].handler \notin SettingsFirst PROVE FALSE
    <3>1. \A r \in S : Ascends(Script[request[r].handler], StorageOrder)  BY <2>1, <2>2 DEF Orderly
    <3>2. \A l \in Locks : StorageOrder[l] \in 1..5  BY DEF StorageOrder
    <3> QED  BY <3>1, <3>2, WaitsUpwards
  <2>3. ASSUME \A r \in S : request[r].handler \notin StorageFirst PROVE FALSE
    <3>1. \A r \in S : Ascends(Script[request[r].handler], SettingsOrder)  BY <2>1, <2>3 DEF Orderly
    <3>2. \A l \in Locks : SettingsOrder[l] \in 1..5  BY DEF SettingsOrder
    <3> QED  BY <3>1, <3>2, WaitsUpwards
  <2> QED  BY <2>2, <2>3
<1> QED  BY <1>1, Invariance, PTL
=============================================================================
