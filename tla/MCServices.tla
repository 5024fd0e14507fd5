----------------------------- MODULE MCServices -----------------------------
(***************************************************************************)
(* The components that share no state with one another, for TLC: synchro-  *)
(* nisation of the database, requests to several sources, the objects that *)
(* a WebAssembly source holds, the workers of the other sources, the       *)
(* catalogs, the instances, and the settings.  A behaviour is one of one of*)
(* them, and the others rest in an initial state.                          *)
(***************************************************************************)
EXTENDS DatabaseSync, SettingsStore, SourceServices, TLC

VARIABLE part

syncVars == <<now, file, wal, backup, pool, server, sync, syncs, upset, late, reached, had>>
requestsVars == <<clock, memory, written, request, tokens, cleanup, disturbances, recorded>>
wasmVars == <<store, uses, sending, frame>>
workersVars == <<runtime, calls, handle, workers, failures, astray>>
catalogsVars == <<lists, published, resolved, catalog, provided, tasks, events, lastGood, overtaken>>
instancesVars ==
  <<packages, files, disk, app, manager, registered, instances, serving, changes, wrongs, apart, stuck>>

-----------------------------------------------------------------------------
(* A search and two refreshes, of which two ask for the same item; three   *)
(* observations are kept.                                                  *)

Search == 1
RequestKind == <<"search", "refresh", "library">>
Jobs == <<{<<"a", "q">>}, {<<"a", "m">>}, {<<"a", "m">>, <<"a", "n">>}>>

(* A few handles for each family of imports, and values with two items.    *)

Handles == [values |-> 3, requests |-> 3, limits |-> 2, media |-> 3, calls |-> 3, links |-> 4]

(* Two callers of one source, of each kind.                                *)

Pair == {1, 2}
Kinds == {"keiyoushi", "lnreader", "mangayomi", "js"}

-----------------------------------------------------------------------------
(* No lists; two of Aidoku that both have a source, the second an older    *)
(* version or another one; or one of Keiyoushi, with the form of its index *)
(* and the other one beside it, and a disabled one of LNReader with two    *)
(* branches.                                                               *)

Url(s, f) == [site |-> s, file |-> <<f>>, fragment |-> FALSE]
List(t, u, e) == [type |-> t, url |-> u, enabled |-> e]
Version(a, b, c) == [parts |-> <<a, b, c>>, dash |-> FALSE]
Entry(id, v) == [id |-> <<id>>, numeric |-> FALSE, pkg |-> NULL, name |-> id, version |-> v,
                 package |-> TRUE, anime |-> FALSE, lang |-> "en"]
Body(es) == [form |-> "array", entries |-> es, zipped |-> FALSE]
Page == [Body(<<>>) EXCEPT !.form = "page"]
Field(n, v) == [field |-> n, wire |-> 2, cut |-> FALSE, value |-> v]
Extension(langs, v) ==
  <<Field(1, "p"), Field(2, "p"), Field(3, <<Field(1, "p.apk")>>), Field(6, v)>>
  \o [i \in DOMAIN langs |-> Field(8, <<Field(3, langs[i])>>)]
Message(exts) == [form |-> "message", zipped |-> TRUE,
                  entries |-> <<Field(101, [i \in DOMAIN exts |-> Field(1, exts[i])])>>]
First == Url("a", "index")
Second == Url("b", "index")
Keiyoushi == Url("k", "index.pb")
Repository == Url("r", "repository")

Configured ==
  {<<>>,
   <<List("aidoku", [First EXCEPT !.fragment = TRUE], TRUE), List("aidoku", Second, TRUE)>>,
   <<List("keiyoushi", Keiyoushi, TRUE), List("lnreader", Repository, FALSE)>>}
Indexes ==
  (<<"a", <<"index">>>> :> <<Body(<<Entry("s", Version(1, 0, 0))>>),
                             Body(<<Entry("s", Version(1, 0, 1)), Entry("m", Version(1, 0, 0))>>)>>) @@
  (<<"b", <<"index">>>> :> <<Body(<<[Entry("s", Version(1, 0, 0)) EXCEPT !.numeric = TRUE, !.pkg = <<"t">>]>>)>>) @@
  (<<"k", <<"index.pb">>>> :> <<Message(<<Extension(<<"en", "all">>, Version(1, 0, 0))>>),
                                [Message(<<>>) EXCEPT !.form = "page"]>>) @@
  (<<"k", <<"index.min.json">>>> :> <<Body(<<>>),
                                      Body(<<[Entry("p", Version(1, 0, 2)) EXCEPT !.pkg = <<"p">>]>>)>>) @@
  (<<"r", <<3, "plugins.min.json">>>> :> <<Body(<<Entry("p", Version(1, 0, 0))>>),
                                           Body(<<Entry("p", Version(1, 0, 0))>>)>>) @@
  (<<"r", <<4, "plugins.min.json">>>> :> <<Page, Body(<<Entry("p", Version(1, 1, 0))>>)>>)
Versioned == "r" :> <<{3}, {3, 4}>>
Owned == {<<"m">>}

-----------------------------------------------------------------------------
(* No package, or two, among them an APK with two sources; three versions, *)
(* which declare a setting each in another form.                           *)

Package(kind, ids) == [kind |-> kind, ids |-> ids]
Preference(form, key, values, value) == [form |-> form, key |-> key, values |-> values, value |-> value]
Installed ==
  {<<>>,
   <<Package("aidoku", {1}), Package("mangayomi", {2})>>,
   <<Package("keiyoushi", {1, 2}), Package("lnreader", {3})>>}
Versions ==
  <<[prefs |-> <<Preference("switch", "k", <<>>, NULL)>>,
     complete |-> TRUE, urls |-> <<>>, url |-> 4, min |-> FALSE, modes |-> {TRUE}],
    [prefs |-> <<Preference("list", "k", <<6, 7>>, 1), Preference("text", "t", <<>>, NULL)>>,
     complete |-> FALSE, urls |-> <<5>>, url |-> NULL, min |-> TRUE, modes |-> {TRUE}],
    [prefs |-> <<Preference("multi", "k", <<6, 7>>, 1), Preference("flat", "t", <<>>, 3)>>,
     complete |-> TRUE, urls |-> <<5>>, url |-> NULL, min |-> TRUE, modes |-> {FALSE}]>>
Choices == {"k" :> 1}

-----------------------------------------------------------------------------
NoSync == Init /\ server.data = None
NoRequests == Many!Init
NoWasm == Wasm!Init /\ uses = "values"
NoWorkers == Workers!Init /\ runtime = "js"
NoCatalogs == Catalogs!Init /\ lists = <<>>
NoInstances == Instances!Init /\ packages = <<>>
NoSettings == SettingsInit /\ stored.primary = NULL

EachInit ==
  \/ /\ part = "sync" /\ Init
     /\ NoRequests /\ NoWasm /\ NoWorkers /\ NoCatalogs /\ NoInstances /\ NoSettings
  \/ /\ part = "requests" /\ Many!Init
     /\ NoSync /\ NoWasm /\ NoWorkers /\ NoCatalogs /\ NoInstances /\ NoSettings
  \/ /\ part = "wasm" /\ Wasm!Init
     /\ NoSync /\ NoRequests /\ NoWorkers /\ NoCatalogs /\ NoInstances /\ NoSettings
  \/ /\ part = "workers" /\ Workers!Init
     /\ NoSync /\ NoRequests /\ NoWasm /\ NoCatalogs /\ NoInstances /\ NoSettings
  \/ /\ part = "catalogs" /\ Catalogs!Init
     /\ NoSync /\ NoRequests /\ NoWasm /\ NoWorkers /\ NoInstances /\ NoSettings
  \/ /\ part = "instances" /\ Instances!Init
     /\ NoSync /\ NoRequests /\ NoWasm /\ NoWorkers /\ NoCatalogs /\ NoSettings
  \/ /\ part = "settings" /\ SettingsInit
     /\ NoSync /\ NoRequests /\ NoWasm /\ NoWorkers /\ NoCatalogs /\ NoInstances

EachNext ==
  /\ part' = part
  /\ \/ /\ part = "sync" /\ Next
        /\ UNCHANGED <<settingsVars, requestsVars, wasmVars, workersVars, catalogsVars, instancesVars>>
     \/ /\ part = "requests" /\ Many!Next
        /\ UNCHANGED <<settingsVars, syncVars, wasmVars, workersVars, catalogsVars, instancesVars>>
     \/ /\ part = "wasm" /\ Wasm!Next
        /\ UNCHANGED <<settingsVars, syncVars, requestsVars, workersVars, catalogsVars, instancesVars>>
     \/ /\ part = "workers" /\ Workers!Next
        /\ UNCHANGED <<settingsVars, syncVars, requestsVars, wasmVars, catalogsVars, instancesVars>>
     \/ /\ part = "catalogs" /\ Catalogs!Next
        /\ UNCHANGED <<settingsVars, syncVars, requestsVars, wasmVars, workersVars, instancesVars>>
     \/ /\ part = "instances" /\ Instances!Next
        /\ UNCHANGED <<settingsVars, syncVars, requestsVars, wasmVars, workersVars, catalogsVars>>
     \/ /\ part = "settings" /\ SettingsNext
        /\ UNCHANGED <<syncVars, requestsVars, wasmVars, workersVars, catalogsVars, instancesVars>>

EachVars == <<part, syncVars, requestsVars, wasmVars,
          workersVars, catalogsVars, instancesVars, settingsVars>>

\* Of each component, what it assumes of the scheduling.
EachSpec == EachInit /\ [][EachNext]_EachVars
EachFairSpec ==
  /\ EachSpec
  /\ \A r \in Askers : WF_requestsVars(part = "requests" /\ Many!SearchStops(r))
  /\ WF_wasmVars(part = "wasm" /\ Wasm!Tick)
  /\ WF_wasmVars(part = "wasm" /\ Wasm!SendNext)
  /\ \A c \in Pair :
       WF_workersVars(
         part = "workers" /\ (Workers!Restart(c) \/ Workers!start_worker(c) \/ Workers!Send(c) \/ Workers!GiveUp(c)))
  /\ \A w \in 1..4 :
       /\ WF_workersVars(part = "workers" /\ Workers!Boot(w))
       /\ WF_workersVars(part = "workers" /\ Workers!Finish(w))

-----------------------------------------------------------------------------
(* Properties.                                                             *)

EachTypeOK ==
  /\ TypeOK /\ SettingsTypeOK /\ Many!TypeOK /\ Wasm!TypeOK /\ Workers!TypeOK
  /\ Instances!TypeOK /\ Catalogs!TypeOK

\* A search whose client has cancelled it, or could not cancel it any more as its token is
\* gone from the store, ends, although no source ever answers (cancel_token_store.rs,
\* search_mangas.rs).
Stopping(r) == request[r].cancelled \/ (Many!At(r, "working") /\ r \notin tokens)
CancelReaches ==
  (part = "requests" /\ Stopping(Search)) ~> (part = "requests" /\ Many!At(Search, "done"))

\* A source that waits for permits of its rate limit gets them, and every call of a
\* worker comes back, though scripts hang, fail to start or are restarted (net.rs,
\* keiyoushi/mod.rs, lnreader/runtime.rs, mangayomi/runtime.rs).
CallsEnd ==
  \/ part = "wasm" /\ sending # <<>> /\ Wasm!LimitOf(store, "permits", Wasm!Many) > 0
  \/ part = "workers" /\ calls[1].pc \in {"check", "start", "wait"}
  ~>
  \/ part = "wasm" /\ sending = <<>>
  \/ part = "workers" /\ calls[1].pc \in {"idle", "done"}
=============================================================================
