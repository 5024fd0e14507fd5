--------------------------- MODULE SourceServices ---------------------------
(***************************************************************************)
(* What stands between the requests of the server and the code of a        *)
(* source, side by side: the requests that ask sources and the health      *)
(* history they leave (SourceRequests), the catalogs from which sources    *)
(* are installed (SourceCatalog), what an instance knows of its package    *)
(* (SourceInstances), the store of an Aidoku program (WasmStore), and the  *)
(* worker that runs a script (SourceWorkers).  They share no state; this   *)
(* module names what each of them promises.                                *)
(***************************************************************************)
EXTENDS Naturals, FiniteSets, Sequences

CONSTANTS Nothing,                                    \* the NULL of the components
          Askers, Asking, Asked, MaxObservations,     \* of SourceRequests
          Retention, FailureWindow, MaxClock, MaxDisturbances,
          MaxPointer, MaxItems,                       \* of WasmStore
          Callers, Chapters, Runtimes,                \* of SourceWorkers
          MaxWorkers, MaxBootFailures,
          Ongoing, Collections, Code, StoredSettings, \* of SourceInstances
          MaxChanges,
          Subscribers, Subscriptions,                 \* of SourceCatalog
          Bodies, Branches, Library, MaxEvents

ASSUME BoundsAreNumbers == MaxObservations \in Nat /\ Retention \in Nat
\* The loader knows the kinds of all packages, the name of an instance is something, and a
\* server has finitely many calls at a time.
ASSUME PackagesAreKnown ==
  /\ IsFiniteSet(Ongoing)
  /\ \A ps \in Collections : \A p \in DOMAIN ps :
       /\ ps[p].kind \in {"aidoku", "lnreader", "mangayomi", "keiyoushi"}
       /\ \A id \in ps[p].ids : <<id, 0>> # Nothing

VARIABLES lists, published, resolved, catalog, provided,       \* of SourceCatalog
          tasks, events, lastGood, overtaken,
          clock, memory, written, request, tokens,             \* of SourceRequests
          cleanup, disturbances, recorded,
          store, uses, sending, frame,                         \* of WasmStore
          runtime, calls, handle, workers, failures, astray,   \* of SourceWorkers
          packages, files, disk, app, manager, registered,     \* of SourceInstances
          instances, serving, changes, wrongs, apart, stuck

Many == INSTANCE SourceRequests WITH
  Requests <- Askers, Kind <- Asking, Jobs <- Asked, MaxTime <- MaxClock,
  now <- clock, disk <- written, store <- tokens
Wasm == INSTANCE WasmStore WITH NULL <- Nothing
Workers == INSTANCE SourceWorkers WITH NULL <- Nothing, Calls <- Callers
Instances == INSTANCE SourceInstances WITH
  NULL <- Nothing, Calls <- Ongoing, calls <- serving, astray <- wrongs

Catalogs == INSTANCE SourceCatalog WITH
  NULL <- Nothing, Tasks <- Subscribers, Settings <- Subscriptions, packages <- provided

\* An index that can be read is a list of finitely many entries.
ASSUME IndexesAreFinite ==
  \A at \in DOMAIN Bodies : \A n \in DOMAIN Bodies[at] :
    LET index == Catalogs!parse_index_bytes(Bodies[at][n])
    IN  index # Nothing => IsFiniteSet(DOMAIN index.entries)
\* The settings have a list of source lists.
ASSUME ListsAreLists ==
  \A ls \in Subscriptions :
    /\ ls \in Seq({ls[i] : i \in DOMAIN ls})
    /\ \A i \in DOMAIN ls : ls[i] = [type |-> ls[i].type, url |-> ls[i].url, enabled |-> ls[i].enabled]

\* The health of a source is judged as all observations would have it, though the history
\* is bounded and requests overlap (source_health.rs).
SummaryHonest == Many!SummaryHonest

\* An HTML document lives as long as one of its elements is in the store, and is counted as
\* often (wasm_store.rs).
DocumentsHeld == Wasm!DocumentsHeld

\* Answers are made of what their own request saw, whatever a worker does for others
\* (keiyoushi/mod.rs, lnreader/runtime.rs, mangayomi/runtime.rs).
AnswersOwn == Workers!AnswersOwn

\* A registered source describes the code that it runs, has the settings that were stored
\* for it, and keeps where it came from (source/mod.rs, source_manager.rs).
InstancesTrue == Instances!MetadataTrue /\ Instances!SettingsReach /\ Instances!ProvenanceKept

\* The last good cache survives failed refreshes, the selection among the candidates
\* follows version and order, and the preview of a list's removal names the sources that
\* would lose their candidate (source_catalog.rs, server/src/source/routes.rs).
CatalogsHonest == Catalogs!LastGoodKept /\ Catalogs!PreferenceHolds /\ Catalogs!PreviewComplete
=============================================================================
