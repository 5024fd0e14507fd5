\* One component to a behaviour, which stops where its bounds are reached.
\* The database is on two devices that make one edit, and the server may have another.
\* One form, and two requests after a start of the server or between two.
SPECIFICATION EachFairSpec
CONSTANTS
  Devices = {d1, d2}
  Edits = {e1}
  Uploaded = {{e2}}
  None = None
  MaxSyncs = 2
  MaxTime = 1
  Forms = {1}
  MaxRequests = 3
  MaxTroubles = 3
  NULL = NULL
  DAMAGED = DAMAGED
  Nothing = NULL
  Askers = {1, 2, 3}
  Asking <- RequestKind
  Asked <- Jobs
  MaxObservations = 3
  Retention = 3
  FailureWindow = 3
  MaxClock = 4
  MaxDisturbances = 1
  MaxPointer <- Handles
  MaxItems = 2
  Callers = {1, 2}
  Chapters = {1, 2}
  Runtimes <- Kinds
  MaxWorkers = 4
  MaxBootFailures = 1
  Ongoing = {1}
  Collections <- Installed
  Code <- Versions
  StoredSettings <- Choices
  MaxChanges = 2
  Subscribers = {1, 2}
  Subscriptions <- Configured
  Bodies <- Indexes
  Branches <- Versioned
  Library <- Owned
  MaxEvents = 3
INVARIANTS
  EachTypeOK
  ServerConsistent
  ProgressFindable
  SummaryHonest
  DocumentsHeld
  AnswersOwn
  CatalogsHonest
  InstancesTrue
  SettingsKept
PROPERTIES
  CancelReaches
  CallsEnd
CHECK_DEADLOCK FALSE
