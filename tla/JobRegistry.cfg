\* Safety with every kind of job: two chapters share one permit.
SPECIFICATION Spec
CONSTANTS
  c1 = c1
  c2 = c2
  b1 = b1
  r1 = r1
  h1 = h1
  h2 = h2
  NoJob = NoJob
  Jobs = {c1, c2, b1}
  ChapterJobs = {c1, c2}
  BatchJobs = {b1}
  Handlers = {h1, h2}
  Permits = 1
  MaxItems = 1
INVARIANTS
  TypeOK
  SingleOwner
  NoJobVanishes
  DeliveredOnce
  HonestVerdict
  PermitsConserved
  QueueExact
PROPERTIES
  ResultStable
SYMMETRY ChapterHandlerSymmetry
CHECK_DEADLOCK FALSE
