\* A cancel that meets a poll of the same job is answered "couldn't find job".
SPECIFICATION Spec
CONSTANTS
  c1 = c1
  c2 = c2
  b1 = b1
  r1 = r1
  h1 = h1
  h2 = h2
  NoJob = NoJob
  Jobs = {c1}
  ChapterJobs = {c1}
  BatchJobs = {}
  Handlers = {h1, h2}
  Permits = 1
  MaxItems = 1
INVARIANTS
  CancelAtAnyTime
CHECK_DEADLOCK FALSE
