\* Two requests, two downloads with one permit, and two to the folder.
SPECIFICATION EachFairSpec
CONSTANTS
  NULL = NULL
  a1 = a1
  a2 = a2
  h1 = h1
  h2 = h2
  c1 = c1
  c2 = c2
  t1 = t1
  t2 = t2
  r1 = r1
  r2 = r2
  Requests = {r1, r2}
  Handlers <- OneOrder
PROPERTIES
  RequestsEnd
  NoStarvation
  CancelStopsTask
  ResultArrives
  PersistEnds
CHECK_DEADLOCK FALSE
