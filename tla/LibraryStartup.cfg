\* A process that starts with the cron task enabled.
SPECIFICATION FairSpec
CONSTANTS
  NULL = NULL
  m1 = m1
  m2 = m2
  c1 = c1
  c2 = c2
  c3 = c3
  h1 = h1
  h2 = h2
  s1 = s1
  s2 = s2
  Mangas = {m1, m2}
  Chapters = {c1, c2, c3}
  Scanlators = {s1, s2}
  SourceOf <- MCSourceOf
  Releases <- MCReleases
  Handlers = {h1, h2}
  Installed = {1}
  SkipSources = {}
  Day = 2
  CronEnabled = TRUE
  DeleteAfterRead = TRUE
  DeleteOnRemove = TRUE
  Copies <- MCCopies
  InitialDatabases <- MCInitial
  Budgets <- MCStartup
PROPERTIES
  CronChecksDue
CHECK_DEADLOCK FALSE
