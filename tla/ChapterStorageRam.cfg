\* One download at a time, to RAM or to the folder.
SPECIFICATION Spec
CONSTANTS
  c1 = c1
  c2 = c2
  c3 = c3
  t1 = t1
  t2 = t2
  NoChapter = NoChapter
  Chapters = {c1, c2}
  Tasks = {t1}
  Sizes = {1}
  Limit = 1
  WordSize = 8
  RamModes = {FALSE, TRUE}
INVARIANTS
  CounterExact
