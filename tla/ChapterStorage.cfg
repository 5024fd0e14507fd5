\* Two downloads to disk or RAM, a delete, aborts and restarts over three files;
\* with a limit of one every download evicts.
SPECIFICATION Spec
CONSTANTS
  c1 = c1
  c2 = c2
  c3 = c3
  t1 = t1
  t2 = t2
  NoChapter = NoChapter
  Chapters = {c1, c2, c3}
  Tasks = {t1, t2}
  Sizes = {1}
  Limit = 1
  WordSize = 8
  RamModes = {FALSE, TRUE}
INVARIANTS
  TypeOK
  CounterExactUnlessUpset
PROPERTIES
  OvershootBounded
SYMMETRY Symmetry
