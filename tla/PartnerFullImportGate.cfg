SPECIFICATION Spec
CONSTANTS
  nypl = nypl
  cul = cul
  t1 = t1
  t2 = t2
  t3 = t3
  t4 = t4
  t5 = t5
  Institution = {cul}
  Run = {1, 2}
  Task = {t1, t2, t3, t4}
  Entries <- Sizes
  Good <- LaterGood
  MaxExports = 1
  MaxKills = 1
SYMMETRY Symmetry
INVARIANTS ValidatedFirst
CHECK_DEADLOCK FALSE
