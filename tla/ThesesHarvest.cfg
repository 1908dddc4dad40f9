SPECIFICATION FairSpec
CONSTANTS
  old = old
  new = new
  empty = empty
  t1 = t1
  t2 = t2
  t3 = t3
  t4 = t4
  t5 = t5
  t6 = t6
  Thesis = {t1, t2, t3, t4, t5, t6}
  Collection = {old, new, empty}
  Legacy = {old}
  Home <- Homes
  Shelf <- Places
  Absent = Absent
  PageSize = 2
  Retries = 1
  Threads = 2
  Torn = {torn}
  NoFile = {none}
  MaxFailures = 2
  MaxKills = 1
  MaxRuns = 2
INVARIANTS SuccessIsComplete OncePerThesis
PROPERTIES ImplementsCacheRefresh EventuallyEnds
CHECK_DEADLOCK FALSE
