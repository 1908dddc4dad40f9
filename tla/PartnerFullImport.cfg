SPECIFICATION FairSpec
CONSTANTS
  nypl = nypl
  cul = cul
  t1 = t1
  t2 = t2
  t3 = t3
  t4 = t4
  t5 = t5
  Institution = {nypl, cul}
  Run = {1}
  Task = {1, 2, 3, 4}
  Entries <- Sizes
  Good <- AllGood
  MaxExports = 0
  MaxKills = 0
INVARIANTS SuccessIsComplete SuccessIsTidy
PROPERTY EventuallySucceeds
CHECK_DEADLOCK FALSE
