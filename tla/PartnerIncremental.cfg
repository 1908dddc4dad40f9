SPECIFICATION FairSpec
CONSTANTS
  r1 = r1
  r2 = r2
  Rec = {r1, r2}
  MaxObjects = 2
  MaxDumps = 2
  MaxTasks = 2
  MaxKills = 1
  Schedules = {"cron", "manual", "failing"}
INVARIANTS TypeOK NothingMissed
PROPERTIES LatestInSync EventuallyDone
CHECK_DEADLOCK FALSE
