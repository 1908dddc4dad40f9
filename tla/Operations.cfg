SPECIFICATION OperationsSpec
CONSTANTS
  Event = {"full", "tuesday", "wednesday", "thursday"}
  Start <- MCStart
  DumpType = {"full_dump", "changed_records"}
  Type <- MCType
  Place <- MCPlace
  File = {"1", "2"}
  Files <- MCFiles
  Retention = 2
  Manager = {"production"}
  Visitor = "visitor"
  NoEvent = "none"
  Horizon = 3
  MaxRequests = 1
  MaxKills = 1
  Row = {"m1", "m2", "m3"}
  PartFile = {"1"}
  NoRow = "none"
  MaxDump = 2
  MaxRakeKills = 1
  Thread = {"p1", "p2"}
  Option = {"timeout", "enable_loggable"}
  Caller = {"many", "items", "holding", "user"}
  Options <- MCOptions
  Default <- MCDefault
  Value = {0, 1, 5, 10, 20}
  Unset = Unset
  NoCaller = "none"
INVARIANTS FilesGoWithRows RecentIsWhole ProductionComplete Undisturbed
PROPERTIES NoneLeftOut OldEventsGo ProductionFresh
CHECK_DEADLOCK FALSE
