SPECIFICATION FairSpec
CONSTANTS
  f1 = f1
  i1 = i1
  i2 = i2
  i3 = i3
  r1 = r1
  r2 = r2
  Dump = {i1, i2}
  Record = {r1}
  Caller = {c1}
  Bid = {1, 2, 3, 4, 5}
  MaxWorkflows = 2
  NoDump = NoDump
  NoBid = NoBid
  Full = {}
  Start <- Starts
  Second = 2
  Contents <- Exports
  Version <- Versions
  Preloaded = {i1}
  Announced = {}
  Ops = {"remaining"}
  MaxCrashes = 0
PROPERTIES EventuallyCaughtUp
CHECK_DEADLOCK FALSE
