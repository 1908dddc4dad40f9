SPECIFICATION Spec
CONSTANTS
  f1 = f1
  i1 = i1
  i2 = i2
  i3 = i3
  r1 = r1
  r2 = r2
  Dump = {f1, i1, i2}
  Record = {r1, r2}
  Caller = {c1}
  Bid = {b1, b2, b3, b4}
  MaxWorkflows = 2
  NoDump = NoDump
  NoBid = NoBid
  Full = {f1}
  Start <- Starts
  Second = 2
  Contents <- Exports
  Version <- Versions
  Preloaded = {f1, i1}
  Announced = {i2}
  Ops = {"remaining"}
  MaxCrashes = 1
SYMMETRY Symmetry
VIEW WithoutDip
INVARIANTS NoStaleRecord FullDumpIsIn
CHECK_DEADLOCK FALSE
