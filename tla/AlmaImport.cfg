SPECIFICATION FairSpec
CONSTANTS
  incr = incr
  full = full
  recap = recap
  other = other
  started = started
  f1 = f1
  f2 = f2
  f3 = f3
  Msg = {incr, other, started}
  JobEnd = {incr, other}
  Configured = {incr}
  Incremental = {incr}
  File = {f1, f2}
  Exported <- Files
  MaxPosts = 2
  MaxStops = 1
  MaxRetries = 1
INVARIANTS DoneIsComplete PartialOnlyInRetry RowsPerRun
PROPERTIES OneImport EventuallyImported
CHECK_DEADLOCK FALSE
