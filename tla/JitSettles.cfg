\* Two processes, p1 with shadow mode and p2 compiling in its callers' thread, one
\* crash, every database call allowed to fail; no compile outlives its lease.  A
\* task that reached the threshold settles though only p1 is restarted and called
\* for ever.
SPECIFICATION FairSpec
CONSTANTS
  p1 = p1
  p2 = p2
  c1 = c1
  c2 = c2
  w1 = w1
  w2 = w2
  cfgA = cfgA
  cfgB = cfgB
  NoCaller = NoCaller
  Proc = {p1, p2}
  Caller = {c1, c2}
  Worker = {w1, w2}
  ProcOf <- MCProcOf
  ConfigOf <- MCConfigOf
  Configs = {cfgA, cfgB}
  ShadowProc = {p1}
  SyncProc = {p2}
  LiveProc = {p1}
  LeaseCoversCompile = TRUE
  MaxAttempts = 2
  Threshold = 1
  MaxEpoch = 3
  MaxCrashes = 1
INVARIANTS OneCompile
PROPERTIES CompileSettles SettledStays
