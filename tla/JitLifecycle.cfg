\* Two processes: p1 with shadow mode, p2 with shadow_window=0 and
\* sync_compile; any compile may outlive its lease.
SPECIFICATION Spec
CONSTANTS
  p1 = p1
  p2 = p2
  c1 = c1
  c2 = c2
  w1 = w1
  w2 = w2
  cfgA = cfgA
  cfgB = cfgB
  NoCaller = NoCaller
  Proc = {p1, p2}
  Caller = {c1, c2}
  Worker = {w1, w2}
  ProcOf <- MCProcOf
  ConfigOf <- MCConfigOf
  Configs = {cfgA, cfgB}
  ShadowProc = {p1}
  SyncProc = {p2}
  LiveProc = {p1}
  LeaseCoversCompile = FALSE
  MaxAttempts = 2
  Threshold = 2
  MaxEpoch = 4
  MaxCrashes = 1
INVARIANTS CompileBound EpochNamesRouting
