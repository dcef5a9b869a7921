SPECIFICATION FairSpec
CONSTANTS
  p1 = p1
  p2 = p2
  c1 = c1
  c2 = c2
  cfgA = cfgA
  cfgB = cfgB
  MaxAttempts = 2
  Threshold = 1
  Configs = {cfgA, cfgB}
  Proc = {p1, p2}
  Caller = {c1, c2}
  ProcOf <- EachProc
  ConfigOf <- OtherConfig
  ShadowWindow <- Two
  AuditWindow <- Two
  PromoteAt <- Two
  DemoteBelow <- One
  StallFactor = 3
  MaxPairs = 4
  PruneEvery = 1
  QueueSize = 1
  World <- MovesWorld
PROPERTIES Moves
