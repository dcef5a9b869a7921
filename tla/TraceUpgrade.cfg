\* What the comment on the backfill says of a task that was wedged before the upgrade.
SPECIFICATION Spec
CONSTANTS
  p1 = p1
  p2 = p2
  t1 = t1
  t2 = t2
  t3 = t3
  Nobody = Nobody
  Proc = {p1, p2}
  Thread = {t1, t2, t3}
  ProcOf <- MCProcOf
  World <- MCWorld
  Attempts = 3
  Cap = 3
  PruneEvery = 2
INVARIANTS WedgedIsStamped
CHECK_DEADLOCK FALSE
