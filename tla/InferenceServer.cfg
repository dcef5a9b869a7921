\* Three requests of any of three clients through a table of two buckets, each of one
\* request; the common bucket holds four; two whiles to read a body.
SPECIFICATION FairSpec
CONSTANTS
  r1 = r1
  r2 = r2
  r3 = r3
  k1 = k1
  k2 = k2
  k3 = k3
  Request = {r1, r2, r3}
  Client = {k1, k2, k3}
  MaxBuckets = 2
  Cost = 2
  Capacity = 2
  Refill = 2
  GlobalCapacity = 8
  GlobalRefill = 1
  MaxTime = 1
  ReadTime = 2
  Stacks <- MCStacks
INVARIANTS ClientCeiling SlotIsOfOne TelemetryIsTrue
PROPERTIES KeepsBudgets RequestsEnd
CHECK_DEADLOCK FALSE
