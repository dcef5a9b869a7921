\* Compiles of two processes, and one beside two readers of the other process.
SPECIFICATION Spec
CONSTANTS
  b1 = b1
  b2 = b2
  c1 = c1
  c2 = c2
  r1 = r1
  r2 = r2
  pA = pA
  pB = pB
  Compiler = {c1, c2}
  Reader = {r1, r2}
  Instance = {b1, b2}
  InstanceOf <- MCInstanceOf
  World <- MCWorld
  Program = {pA, pB}
  HistoryMax = 1
  MaxManifests <- MCMaxManifests
  MaxCrashes = 1
INVARIANTS FreshFunction UnconstrainedIsKnown FilesSurvive SidecarBounded
SYMMETRY Symmetry
CHECK_DEADLOCK FALSE
