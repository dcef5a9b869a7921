SPECIFICATION FairSpec
CONSTANTS
  w1 = w1
  w2 = w2
  d1 = d1
  d2 = d2
  d3 = d3
  d4 = d4
  d5 = d5
  Call = {d1, d2, d3, d4, d5}
  Wedged = {d1, d2}
  Worker = {w1, w2}
INVARIANTS NeverBehindWedged
PROPERTIES KeepsPromise AnswerReady PermitsComeBack
CHECK_DEADLOCK FALSE
