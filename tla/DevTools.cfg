SPECIFICATION Spec
CONSTANTS
  t1 = t1
  t2 = t2
  d1 = d1
  NoText = NoText
  Raised = Raised
  Wordless = Wordless
  Missing = Missing
  Found = Found
  Code = Code
  MaxFuzzed = 5
  MaxIterationsOfSuite = 20
  Text <- MCText
  Placeholder <- error
  Equivalent <- ValuesEquivalent
  Unquoted <- ValuesEquivalentUnquoted
  Suite <- MCSuite
  Outcomes <- MCOutcomes
  Flags <- MCFlags
  Judgings <- MCJudgings
  MaxCommands <- MCCommands
  Thread = {t1, t2}
  MaxCached = 2
  MaxLoads = 3
  MaxCalls = 2
  MaxDepth = 2
  MaxCollections = 2
  MaxString = 3
  MaxItems = 3
  MaxRange = 4
  Models <- MCModels
  TooLong <- MCTooLong
  RefusedIn <- Unrenderable
  RegexesIn <- ModelItems
  KeysIn <- TypeKeys
  WarningsIn <- TypesWarn
  ShadowJob <- MCJobs
  QueueSize = 1
  Drainer = {d1}
  AtExit = AtExit
  Scope <- MCScope
  w1 = w1
  w2 = w2
  Copy = {w1, w2}
  First = w1
  Target <- MCTarget
  Source <- MCSource
  Moved <- MCMoved
  FullSuite <- MCFull
  PytestEnds <- MCEnds
  Options <- MCOptions
  Recorded <- MCRecorded
  NoBaseline = NoBaseline
  MaxRuns = 2
INVARIANTS
  ReportTellsTruth
  LabelsStand
  TalliesAddUp
  ZeroMeansMeasured
  CachedIsFresh
  EnforcedOrWarned
  CountShowsFailure
  DrainTellsTruth
  OwnMutantOnly
  RatchetTellsTruth
PROPERTIES
  StubsOnlyWhereNothingWas
CHECK_DEADLOCK FALSE
