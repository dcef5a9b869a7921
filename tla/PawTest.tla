------------------------------- MODULE PawTest -------------------------------
(***************************************************************************)
(* The commands of paw-test (cli.py) in one working directory: `check`, which may  *)
(* learn, `compare`, `judge` of what either wrote, and `judge --diff` of two files   *)
(* of verdicts.  Programs that call run_active_learning_loop themselves take part.  *)
(***************************************************************************)
EXTENDS LearningLoop, Judge

CONSTANTS
  Flags,         \* of `check`: [backend, sdk, recompile]
  Code,          \* who runs, when it is a program and not the command line
  Judgings(_),   \* what the judge may do with so many rows, row by row
  MaxCommands(_) \* bound: commands in a row, of a suite

ASSUME PawAssumption ==
  Flags \subseteq [backend : {"mock", "real"}, sdk : BOOLEAN, recompile : {"unset", "on", "off"}]

VARIABLES
  by,        \* the flags of the check that is learning, or else Code
  ran,       \* the commands so far, with how they exited
  written,   \* the last --json report, of `check` or of `compare`
  verdicts,  \* the last two files of `judge --out`, the newer one last
  shown      \* of the last `judge --diff`, by side

tools == <<by, ran, written, verdicts, shown>>
vars == <<loop, tools>>

NotWritten == [shape |-> "none"]

PawInit ==
  /\ LoopInit("idle")
  /\ by = Code
  /\ ran = <<>> /\ written = NotWritten /\ verdicts = <<>> /\ shown = <<>>

\* Nothing of the loop outlives the process that ran it, but for the adapter.
Forget ==
  /\ dataset' = Seeded(suite)
  /\ reports' = <<>> /\ pending' = <<>> /\ asked' = NoneAsked
  /\ repaired' = {} /\ skipped' = {} /\ fingerprint' = Uncompiled
  /\ compiled' = <<>> /\ stuck' = NoReason

Idle == at = "idle" /\ Len(ran) < MaxCommands(suite)
Exit(command, code) == ran' = Append(ran, [command |-> command, exit |-> code])

-----------------------------------------------------------------------------
(* check *)

Asked(f) == IF f.recompile = "unset" THEN suite.declared ELSE f.recompile = "on"

\* --auto-recompile in so many words for a real backend is an error of usage.
Refused(f) == Asked(f) /\ f.backend = "real" /\ f.recompile = "on"

\* Faulty: only a real backend that is there counts as one that was asked for.
AllowedResolved(f) == Asked(f) /\ ~(f.backend = "real" /\ f.sdk) /\ disk = Missing
\* The demo teacher of the command line is for a mock that was asked for, and for a
\* path where there is nothing.
Allowed(f) == Asked(f) /\ f.backend # "real" /\ disk = Missing

CheckRefused ==
  /\ Idle
  /\ {f \in Flags : Refused(f)} # {}
  /\ Exit("check", 2)
  /\ UNCHANGED <<loop, by, written, verdicts, shown>>

CheckNothing ==
  /\ Idle /\ disk = Missing
  /\ {f \in Flags : ~Refused(f) /\ ~Allowed(f)} # {}
  /\ Exit("check", 1)
  /\ UNCHANGED <<loop, by, written, verdicts, shown>>

CheckReadOnly ==
  /\ Idle /\ disk # Missing
  /\ {f \in Flags : ~Refused(f) /\ ~Allowed(f)} # {}
  /\ \E report \in {Report(suite, outcomes) : outcomes \in Outcomes(suite)} :
       /\ written' = [shape |-> "check", report |-> report]
       /\ Exit("check", IF IsSuccess(report) THEN 0 ELSE 1)
  /\ UNCHANGED <<loop, by, verdicts, shown>>

Start ==
  /\ at' = "run"
  /\ Forget
  /\ UNCHANGED <<disk, ran, written, verdicts, shown>>

CheckLearns ==
  /\ Idle
  /\ \E f \in Flags : ~Refused(f) /\ Allowed(f) /\ by' = f
  /\ suite' = [suite EXCEPT !.autoRecompile = TRUE]
  /\ Start

\* run_active_learning_loop called by a program, with the suite as it was loaded.
CodeLearns ==
  /\ Idle
  /\ by' = Code
  /\ suite' = [suite EXCEPT !.autoRecompile = suite.declared]
  /\ Start

Learning == LoopNext /\ UNCHANGED tools

\* The loop returns or raises to the command that called it.
LearningEnds ==
  /\ at \in {"done", "raised"}
  /\ at' = "idle"
  /\ IF by = Code THEN UNCHANGED ran
     ELSE Exit("check", IF at = "done" /\ LastReport.success THEN 0 ELSE 1)
  /\ Forget
  /\ by' = Code
  /\ disk' = IF disk = Missing THEN Missing ELSE Found
  /\ UNCHANGED <<suite, written, verdicts, shown>>

-----------------------------------------------------------------------------
(* compare, judge and judge --diff *)

\* compare_cmd of the adapter that is there and of another.
Compare ==
  /\ Idle /\ disk # Missing
  /\ \E report \in {CompareReport(suite, fuzz, a, b) :
                      fuzz \in BOOLEAN, a \in Outcomes(suite), b \in Outcomes(suite)} :
       /\ written' = [shape |-> "compare", report |-> report]
       /\ Exit("compare", IF report.errored > 0 THEN 1 ELSE 0)
  /\ UNCHANGED <<loop, by, verdicts, shown>>

RuleOf(passed) == IF passed THEN "passed" ELSE "failed"
RowToJudge(input, output, passed, wordless) ==
  [id |-> <<input, output>>, rulePassed |-> RuleOf(passed), wordless |-> wordless]

\* The rows of a report, by side.  Of a comparison one may be wordless: its call raised,
\* and the report does not count it.
RowsToJudge(w) ==
  LET rows == w.report.rows IN
  IF w.shape = "check"
  THEN [side \in {""} |-> [i \in DOMAIN rows |->
          RowToJudge(rows[i].input, rows[i].output, rows[i].passed, FALSE)]]
  ELSE [side \in {"A", "B"} |-> [i \in DOMAIN rows |->
          LET of == IF side = "A" THEN rows[i].a ELSE rows[i].b
          IN RowToJudge(rows[i].input, of.output, of.passed, of.raised /\ ~of.errored)]]

\* Faulty: the judge must fail altogether for the command to fail.
JudgeFailedAll(file) == \E side \in DOMAIN file : file[side].errors = file[side].total
JudgeFailed(file) == \E side \in DOMAIN file : file[side].errors > 0

JudgeWritten ==
  /\ Idle /\ written # NotWritten
  /\ LET rows == RowsToJudge(written)
         n == Len(written.report.rows) IN
     \E answers \in [DOMAIN rows -> Judgings(n)] :
       LET file == [side \in DOMAIN rows |-> Judged(rows[side], answers[side])] IN
       /\ verdicts' = Append(IF Len(verdicts) = 2 THEN Tail(verdicts) ELSE verdicts, file)
       /\ Exit("judge", IF JudgeFailed(file) THEN 1 ELSE 0)
  /\ UNCHANGED <<loop, by, written, shown>>

\* MIN_DIFF_COVERAGE
Usable(d) == d.compared > 0 /\ Coverage(d, 100) >= 90

DiffFiles ==
  /\ Idle /\ Len(verdicts) = 2
  /\ IF DOMAIN verdicts[1] # DOMAIN verdicts[2]
     THEN Exit("diff", 1) /\ UNCHANGED shown
     ELSE LET diffs == [side \in DOMAIN verdicts[1] |->
                          DiffVerdicts(verdicts[1][side], verdicts[2][side])] IN
          /\ shown' = <<diffs>>
          /\ Exit("diff", IF \A side \in DOMAIN diffs : Usable(diffs[side]) THEN 0 ELSE 1)
  /\ UNCHANGED <<loop, by, written, verdicts>>

PawNext ==
  \/ CheckRefused \/ CheckNothing \/ CheckReadOnly \/ CheckLearns \/ CodeLearns
  \/ Learning \/ LearningEnds
  \/ Compare \/ JudgeWritten \/ DiffFiles

PawSpec == PawInit /\ [][PawNext]_vars

-----------------------------------------------------------------------------
(* Properties *)

\* Of the commands, only a check that was asked for the mock writes an adapter, and only
\* where there was none when it began: a demo stub never takes the place of an
\* adapter, nor of one that somebody asked to be compiled for real (cli.py:566, :616).
StubsOnlyWhereNothingWas ==
  [][disk' # disk =>
       \/ by = Code
       \/ by.backend = "mock" /\ by.recompile # "off" /\ reports[1].of = Missing]_vars

ReportAddsUp ==
  LET r == written.report IN
  CASE written.shape = "none" -> TRUE
    [] written.shape = "check" ->
         /\ r.matched <= r.matchedUnquoted
         /\ HasRate(r.matched, ScoredKeys(r)) /\ HasRate(r.matchedUnquoted, ScoredKeys(r))
         /\ r.total + r.dropped
              = Len(suite.cases) + Cardinality(ToSet(Generated(suite.fuzzing, StandardInputs(suite))))
         /\ IsSuccess(r) <=> r.rows # <<>> /\ FailingInputs(r) = <<>>
    [] written.shape = "compare" ->
         /\ HasRate(r.matchedA, ScoredKeysA(r)) /\ HasRate(r.matchedB, ScoredKeysB(r))
         /\ r.identical <= r.equivalent /\ r.equivalent <= r.unquoted /\ r.unquoted <= r.total
         /\ \A i \in DOMAIN r.rows :
              /\ KeysDiffer(r.rows[i]) => GenuinelyDiffering(r.rows[i])
              /\ Differing(r.rows[i]) =>
                   r.rows[i].kind # "byte_identical" \/ r.rows[i].a.raised \/ r.rows[i].b.raised

DiffAddsUp ==
  shown # <<>> /\ ran[Len(ran)].command = "diff" /\ DOMAIN verdicts[1] = DOMAIN verdicts[2] =>
    \A side \in DOMAIN shown[1] :
      LET d   == shown[1][side]
          old == verdicts[1][side].verdicts
          new == verdicts[2][side].verdicts
          Rows(s, id) == {i \in DOMAIN s : s[i].id = id}
          Both(id) == LET o == Cardinality(Rows(old, id))
                          n == Cardinality(Rows(new, id)) IN IF o <= n THEN o ELSE n
          ids == {old[i].id : i \in DOMAIN old} IN
      /\ d.compared = Cardinality(UNION {{id} \X (1..Both(id)) : id \in ids})
      /\ d.oldOnly + d.compared = d.oldTotal /\ d.newOnly + d.compared = d.newTotal
      /\ \A id \in ids :
           LET yesOld == {i \in Rows(old, id) : old[i].verdict}
               yesNew == {i \in Rows(new, id) : new[i].verdict} IN
           /\ Cardinality({k \in d.flips : k[1] = id}) <= Both(id)
           /\ Cardinality(Rows(old, id)) = Cardinality(Rows(new, id))
                /\ Cardinality(yesOld) # Cardinality(yesNew) => \E k \in d.flips : k[1] = id

\* The counts of a report add up: the looser match of answer keys never counts fewer of
\* them than the stricter one nor more than were scored, and the fuzzer loses no input
\* without counting it; of a comparison, the looser kinds of match include the stricter ones and
\* no row that differs in its answer key is put down to format or quotes.
\* A diff of verdicts speaks of as many rows of an id as both reports have, and of no
\* more; every row is compared or is counted as being in one report only; a flip is
\* between verdicts of one id.
TalliesAddUp == ReportAddsUp /\ DiffAddsUp

\* When the commands that led to a diff all exit 0, what it compares was measured: every
\* verdict is the judge's answer (none stands for a call of it that raised), on an
\* output that an adapter gave.  One exception: `compare` counts an error by the truth of
\* its message (compare.py:445) and exits on that count (cli.py:897), and so a call that
\* raised with an empty one (TimeoutError()) leaves exit 0 and the placeholder to be judged.
ZeroMeansMeasured ==
  at = "idle" /\ ran # <<>> /\ (\A i \in DOMAIN ran : ran[i].exit = 0) =>
    \A f \in DOMAIN verdicts : \A side \in DOMAIN verdicts[f] :
      \A i \in DOMAIN verdicts[f][side].verdicts :
        LET v == verdicts[f][side].verdicts[i] IN
        /\ ~v.error
        /\ v.id[2] = Placeholder => v.wordless /\ side \in {"A", "B"}
=============================================================================
