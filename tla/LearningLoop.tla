---------------------------- MODULE LearningLoop ----------------------------
(***************************************************************************)
(* run_active_learning_loop (test/active.py): run the suite, ask a teacher for    *)
(* the answers of the failing cases, compile the adapter anew, and run again.     *)
(*                                                                         *)
(* A step is one call of something outside: the backend runs the suite, the      *)
(* teacher answers a query, the backend compiles.                              *)
(***************************************************************************)
EXTENDS SuiteRun

CONSTANTS
  Suite,           \* suites, each with the user's initial dataset
  Missing, Found,  \* no adapter at adapter_path, and one from before
  Outcomes(_)      \* what an adapter may do with the cases of a suite, case by case

\* A suite as it was loaded, and as a command sets it to learn or not to.
Versions(s) == {s} \union {[s EXCEPT !.autoRecompile = b] : b \in BOOLEAN}

InputsOf(s) ==
  {s.cases[i].input : i \in DOMAIN s.cases} \union {s.initial[i].input : i \in DOMAIN s.initial}
  \union {s.fuzzing.probes[i] : i \in DOMAIN s.fuzzing.probes}
Datasets(s) == Seq([input : InputsOf(s), output : Text])

LegalData(s) ==
  /\ {"cases", "initial", "fuzzing"} \subseteq DOMAIN s
  /\ s.cases \in Seq([input : InputsOf(s), expected : Text \union {NoText}])
  /\ s.initial \in Datasets(s)
  /\ s.fuzzing.kinds \in Seq({"empty", "whitespace", "unicode", "extremes"})
  /\ s.fuzzing.probes \in Seq(InputsOf(s))
  /\ s.labels \subseteq Text
  /\ s.autoRecompile \in BOOLEAN /\ s.declared \in BOOLEAN

\* What an adapter gives is never the placeholder for what none gave.
ASSUME LoopAssumption ==
  /\ Missing # Found
  /\ \A s \in Suite : \A v \in Versions(s) :
       /\ LegalSuite(v) /\ LegalData(v)
       /\ Missing \notin Datasets(v) /\ Found \notin Datasets(v)
       /\ \A outcomes \in Outcomes(v) : \A i \in DOMAIN Cases(v) :
            outcomes[i] \in (Text \ {Placeholder}) \union Raises

\* fingerprint of nothing compiled; a dataset that is compiled has an example.
Uncompiled == <<>>

VARIABLES
  at,        \* "run", "ask", "learn", or how the loop ended: "done", "raised"
  suite,     \* for good
  dataset,   \* the examples
  disk,      \* Missing, Found, or the dataset the adapter there was compiled from
  reports,   \* iteration_reports, with the adapter each is of
  pending,   \* failing inputs still to be queried in this iteration
  asked,     \* of this iteration: queries, teacher errors, inputs accepted
  repaired, skipped,   \* repaired_inputs, skipped_inputs
  fingerprint,         \* last_compiled_fingerprint
  compiled,            \* recompiled_after_iteration
  stuck                \* stuck_reason

loop == <<at, suite, dataset, disk, reports, pending, asked, repaired, skipped,
          fingerprint, compiled, stuck>>

NoneAsked == [queries |-> 0, errors |-> 0, accepted |-> {}]
NoReason  == "none"

\* expected_by_input: of two cases of one input the later key counts.
Keyed(s) == {s.cases[i].input : i \in {j \in DOMAIN s.cases : s.cases[j].expected # NoText}}
Key(s, input) ==
  LET keys == {i \in DOMAIN s.cases : s.cases[i].input = input /\ s.cases[i].expected # NoText}
  IN s.cases[CHOOSE i \in keys : \A j \in keys : j <= i].expected

Example(input, label) == [input |-> input, output |-> label]

\* The dataset to begin with: the user's, or else the keys in order of their inputs.
Seeded(s) ==
  LET keyed == Kept(s.cases, {i \in DOMAIN s.cases : s.cases[i].expected # NoText})
      inputs == Distinct([i \in DOMAIN keyed |-> keyed[i].input])
  IN IF s.initial # <<>> THEN s.initial
     ELSE [i \in DOMAIN inputs |-> Example(inputs[i], Key(s, inputs[i]))]

MaxIterations == IF suite.autoRecompile THEN suite.maxIterations ELSE 1

LoopInit(start) ==
  /\ suite \in Suite
  /\ at = start
  /\ dataset = Seeded(suite)
  /\ disk \in {Missing, Found}
  /\ reports = <<>> /\ pending = <<>> /\ asked = NoneAsked
  /\ repaired = {} /\ skipped = {}
  /\ fingerprint = Uncompiled
  /\ compiled = <<>>
  /\ stuck = NoReason

-----------------------------------------------------------------------------
\* The end of the loop without full repair always has a reason.
Ended(success) == IF ~success /\ stuck = NoReason THEN "iterations_exhausted"
                  ELSE IF success THEN NoReason ELSE stuck

\* The loop goes on after the run of this iteration.
Continues(success) == ~success /\ Len(reports) + 1 < MaxIterations /\ suite.autoRecompile

\* Failing inputs that have a key are queried, the first of them only.
Eligible(inputs) == Kept(inputs, {i \in DOMAIN inputs : inputs[i] \in Keyed(suite)})

RunSuite ==
  /\ at = "run"
  /\ \E report \in {Report(suite, outcomes) : outcomes \in Outcomes(suite)} :
       LET success == IsSuccess(report)
           failing == FailingInputs(report)
           queried == Eligible(failing) IN
       /\ reports' = Append(reports, [of |-> disk, success |-> success, failing |-> failing])
       /\ compiled' = Append(compiled, FALSE)
       /\ asked' = NoneAsked
       /\ IF ~Continues(success)
          THEN /\ at' = "done" /\ stuck' = Ended(success)
               /\ UNCHANGED <<pending, skipped>>
          ELSE IF ~suite.teacher
          THEN at' = "raised" /\ UNCHANGED <<pending, skipped, stuck>>
          ELSE /\ at' = "ask"
               /\ pending' = SubSeq(queried, 1, IF Len(queried) < suite.maxQueries
                                                THEN Len(queried) ELSE suite.maxQueries)
               /\ skipped' = skipped \union (ToSet(failing) \ Keyed(suite))
               /\ UNCHANGED stuck
  /\ UNCHANGED <<suite, dataset, disk, repaired, fingerprint>>

\* Faulty: a label that keeps the rules is a label.
AcceptByRules(input, label) == Broken(suite, label) = {}
\* _query_teacher_safely: it keeps the rules of the suite and agrees with the key.
Accepts(input, label) ==
  /\ Broken(suite, label) = {}
  /\ input \in Keyed(suite) => Equivalent(label, Key(suite, input))

\* _upsert_example: the first example of the input is replaced.
Upsert(d, input, label) ==
  LET of == {i \in DOMAIN d : d[i].input = input} IN
  IF of = {} THEN Append(d, Example(input, label))
  ELSE [d EXCEPT ![CHOOSE i \in of : \A j \in of : i <= j].output = label]

\* The teacher answers, or raises or returns nothing, which is NoText.
AskTeacher ==
  /\ at = "ask" /\ pending # <<>>
  /\ LET input == Head(pending) IN
     \E label \in suite.labels \union {NoText} :
       IF label # NoText /\ Accepts(input, label)
       THEN /\ dataset' = Upsert(dataset, input, label)
            /\ asked' = [asked EXCEPT !.queries = @ + 1, !.accepted = @ \union {input}]
       ELSE /\ asked' = [asked EXCEPT !.queries = @ + 1,
                                      !.errors = IF label = NoText THEN @ + 1 ELSE @]
            /\ UNCHANGED dataset
  /\ pending' = Tail(pending)
  /\ UNCHANGED <<at, suite, disk, reports, repaired, skipped, fingerprint, compiled, stuck>>

\* Faulty: any accepted label is worth a compile.
CompileAccepted == asked.accepted # {}
NeedsCompile == asked.accepted # {} /\ dataset # fingerprint

Reason ==
  CASE asked.queries = 0 -> IF skipped # {} THEN "no_falsifiable_failures" ELSE "no_failures"
    [] asked.queries > 0 /\ asked.accepted = {} ->
         IF asked.errors = asked.queries THEN "teacher_errors" ELSE "all_labels_rejected"
    [] asked.accepted # {} /\ ~NeedsCompile -> "no_new_examples"
    [] OTHER -> NoReason

\* The end of an iteration: the adapter is compiled, or is as it was.
Learn ==
  /\ at = "ask" /\ pending = <<>>
  /\ repaired' = repaired \union asked.accepted
  /\ stuck' = Reason
  /\ at' = "run"
  /\ IF NeedsCompile
     THEN /\ disk' = dataset
          /\ fingerprint' = dataset
          /\ compiled' = [compiled EXCEPT ![Len(compiled)] = TRUE]
     ELSE UNCHANGED <<disk, fingerprint, compiled>>
  /\ UNCHANGED <<suite, dataset, reports, pending, asked, skipped>>

\* backend.compile raises, and so does the loop.
CompileRaises ==
  /\ at = "ask" /\ pending = <<>> /\ NeedsCompile
  /\ at' = "raised"
  /\ UNCHANGED <<suite, dataset, disk, reports, pending, asked, repaired, skipped,
                 fingerprint, compiled, stuck>>

LoopNext == RunSuite \/ AskTeacher \/ Learn \/ CompileRaises

-----------------------------------------------------------------------------
Runs == Len(reports)
LastReport == reports[Runs]

\* What the report of the loop says is so (H-9 of active.py): its pass rate is that of
\* the adapter that is there now, it says that the adapter was compiled anew exactly
\* when it was, no two compiles in a row were of one dataset, success has no reason to
\* be stuck, and otherwise "iterations_exhausted" alone says that the last round
\* compiled or that there was none.
ReportTellsTruth ==
  at = "done" =>
    /\ LastReport.of = disk
    /\ (\E i \in DOMAIN compiled : compiled[i]) <=> disk \notin {Missing, Found}
    /\ \A i \in 1..(Runs - 1) : compiled[i] <=> reports[i].of # reports[i + 1].of
    /\ LastReport.success <=> stuck = NoReason
    /\ stuck = "iterations_exhausted" => Runs = 1 \/ compiled[Runs - 1]
    /\ stuck \notin {NoReason, "iterations_exhausted"} => Runs > 1 /\ ~compiled[Runs - 1]
    /\ stuck = "no_falsifiable_failures" =>
         \E i \in 1..(Runs - 1) : \E j \in DOMAIN reports[i].failing :
           reports[i].failing[j] \notin Keyed(suite)

\* H-8: an adapter is compiled only from the user's examples, from answer keys, and from
\* labels of the teacher that something could contradict and nothing did; whatever
\* the teacher says, an input has one label, unless the user gave it two.
LabelsStand ==
  /\ \A i \in DOMAIN dataset :
       LET e == dataset[i] IN
       \/ \E j \in DOMAIN suite.initial : suite.initial[j] = e
       \/ /\ e.input \in Keyed(suite)
          /\ \/ e.output = Key(suite, e.input)
             \/ Broken(suite, e.output) = {} /\ Equivalent(e.output, Key(suite, e.input))
  /\ \A i, j \in DOMAIN dataset : i # j /\ dataset[i].input = dataset[j].input =>
       \E k, l \in DOMAIN suite.initial : k # l /\ suite.initial[k].input = suite.initial[l].input
                                          /\ suite.initial[k].input = dataset[i].input
=============================================================================
