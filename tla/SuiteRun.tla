------------------------------ MODULE SuiteRun ------------------------------
(***************************************************************************)
(* One run of a test suite (test/runner.py), of the same suite through two       *)
(* adapters (test/compare.py), and the inputs the fuzzer adds (test/fuzzer.py).   *)
(*                                                                         *)
(* What the adapter does with a case is its outcome: a text, or that its call raised, *)
(* with a message or with an empty one.                                          *)
(***************************************************************************)
EXTENDS Integers, Sequences, FiniteSets, SequencesExt

CONSTANTS
  Text,             \* what an adapter, a teacher or a suite may write
  Placeholder,      \* EXECUTION_ERROR_PLACEHOLDER, one of them
  NoText,           \* None where a text may be
  Raised, Wordless, \* the outcomes of a case whose backend call raised: str(exc) is "" of the second
  Equivalent(_, _), Unquoted(_, _),   \* values_equivalent and _unquoted
  MaxFuzzed,        \* _MAX_FUZZED_CASES
  MaxIterationsOfSuite  \* _MAX_ACTIVE_LEARNING_ITERATIONS

ASSUME SuiteAssumption ==
  /\ Placeholder \in Text /\ NoText \notin Text
  /\ Raised # Wordless /\ {Raised, Wordless} \intersect (Text \union {NoText}) = {}
  /\ \A a, b \in Text : Equivalent(a, a) /\ (Equivalent(a, b) => Unquoted(a, b))
  /\ MaxFuzzed \in Nat /\ MaxIterationsOfSuite \in Nat

\* execution_error is not None
Raises == {Raised, Wordless}

\* The numbers of a finite set, the smallest first.
Rank(F, i) == Cardinality({j \in F : j <= i})
InOrder(F) == [n \in 1..Cardinality(F) |-> CHOOSE i \in F : Rank(F, i) = n]

\* What a sequence has at some of its places, as it was ordered.
Kept(s, places) == LET order == InOrder(places) IN [n \in DOMAIN order |-> s[order[n]]]

-----------------------------------------------------------------------------
(* Inputs.  An input is a seed and the way it was mutated; those of the user are *)
(* seeds as they are, and "" and "example input" are two of them.                *)

Plain(s) == [seed |-> s, by |-> "nothing"]
Bare(kind) == [seed |-> "none", by |-> kind]

\* Of several mutations of a kind the model keeps one by itself and one of each seed.
\* Nothing in front of or after "" is what it was, and so is "" many times over.
MutationOf(kind, input) ==
  CASE input # Plain("") \/ kind = "whitespace" -> [input EXCEPT !.by = kind]
    [] input = Plain("") /\ kind = "unicode"     -> Bare(kind)
    [] input = Plain("") /\ kind = "extremes"    -> input

\* Of a kind: the mutation by itself, and that of each seed.
Mutation(kind, seeds, n) ==
  CASE kind = "empty"           -> Plain("")
    [] kind # "empty" /\ n = 0 -> Bare(kind)
    [] kind # "empty" /\ n # 0 -> MutationOf(kind, seeds[n])

\* Kind after kind, and last the probes; what comes again is to be left out.
Generated(fuzzing, inputs) ==
  LET seeds == IF inputs = <<>> THEN <<Plain("example input")>> ELSE inputs
      width == Len(seeds) + 1
      Nth(n) == Mutation(fuzzing.kinds[n \div width + 1], seeds, n % width)
  IN [n \in 1..(Len(fuzzing.kinds) * width) |-> Nth(n - 1)] \o fuzzing.probes

\* Each member where it comes first.
ComesFirst(s, i) == \A j \in 1..(i - 1) : s[j] # s[i]
Distinct(s) == Kept(s, {i \in DOMAIN s : ComesFirst(s, i)})

Capped(s) == SubSeq(s, 1, IF Len(s) < MaxFuzzed THEN Len(s) ELSE MaxFuzzed)

\* generate_detailed: the mutations and then the probes, each once, up to the cap.
Generate(fuzzing, inputs) ==
  LET unique == Distinct(Generated(fuzzing, inputs))
  IN [cases |-> Capped(unique), dropped |-> Len(unique) - Len(Capped(unique))]

StandardInputs(suite) == [i \in DOMAIN suite.cases |-> suite.cases[i].input]
Fuzzed(suite) == Generate(suite.fuzzing, StandardInputs(suite))

Unkeyed(input) == [input |-> input, expected |-> NoText]

\* Standard cases with their answer keys, and then the fuzzed ones, which have none.
Cases(suite) ==
  LET fuzzed == Fuzzed(suite).cases
  IN suite.cases \o [i \in DOMAIN fuzzed |-> Unkeyed(fuzzed[i])]

-----------------------------------------------------------------------------
(* What a suite that has been loaded is like (test/suite.py). *)

\* AssertionRule: of a rule that is known, and with the value that it needs.
LegalRule(rule) ==
  CASE rule.name = "regex_match"  -> rule.found \subseteq Text
    [] rule.name \in {"max_length", "min_length"} -> rule.limit \in Int
    [] rule.name = "exact_match"  -> rule.answer \in Text
    [] rule.name = "not_contains" -> rule.part # NoText
    [] OTHER -> FALSE

\* ActiveLearningConfig: both are at least 1, and the loop ends.
LegalBounds(suite) == suite.maxIterations \in 1..MaxIterationsOfSuite /\ suite.maxQueries \in Nat \ {0}

\* A case whose call raised is not to be taken for one that abstained.
LegalAbstain(suite) == suite.abstain # Placeholder

LegalSuite(suite) ==
  LegalBounds(suite) /\ LegalAbstain(suite) /\ \A r \in suite.rules : LegalRule(r)

-----------------------------------------------------------------------------
(* Assertions. *)

\* _regex_search_safe: a pattern is the set of texts it is found in, of which none is
\* too long for it or not searched within its time; there is none if it is invalid.
RegexFinds(rule, text) == text \in rule.found

Holds(rule, text) ==
  CASE rule.name = "regex_match"  -> RegexFinds(rule, text)
    [] rule.name = "max_length"   -> text.length <= rule.limit
    [] rule.name = "min_length"   -> text.length >= rule.limit
    [] rule.name = "exact_match"  -> Equivalent(text, rule.answer)
    [] rule.name = "not_contains" -> rule.part \notin text.parts

Abstains(suite, text) == suite.abstain # NoText /\ text = suite.abstain

\* evaluate_assertion of every rule: the ones that fail.
Broken(suite, text) ==
  IF Abstains(suite, text) THEN {} ELSE {r \in suite.rules : ~Holds(r, text)}

-----------------------------------------------------------------------------
(* TestRunner.run *)

\* What becomes of an answer key.
Score(suite, expected, outcome) ==
  CASE outcome \in Raises -> "errored"
    [] outcome \notin Raises /\ Abstains(suite, outcome) -> "abstained"
    [] outcome \notin Raises /\ ~Abstains(suite, outcome) ->
         IF Equivalent(outcome, expected) THEN "matched" ELSE "missed"

TextOf(outcome) == IF outcome \in Raises THEN Placeholder ELSE outcome

Row(suite, case, outcome) ==
  LET score == IF case.expected = NoText THEN "no key" ELSE Score(suite, case.expected, outcome)
  IN [input   |-> case.input,
      expected |-> case.expected,
      output  |-> TextOf(outcome),
      errored |-> outcome \in Raises,
      abstained |-> outcome \notin Raises /\ Abstains(suite, outcome),
      score   |-> score,
      passed  |-> outcome \notin Raises /\ Broken(suite, outcome) = {} /\ score # "missed"]

Count(rows, P(_)) == Cardinality({i \in DOMAIN rows : P(rows[i])})

\* expected_matched_unquoted
MatchedUnquoted(rows) ==
  LET Is(r) == \/ r.score = "matched"
               \/ r.score = "missed" /\ Unquoted(r.output, r.expected)
  IN Count(rows, Is)

\* The report, of the outcome of each case.
Report(suite, outcomes) ==
  LET cases == Cases(suite)
      rows  == [i \in DOMAIN cases |-> Row(suite, cases[i], outcomes[i])]
      Scored(s) == LET Is(r) == r.score = s IN Count(rows, Is) IN
  [total     |-> Len(rows),
   dropped   |-> Fuzzed(suite).dropped,
   passed    |-> LET Is(r) == r.passed IN Count(rows, Is),
   failed    |-> LET Is(r) == ~r.passed IN Count(rows, Is),
   errored   |-> LET Is(r) == r.errored IN Count(rows, Is),
   abstained |-> LET Is(r) == r.abstained IN Count(rows, Is),
   keys      |-> LET Is(r) == r.score # "no key" IN Count(rows, Is),
   matched   |-> Scored("matched"),
   matchedUnquoted |-> MatchedUnquoted(rows),
   keysAbstained   |-> Scored("abstained"),
   keysErrored     |-> Scored("errored"),
   rows      |-> rows]

\* is_success, expected_scored and get_failing_inputs of a report.
IsSuccess(r) == r.failed = 0 /\ r.errored = 0 /\ r.total > 0
ScoredKeys(r) == r.keys - r.keysAbstained - r.keysErrored
\* ScoredRate.rate raises on a numerator beyond its denominator.
HasRate(numerator, scored) == 0 <= numerator /\ numerator <= scored
FailingInputs(r) ==
  LET rows == Kept(r.rows, {i \in DOMAIN r.rows : ~r.rows[i].passed})
  IN [i \in DOMAIN rows |-> rows[i].input]

-----------------------------------------------------------------------------
(* compare_adapters *)

\* _outputs_match_kind
MatchKind(a, b) ==
  CASE a = b -> "byte_identical"
    [] a # b /\ Equivalent(a, b) -> "equivalent"
    [] a # b /\ ~Equivalent(a, b) /\ Unquoted(a, b) -> "equivalent_unquoted"
    [] OTHER -> "different"

\* Of a side, the case passes if no assertion fails: that its backend call raised is
\* only counted, and assertions are evaluated on the placeholder.  It is counted as
\* errored if the message is true of itself, and an empty one is not.
Side(suite, case, outcome) ==
  [output |-> TextOf(outcome),
   passed |-> Broken(suite, TextOf(outcome)) = {},
   raised |-> outcome \in Raises,
   errored |-> outcome = Raised,
   score  |-> IF case.expected = NoText THEN "no key" ELSE Score(suite, case.expected, outcome)]

CompareRow(suite, case, a, b) ==
  LET sideA == Side(suite, case, a)
      sideB == Side(suite, case, b) IN
  [input |-> case.input, expected |-> case.expected, a |-> sideA, b |-> sideB,
   kind |-> MatchKind(sideA.output, sideB.output)]

\* An unscored key is None, which is neither True nor False.
KeyVerdict(side) == IF side.score \in {"matched", "missed"} THEN side.score ELSE "none"
KeysDiffer(r) == r.expected # NoText /\ KeyVerdict(r.a) # KeyVerdict(r.b)

Differing(r) == r.kind # "byte_identical" \/ r.a.passed # r.b.passed \/ KeysDiffer(r)

\* _expected_denominator of each side.
ScoredKeysA(r) == r.keys - r.abstainedA - r.erroredA
ScoredKeysB(r) == r.keys - r.abstainedB - r.erroredB

\* equivalent_only_rows, and the differing rows that are not among them.
EquivalentOnly(r) ==
  /\ Differing(r) /\ r.kind \in {"equivalent", "equivalent_unquoted"}
  /\ ~KeysDiffer(r)
GenuinelyDiffering(r) == Differing(r) /\ ~EquivalentOnly(r)

\* The fuzzed cases are left out on request.
CompareReport(suite, fuzz, outcomesA, outcomesB) ==
  LET cases == IF fuzz THEN Cases(suite) ELSE suite.cases
      rows  == [i \in DOMAIN cases |-> CompareRow(suite, cases[i], outcomesA[i], outcomesB[i])]
      ScoredA(s) == LET Is(r) == r.a.score = s IN Count(rows, Is)
      ScoredB(s) == LET Is(r) == r.b.score = s IN Count(rows, Is) IN
  [total     |-> Len(rows),
   identical |-> LET Is(r) == r.kind = "byte_identical" IN Count(rows, Is),
   equivalent |-> LET Is(r) == r.kind \in {"byte_identical", "equivalent"} IN Count(rows, Is),
   unquoted  |-> LET Is(r) == r.kind # "different" IN Count(rows, Is),
   passedA   |-> LET Is(r) == r.a.passed IN Count(rows, Is),
   passedB   |-> LET Is(r) == r.b.passed IN Count(rows, Is),
   onlyA     |-> LET Is(r) == r.a.passed /\ ~r.b.passed IN Count(rows, Is),
   onlyB     |-> LET Is(r) == r.b.passed /\ ~r.a.passed IN Count(rows, Is),
   errored   |-> LET Is(r) == r.a.errored \/ r.b.errored IN Count(rows, Is),
   keys      |-> LET Is(r) == r.expected # NoText IN Count(rows, Is),
   matchedA  |-> ScoredA("matched"), abstainedA |-> ScoredA("abstained"), erroredA |-> ScoredA("errored"),
   matchedB  |-> ScoredB("matched"), abstainedB |-> ScoredB("abstained"), erroredB |-> ScoredB("errored"),
   rows      |-> rows]
=============================================================================
