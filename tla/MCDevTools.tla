----------------------------- MODULE MCDevTools -----------------------------
(***************************************************************************)
(* Parts that share no state, one of them at a time: the commands of paw-test, the    *)
(* cache of compiled grammars, a bound function, the counters of the shadow runner, and *)
(* runs of mutate.py.                                                                *)
(***************************************************************************)
EXTENDS PawTest, Matching, SchemaLoader, FieldGrammar, ShadowDrain, MutationRun

CONSTANTS t1, t2, d1, w1, w2

VARIABLE tool

TextOfJson(bytes, plain, json) ==
  [bytes |-> bytes, plain |-> plain, json |-> json, length |-> IF bytes = "yes" THEN 3 ELSE 5,
   parts |-> {bytes}]
Inner(s) == [bytes |-> s, plain |-> s]

yes     == TextOfJson("yes", "yes", NotJson)
spaced  == TextOfJson("yes ", "yes", NotJson)
quoted  == TextOfJson("'yes'", "'yes'", String(Inner("yes")))
one     == TextOfJson("1", "1", Number(1))
float   == TextOfJson("1.0", "1.0", Number(1))
true    == TextOfJson("true", "true", Bool(TRUE))
huge    == TextOfJson("1e400", "1e400", NotFinite)
huger   == TextOfJson("1e500", "1e500", NotFinite)
listed  == TextOfJson("[1]", "[1]", Array(<<Number(1)>>))
listing == TextOfJson("[true]", "[true]", Array(<<Bool(TRUE)>>))
object  == TextOfJson("{a: null}", "{a: null}", Object([k \in {"a"} |-> Null]))
unknown == TextOfJson("UNKNOWN", "UNKNOWN", NotJson)
error   == TextOfJson("[EXECUTION_ERROR]", "[EXECUTION_ERROR]", NotJson)

MCText == {yes, spaced, quoted, one, float, true, huge, huger, listed, listing, object, unknown, error}

i1 == Plain("i1")
i2 == Plain("i2")
Case(i, t) == [input |-> i, expected |-> t]
NoFuzz == [kinds |-> <<>>, probes |-> <<>>]

Base == [name |-> "base", cases |-> <<>>, rules |-> {}, abstain |-> NoText, fuzzing |-> NoFuzz,
         initial |-> <<>>, declared |-> TRUE, autoRecompile |-> TRUE, maxIterations |-> 3,
         maxQueries |-> 2, teacher |-> TRUE, labels |-> {}]

\* Learns: a case of its own, one whose key is wrong for the rules, one without a key.
Learns ==
  [Base EXCEPT !.name = "learns",
     !.cases = <<Case(i1, yes), Case(i2, one)>>,
     !.rules = {[name |-> "not_contains", part |-> "'yes'"]},
     !.fuzzing = [kinds |-> <<"empty">>, probes |-> <<>>],
     !.labels = {yes, spaced, quoted, one}]

LearnsMore ==
  {[Learns EXCEPT !.maxQueries = 1, !.initial = init, !.teacher = t] :
     init \in {<<Example(i1, spaced)>>, <<Example(i1, spaced), Example(i1, yes), Example(i2, true)>>},
     t \in BOOLEAN}
  \union {[Learns EXCEPT !.name = "again", !.declared = FALSE, !.fuzzing = NoFuzz], Base}

\* What is compared and what the fuzzer adds.
Compares ==
  [Base EXCEPT !.name = "compares",
     !.cases = <<Case(i1, quoted)>>,
     !.abstain = unknown,
     !.rules = {[name |-> "max_length", limit |-> 4]},
     !.labels = {yes}]
Fuzzes ==
  [Base EXCEPT !.name = "fuzzes",
     !.cases = <<Case(Plain(""), yes), Case(i1, NoText)>>,
     !.rules = {[name |-> "min_length", limit |-> 4], [name |-> "exact_match", answer |-> spaced],
                [name |-> "regex_match", found |-> {yes, spaced}]},
     !.fuzzing = [kinds |-> <<"empty", "whitespace", "unicode", "extremes">>, probes |-> <<i1>>],
     !.labels = {yes}]
\* What is judged: two rows that may be the same, and one that is another.
Judges ==
  [Base EXCEPT !.name = "judges",
     !.cases = <<Case(i1, yes), Case(i1, yes), Case(i2, yes)>>,
     !.declared = FALSE]

MCSuite == {Learns, Compares, Fuzzes, Judges} \union LearnsMore

Sequenced(s, choice) == [DOMAIN Cases(s) -> choice]
MCOutcomes(s) ==
  CASE s.name = "again"    -> Sequenced(s, {yes, one})
    [] s.name = "learns"   -> Sequenced(s, {yes, one} \union Raises)
    [] s.name = "compares" -> Sequenced(s, (MCText \ {error}) \union Raises)
    [] s.name = "fuzzes"   -> {[i \in DOMAIN Cases(s) |-> IF i = 1 THEN o ELSE p] :
                                 o, p \in {yes, spaced, Raised}}
    [] s.name = "judges"   -> {<<yes, yes, yes>>, <<yes, Raised, yes>>, <<yes, Wordless, yes>>}
    [] s.name = "base"     -> {<<>>}

MCCommands(s) ==
  CASE s.name = "judges" -> 5 [] s.name = "again" -> 2 [] OTHER -> 1

MCJudgings(n) ==
  IF n # 3 THEN {}
  ELSE {<<"yes", "no", "unparseable">>, <<"no", "raises", "yes">>}

MCFlags == [backend : {"mock", "real"}, sdk : BOOLEAN, recompile : {"unset", "on", "off"}]

-----------------------------------------------------------------------------
Field(name, type) ==
  [name |-> name, type |-> type, alias |-> <<>>, pattern |-> NoPattern, min |-> NoLength,
   max |-> NoLength, ge |-> NoBound, gt |-> NoBound, le |-> NoBound, lt |-> NoBound, other |-> {}]
Model(fields) == [fields |-> fields, byAlias |-> TRUE, byName |-> FALSE]
Of(kind, t)   == [kind |-> kind, of |-> t]
Kind(k) == [kind |-> k]
Nested(m)     == [kind |-> "model", model |-> m]

Bounded(t, low, high) == [Field("x", t) EXCEPT !.min = low, !.max = high]
Ranged(low, high) == [Field("n", Kind("int")) EXCEPT !.ge = low, !.le = high]

MCModels ==
  [ranged   |-> Model(<<Ranged(Whole(1), Whole(3))>>),
   floated  |-> Model(<<Ranged(Float(1), Whole(3))>>),
   open     |-> Model(<<[Ranged(Whole(1), NoBound) EXCEPT !.gt = Whole(1)]>>),
   strict   |-> Model(<<[Ranged(NoBound, NoBound) EXCEPT !.gt = Whole(0), !.lt = Whole(4)]>>),
   wide     |-> Model(<<Ranged(Whole(0), Whole(9))>>),
   short    |-> Model(<<Bounded(Kind("str"), NoLength, 2)>>),
   long     |-> Model(<<Bounded(Kind("str"), 9, NoLength)>>),
   pair     |-> Model(<<Bounded(Of("list", Kind("int")), 2, 2)>>),
   several  |-> Model(<<Bounded(Of("dict", Kind("str")), 0, 3), Field("y", Of("variadic", Kind("bool"))),
                        [Bounded(Kind("bare set"), 2, 3) EXCEPT !.name = "z"]>>),
   none     |-> Model(<<Bounded(Kind("bare list"), NoLength, 0), Field("y", Kind("bare tuple"))>>),
   heavy    |-> Model(<<Bounded(Of("set", Kind("any")), 1, 2)>>),
   either   |-> Model(<<Bounded([kind |-> "union", args |-> <<Kind("str"), Kind("null")>>], 1, NoLength)>>),
   chosen   |-> Model(<<Field("x", [kind |-> "literal", values |-> <<Whole(1), Float(1)>>]),
                        [Field("y", Kind("str")) EXCEPT !.pattern = "p", !.max = 3]>>),
   stepped  |-> Model(<<[Field("x", Kind("int")) EXCEPT !.other = {"multiple_of"}]>>),
   outer    |-> Model(<<Field("x", Nested("long")),
                        Field("y", [kind |-> "fixed tuple", args |-> <<Kind("int"), Kind("date")>>])>>),
   outer2   |-> Model(<<Field("x", Nested("short")),
                        Field("y", [kind |-> "fixed tuple", args |-> <<Kind("int"), Kind("date")>>])>>),
   named    |-> [Model(<<[Field("x", Kind("other")) EXCEPT !.alias = <<"a", "path">>]>>)
                   EXCEPT !.byName = TRUE],
   clashing |-> Model(<<[Field("x", Kind("int")) EXCEPT !.alias = <<"y">>], Field("y", Kind("int"))>>),
   pathed   |-> Model(<<[Field("x", Kind("int")) EXCEPT !.alias = <<"path">>]>>),
   empty    |-> Model(<<Bounded(Kind("str"), 3, 2)>>),
   cyclic   |-> Model(<<Field("x", Of("list", Nested("cyclic")))>>),
   deep     |-> Model(<<Field("x", Of("list", Of("list", Of("list", Kind("int")))))>>)]

MCTooLong(t) == t.kind = "set"

\* What the proofs take from FieldGrammar: the case that it excludes is none of these models'.
ASSUME TypesTell

\* Two jobs of a task in one database and one of it in another.
MCJobs ==
  {[key |-> "a", phase |-> "shadow"], [key |-> "a", phase |-> "audit"],
   [key |-> "b", phase |-> "fail_open"]}
MCScope(d) == {"a", "b"}

-----------------------------------------------------------------------------
matching == <<"paw_kit", "test", "matching.py">>
grammar  == <<"paw_kit", "schema", "grammar.py">>
shadow   == <<"paw_kit", "jit", "shadow.py">>

MCTarget ==
  {[path |-> matching, default |-> TRUE, skip |-> {}, tests |-> {"m"}],
   [path |-> grammar, default |-> TRUE, skip |-> {"int"}, tests |-> {"g"}],
   [path |-> shadow, default |-> FALSE, skip |-> {}, tests |-> {"s"}]}

Node(kind, token, expr) == [kind |-> kind, token |-> token, expr |-> expr]
Flag == Node("const", TRUE, "True")
MCSource ==
  [m \in {matching, grammar, shadow} |->
     CASE m = matching -> <<Node("bool", "and", "a and b"), Flag>>
       [] m = grammar  -> <<Node("cmp", "<=", "n <= k"), Node("int", 3, "3")>>
       [] m = shadow   -> <<Node("int", IntLimit, "10000"), Node("cmp", "a < b < c", "a < b < c")>>]
MCMoved(m, p) == IF m = matching THEN 3 - p ELSE p

End(result, hung, names) == [result |-> result, hung |-> hung, names |-> names]
MCFull == {"m", "g", "s"}

\* m notices one mutant of matching.py, and g the other: that one may hang, or keep its own
\* tests from being collected; s fails when it likes, and may not be named.
MCEnds(copy, tests) ==
  LET mutated(p) == copy[matching].nodes[p] # MCSource[matching][p]
      failed == {t \in tests : (t = "m" /\ mutated(1)) \/ (t = "g" /\ mutated(2))} IN
  (IF failed = {} THEN {End("passed", FALSE, {})} ELSE {End("failed", hung, failed) : hung \in BOOLEAN})
  \union (IF mutated(2) THEN {End("none", TRUE, {})} ELSE {})
  \union (IF mutated(2) /\ tests = {"m"} THEN {End("usage", FALSE, {})} ELSE {})
  \union (IF "s" \in tests THEN {End("failed", FALSE, names) : names \in {{}, {"s"}}} ELSE {})

All == [NoOptions EXCEPT !.list = FALSE]
MCOptions(n) ==
  IF n = 1
  THEN {[All EXCEPT !.write = TRUE, !.workdir = "given"],
        [All EXCEPT !.write = TRUE, !.recheck = FALSE, !.compare = TRUE],
        [All EXCEPT !.modules = {<<"nothing.py">>}],
        [All EXCEPT !.modules = {<<"shadow.py">>}],
        NoOptions}
  ELSE {[All EXCEPT !.modules = {<<"matching.py">>}, !.compare = TRUE, !.strict = TRUE, !.workdir = "given"]}
MCRecorded ==
  {[m \in {matching} |-> {}], [m \in {matching} |-> {[j EXCEPT !.at = 9] : j \in Collect(matching, {"bool"})}]}

-----------------------------------------------------------------------------
Unused == PawInit /\ suite = Base /\ disk = Missing

Init ==
  /\ LoaderInit /\ DrainInit /\ MutationInit
  /\ \/ tool = "paw-test" /\ PawInit /\ ~provider
     \/ tool \in {"grammar", "drain", "mutate"} /\ Unused /\ ~provider
     \/ tool = "function" /\ Unused
  /\ tool = "mutate" \/ baseline = NoBaseline

Next ==
  \/ tool = "paw-test" /\ PawNext      /\ UNCHANGED <<schema, drain, mutation, tool>>
  \/ tool = "grammar"  /\ GrammarNext  /\ UNCHANGED <<vars, drain, mutation, tool>>
  \/ tool = "function" /\ FunctionNext /\ UNCHANGED <<vars, drain, mutation, tool>>
  \/ tool = "drain"    /\ DrainNext    /\ UNCHANGED <<vars, schema, mutation, tool>>
  \/ tool = "mutate"   /\ MutationNext /\ UNCHANGED <<vars, schema, drain, tool>>

Spec == Init /\ [][Next]_<<vars, schema, drain, mutation, tool>>
=============================================================================
