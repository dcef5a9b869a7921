----------------------------- MODULE MutationRun -----------------------------
(***************************************************************************)
(* tools/mutate.py: mutants of the modules in TARGETS are made in copies of the      *)
(* repository, several at a time, tests are run on them, and what survives is        *)
(* recorded as a baseline or held against one.                                       *)
(*                                                                         *)
(* pytest is the environment.  The main thread waits while the threads of a phase    *)
(* run.  A run may be killed, and the next one finds the copies in its --workdir.    *)
(***************************************************************************)
EXTENDS Integers, FiniteSets, SequencesExt

CONSTANTS
  Target,         \* entries of TARGETS: [path, default, skip, tests]; a path is a sequence
  Source,         \* Source[m]: the nodes [kind, token, expr] of a module of the repository, by position
  Moved(_, _),    \* Moved(m, p): where ast.unparse puts the node at p
  FullSuite,      \* FULL_SUITE
  PytestEnds(_, _),  \* PytestEnds(copy, tests): how pytest may end there: [result, hung, names]
  Copy, First,    \* the copies of the repository, and workers[0]
  Options(_),     \* the command lines of the n-th run
  Recorded,       \* what the file of --baseline may hold at first: survivors by module
  NoBaseline,     \* or no file
  MaxRuns         \* bound: runs

Module == {t.path : t \in Target}
Kinds  == {"cmp", "bool", "const", "int"}
Dir    == {"given", "temporary"}

ASSUME MutationAssumption ==
  /\ First \in Copy /\ NoBaseline \notin Recorded
  /\ \A m \in Module : \A p \in DOMAIN Source[m] :
       DOMAIN Source[m][p] = {"kind", "token", "expr"} /\ Source[m][p].kind \in Kinds
  /\ \A recorded \in Recorded : \A m \in DOMAIN recorded : IsFiniteSet(recorded[m])
  /\ MaxRuns \in Nat /\ \A n \in 1..MaxRuns : \A o \in Options(n) : o.workdir \in Dir

VARIABLES
  command,   \* the main thread: [step, options, run, code, clean, wrote]
  control,   \* control_gate: [left, now, read, failed]
  mutants,   \* the jobs of the run: mutants[j] is [step, status, in, read, names]
  harness,   \* errors and not_applied
  timedOut,  \* timed_out
  copies,    \* copies[d][w][m]: module m in copy w of directory d
  idle,      \* the queue of the workspaces
  baseline,  \* the file of --baseline and --write-baseline
  endings    \* <<j, phase, rc>>: how the test runs of the phases have ended

mutation == <<command, control, mutants, harness, timedOut, copies, idle, baseline, endings>>

Original(m) == [nodes |-> Source[m], unparsed |-> FALSE]
Originals   == [w \in Copy |-> [m \in Module |-> Original(m)]]
Workdir     == command.options.workdir
Jobs        == DOMAIN mutants
In(j)       == copies[Workdir][mutants[j].in]

-----------------------------------------------------------------------------
(* The plan. *)

Opposites == {<<"<", "<=">>, <<">", ">=">>, <<"==", "!=">>, <<"is", "is not">>, <<"in", "not in">>}
IntLimit  == 10000

\* CMP_SWAP and its like: what the token of a node is mutated to, if it is.
Swaps(n) ==
  IF n.kind = "cmp"
  THEN {o[1] : o \in {o \in Opposites : o[2] = n.token}} \union {o[2] : o \in {o \in Opposites : o[1] = n.token}}
  ELSE IF n.kind = "bool" THEN {"and", "or"} \ {n.token}
  ELSE IF n.kind = "const" THEN BOOLEAN \ {n.token}
  ELSE {token + 1 : token \in {n.token} \intersect (1 - IntLimit)..(IntLimit - 1)}

Collect(m, skip) ==
  UNION {{[module |-> m, at |-> p, kind |-> Source[m][p].kind, old |-> Source[m][p].token, new |-> new,
           expr |-> Source[m][p].expr] : new \in Swaps(Source[m][p])} :
         p \in {p \in DOMAIN Source[m] : Source[m][p].kind \notin skip}}

\* A module is asked for by the end of its path.
Hits(want) == {t \in Target : IsSuffix(want, t.path)}
Unresolved(o) == \E want \in o.modules : Cardinality(Hits(want)) # 1
ResolveModules(o) ==
  IF o.modules = {} THEN {t \in Target : t.default} ELSE UNION {Hits(want) : want \in o.modules}

Plan(o) ==
  UNION {{j \in Collect(t.path, t.skip) : j.kind \in o.kinds} : t \in ResolveModules(o)}

ASSUME PlanIsFinite == \A n \in 1..MaxRuns : \A o \in Options(n) : IsFiniteSet(Plan(o))

\* apply_mutation: a Boolean operator is told by its place alone, and positions are
\* those of the text that is read.
NodesAt(t, j) ==
  {p \in DOMAIN t.nodes :
     /\ (IF t.unparsed THEN Moved(j.module, p) ELSE p) = j.at
     /\ t.nodes[p].kind = j.kind
     /\ j.kind = "bool" \/ t.nodes[p].token = j.old}
Unparse(t) == [t EXCEPT !.unparsed = TRUE]
ApplyMutation(t, j) ==
  [nodes |-> [p \in DOMAIN t.nodes |->
                IF p \in NodesAt(t, j) THEN [t.nodes[p] EXCEPT !.token = j.new] ELSE t.nodes[p]],
   unparsed |-> TRUE]

-----------------------------------------------------------------------------
(* Runner.run and the verdicts. *)

\* A process that hangs once it has said that a test failed has given its answer.
Rc(e) == IF e.hung /\ e.result # "failed" THEN "TIMEOUT" ELSE e.result
Classify(rc) ==
  IF rc = "TIMEOUT" THEN "SURVIVED_TIMEOUT"
  ELSE IF rc = "passed" THEN "SURVIVED"
  ELSE IF rc = "failed" THEN "KILLED" ELSE "ERROR"
Survived == {"SURVIVED", "SURVIVED_TIMEOUT"}

Survivors == {j \in Jobs : mutants[j].status \in Survived}
With(status) == {j \in Jobs : mutants[j].status = status}

-----------------------------------------------------------------------------
(* The main thread, up to the phases. *)

NoOptions ==
  [modules |-> {}, kinds |-> Kinds, list |-> TRUE, recheck |-> TRUE, write |-> FALSE,
   compare |-> FALSE, strict |-> FALSE, workdir |-> "temporary"]
NoControl == [of |-> {}, tests |-> FullSuite]
NotStarted(j) ==
  [step |-> "todo", status |-> "", in |-> First, read |-> Original(j.module), names |-> {}]

MutationInit ==
  /\ command = [step |-> "idle", options |-> NoOptions, run |-> 0, code |-> 0, clean |-> TRUE, wrote |-> FALSE]
  /\ control = [left |-> {}, now |-> NoControl, read |-> Originals[First], failed |-> FALSE]
  /\ mutants = [j \in {} |-> NotStarted(j)]
  /\ harness = {} /\ timedOut = {} /\ endings = {}
  /\ copies = [d \in Dir |-> Originals]
  /\ idle = Copy
  /\ baseline \in Recorded \union {NoBaseline}

\* A command line that is refused, or that asks for the plan alone.
Decline(o) ==
  /\ command.step = "idle" /\ command.run < MaxRuns
  /\ Unresolved(o) \/ o.list \/ Plan(o) = {}
  /\ command' = [command EXCEPT !.options = o, !.run = @ + 1, !.wrote = FALSE,
                                !.code = IF ~ Unresolved(o) /\ o.list THEN 0 ELSE 2]
  /\ mutants' = [j \in {} |-> NotStarted(j)]
  /\ UNCHANGED <<control, harness, timedOut, copies, idle, baseline, endings>>

\* Copies that are in the directory already are used as they are.
Begin(o) ==
  /\ command.step = "idle" /\ command.run < MaxRuns
  /\ ~ Unresolved(o) /\ ~ o.list /\ Plan(o) # {}
  /\ copies' = [copies EXCEPT !["temporary"] = Originals]
  /\ command' = [command EXCEPT !.step = "provenance", !.options = o, !.run = @ + 1, !.wrote = FALSE,
                                !.clean = (copies'[o.workdir] = Originals)]
  /\ mutants' = [j \in Plan(o) |-> NotStarted(j)]
  /\ harness' = {} /\ timedOut' = {} /\ endings' = {} /\ idle' = Copy
  /\ control' = [control EXCEPT !.failed = FALSE, !.left =
       {[of |-> {t.path}, tests |-> t.tests] : t \in ResolveModules(o)}
         \union {c \in {[of |-> {t.path : t \in ResolveModules(o)}, tests |-> FullSuite]} : o.recheck}]
  /\ UNCHANGED baseline

Leave(code) == command' = [command EXCEPT !.step = "idle", !.code = code]
Reach(step) == command' = [command EXCEPT !.step = step]

\* paw_kit is imported from within the copy, or from elsewhere.
AssertProvenance ==
  /\ command.step = "provenance"
  /\ Reach("control") \/ Leave(2)
  /\ UNCHANGED <<control, mutants, harness, timedOut, copies, idle, baseline, endings>>

ControlBegins(c) ==
  /\ command.step = "control" /\ c \in control.left
  /\ c.tests = FullSuite => control.left = {c}
  /\ Reach("controlled")
  /\ control' = [control EXCEPT !.left = @ \ {c}, !.now = c, !.read = copies[Workdir][First]]
  /\ copies' = [copies EXCEPT ![Workdir][First] = [m \in Module |-> IF m \in c.of THEN Unparse(@[m]) ELSE @[m]]]
  /\ UNCHANGED <<mutants, harness, timedOut, idle, baseline, endings>>

ControlEnds ==
  /\ command.step = "controlled"
  /\ \E e \in PytestEnds(copies[Workdir][First], control.now.tests) :
       control' = [control EXCEPT !.failed = @ \/ Rc(e) # "passed"]
  /\ Reach("control")
  /\ copies' = [copies EXCEPT ![Workdir][First] = control.read]
  /\ UNCHANGED <<mutants, harness, timedOut, idle, baseline, endings>>

ControlGate ==
  /\ command.step = "control" /\ control.left = {}
  /\ IF control.failed THEN Leave(2) ELSE Reach("p1")
  /\ UNCHANGED <<control, mutants, harness, timedOut, copies, idle, baseline, endings>>

-----------------------------------------------------------------------------
(* run_phase: the threads. *)

Step(j, step) == command.step \in {"p1", "p2"} /\ mutants[j].step = step
Write(j, t) == copies' = [copies EXCEPT ![Workdir][mutants'[j].in][j.module] = t]
Judge(j, status) == mutants' = [mutants EXCEPT ![j].step = "judged", ![j].status = status]

\* A thread takes a copy, and reads and writes the module in it.
Take(j, w) ==
  /\ Step(j, "todo") /\ w \in idle
  /\ idle' = idle \ {w}
  /\ LET t == copies[Workdir][w][j.module]
         taken == [mutants[j] EXCEPT !.in = w, !.read = t] IN
     IF NodesAt(t, j) = {}
     THEN /\ mutants' = [mutants EXCEPT ![j] = [taken EXCEPT !.step = "judged", !.status = "NOT_APPLIED"]]
          /\ UNCHANGED copies
     ELSE /\ mutants' = [mutants EXCEPT ![j] = [taken EXCEPT !.step = "runs"]]
          /\ Write(j, ApplyMutation(t, j))
  /\ UNCHANGED <<command, control, harness, timedOut, baseline, endings>>

TestsOf(j) == IF command.step = "p2" THEN FullSuite ELSE (CHOOSE t \in Target : t.path = j.module).tests

\* The verdict of phase 1, and of phase 2 unless it would be a kill: that is confirmed,
\* where the failing tests are named.
Run(j) ==
  /\ Step(j, "runs")
  /\ \E e \in PytestEnds(In(j), TestsOf(j)) :
       /\ endings' = endings \union {<<j, command.step, Rc(e)>>}
       /\ \/ (command.step = "p1" \/ Rc(e) # "failed") /\ Judge(j, Classify(Rc(e)))
          \/ command.step = "p2" /\ Rc(e) = "failed" /\ e.names = {} /\ Judge(j, "SURVIVED")
          \/ /\ command.step = "p2" /\ Rc(e) = "failed" /\ e.names # {}
             /\ mutants' = [mutants EXCEPT ![j].step = "again", ![j].names = e.names]
  /\ UNCHANGED <<command, control, harness, timedOut, copies, idle, baseline>>

\* confirm_kill: the tests that failed, alone, with the mutant ...
RunAgain(j) ==
  /\ Step(j, "again")
  /\ \E e \in PytestEnds(In(j), mutants[j].names) :
       \/ Rc(e) = "passed" /\ Judge(j, "SURVIVED") /\ UNCHANGED copies
       \/ /\ Rc(e) = "failed"
          /\ mutants' = [mutants EXCEPT ![j].step = "clean"]
          /\ Write(j, mutants[j].read)
       \/ Rc(e) \notin {"passed", "failed"} /\ Judge(j, "ERROR") /\ UNCHANGED copies
  /\ UNCHANGED <<command, control, harness, timedOut, idle, baseline, endings>>

\* ... and without it.
RunClean(j) ==
  /\ Step(j, "clean")
  /\ \E e \in PytestEnds(In(j), mutants[j].names) :
       Judge(j, IF Rc(e) = "passed" THEN "KILLED" ELSE "SURVIVED")
  /\ Write(j, ApplyMutation(mutants[j].read, j))
  /\ UNCHANGED <<command, control, harness, timedOut, idle, baseline, endings>>

\* Faulty: the copy is given back as the mutant left it.
ReleaseUnrestored(j) ==
  /\ Step(j, "judged")
  /\ mutants' = [mutants EXCEPT ![j].step = "done"]
  /\ idle' = idle \union {mutants[j].in}
  /\ UNCHANGED <<command, control, harness, timedOut, copies, baseline, endings>>

\* The module is restored and the copy is given back.
Release(j) ==
  /\ Step(j, "judged")
  /\ mutants' = [mutants EXCEPT ![j].step = "done"]
  /\ Write(j, mutants[j].read)
  /\ idle' = idle \union {mutants[j].in}
  /\ UNCHANGED <<command, control, harness, timedOut, baseline, endings>>

-----------------------------------------------------------------------------
(* The main thread, from the end of the first phase on. *)

AllDone == \A j \in Jobs : mutants[j].step = "done"

EndPhase1 ==
  /\ command.step = "p1" /\ AllDone
  /\ harness' = With("ERROR") \union With("NOT_APPLIED")
  /\ timedOut' = With("SURVIVED_TIMEOUT")
  /\ IF command.options.recheck /\ Survivors # {}
     THEN /\ Reach("p2")
          /\ mutants' = [j \in Jobs |-> IF j \in Survivors THEN [mutants[j] EXCEPT !.step = "todo"]
                                                            ELSE mutants[j]]
     ELSE Reach("write") /\ UNCHANGED mutants
  /\ UNCHANGED <<control, copies, idle, baseline, endings>>

\* Faulty: a mutant that has run to its end in phase 2 is no guess any more.
EndPhase2Forgets ==
  /\ command.step = "p2" /\ AllDone
  /\ harness' = harness \union With("ERROR")
  /\ timedOut' = With("SURVIVED_TIMEOUT")
  /\ Reach("write")
  /\ UNCHANGED <<control, mutants, copies, idle, baseline, endings>>

\* A mutant that could not be applied is an error of phase 1 only.
EndPhase2 ==
  /\ command.step = "p2" /\ AllDone
  /\ harness' = harness \union With("ERROR")
  /\ timedOut' = timedOut \union With("SURVIVED_TIMEOUT")
  /\ Reach("write")
  /\ UNCHANGED <<control, mutants, copies, idle, baseline, endings>>

SurvivorsOf(m) == {j \in Survivors : j.module = m}

WriteBaseline ==
  /\ command.step = "write"
  /\ LET refused == ~ command.options.recheck \/ harness # {} \/ timedOut # {} IN
     \/ ~ command.options.write /\ Reach("compare") /\ UNCHANGED baseline
     \/ command.options.write /\ refused /\ Leave(2) /\ UNCHANGED baseline
     \/ /\ command.options.write /\ ~ refused
        /\ command' = [command EXCEPT !.step = "compare", !.wrote = TRUE]
        /\ baseline' = [m \in {t.path : t \in ResolveModules(command.options)} |-> SurvivorsOf(m)]
  /\ UNCHANGED <<control, mutants, harness, timedOut, copies, idle, endings>>

\* A survivor is known by its place or by its expression.
Known(s, recorded) ==
  \E r \in recorded :
    /\ s.kind = r.kind /\ s.old = r.old /\ s.new = r.new
    /\ s.at = r.at \/ s.expr = r.expr

\* compare_baseline: a module that is not recorded passes.
Regressed ==
  \E t \in ResolveModules(command.options) :
    LET m == t.path IN
    /\ m \in DOMAIN baseline
    /\ \/ Cardinality(SurvivorsOf(m)) > Cardinality(baseline[m])
       \/ command.options.strict /\ \E s \in SurvivorsOf(m) : ~ Known(s, baseline[m])

\* A file that is not there ends the run with a traceback, whose code is 1 too.
CompareBaseline ==
  /\ command.step = "compare"
  /\ Leave(IF command.options.compare /\ (baseline = NoBaseline \/ Regressed) THEN 1
           ELSE IF harness # {} THEN 3 ELSE 0)
  /\ UNCHANGED <<control, mutants, harness, timedOut, copies, idle, baseline, endings>>

\* The process is killed: what it has written stays.
Kill ==
  /\ command.step # "idle"
  /\ Leave(137)
  /\ UNCHANGED <<control, mutants, harness, timedOut, copies, idle, baseline, endings>>

MutationNext ==
  \/ \E o \in Options(command.run + 1) : Decline(o) \/ Begin(o)
  \/ AssertProvenance \/ ControlEnds \/ ControlGate
  \/ \E c \in control.left : ControlBegins(c)
  \/ \E j \in Jobs, w \in Copy : Take(j, w)
  \/ \E j \in Jobs : Run(j) \/ RunAgain(j) \/ RunClean(j) \/ Release(j)
  \/ EndPhase1 \/ EndPhase2 \/ WriteBaseline \/ CompareBaseline \/ Kill

MutationSpec == MutationInit /\ [][MutationNext]_mutation

-----------------------------------------------------------------------------
(* Properties *)

\* Where a copy is not the repository.
Changed(copy) ==
  UNION {{<<m, p>> : p \in {p \in DOMAIN Source[m] : copy[m].nodes[p] # Source[m][p]}} : m \in Module}

\* A run that began on copies of the repository runs the tests of a mutant on that mutant,
\* and the run that is to confirm a kill on the repository: never on the mutant of
\* another thread, on two at once, or on what an earlier one has left (run_phase).
OwnMutantOnly ==
  command.clean =>
    \A j \in Jobs :
      /\ Step(j, "runs") \/ Step(j, "again") => Changed(In(j)) = {<<j.module, j.at>>}
      /\ Step(j, "clean") => Changed(In(j)) = {}

Caught(j) == \E phase \in {"p1", "p2"} : <<j, phase, "failed">> \in endings

\* A baseline holds no guess: tests failed on every mutant it does not record; the tests of
\* its module passed on every one it does, and the whole suite ran to its end on it, even
\* though phase 2 has since replaced the verdict of phase 1 (README-mutate.md,
\* Timeouts).  And when a comparison ends with 0, no module of the run has more mutants that
\* no test has caught than the file records, those included that the run has no
\* verdict on.  Both of a run that began on copies of the repository.
RatchetTellsTruth ==
  command.clean =>
    /\ command.wrote =>
         \A j \in Jobs :
           IF j \in baseline[j.module]
           THEN <<j, "p1", "passed">> \in endings /\ \E rc \in {"passed", "failed"} : <<j, "p2", rc>> \in endings
           ELSE Caught(j)
    /\ command.step = "idle" /\ command.code = 0 /\ command.options.compare =>
         \A m \in {j.module : j \in Jobs} \intersect DOMAIN baseline :
           Cardinality({j \in Jobs : j.module = m /\ ~ Caught(j)}) <= Cardinality(baseline[m])
=============================================================================
