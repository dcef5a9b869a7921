# A verification of paw-kit

paw-kit (`src/paw_kit`) replaces calls of an expensive function (the *teacher*,
usually a language model) by calls of a small compiled program (the *adapter*).
`@compile_on_hit` traces the calls of a function into a SQLite file, compiles
an adapter when enough have been seen, compares adapter and teacher off the
request path (*shadow mode*), lets the adapter serve when it has agreed often
enough, and takes it out again when it drifts. This directory holds TLA+ modules
of that machinery, the TLC configurations that check them on small instances,
and TLAPS proofs of what matters most.

Run, in this directory, `tlc -workers 2 -config X.cfg M` for any run of
`PROJECT.json`, and `tlapm M.tla` for the eight `*Proofs.tla` modules.

## 1. The system

| Component | Source | State | Operations | What is hard | What makes it correct |
|---|---|---|---|---|---|
| Trace database | `jit/db.py` | one row per task (status, epoch, adapter, attempts, lease stamp, config), traces, shadow pairs, transition log; WAL SQLite shared by processes | upserts, compare-and-sets on status and epoch, inserts with retention, statistics over the newest window | several writers; a write may fail; retention deletes what a statistic needs | each write is one transaction; an epoch names one state; sequence numbers are contiguous |
| Call wrapper | `jit/decorator.py` | none of its own but the adapter callable cache | route, serve or teach, trace, submit comparisons, reclaim a stale lease, trigger the compile | the routing is stale by the time it is used; every database call may fault after the answer is known | fail open: the library never breaks or blocks the call |
| Background compiler | `jit/compiler.py` | a thread per compile | compare-and-set to `compiling`, compile, settle | paid, not idempotent; the process may die; settling is three database calls | bounded spend, one compile at a time, it ends |
| Shadow runner | `jit/shadow.py` | per process: bounded queue, sequence cache, count of scored windows | compare, record, score a tumbling window, promote or demote | jobs older than a transition, other processes, restarts, excluded verdicts, retention | a transition is earned on a full window of its epoch; one draw per window |
| Deadline pool | `jit/deadline.py` | semaphore, queue, worker threads | call with a deadline | a call may never return; an abandoned one may return late | no queueing behind a wedged call, slots come back |
| Agreement | `jit/agreement.py` | none | compare two answers | | |
| Backend | `backend/programasweights.py`, `base.py` | LRU of loaded functions keyed by manifest identity | submit a compile, poll the job, load, infer | lost answers of a paid POST; recompile during a load | no second compile bought blindly; no stale function cached |
| Manifest lineage, atomic writes | `backend/manifest_lineage.py`, `atomicio.py` | manifest and its history file | read parent, replace, append, rotate | two compiles of one path; crash between the steps | a reader sees the old or the new file |
| Server | `serve/server.py` | token buckets, the inference slot, metrics | rate-limit, authenticate, run under a timeout | an abandoned thread behind a released slot; eviction of buckets | one admitted call at a time; a throttled client stays throttled |
| Schema loader | `schema/loader.py`, `grammar.py`, `constraint.py` | a process-wide LRU of compiled grammars; per bound function a failure counter and a warned flag | render a model as a regex, refuse what cannot be, warn of what is given up; infer, validate, fall back | threads that compile one grammar at a time outside the lock; unlocked counter; off-by-ones in quantifiers and ranges | a load gets the grammar of its model; a constraint is enforced or warned of, but for the least number of distinct entries |
| Test tools | `test/` | reports, in memory; the adapter at the suite's path | run a suite, compare two adapters, fuzz, judge, diff verdicts, learn from a teacher | adapter, teacher and judge may answer anything or raise; the loop replaces the adapter it reports on | counts add up; only labels that something vouches for are learnt |
| Command line | `cli.py` | files the commands leave for one another | `check`, `compare`, `judge`, `judge --diff`, and printing commands | flags, defaults and what is on disk decide together what is overwritten and what exit code is given | a stub never replaces an adapter; exit 0 means that it was measured |
| Mutation testing | `tools/mutate.py` | copies of the repository in a work directory, mutated and restored in place; a baseline file | plan, control gate, two phases of threads, confirmation of a kill, baseline | threads share a few copies; a confirmation takes a mutant out and puts it back; a kill leaves one behind; a verdict replaces another | tests run on one mutant at a time; a baseline holds no guess |
| doctor, spec lint, Docker files, path safety, mock | `doctor.py`, `speclint.py`, `serve/docker.py`, `pathsafety.py`, `backend/mock.py` | none that outlives a call, but for the mock's adapters | diagnostics, text | | |

The parts meet in the task's row. The wrapper of any process reads it
(`get_task_routing`) at the start of a call; the compile worker of any process
moves it `tracing -> compiling -> shadow | ready | failed`; the shadow worker of
any process moves it between `shadow` and `ready`; the wrapper moves it from a
dead compile back to `tracing`, and promotes a task stuck in `shadow` when the
process has shadow mode off. Wrapper and shadow worker meet in the queue;
wrapper or shadow worker and the adapter meet in a deadline pool. Every
process opens, and if need be migrates, the trace file by itself. The test tools meet
in the suite's adapter path, and in the files that one command writes and the next
reads; the loader and the test tools reach a backend through `infer` and `compile`. `mutate.py` stands beside
all this: it runs the repository's tests on mutants of its modules.

## 2. The modules

| Module | Models |
|---|---|
| `TraceDB` | the row of a task, and each write method of class `TraceDB` on it as an operator on rows (`CanX` is the WHERE clause, `X` the SET clause) |
| `JitLifecycle` | the life of a task: calls, compile workers, lease, crashes, restarts, faults, in any number of processes |
| `ShadowRunner` | comparing, recording, pruning, scoring, promoting and demoting, in any number of processes |
| `DeadlinePool` | the semaphore, queue, events and threads of the pool, one operation a step |
| `CallSlots` | what a pool promises its callers, which `DeadlinePool` implements |
| `CompileService` | one paid compile as its client sees it: POST and retries, polling, deadline, cancellation |
| `AdapterFile` | one adapter path: manifest, history sidecar, and the function caches of every process that reads it |
| `RateLimit` | the limiter of the server: a common token bucket, and one per client in a bounded table |
| `TokenBuckets` | what the limiter promises, which `RateLimit` implements: a bucket for every client for ever |
| `InferenceServer` | a request through the server: middleware as it was put together, body, the handlers of the routes, slot, worker thread, telemetry; extends `RateLimit` |
| `ShadowDrain` | the counters of the shadow runner: what `submit` and the workers write and what `drain`, `shutdown` and `stats` read |
| `TraceSchema` | opening and migrating a trace file, one SQL statement a step, by several processes on a file of any earlier release |
| `TraceStore` | connections, transactions, retries, the transition log and its pruning, and `close`, on a file that is open; extends `TraceSchema` |
| `AtomicTasks` | what transactions promise a task, which `TraceStore` implements |
| `Matching` | when two outputs are the same answer: JSON values, whitespace, quotes |
| `SuiteRun` | one run of a suite, a comparison of two adapters, the fuzzer, and the counts of their reports |
| `LearningLoop` | `run_active_learning_loop`, one outside call a step; extends `SuiteRun` |
| `Judge` | verdicts, disagreements with the rules, and the diff of two reports |
| `PawTest` | the commands `check`, `compare`, `judge`, `judge --diff` on one directory; extends `LearningLoop` and `Judge` |
| `FieldRules` | the fields of a model: keys, lengths, ranges; what is refused, rendered, given up, and fingerprinted |
| `FieldGrammar` | the same of types within types and models within models, recursively; extends `FieldRules` |
| `SchemaLoader` | threads on the cache of grammars and on a bound function; extends `FieldRules`, and takes what `FieldGrammar` says as parameters |
| `MutationRun` | runs of `mutate.py`, one after the other: plan, copies, control gate, the threads of both phases, baseline |
| `JitLifecycleProofs`, `ShadowRunnerProofs`, `TraceStoreProofs`, `DeadlinePoolProofs`, `CompileServiceProofs`, `AdapterFileProofs`, `InferenceServerProofs`, `DevToolsProofs` (of `PawTest`, `SchemaLoader`, `ShadowDrain` and `MutationRun`) | the theorems |
| `MCJitLifecycle`, `MCShadowRunner`, `MCDeadlinePool`, `MCCompileService`, `MCAdapterFile`, `MCInferenceServer`, `MCTraceStore`, `MCDevTools` | the constants TLC's instances share |

`TraceDB` is pure; the state machines of the task use its operators, so that a write is
defined once. Definitions called *Faulty* are variants of the one below them with
one plausible bug; nothing uses them, and each exists so that substituting it
shows the property that catches it (`mutants` in `PROJECT.json`).

**Grain.** A step is one database call (each is one transaction: `_write_txn`
or a single UPDATE under `with self._conn`) together with the local code after
it. Threads of one process and of several interleave between steps. That is the
grain at which the code is exposed; that a write method is one step is what
`TraceStore` shows, at the grain of a statement, of the method that all the others have the
shape of. `JitLifecycle` and `ShadowRunner` rely on it.

**JitLifecycle.** `caller[c]` is the place of a call in `wrapper` and the
routing it read: `Call`, `Rescue`, `Reroute` are step 1 of the wrapper, `Serve`
step 2, `TeacherAnswers`/`TeacherRaises` step 3, `CallRecordTrace` steps 4 and 5,
`Check`, `CallReclaim`, `Recheck`, `Trigger` step 6. `CallFault` is the database call
of the current step raising, with what that step's handler does. `worker[w]` is a
compile worker: `GetTraces`, `Compiled`, `Commit`, and the three calls of its except
branch `FailRead`, `FailBump`, `FailSettle`. `Crash` ends a process with all its
threads. `LeaseExpires` makes the stamp older than `_COMPILE_LEASE_SECONDS`; the
constant `LeaseCoversCompile` says whether that may happen under a running compile.
Serving does not touch the row and is one step; the shadow worker is abstracted
to `ShadowVerdict`, a compare-and-set of any verdict at the current epoch (at any
other epoch it changes nothing), so JitLifecycle allows every move that
ShadowRunner makes.

**ShadowRunner.** Starts where JitLifecycle hands a compiled task over, in shadow
or ready. `Route`, `Submit`, `EndUnsampled` are a call; `Take` (with `Begin`), `Record`,
`Prune`, `Score`, `Move` are the worker's database calls; `WorkerFault` is one of them
raising. `scored`, `seqCache`, `clock` are the dicts of the runner and of
`TraceDB`. `pairs` is every row ever inserted; the table is `Retained`, its suffix.
Keeping the deleted prefix lets a property compare what the code computed with
what happened. A comparison's outcome is any member of `Verdicts`; the adapter, the
teacher and the agreement function are the choice of that outcome. `drawn` counts
evaluated windows and influences nothing. `World` says which callers there are, what comparisons
may come to, and how many of them, restarts and faults there may be, so that one run
asks the same questions of several small systems and of no product of them.

**ShadowDrain.** A step is one hold of the runner's lock or of a queue's.
`EnsureWorker`, `CountJob`, `Accept`, `Refuse`, `Drop` are `submit`, `Get` and `Finish` the worker,
`KeysFor` and `Look` one round of `drain` (`shutdown` has no `KeysFor`: it adds up all
there is). The sleep between two rounds chooses no step. What the job does is in
`ShadowRunner`; here it has ended, and whether it raised does not matter to the counters.

**DeadlinePool.** `Acquire`, `Put`, `Answered`, `Expires` are the caller; `Get`, `Returns`,
`SetDone`, `Release` the worker. A call is made once; a thread that calls again is
another call. A wedged function is one for which `Returns` is never enabled. A worker
publishes the answer (`SetDone`) before it gives the permit back (`Release`), so a
thread that has its answer and calls again at once may be refused although no
other call is running; this is why `CallSlots` frees a slot in a step of its own, and the
docstring's "already occupied by a call that has not returned" (`deadline.py:116`) is to be
read with it.

**CompileService.** `Begin` and `Submit` are `compile` up to the answer of the POST:
`Unreachable`, `TimesOut`, `ServerError`, `Refused` and `Answered` are the classes of outcome that
`_invoke_compile` tells apart, and `Reached` is the service buying a compile or not
for a request that reached it, whatever the client hears. `Poll` is
`_wait_for_job`; `Reports` is what a job in a given state may say, with a vocabulary
of statuses that is the service's own. `JobEnds` and `DeadlinePasses` are
the service and the clock. `bought` and `heard` (the last answer to a poll, and the failures since)
are history. Back-off and poll
intervals are left out: they delay steps and choose none. One call of the
backend is a call here; `JitLifecycle` bounds the calls of a task. The two
compose: a task buys at most `MaxAttempts` (`CompileBound`) times what a call buys
(`PaidOnce`), which is 1 on the finetune compiler and `1 + CompileRetries` on the
synchronous one.

**AdapterFile.** `WriteTemp` to `Drop` are what `compile` does once the service has
named a program: `atomic_write_text`, then `append_history` with its rotation, then the
function cache. `Stat` to `Answer` are `infer`: `_get_function_and_vocabulary` with the
windows between its two critical sections, then `Constrain`, with `Refuse` and `Warn` where
`build_constraint` raises `ConstraintUnavailable`, and the call of the function. Every call
asks for one grammar, that of the path; whether it is one that may be refused is the world's
(`refuses`), and `ForgetRefusal` is the 64 other grammars that push its mark out. A warnings filter that turns
warnings into errors is left out. `manifests` is every manifest there has
been at the path; its index stands for the identity (mtime, size, inode), so two
manifests are assumed to differ in it, as the code assumes. `durable` counts those
a power loss keeps; `Crash` is a process dying and `PowerLoss` all of them with
whatever was not fsynced. What is left out: the parent pointers and the
pre-check and visibility answers, which are recorded and decide nothing; and the
durability of the sidecar's own directory entry, which no reader relies on. A
line and its fsync are one step. Several operations are best-effort in the code
(the fsync of the directory, the rotation); `reliable` says of a world
whether those succeed, and two properties, which the code keeps only then, say so.
Functions of other paths appear as `Forget`.

**RateLimit and InferenceServer.** A step is the event loop running a request from one
`await` to the next, or a worker thread finishing. The limiter and the authentication
await nothing, so with the Content-Length check they are one step, `Arrive` (`Throttle`, then `Unauthorized` or
`CheckLength`); `stack` says which of the two `create_app` has put in force, and `warm` whether its
warm-up succeeded. The body is read chunk by chunk for what is left of one deadline (`remaining`): a while
passes in `Waits`, a chunk comes at once or takes a while in `Receives`. That time is apart from the limiter's `Tick`:
the two clocks meet nowhere in the code. `BodyRefused`,
`BodyTimesOut` and the handlers `Invoke`, `ChatCompletions` and `AnthropicMessages` end the wait for the body; the
handlers check what their route asks for and then `Submit`. `Deliver` and `TimesOut` end the wait for
the inference; `Finishes` is the worker thread, which nobody can stop and which may end long after
its request has. `request[r]` and `thread[r]` are kept apart for that reason. A thread
that was timed out gives its token of the thread pool back and is not waited for, so
it appears only as running beside later ones. `OtherRoute` is a request that passes
authentication and goes to `/metrics` or the docs: it costs tokens and changes
nothing else. `/health` and `/ready` bypass all of this and a CORS preflight is answered
before it; they change nothing and are left out. Of the limiter, tokens and time are
whole units instead of floats (a request costs `Cost`, a unit of time refills `Refill`), the
tolerance of 1e-9 with which a bucket counts as full is exact, and the bucket to evict
is any full one instead of the first in the table's order. A full bucket is
worth the same whoever had it, which is what `KeepsBudgets` shows. A client is a key as
`_resolve_client_key` gives it. What a route does to an answer after it has been counted (shaping the
response) is taken to succeed; an answer that could not be shaped would be counted as answered.

**TraceSchema and TraceStore.** Python's `sqlite3` begins a transaction before DML only,
so each `CREATE` and `ALTER` of `_init_db` commits by itself, and from the one `UPDATE` on the
rest of the script is a transaction. `Script` is the order of the statements, `opener[p].known`
what the one `PRAGMA table_info` of an attempt has seen, `file` what is committed and
`draft` what the holder of the write lock sees. Eight columns that are
added one after the other with nothing between them are represented by two. `Earlier` is what
three former releases left, each with a compile whose process died. `OpenFault` and
`StatementFault` are an `OperationalError` with a cause outside the model (the lock not had in
30 s, a full disk) and `Collide` the one the processes cause each other. In `TraceStore` a
thread changes a status with `BeginImmediate`, `ReadRow`, `WriteRow`, `CommitRow`, then
`NoteWrite` and, when the clock has struck, `Prune`; or it reads a report in `ReadTask`, `ReadConfig`,
`EndReport`. WAL gives a reader its snapshot, which is what `ReadTask` takes. `Connect` and
`Register` are the two halves of `_connect` that `CloseMark` may come between.

**Matching, SuiteRun, Judge.** A text is what the code can tell of it: its bytes, its bytes after
whitespace is normalised, its JSON value if it has one, its length, and the parts looked for in it. A regular
expression is the set of texts it is found in. `Report` and `CompareReport` are the whole of
`TestRunner.run` and `compare_adapters` as functions of what the adapter did with each case.
A row is identified for the judge by its input and output, as `case_id` is a
digest of them; two rows that are the same have the same id.

**LearningLoop and PawTest.** A step of the loop is a call of something outside and the code
up to the next: `RunSuite`, `AskTeacher`, `Learn` (or `CompileRaises`). A suite
that is loaded with what may be said of it is a constant, and `LegalSuite` is what the models of
`suite.py` demand of it, which TLC evaluates as an assumption. `disk` is
the adapter at the suite's path: none, one from before, or the dataset it was compiled from. `PawTest` has
an action for every way a command ends: `CheckRefused` (exit 2), `CheckNothing`, `CheckReadOnly`,
`CheckLearns` with `LearningEnds`, and so on. Programs that call the loop themselves are `CodeLearns`. The
reports of one command are what the next one reads. Latencies, labels, manifests shown beside
a report and the `--json` of a check that learns are left out.

**FieldRules, FieldGrammar and SchemaLoader.** A type is a term; a regex is the term it was put together
from, and `count`, `low`, `high` are what its language has. Budgets are constants, scaled down
together. What a field makes of its type is in `FieldRules`, without recursion, so that it can be proved about;
`FieldGrammar` says what the types inside a type come to, and is what `RefusedIn`, `RegexesIn`,
`KeysIn` and `WarningsIn` of `SchemaLoader` stand for in the run. `Tail1` and `Entries` are the arithmetic of a quantifier whose first
repetition is written apart. `SchemaLoader` takes `Legal` models through `pydantic_to_regex`: a
hit is one hold of the lock, a miss is two with the compile between, and `fallback_count += 1` is a
read and a write. Whether a backend can apply a grammar at all is decided
before and is the case of `LoadRefused` in which nothing is raised.

**MutationRun.** A module is its nodes that can be mutated, by position, and a mutant a job of `Plan`.
`copies[d][w][m]` is module `m` in copy `w` of the directory of `--workdir` or of a temporary one. The main
thread goes through `Begin`, `AssertProvenance`, `ControlBegins` and `ControlEnds` for each set of tests, `ControlGate`,
`EndPhase1`, `EndPhase2`, `WriteBaseline`, `CompareBaseline`; `Decline` is every command line that runs
nothing. A job is `Take`n by a thread into an idle copy, `Run`, in phase 2 confirmed by `RunAgain` with
the mutant and `RunClean` without it, and `Release`d. `PytestEnds` is the environment: what pytest may say of a copy. `Kill` ends the
run wherever it is, and the next one finds the copies as they are. What `ast.unparse` does to positions is `Moved`: a
file that was unparsed is one whose nodes are elsewhere. Two Boolean operators that begin at one place (`a and b or c`) count as
two positions, although rewriting either changes both. The repository does not change between two runs.

## 3. The runs

Two processes, threads and workers are enough for every race in this code,
because each race is between one writer and one other; a third adds a second
copy of the other. For the life cycle and the pool the theorems drop the bound
altogether.

| Run | Question | Bounds |
|---|---|---|
| `JitLifecycle` | compile bound, epoch discipline with leases that may expire under a compile | p1 in shadow mode, p2 with `shadow_window=0` and `sync_compile`; cap 2, threshold 2, one crash, promotions below epoch 4 |
| `JitSettles` | when no compile outlives its lease: mutual exclusion, adapters and `failed` kept, and a task past its threshold settles | p1 in shadow mode and called for ever, p2 with `sync_compile` and nothing asked of it; cap 2, threshold 1, one crash, promotions below epoch 3 |
| `ShadowGate` | earned moves, single draws, no promotion past the stall point | two processes, a restart, 3 comparisons; and one process, any verdict, pruning every second insert, a fault, 7 comparisons (rows are deleted from the fifth on); windows of 2, cap 4, stall factor 1 |
| `ShadowMoves` | a good adapter is promoted, a bad one demoted | one restart and one fault, 8 comparisons, which is enough for a full window after both |
| `CompileService` | no second purchase, no job given up without cause, calls end | one finetune and one synchronous call, 1 retry, 5 failed polls in a row (the code's own limit) |
| `AdapterFile` | no torn manifest, no stale or silently unconstrained function, a truthful and bounded sidecar | two compiles in two processes; one compile beside two readers in the other process; the same with a grammar that may be refused; one compile where every best-effort operation may fail; 3 manifests (1 beside a grammar that may be refused), 2 programs, cap 1, one crash or power loss |
| `InferenceServer` | the limiter keeps every client's budget, one request in the slot, true telemetry, requests end | 3 requests and unlimited other traffic of 3 clients, 2 buckets, each of one request (a unit of time refills it), 4 in the common bucket (two units refill one), time to 1; two whiles to read a body |
| `TraceStore` | a file that is open has its schema; changes of status are atomic (refinement of `AtomicTasks`); close leaves no connection; the log is bounded | two processes that migrate a file of any release and write to it, or fail or die on the way; three threads and a `close`; enough writes for the log to be pruned: 6, with a cap of 3 and a prune every 2 |
| `DevTools` | the five tools below, one at a time | see below |
| `DeadlinePool` | no queueing behind wedged calls, implements `CallSlots`, answers and slots come | 5 calls, 2 wedged, 2 workers: both admission outcomes, expiry before, during and after the run, and a pool wedged whole |

Calls of `CompileService` share nothing, so one of each kind is enough. Three
manifests of two programs are the fewest in which a path goes from a program to
another and back between a `stat` and a read. A compile in the readers' own
process differs from one in another only in `Drop`, which is a `Forget`, so the two
worlds with readers or with rivals need not be one.

The server's run begins with authentication and with a limiter or without, as a token may be right and a server
without authentication does nothing that one with it may not, and with a warm-up or none. In two whiles
a body can come in chunks before, at and after its deadline. In it a third client finds the table full of one throttled and one full
bucket, or of two throttled ones, and within the bounded time a client's bucket is refilled
whole and the common one by half a request, so that each way of `Consume` happens; two requests meet at the slot while the thread of a
third still runs.

`TraceStore` begins in one of six worlds: a product of migrations with everything that comes
after would be too large, and what an opening leaves is the same file (`SchemaComplete`). There are 3
attempts where `_DB_RETRY_ATTEMPTS` is 5, for four columns where there are ten: in both a process may use all of
them up on columns the other one adds, and its constructor raises without any fault.

`DevTools` puts side by side five things that share no state, so that each starts with the
others at rest:

- `PawTest`, over eight suites. Each is made for a question and has the fewest cases that ask it: a
  teacher that is right, wrong or silent about two keyed inputs and one without a key
  (`learns`, `again`, with the user's own examples in `LearnsMore`); every pair of thirteen texts that
  are equal as bytes, as JSON, without quotes, or not at all (`compares`); the fuzzer past its cap of 5
  and with mutations that coincide (`fuzzes`); rows that share an id (`judges`, with five
  commands in a row, which is the shortest way from two adapters to a diff of verdicts). `Matching` is checked
  here as the `Equivalent` and `Unquoted` of these suites.
- `SchemaLoader` with two threads, three loads and a cache of two grammars, over 22 models: one for every kind of
  field, each constraint at, inside and beyond its budget, and each reason to refuse.
  Two loads that race and a third that evicts are the most that matter.
- the bound function, of two threads with two calls each: an increment can be lost and
  another made after it.
- `ShadowDrain` with queues of one job, two jobs of a task in one database and one in another, a
  `drain` over both and a `shutdown`: with two jobs of a key one is refused while the
  other is queued, and the second key appears under a drain that has begun.
- `MutationRun` with two copies and two runs, over three modules of one or two mutants each: mutants that tests notice, notice only
  in the whole suite, or make hang; a run that writes a baseline or reads one, and a run
  after a killed one on the same directory. Two mutants meet in the two copies, and a third
  takes over one that another has left.

Windows of two are the smallest in which a full window differs from one
agreeing sample. `MaxRecorded`, `MaxRestarts`, `MaxFaults`, `MaxCrashes`, `MaxEpoch`, `MaxTime`, `MaxLoads`, `MaxCalls`, `MaxCommands` and what `World` counts are
bounds of the model and name no constant of the code; the others do (`MaxPairs` is
`shadow_max_pairs`, `PruneEvery` the interval of db.py, `QueueSize`
`shadow_queue_size`). Deadlock is checked except for the pool, the
server, the adapter file, the trace store and the tools, where a finite set of calls or requests ends.

`OwnMutantOnly` and `RatchetTellsTruth` are about runs that began on copies of the repository
(`command.clean`). The code does not see to that: it uses the copies in `--workdir` as they are
(`mutate.py:848`), and on those a killed run left a mutant in, both are false.

Two runs refute what the repository says of itself; each is a finding in
`PROJECT.json`:

- `JitFaultEscapes`: `trigger_compilation` stands outside every `try` of the
  wrapper, so a database fault there reaches the caller after the teacher has
  answered.
- `TraceUpgrade`: the stamp for tasks that were wedged before the lease existed belongs to
  the opening that adds the column. A process that dies after the `ALTER`, which commits by itself, and
  before the `UPDATE` leaves them wedged, because the next opening finds the column.

### Where the code and its words part, without a run of its own

Met while modelling. The models do what the code does; where that is so, the
property is stated with the exception.

- `compare.py:445` and `cli.py:897` test the truth of an error text: a backend that raises with an
  empty message (`TimeoutError()`) is not counted as errored, and `compare` may exit 0 and leave the judge
  a placeholder that no adapter gave. (Other places ask `is not None`.) In `SuiteRun` a call that raises is
  `Raised` or `Wordless`, and `ZeroMeansMeasured` excepts the wordless rows of `compare`, and no others.
- `min_length` of a set, a frozenset or a dict is counted in entries as they are written: `[1, 1, 1]` passes the
  grammar of a set of at least three, and no warning says so (`grammar.py:1943`, where the comment admits it, S-21).
  `EnforcedOrWarned` reads back what the grammar admits, and excepts the lower end of these lengths from two on (`Unkept`);
  the upper end is kept.
- A finished job that names its program under a status that is neither in `_SUCCESS_STATES` nor beside a `completed_at`
  is polled past (`programasweights.py:785`), and the program that was paid for is lost at the deadline. Of such a
  program `GivenUpForCause` asks no more than that the deadline has passed.
- A call whose grammar is refused decodes without it while `applies_grammar_constraint` stays True
  (`programasweights.py:1083`). Where two threads find the refusal, one warns, and the other may decode before it has:
  `UnconstrainedIsKnown` says no more than that the warning is out or on its way.
- In `compare` a side whose call raised is judged by the assertions on
  `[EXECUTION_ERROR]` (`compare.py:418`), and may pass; in `check` it never does (`runner.py:504`).
- The fingerprint of a model holds its bounds as Python compares them (`grammar.py:1744`): `ge=1`,
  `ge=1.0` and `ge=True` are one. Only integer bounds render, so two such models share
  a cached grammar although they render differently: whichever was compiled first gives the other
  a range it does not have, or silently none. `CachedIsFresh` excepts exactly these (`Confused`), of the fields
  of the loaded model itself: such numbers in a nested model confuse as well, and the run's models have none (`TypesTell`).
- The warnings of constraints that are given up come with a compile. A second model of the same fields
  gets its grammar from the cache and no warning. `EnforcedOrWarned` asks for a warning of the fingerprint.
- Types that nothing handles become a JSON string, without a warning (`grammar.py:1567`).
- `diff_verdicts` compares a row that the judge failed on (`judge_error`, verdict False) as one that was judged: it
  may be a flip. `ZeroMeansMeasured` holds because `judge` itself exits 1 then.
- `fallback_count += 1` (`loader.py:158`) loses increments; what it must not do, show no failure after a
  caller was told of one, it does not (`CountShowsFailure`).
- `agreement.py:185` takes the difference of a NaN to be within any tolerance.
- The count of scored windows is per process and in memory: a restarted process scores
  comparisons that a former one has scored, while `docs/shadow-mode.md:21` says "evaluated exactly once".
  `OneDrawPerWindow` is of one life of a process.
- `get_epoch_seq` (`db.py:1420`) "survives pruning", but excluded comparisons have no number and take a place
  in the table; enough of them in a row push every numbered one out. `StalledStays` says so.
- `--write-baseline` with `--modules` writes a file of these modules only and so drops the others', which then
  pass every comparison (`mutate.py:887`). A mutant that cannot be applied in phase 2 keeps its
  status out of both counts (`EndPhase2`), and a confirmation whose run *without* the mutant hangs is scored `SURVIVED` (`RunClean`).
- The bound `cap + prune_interval - 1` beside `_PRUNE_EVERY` (`db.py:72`) is that of one process
  that lives; `RetentionBounded` states the one for several, and for lives that ended.
- `cli.py:1647` reads the rotated sidecar as older than everything in the live one. A compile that
  opened the live file before another moved it aside appends to it afterwards.

The wrapper's cache of the bound callable (`decorator.py:300`) was suspected of the staleness that
`AdapterFile` is about. The callable it keeps is a closure over path, model and
backend that asks the backend on every call, so a stale one does what a fresh one does.

### Fairness

`JitSettles` assumes that one process (`LiveProc`) is restarted when it dies and
keeps being called, that its teacher and each of its database calls succeed
infinitely often if tried infinitely often (strong fairness: the code makes the
attempt again on every call), that a running compile returns or raises, and that
time passes for a compile nobody runs. Nothing is assumed of the other process,
nor that any compile succeeds. `LeaseCoversCompile` is what the comment at
`_COMPILE_LEASE_SECONDS` says of its value against the backend's own timeout.

`ShadowMoves` assumes that calls are routed, that a
comparison is submitted to a queue with room infinitely often when that is
infinitely often possible (with `audit_rate` > 0 and a random draw per call), and
that worker threads run. Restarts and faults are finite and may come at any time.

`CompileService` assumes that every request is answered, refused or times out, that
one of a running series of polls is answered, and that the deadline passes. It does
not assume that a job ends.

`DeadlinePool` assumes threads run; not that a deadline ever passes.

`InferenceServer` assumes that time passes for a body that is read (`Waits`) and that the event loop runs its two timers,
that of the body and that of the inference. Nothing is asked of the client, which may send small chunks for ever, the backend or its threads.

## 4. The proofs

`JitLifecycleProofs` proves, for any processes, threads, threshold and cap:

- `TypeCorrect`;
- `CompileBoundCorrect`: at most `MaxAttempts` compiles are bought in a task's life.
  The bound alone is not inductive: what may still be bought is in the row
  (status `tracing`), in workers about to compile, and in workers about to settle to
  `tracing`. `CompileCredit` counts these together and says that all but one
  were earned by an increment of `compile_attempts` below the cap; `CreditCorrect`
  proves it. It needs no assumption on leases;
- `EpochCorrect`: a routing whose epoch is still the row's is still the row's
  routing. Its strengthening says that a task in shadow or ready has an adapter and that
  the epoch 0 is the empty row;
- `OneCompileCorrect` and `SettledStaysCorrect`: under the lease assumption,
  mutual exclusion of the compiles of all processes, whence no late write disturbs a
  task that has settled.

`ShadowRunnerProofs` proves, for any processes, callers, windows, tests and retention, from the one
inductive invariant `IInv`:

- `TypeCorrect`, from `Types`;
- `DrawsOncePerWindow`, from `Draws`: the windows drawn at the row's epoch are among those `scored` counts, and these
  are no more than the comparisons of the epoch fill. It needs `Fits` (a job is of the row's
  epoch or an older one, and an epoch names one phase) and `Seqs` (no sequence number is ahead of what was compared);
- `MovesAreEarned`, from `Earned`: a worker about to move the task has a run of pairs that passes. Runs are
  of the rows ever inserted, so that they outlast their deletion;
- `StalledTasksStay`, from `Dues` and `Abreast`: a process that is alone is never behind the
  sequence numbers of the epoch it compares at.

`TraceStoreProofs` proves, for any processes, threads, cap and prune interval, and any mixture of
files of former releases:

- `SchemasComplete` and `NoneStaysOpen`, from `IInv`: `Lock` says who may hold a draft, `Progress`
  what each position of `Script` has established in the committed file, which stays since nothing drops a column;
- `KeepsTasksCorrect`: `TraceStore` implements `AtomicTasks`, from `Task`: a draft differs from the file by
  nothing until its write, and then by one epoch and its log entry;
- `RetentionCorrect`, from `Counted`: the rows beyond the cap are owed by the clocks of the processes, by
  threads between their commit and their count or prune, by those that died, or by prunes that were given up,
  each of which has used up as many faults as it has attempts. The sums are sizes of sets of tokens.

`DeadlinePoolProofs` proves `TypeCorrect`, `PermitsCorrect` (conservation, which with the
type of `permits` bounds everything in flight by the number of workers) and, from
it by arithmetic, `NeverBehindWedgedCorrect`; and `KeepsPromiseCorrect`: every step of the pool is one of
`CallSlots` or stutters. The mapping reads off where a call is what it holds, so that `Placing` has to say that a call
is in one place at a time: once in the queue or with one worker, its event set exactly when it has left both.

`CompileServiceProofs` proves, for any calls and any retry budget, `TypeCorrect`,
`PaidOnceCorrect` and `GivenUpForCauseCorrect`. `PaidOnce` is strengthened by what a call
still at its POST has bought: nothing on the finetune compiler, and no more than the
attempts it has behind it on the other. `GivenUpForCause` is, by what a call that polls has
heard: nothing that ends it, and as many failures since as its counter says.

`AdapterFileProofs` proves, for any compiles, readers, processes, programs, cap and
number of crashes:

- `TypeCorrect`, with `Phases`: where a call is says which of its locals are set. It is
  what keeps an identity within the manifests there are, power loss included;
- `FilesSurviveCorrect`, from `Whole` (every manifest was synced before it was renamed, so
  that a power loss keeps its data) and `LinesInv` (a compile past the fsync of the directory holds a
  manifest that is durable, and durable manifests only grow);
- `CacheFreshCorrect` and `FreshFunctionCorrect`, from `FreshInv`: every program in the
  hands of a reader, from its read of the manifest on, was at the path since the
  reader's `stat`;
- `UnconstrainedCorrect`, from `VocabularyInv` (an entry without vocabulary, or a
  function being cached or called without one, is of an instance that has given up) and `RefusalInv` (a refusal that
  is marked has been warned of, or a thread is at its warning);
- `SidecarBoundedCorrect`, from `SidecarInv`: the lines of a file together with the
  compiles that may still append to it are fewer than the cap plus all compiles. It
  rests on lemmas on the cardinality of the set of such compiles.

`InferenceServerProofs` proves, for any clients, requests and limits:

- `TypeCorrect`, which holds the bound on the table of buckets;
- `BudgetsCorrect`: `RateLimit` with everything beside it implements `TokenBuckets`. The level of a
  client is the projection of its bucket to now, or a full bucket if it has none; every
  step of the limiter is a step of the abstract buckets, since refilling at once over
  an interval is refilling unit by unit (`Later`), and the bucket that is evicted is full;
- `CeilingCorrect`, from `CeilingInv`: what a client has spent and what it could
  spend now stay within its capacity and what time has refilled. `ClientCeiling` alone is
  not inductive: it does not say what an evicted client may still spend;
- `SlotCorrect` and `TelemetryCorrect`, the latter by the cardinalities of the sets of
  requests that ended in each way.

`DevToolsProofs` proves, for any suites, texts, adapters, teachers, judges and flags:

- `ReportTellsTruthCorrect`, from `LoopInv`: besides the type, that the number of compiles shows in what is
  at the path (`CompilesShow`), and that a loop which gave up had a reason that still stands
  (`StuckForAReason`);
- `LabelsStandCorrect`: `LabelsStand` is inductive with `LoopInv`, by lemmas on what a merge of examples keeps (`Kept`,
  `Distinct`: the places of a sequence that stay, in order);
- `StubsCorrect`, `ZeroMeansMeasuredCorrect` and `TalliesAddUpCorrect` from `StubsInv`, `MeasuredInv` and `FilesInv`, which say what
  each file that one command leaves for the next holds; the counts by the cardinalities of sets of rows;

for any jobs, keys, drainers and queue length:

- `DrainTellsTruthCorrect`, from `DrainInv`: what is pending of a key is the number of its jobs between `CountJob` and
  `Finish` or `Drop`, and a waiter that has seen none pending was there after what it waits for;

for any targets, modules, copies, command lines, answers of pytest and number of runs:

- `OwnMutantOnlyCorrect`, from `MutationInv`: `Exclusive` says that no two jobs hold one copy and that an idle one is held by none, and
  `CopiesOfRun` what is in every copy: the repository, or one mutant of the job that holds it and what it has read to restore it;
- `RatchetTellsTruthCorrect`, from `VerdictsSound` and `Truth`: what each verdict says of how the tests of the job have ended,
  which survives its replacement in phase 2, and that every job is a survivor, was caught, or is among the errors and timeouts that keep a baseline from
  being written and a comparison from ending with 0;

and for any models, threads, loads, calls and budgets:

- `EnforcedOrWarnedCorrect`: a quantifier whose first repetition is written apart has the bounds that were declared
  (`LengthsRendered`) and keeps them as read back (`KeptReadBack`), the ends of a range that renders are the strictest ones declared (`RangesRendered`), models of one fingerprint
  declare the same (`SameFieldsDeclare`), and the grammar of a load was compiled for one of them (`LoaderInv`), with its
  warnings out;
- `CachedIsFreshCorrect`, under `TypesTell`: types with one fingerprint are of one kind and render to the same. That is a statement about
  `FieldGrammar`, which is recursive; the run evaluates it of its models (`MCDevTools`). It excludes nested models that differ
  in the type of a number only (see above);
- `CountShowsFailureCorrect`: between a read of the counter and its write other threads may have counted,
  but what is written is positive.

Assumptions are the named `ASSUME`s of the modules, and all runs evaluate them: finiteness of the workers,
positive cap and threshold, disjoint threads. The ones with more to say are what other code sees to:
`SuiteAssumption` (equal texts are equivalent, and texts equivalent with their quotes are so without), `LoopAssumption` (suites are what
the models of `suite.py` accept, `LegalSuite`; a dataset has inputs and labels that are texts, `LegalData`; an adapter's output is not by chance the text
`[EXECUTION_ERROR]` that stands for a call that raised), `DrainAssumption` (finitely many jobs), `StoreAssumption` (a process has the file open only
after it has migrated it) and `FieldAssumption` (Pydantic refuses a negative length and a pattern on an
`int`). The type invariants and the strengthenings are proved and no run repeats them.

Model-checked only: the liveness properties (`CompileSettles`, `Moves`, `AnswerReady`, `PermitsComeBack`, `CallEnds`, `RequestsEnd`), which
are not in the prover's reach. Every other property of a passing run is a theorem. Of the modules, `Matching` and `FieldGrammar` define
functions over nested values with `RECURSIVE`, which the prover cannot take; the theorems hold for any `Equivalent`
and `Unquoted` that satisfy `SuiteAssumption`, and any `RegexesIn`, `KeysIn` and so on.

## 5. Not modelled, and the plan

Every property of a passing run but the liveness ones is a theorem. What is left to do is to model more: the
mock backend's table of adapters and the remaining commands that write files.

Not modelled, and why:

- *Text*: the translation of a `pattern=` into a regular expression (a third-party parser's tree
  to text), Docker files, prompts, the wording of rates and reports, the parsing of suites, manifests and verdicts.
  A model of these would be their program again.
- *Printing commands* (`inspect`, `history`, `lint-spec`, `report`, `export-*`, `demo`, `doctor`,
  `serve`, `clean`): they read, show, or start what is modelled elsewhere. `doctor.py` and
  `speclint.py` are heuristics without state.
- *Third-party behaviour behind a call*: the decoder that applies a grammar (`constraint.py` hands it
  the regex), SQLite's own locking and recovery, the compile service beyond what its client sees.
- *Pure functions whose outcome is a choice in a model*: `agreement.py` (any verdict in `ShadowRunner`), argument
  resolution and `pathsafety.py`.
- *The mock backend*, a test double. Reading it, one race was seen: `infer` puts an adapter it read from disk into its
  table without looking again, and so over one compiled meanwhile.
- *Scripts* under `scripts/` and the measurements.
- File modes, status listeners, redaction and task identity in `decorator.py`, CORS, environment parsing and
  latencies in `server.py`, visibility checks and example folding in `programasweights.py`, parent pointers in
  `manifest_lineage.py`.
