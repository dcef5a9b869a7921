---------------------------- MODULE JitLifecycle ----------------------------
(***************************************************************************)
(* The life of one @compile_on_hit task in a traces.db shared by several    *)
(* processes: the calls of the decorated function (jit/decorator.py), the   *)
(* compile workers they start (jit/compiler.py), the compile lease that      *)
(* recovers a task whose compiling process died, crashes and restarts of a   *)
(* process, and a database call that raises at any point.                   *)
(*                                                                         *)
(* A step is one database call of one thread with the local code that        *)
(* follows it; threads interleave between database calls.                   *)
(***************************************************************************)
EXTENDS TraceDB, FiniteSets

CONSTANTS
  Proc,            \* processes that decorate the same task
  Caller,          \* threads that call the decorated function
  Worker,          \* threads a process may run a compile on (bound)
  ProcOf,          \* the process of each caller and worker
  NoCaller,
  ConfigOf,        \* the persisted shadow configuration each process uses
  ShadowProc,      \* the processes decorated with shadow_window > 0
  SyncProc,        \* the processes decorated with sync_compile=True
  LiveProc,        \* the processes that are restarted and keep being called
  LeaseCoversCompile, \* TRUE: no compile outlives _COMPILE_LEASE_SECONDS
  MaxEpoch,        \* bound: no promotion or demotion from this epoch on
  MaxCrashes       \* bound on the crashes of a behaviour

Thread == Caller \union Worker

ASSUME LifecycleAssumption ==
  /\ IsFiniteSet(Worker)
  /\ Caller \cap Worker = {}
  /\ NoCaller \notin Caller
  /\ ProcOf \in [Thread -> Proc]
  /\ ConfigOf \in [Proc -> Configs]
  /\ ShadowProc \subseteq Proc
  /\ SyncProc \subseteq Proc
  /\ LiveProc \subseteq Proc
  /\ LeaseCoversCompile \in BOOLEAN
  /\ MaxEpoch \in Nat
  /\ MaxCrashes \in Nat

VARIABLES
  row,       \* the task's row, shared by every process
  up,        \* up[p]: p is running and has decorated the function
  caller,    \* caller[c]: where the call is, and the routing it has read
  worker,    \* worker[w]: where the compile is, and what it has read
  paid,      \* history: how many times backend.compile was invoked
  crashes    \* history: how many processes have died

vars == <<row, up, caller, worker, paid, crashes>>

RoutingSet == [status : Status, adapter : BOOLEAN, epoch : Nat]

CallerPC == {"idle", "rescue", "reroute", "serve", "teach", "record", "check",
             "reclaim", "recheck", "trigger", "wait", "escaped"}

WorkerPC == {"off", "traces", "compile", "commit", "failRead", "failBump",
             "failSettle"}

IdleCaller == [pc |-> "idle", route |-> NoRouting]

\* `before` and `attempts` are the locals of the except branch.
IdleWorker == [pc |-> "off", waiter |-> NoCaller, before |-> 0, attempts |-> 0]

TypeOK ==
  /\ row \in Row
  /\ up \in [Proc -> BOOLEAN]
  /\ caller \in [Caller -> [pc : CallerPC, route : RoutingSet]]
  /\ worker \in [Worker -> [pc : WorkerPC, waiter : Caller \union {NoCaller},
                            before : Nat, attempts : Nat]]
  /\ paid \in Nat
  /\ crashes \in Nat

Init ==
  /\ row = NewRow
  /\ up = [p \in Proc |-> FALSE]
  /\ caller = [c \in Caller |-> IdleCaller]
  /\ worker = [w \in Worker |-> IdleWorker]
  /\ paid = 0
  /\ crashes = 0

-----------------------------------------------------------------------------
(* Processes. *)

\* Decoration: shadow_window > 0 reconciles the persisted configuration, and
\* a database that raises there is ignored.
Start(p) ==
  /\ ~up[p]
  /\ up' = [up EXCEPT ![p] = TRUE]
  /\ \/ row' = IF p \in ShadowProc THEN SyncShadowConfig(row, ConfigOf[p]) ELSE row
     \/ row' = row
  /\ UNCHANGED <<caller, worker, paid, crashes>>

\* The process dies: its callers, its compile threads (daemons) with it.
Crash(p) ==
  /\ up[p]
  /\ crashes < MaxCrashes
  /\ crashes' = crashes + 1
  /\ up' = [up EXCEPT ![p] = FALSE]
  /\ caller' = [c \in Caller |-> IF ProcOf[c] = p THEN IdleCaller ELSE caller[c]]
  /\ worker' = [w \in Worker |-> IF ProcOf[w] = p THEN IdleWorker ELSE worker[w]]
  /\ UNCHANGED <<row, paid>>

-----------------------------------------------------------------------------
(* One call of the decorated function. *)

CallerAt(c, pc) == up[ProcOf[c]] /\ caller[c].pc = pc

Goto(c, pc) == caller' = [caller EXCEPT ![c].pc = pc]
Return(c)   == caller' = [caller EXCEPT ![c] = IdleCaller]

\* Step 1 and the branch of step 2, on one routing read.
RouteOn(c, route) ==
  caller' = [caller EXCEPT ![c] =
    [pc |-> IF route.status = "ready" /\ route.adapter THEN "serve" ELSE "teach",
     route |-> route]]

NeedsRescue(c, route) ==
  /\ ProcOf[c] \notin ShadowProc
  /\ route.status = "shadow"
  /\ route.adapter

Call(c) ==
  /\ CallerAt(c, "idle")
  /\ LET route == Routing(row)
     IN IF NeedsRescue(c, route)
        THEN caller' = [caller EXCEPT ![c] = [pc |-> "rescue", route |-> route]]
        ELSE RouteOn(c, route)
  /\ UNCHANGED <<row, up, worker, paid, crashes>>

\* The escape hatch: shadow_window = 0 promotes a task left in shadow, on the
\* epoch it was read at, and the routing is read again.
Rescue(c) ==
  /\ CallerAt(c, "rescue")
  /\ row' = IF CanPromote(row, caller[c].route.epoch) THEN Promote(row) ELSE row
  /\ Goto(c, "reroute")
  /\ UNCHANGED <<up, worker, paid, crashes>>

Reroute(c) ==
  /\ CallerAt(c, "reroute")
  /\ RouteOn(c, Routing(row))
  /\ UNCHANGED <<row, up, worker, paid, crashes>>

\* Step 2: the adapter answers, or the wrapped function does (fail-open); the
\* call ends here either way and leaves no trace.
Serve(c) ==
  /\ CallerAt(c, "serve")
  /\ Return(c)
  /\ UNCHANGED <<row, up, worker, paid, crashes>>

\* Step 3: the wrapped function answers, or raises into its own caller.
TeacherAnswers(c) ==
  /\ CallerAt(c, "teach")
  /\ Goto(c, "record")
  /\ UNCHANGED <<row, up, worker, paid, crashes>>

TeacherRaises(c) ==
  /\ CallerAt(c, "teach")
  /\ Return(c)
  /\ UNCHANGED <<row, up, worker, paid, crashes>>

\* Steps 4 and 5 and the gate of step 6.
CallRecordTrace(c) ==
  /\ CallerAt(c, "record")
  /\ row' = RecordTrace(row)
  /\ IF row'.calls >= Threshold THEN Goto(c, "check") ELSE Return(c)
  /\ UNCHANGED <<up, worker, paid, crashes>>

\* Step 6: a fresh status read, not the routing snapshot.
Check(c) ==
  /\ CallerAt(c, "check")
  /\ CASE row.status = "compiling" -> Goto(c, "reclaim")
       [] row.status = "tracing"   -> Goto(c, "trigger")
       [] OTHER                    -> Return(c)
  /\ UNCHANGED <<row, up, worker, paid, crashes>>

CallReclaim(c) ==
  /\ CallerAt(c, "reclaim")
  /\ IF CanReclaim(row)
     THEN row' = Reclaim(row) /\ Goto(c, "recheck")
     ELSE row' = row /\ Return(c)
  /\ UNCHANGED <<up, worker, paid, crashes>>

Recheck(c) ==
  /\ CallerAt(c, "recheck")
  /\ IF row.status = "tracing" THEN Goto(c, "trigger") ELSE Return(c)
  /\ UNCHANGED <<row, up, worker, paid, crashes>>

\* trigger_compilation: the compare-and-set, then a thread of its own or, with
\* sync_compile, the caller's thread.
Trigger(c) ==
  /\ CallerAt(c, "trigger")
  /\ IF ~CanBeginCompile(row)
     THEN /\ Return(c)
          /\ UNCHANGED <<row, worker>>
     ELSE /\ row' = BeginCompile(row)
          /\ \E w \in Worker :
               /\ ProcOf[w] = ProcOf[c]
               /\ worker[w].pc = "off"
               /\ worker' = [worker EXCEPT ![w].pc = "traces",
                               ![w].waiter = IF ProcOf[c] \in SyncProc THEN c ELSE NoCaller]
          /\ IF ProcOf[c] \in SyncProc THEN Goto(c, "wait") ELSE Return(c)
  /\ UNCHANGED <<up, paid, crashes>>

\* An exception of the library, not of the wrapped function, has reached the
\* program that made the call.
Escape(c) ==
  /\ CallerAt(c, "escaped")
  /\ Return(c)
  /\ UNCHANGED <<row, up, worker, paid, crashes>>

\* The database call of the step raises; each step has its own handler, and
\* trigger_compilation has none.
CallFault(c) ==
  /\ \/ CallerAt(c, "idle")    /\ RouteOn(c, NoRouting)
     \/ CallerAt(c, "rescue")  /\ Goto(c, "reroute")
     \/ CallerAt(c, "reroute") /\ RouteOn(c, NoRouting)
     \/ /\ \E pc \in {"record", "check", "reclaim", "recheck"} : CallerAt(c, pc)
        /\ Return(c)
     \/ CallerAt(c, "trigger") /\ Goto(c, "escaped")
  /\ UNCHANGED <<row, up, worker, paid, crashes>>

-----------------------------------------------------------------------------
(* The compile worker. *)

WorkerGoto(w, pc) == worker' = [worker EXCEPT ![w].pc = pc]

\* The worker ends; with sync_compile its caller goes on, at `pc`.
WorkerEnds(w, pc) ==
  /\ worker' = [worker EXCEPT ![w] = IdleWorker]
  /\ caller' = IF worker[w].waiter = NoCaller THEN caller
               ELSE [caller EXCEPT ![worker[w].waiter] = [IdleCaller EXCEPT !.pc = pc]]

\* get_traces, and backend.compile is invoked.
GetTraces(w) ==
  /\ worker[w].pc = "traces"
  /\ WorkerGoto(w, "compile")
  /\ paid' = paid + 1
  /\ UNCHANGED <<row, up, caller, crashes>>

\* backend.compile returns a path or raises.
Compiled(w) ==
  /\ worker[w].pc = "compile"
  /\ WorkerGoto(w, "commit") \/ WorkerGoto(w, "failRead")
  /\ UNCHANGED <<row, up, caller, paid, crashes>>

CommitRow(w) == IF ProcOf[w] \in ShadowProc THEN ShadowStarted(row) ELSE ReadyFromCompile(row)

Commit(w) ==
  /\ worker[w].pc = "commit"
  /\ row' = CommitRow(w)
  /\ WorkerEnds(w, "idle")
  /\ UNCHANGED <<up, paid, crashes>>

\* The except branch: three database calls.
FailRead(w) ==
  /\ worker[w].pc = "failRead"
  /\ worker' = [worker EXCEPT ![w].pc = "failBump", ![w].before = row.attempts]
  /\ UNCHANGED <<row, up, caller, paid, crashes>>

FailBump(w) ==
  /\ worker[w].pc = "failBump"
  /\ row' = IncrementAttempts(row)
  /\ worker' = [worker EXCEPT ![w].pc = "failSettle", ![w].attempts = row.attempts + 1]
  /\ UNCHANGED <<up, caller, paid, crashes>>

\* Faulty: retries without a cap.
SettleWithoutCap(w) ==
  IF worker[w].attempts > worker[w].before THEN "tracing" ELSE "failed"

\* A counter that did not advance, or reached the cap, makes the task failed.
SettleStatus(w) ==
  IF worker[w].attempts > worker[w].before /\ worker[w].attempts < MaxAttempts
  THEN "tracing" ELSE "failed"

FailSettle(w) ==
  /\ worker[w].pc = "failSettle"
  /\ row' = SetStatus(row, SettleStatus(w))
  /\ WorkerEnds(w, "idle")
  /\ UNCHANGED <<up, paid, crashes>>

\* A database call of the worker raises: inside the try it leads to the except
\* branch; inside the except branch it ends the worker, and with sync_compile
\* it reaches the caller.  (A write that has committed raises only when the
\* transition it recorded is the 50th of the process, `_after_transition_write`;
\* a compile is among the first few.)
WorkerFault(w) ==
  /\ \/ worker[w].pc \in {"traces", "commit"} /\ WorkerGoto(w, "failRead") /\ caller' = caller
     \/ worker[w].pc \in {"failRead", "failBump", "failSettle"} /\ WorkerEnds(w, "escaped")
  /\ UNCHANGED <<row, up, paid, crashes>>

-----------------------------------------------------------------------------
(* What happens around the calls. *)

NoWorkerRuns == \A w \in Worker : worker[w].pc = "off"

\* The lease is younger than _COMPILE_LEASE_SECONDS for as long as a compile
\* can take when LeaseCoversCompile; otherwise it may expire under one.
LeaseExpires ==
  /\ row.lease = "fresh"
  /\ LeaseCoversCompile => NoWorkerRuns
  /\ row' = [row EXCEPT !.lease = "stale"]
  /\ UNCHANGED <<up, caller, worker, paid, crashes>>

\* The shadow worker of a process moves the task (module ShadowRunner says
\* when); its compare-and-set names an epoch, and any other is a no-op.
ShadowVerdict(p) ==
  /\ up[p] /\ p \in ShadowProc
  /\ row.epoch < MaxEpoch
  /\ \E e \in {row.epoch} :
       \/ CanPromote(row, e) /\ row' = Promote(row)
       \/ CanDemote(row, e) /\ row' = Demote(row)
  /\ UNCHANGED <<up, caller, worker, paid, crashes>>

CallerStep(c) ==
  \/ Call(c) \/ Rescue(c) \/ Reroute(c) \/ Serve(c) \/ TeacherAnswers(c)
  \/ CallRecordTrace(c) \/ Check(c) \/ CallReclaim(c) \/ Recheck(c)
  \/ Trigger(c) \/ Escape(c)

WorkerStep(w) ==
  \/ GetTraces(w) \/ Compiled(w) \/ Commit(w)
  \/ FailRead(w) \/ FailBump(w) \/ FailSettle(w)

Next ==
  \/ \E p \in Proc : Start(p) \/ Crash(p) \/ ShadowVerdict(p)
  \/ \E c \in Caller : CallerStep(c) \/ TeacherRaises(c) \/ CallFault(c)
  \/ \E w \in Worker : WorkerStep(w) \/ WorkerFault(w)
  \/ LeaseExpires

Spec == Init /\ [][Next]_vars

\* What the liveness property assumes: LiveProc is restarted and called for
\* ever, its wrapped function and each of its database calls succeed now and
\* then, a compile returns or raises, and time passes for a compile nobody runs.
Fairness ==
  /\ \A p \in LiveProc : WF_vars(Start(p))
  /\ \A c \in {d \in Caller : ProcOf[d] \in LiveProc} :
       /\ WF_vars(CallerStep(c))
       /\ SF_vars(TeacherAnswers(c))
       /\ SF_vars(CallRecordTrace(c))
       /\ SF_vars(Check(c))
       /\ SF_vars(CallReclaim(c))
       /\ SF_vars(Recheck(c))
       /\ SF_vars(Trigger(c))
  /\ \A w \in Worker : WF_vars(WorkerStep(w))
  /\ WF_vars(LeaseExpires)

FairSpec == Spec /\ Fairness

-----------------------------------------------------------------------------
(* Properties. *)

\* A task buys at most MaxAttempts compiles in its life, however many
\* processes cross the threshold together, die while compiling, have their
\* lease reclaimed, or settle late (compiler.py, _MAX_COMPILE_ATTEMPTS).
CompileBound == paid <= MaxAttempts

\* The workers that may still invoke the backend or hand the task back to
\* `tracing`, where the next call invokes it.
Owes(w) ==
  \/ worker[w].pc = "traces"
  \/ worker[w].pc = "failSettle" /\ SettleStatus(w) = "tracing"
Owing == {w \in Worker : Owes(w)}

\* Why CompileBound holds: every compile bought, owed, or on offer (the task
\* is in `tracing`) but the first was earned by one increment of
\* compile_attempts to a value below the cap.
Earned == IF row.attempts < MaxAttempts THEN 1 + row.attempts ELSE MaxAttempts
CompileCredit ==
  paid + Cardinality(Owing) + (IF row.status = "tracing" THEN 1 ELSE 0) <= Earned

\* An epoch names one state of the task: what a call read with the epoch that
\* is still current is still true, so a compare-and-set on the epoch acts on
\* the status and the adapter the call was routed on (db.py try_promote).
EpochNamesRouting ==
  \A c \in Caller :
    /\ caller[c].route.epoch <= row.epoch
    /\ caller[c].route.epoch = row.epoch => caller[c].route = Routing(row)

\* While no compile outlives its lease, one compile runs at a time in all the
\* processes together, and the unconditional writes it may end with find the
\* task still `compiling` under the lease it began with (compiler.py, _worker).
OneCompile ==
  LeaseCoversCompile =>
    /\ \A v, w \in Worker : worker[v].pc # "off" /\ worker[w].pc # "off" => v = w
    /\ \A w \in Worker : worker[w].pc # "off" => row.status = "compiling" /\ row.lease = "fresh"

\* While no compile outlives its lease, what its compiles have settled stays: a task
\* that has an adapter keeps it, and only moves between shadow and ready; and `failed`
\* is terminal (docs/shadow-mode.md, States).
SettledStays ==
  [][LeaseCoversCompile =>
       /\ row.status \in {"shadow", "ready"} => row'.status \in {"shadow", "ready"} /\ row'.adapter
       /\ row.status = "failed" => row'.status = "failed"]_row

\* A task that has reached the threshold gets its adapter or fails for good,
\* through compiles that raise, workers that die and calls that fault.
CompileSettles ==
  row.calls >= Threshold ~> row.status \in {"shadow", "ready", "failed"}

-----------------------------------------------------------------------------
(* What the repository says and the code does not do. *)

\* tests/test_jit_fail_open.py: a trace-DB fault must "never raise into the
\* caller".
NoFaultEscapes == \A c \in Caller : caller[c].pc # "escaped"
=============================================================================
