---------------------------- MODULE ShadowRunner ----------------------------
(***************************************************************************)
(* The promotion and demotion of a compiled adapter: each process compares   *)
(* the adapter with the wrapped function on the worker thread of its         *)
(* ShadowRunner (jit/shadow.py), records each comparison in the              *)
(* `shadow_pairs` table all processes share (jit/db.py), and scores it one   *)
(* window at a time.                                                         *)
(*                                                                         *)
(* The task starts here in shadow or ready, where JitLifecycle hands it over; *)
(* until it leaves the two only the actions below write its row.  A step is  *)
(* one database call of one thread with the local code that follows it.      *)
(*                                                                         *)
(* `pairs` is every row ever inserted, in insertion order, and the table is  *)
(* its suffix after the first `pruned` rows: retention only ever deletes the *)
(* oldest.  The counts that retention loses stay visible to the properties.  *)
(***************************************************************************)
EXTENDS TraceDB, Sequences, FiniteSets

CONSTANTS
  Proc,          \* processes that decorate the task
  Caller,        \* threads that call the decorated function
  ProcOf,        \* the process of each caller
  ConfigOf,      \* the shadow configuration each process uses
  ShadowWindow, AuditWindow,  \* the windows of each configuration
  PromoteAt,     \* agreements in a shadow window that promote, per configuration
  DemoteBelow,   \* agreements in an audit window below which to demote
  StallFactor,   \* db.py _SHADOW_STALL_FACTOR
  MaxPairs,      \* shadow_max_pairs
  PruneEvery,    \* db.py _prune_interval(MaxPairs)
  QueueSize,     \* shadow_queue_size
  World          \* [callers, outcomes, recorded, restarts, faults]: who calls, the
                 \* verdicts a comparison of each phase may have, and bounds on the
                 \* comparisons, the restarts and the database calls that raise

\* An error of the adapter counts like a disagreement.  "excluded" is
\* teacher_error or pool_exhausted: recorded, and never counted.
Verdict == {"agree", "disagree", "excluded"}

\* _validate_shadow_params, of a configuration that has a shadow mode: its thresholds
\* are reached by some number of agreements, no rate that demotes would promote, and two
\* windows are retained.
ValidParams(config) ==
  /\ PromoteAt[config] \in 1..ShadowWindow[config]
  /\ DemoteBelow[config] \in 0..AuditWindow[config]
  /\ \A agreements \in 0..AuditWindow[config] :
       agreements < DemoteBelow[config] =>
         agreements * ShadowWindow[config] < PromoteAt[config] * AuditWindow[config]
  /\ MaxPairs >= 2 * ShadowWindow[config]
  /\ MaxPairs >= 2 * AuditWindow[config]

ASSUME ShadowAssumption ==
  /\ ProcOf \in [Caller -> Proc]
  /\ ConfigOf \in [Proc -> Configs]
  /\ ShadowWindow \in [Configs -> Nat \ {0}]
  /\ AuditWindow \in [Configs -> Nat \ {0}]
  /\ PromoteAt \in [Configs -> Nat]
  /\ DemoteBelow \in [Configs -> Nat]
  /\ StallFactor \in Nat \ {0}
  /\ MaxPairs \in Nat
  /\ \A config \in Configs : ValidParams(config)
  /\ PruneEvery \in Nat \ {0}
  /\ QueueSize \in Nat \ {0}
  /\ World \subseteq [callers : SUBSET Caller, outcomes : [{"shadow", "audit"} -> SUBSET Verdict],
                      recorded : Nat, restarts : Nat, faults : Nat]

VARIABLES
  row,       \* the task's row
  pairs,     \* every comparison inserted into shadow_pairs
  pruned,    \* how many of the oldest have been deleted
  caller,    \* caller[c]: the routing a call is being served on
  queue,     \* queue[p]: the bounded queue of the process's worker
  worker,    \* worker[p]: where the worker is, its job and its seq
  scored,    \* scored[p]: _windows_scored, a dict of epochs
  seqCache,  \* seqCache[p]: _seq_cache, a dict of epochs
  clock,     \* clock[p]: TraceDB._shadow_pair_writes, modulo PruneEvery
  drawn,     \* history: windows each process evaluated since it started, by epoch
  restarts, faults,  \* history
  world      \* for good

local == <<queue, worker, scored, seqCache, clock, drawn>>
vars  == <<row, pairs, pruned, caller, local, restarts, faults, world>>

Uses(p) == \E c \in world.callers : ProcOf[c] = p

-----------------------------------------------------------------------------
(* Dicts with a default, keyed by epoch. *)

NoEntries == [e \in {} |-> 0]
Lookup(d, e, default) == IF e \in DOMAIN d THEN d[e] ELSE default
Store(d, e, v) == [x \in DOMAIN d \union {e} |-> IF x = e THEN v ELSE d[x]]
DropOlder(d, e) == [x \in {y \in DOMAIN d : y >= e} |-> d[x]]
MaxOf(a, b) == IF a >= b THEN a ELSE b

-----------------------------------------------------------------------------
(* The shadow_pairs table. *)

\* Rows are named by their position in `pairs`.
Retained == (pruned + 1)..Len(pairs)

AtEpoch(rows, e)   == {i \in rows : pairs[i].epoch = e}
Countable(rows)    == {i \in rows : pairs[i].verdict # "excluded"}
Newest(rows, n)    == {i \in rows : Cardinality({j \in rows : j > i}) < n}
Agreements(rows)   == Cardinality({i \in rows : pairs[i].verdict = "agree"})

\* get_epoch_seq: MAX(seq) over the retained rows of the epoch, or 0.
EpochSeq(e) ==
  LET seqs == {pairs[i].seq : i \in AtEpoch(Retained, e)} \union {0}
  IN CHOOSE s \in seqs : \A t \in seqs : t <= s

\* get_agreement_stats: the newest `window` countable comparisons.  The epoch
\* has one phase: it names one status of the task.
Stats(e, window) == Newest(Countable(AtEpoch(Retained, e)), window)

\* It raises when a full window was recorded and no longer is retained.
StatsRaise(e, window) == EpochSeq(e) >= window /\ Cardinality(Stats(e, window)) < window

-----------------------------------------------------------------------------
(* Jobs. *)

Phase == {"shadow", "audit", "fail_open"}
Job == [epoch : Nat, phase : Phase]
NoJob == [epoch |-> 0, phase |-> "fail_open"]

\* submit_fail_open: for the counter of the task, whatever its epoch.
FailOpenJob == [epoch |-> 0, phase |-> "fail_open"]

WindowOf(p, phase) ==
  IF phase = "shadow" THEN ShadowWindow[ConfigOf[p]] ELSE AuditWindow[ConfigOf[p]]

IdleWorker == [pc |-> "idle", job |-> NoJob, seq |-> 0]
IdleCaller == [pc |-> "idle", route |-> NoRouting]

TypeOK ==
  /\ row \in Row
  /\ pairs \in Seq([epoch : Nat, verdict : Verdict, seq : Nat])
  /\ pruned \in 0..Len(pairs)
  /\ caller \in [Caller -> [pc : {"idle", "routed"},
                            route : [status : Status, adapter : BOOLEAN, epoch : Nat]]]
  /\ queue \in [Proc -> Seq(Job)]
  /\ \A p \in Proc : Len(queue[p]) <= QueueSize
  /\ worker \in [Proc -> [pc : {"idle", "compare", "prune", "score", "move"},
                          job : Job, seq : Nat]]
  /\ \A d \in UNION {{scored[p], seqCache[p], drawn[p]} : p \in Proc} :
       \A e \in DOMAIN d : e \in Nat /\ d[e] \in Nat
  /\ clock \in [Proc -> 0..(PruneEvery - 1)]
  /\ restarts \in Nat /\ faults \in Nat

Init ==
  /\ world \in World
  /\ \E s \in {"shadow", "ready"}, c \in world.callers :
       row = [NewRow EXCEPT !.status = s, !.adapter = TRUE, !.config = ConfigOf[ProcOf[c]]]
  /\ pairs = <<>>
  /\ pruned = 0
  /\ caller = [c \in Caller |-> IdleCaller]
  /\ queue = [p \in Proc |-> <<>>]
  /\ worker = [p \in Proc |-> IdleWorker]
  /\ scored = [p \in Proc |-> NoEntries]
  /\ seqCache = [p \in Proc |-> NoEntries]
  /\ clock = [p \in Proc |-> 0]
  /\ drawn = [p \in Proc |-> NoEntries]
  /\ restarts = 0
  /\ faults = 0

-----------------------------------------------------------------------------
(* Processes. *)

\* The process ends, losing its queue and everything ShadowRunner keeps, and a
\* new one decorates the function: a changed configuration is a new epoch.
Restart(p) ==
  /\ Uses(p) /\ restarts < world.restarts
  /\ restarts' = restarts + 1
  /\ row' = SyncShadowConfig(row, ConfigOf[p])
  /\ caller' = [c \in Caller |-> IF ProcOf[c] = p THEN IdleCaller ELSE caller[c]]
  /\ queue' = [queue EXCEPT ![p] = <<>>]
  /\ worker' = [worker EXCEPT ![p] = IdleWorker]
  /\ scored' = [scored EXCEPT ![p] = NoEntries]
  /\ seqCache' = [seqCache EXCEPT ![p] = NoEntries]
  /\ clock' = [clock EXCEPT ![p] = 0]
  /\ drawn' = [drawn EXCEPT ![p] = NoEntries]
  /\ UNCHANGED <<pairs, pruned, faults, world>>

-----------------------------------------------------------------------------
(* Calls (decorator.py, wrapper). *)

Route(c) ==
  /\ c \in world.callers /\ caller[c].pc = "idle"
  /\ caller' = [caller EXCEPT ![c] = [pc |-> "routed", route |-> Routing(row)]]
  /\ UNCHANGED <<row, pairs, pruned, local, restarts, faults, world>>

\* Submit: the newest job is dropped when the queue is full.
Enqueue(p, job) ==
  queue' = IF Len(queue[p]) < QueueSize THEN [queue EXCEPT ![p] = Append(@, job)] ELSE queue

\* The call ends: in shadow it submits its comparison; in ready it may submit
\* one (audit_rate), or report that the adapter failed.
Submit(c, phase) ==
  /\ caller[c].pc = "routed"
  /\ phase \in IF caller[c].route.status = "shadow" THEN {"shadow"} ELSE {"audit", "fail_open"}
  /\ Enqueue(ProcOf[c], IF phase = "fail_open" THEN FailOpenJob
                        ELSE [epoch |-> caller[c].route.epoch, phase |-> phase])
  /\ caller' = [caller EXCEPT ![c] = IdleCaller]
  /\ UNCHANGED <<row, pairs, pruned, worker, scored, seqCache, clock, drawn, restarts, faults, world>>

\* The wrapped function raises, or the served call is not sampled.
EndUnsampled(c) ==
  /\ caller[c].pc = "routed"
  /\ caller' = [caller EXCEPT ![c] = IdleCaller]
  /\ UNCHANGED <<row, pairs, pruned, local, restarts, faults, world>>

-----------------------------------------------------------------------------
(* The worker of a process. *)

At(p, pc) == worker[p].pc = pc
WorkerIdle(p) == worker' = [worker EXCEPT ![p] = IdleWorker]

\* The job's window is not counted any more (_stall_throttled).
Stalled(p, job, seq) ==
  job.phase = "shadow" /\ seq >= StallFactor * WindowOf(p, "shadow")

\* _run_job up to the comparison, on the sequence number `seq` that
\* _current_seq found: local state of older epochs is dropped, and a stalled
\* comparison is sampled, so it may be skipped.
Begin(p, job, seq) ==
  /\ scored' = [scored EXCEPT ![p] = DropOlder(@, job.epoch)]
  /\ seqCache' = [seqCache EXCEPT ![p] =
       IF job.phase = "shadow" THEN Store(DropOlder(@, job.epoch), job.epoch, seq)
                               ELSE DropOlder(@, job.epoch)]
  /\ \/ worker' = [worker EXCEPT ![p] = [pc |-> "compare", job |-> job, seq |-> 0]]
     \/ Stalled(p, job, seq) /\ WorkerIdle(p)

Take(p) ==
  /\ At(p, "idle") /\ queue[p] # <<>>
  /\ queue' = [queue EXCEPT ![p] = Tail(@)]
  /\ LET job == Head(queue[p])
     IN IF job.phase = "fail_open"
        THEN UNCHANGED <<scored, seqCache, worker>>
        ELSE Begin(p, job, Lookup(seqCache[p], job.epoch, EpochSeq(job.epoch)))
  /\ UNCHANGED <<row, pairs, pruned, caller, clock, drawn, restarts, faults, world>>

\* Faulty: a window slides, being due at every comparison; a window is due past
\* the stall point.
DueSliding(p, job, seq) ==
  LET window == WindowOf(p, job.phase)
  IN seq >= window /\ ~(job.phase = "shadow" /\ seq > StallFactor * window)
DueUnstalled(p, job, seq) ==
  seq > 0 /\ seq >= (Lookup(scored[p], job.epoch, 0) + 1) * WindowOf(p, job.phase)

\* _maybe_transition up to its read of the statistics.
Due(p, job, seq) ==
  LET window == WindowOf(p, job.phase)
  IN /\ seq > 0
     /\ seq >= (Lookup(scored[p], job.epoch, 0) + 1) * window
     /\ ~(job.phase = "shadow" /\ seq > StallFactor * window)

\* record_shadow_pair has returned `seq`.
Recorded(p, seq) ==
  LET job == worker[p].job
  IN /\ seqCache' = IF seq > 0 THEN [seqCache EXCEPT ![p] = Store(@, job.epoch, seq)]
                               ELSE seqCache
     /\ IF Due(p, job, seq)
        THEN worker' = [worker EXCEPT ![p].pc = "score", ![p].seq = seq]
        ELSE WorkerIdle(p)

\* The comparison has its verdict and is inserted.
Record(p) ==
  /\ At(p, "compare")
  /\ Len(pairs) < world.recorded
  /\ \E v \in world.outcomes[worker[p].job.phase] :
       LET seq == IF v = "excluded" THEN 0 ELSE EpochSeq(worker[p].job.epoch) + 1
       IN /\ pairs' = Append(pairs, [epoch |-> worker[p].job.epoch, verdict |-> v, seq |-> seq])
          /\ clock' = [clock EXCEPT ![p] = (@ + 1) % PruneEvery]
          /\ IF clock[p] + 1 = PruneEvery
             THEN /\ worker' = [worker EXCEPT ![p].pc = "prune", ![p].seq = seq]
                  /\ UNCHANGED seqCache
             ELSE Recorded(p, seq)
  /\ UNCHANGED <<row, pruned, caller, queue, scored, drawn, restarts, faults, world>>

\* Retention keeps the newest MaxPairs rows of the task, whatever their epoch.
Prune(p) ==
  /\ At(p, "prune")
  /\ pruned' = MaxOf(pruned, IF Len(pairs) > MaxPairs THEN Len(pairs) - MaxPairs ELSE 0)
  /\ Recorded(p, worker[p].seq)
  /\ UNCHANGED <<row, pairs, caller, queue, scored, clock, drawn, restarts, faults, world>>

\* Faulty: both tests off by one.
PassesStrictly(p, phase, window) ==
  IF phase = "shadow" THEN Agreements(window) > PromoteAt[ConfigOf[p]]
                      ELSE Agreements(window) + 1 < DemoteBelow[ConfigOf[p]]

\* A full window moves the task when it passes the test of its phase.
Passes(p, phase, window) ==
  IF phase = "shadow" THEN Agreements(window) >= PromoteAt[ConfigOf[p]]
                      ELSE Agreements(window) < DemoteBelow[ConfigOf[p]]

\* The rest of _maybe_transition before the compare-and-set.  An unscorable
\* window leaves `scored` alone, so the next comparison tries again.
Score(p) ==
  /\ At(p, "score")
  /\ LET job    == worker[p].job
         window == WindowOf(p, job.phase)
         stats  == Stats(job.epoch, window)
         done   == Lookup(scored[p], job.epoch, 0)
     IN IF StatsRaise(job.epoch, window) \/ Cardinality(stats) # window
        THEN WorkerIdle(p) /\ UNCHANGED <<scored, drawn>>
        ELSE /\ scored' = [scored EXCEPT ![p] =
                  Store(@, job.epoch, MaxOf(done + 1, worker[p].seq \div window))]
             /\ drawn' = [drawn EXCEPT ![p] =
                  Store(@, job.epoch, Lookup(@, job.epoch, 0) + 1)]
             /\ IF Passes(p, job.phase, stats)
                THEN worker' = [worker EXCEPT ![p].pc = "move"]
                ELSE WorkerIdle(p)
  /\ UNCHANGED <<row, pairs, pruned, caller, queue, seqCache, clock, restarts, faults, world>>

\* Faulty: compares the status and not the epoch.
MovedOnStatus(job) ==
  CASE job.phase = "shadow" /\ row.status = "shadow" -> Promote(row)
    [] job.phase = "audit" /\ row.status = "ready"   -> Demote(row)
    [] OTHER -> row

\* try_promote or try_demote, on the epoch the job was routed at.
Moved(job) ==
  IF job.phase = "shadow"
  THEN IF CanPromote(row, job.epoch) THEN Promote(row) ELSE row
  ELSE IF CanDemote(row, job.epoch) THEN Demote(row) ELSE row

Move(p) ==
  /\ At(p, "move")
  /\ row' = Moved(worker[p].job)
  /\ WorkerIdle(p)
  /\ UNCHANGED <<pairs, pruned, caller, queue, scored, seqCache, clock, drawn, restarts, faults, world>>

\* A database call of the worker raises.  A sequence number that cannot be read
\* is taken for 0; every other fault ends the job, and one after the insert
\* leaves the row, one in the compare-and-set has spent the window.
WorkerFault(p) ==
  /\ faults < world.faults
  /\ faults' = faults + 1
  /\ \/ /\ At(p, "idle") /\ queue[p] # <<>>
        /\ Head(queue[p]).phase = "shadow"
        /\ Head(queue[p]).epoch \notin DOMAIN seqCache[p]
        /\ queue' = [queue EXCEPT ![p] = Tail(@)]
        /\ Begin(p, Head(queue[p]), 0)
     \/ /\ \E pc \in {"compare", "prune", "score", "move"} : At(p, pc)
        /\ WorkerIdle(p)
        /\ UNCHANGED <<queue, scored, seqCache>>
  /\ UNCHANGED <<row, pairs, pruned, caller, clock, drawn, restarts, world>>

CallerStep(c) == Route(c) \/ \E phase \in Phase : Submit(c, phase)
WorkerStep(p) == Take(p) \/ Record(p) \/ Prune(p) \/ Score(p) \/ Move(p)

Next ==
  \/ \E c \in Caller : CallerStep(c) \/ EndUnsampled(c)
  \/ \E p \in Proc : WorkerStep(p) \/ WorkerFault(p) \/ Restart(p)

Spec == Init /\ [][Next]_vars

\* The function keeps being called, a call is now and then sampled when the
\* queue has room, and the worker thread runs.
Accept(c, phase) == Len(queue[ProcOf[c]]) < QueueSize /\ Submit(c, phase)
Fairness ==
  /\ \A c \in Caller : WF_vars(Route(c)) /\ SF_vars(Accept(c, "shadow")) /\ SF_vars(Accept(c, "audit"))
  /\ \A p \in Proc : WF_vars(WorkerStep(p))

FairSpec == Spec /\ Fairness

-----------------------------------------------------------------------------
(* Properties. *)

\* What was ever counted at an epoch, retained or not, and its contiguous runs.
Compared(e) == Countable(AtEpoch(DOMAIN pairs, e))
Runs(e, n) ==
  {run \in SUBSET Compared(e) :
     /\ Cardinality(run) = n
     /\ \A i, k \in run : \A j \in Compared(e) : i < j /\ j < k => j \in run}

PhaseNow == IF row.status = "shadow" THEN "shadow" ELSE "audit"

\* The adapter starts or stops serving only on a full, contiguous window of
\* comparisons made at the very epoch the row is in, that passes the test of
\* some process: whatever was pruned, excluded, retried, submitted late, or
\* left in a queue across a transition (shadow.py, _maybe_transition).
MoveEarned ==
  [][row'.status # row.status =>
       \E p \in Proc : \E run \in Runs(row.epoch, WindowOf(p, PhaseNow)) :
         Passes(p, PhaseNow, run)]_row

\* In one life of a process the windows of the current epoch are evaluated at
\* most once each, retried boundaries and pruning included: an adapter gets no
\* fresh draw on a window it has failed (shadow.py, _windows_scored).
OneDrawPerWindow ==
  \A p \in Proc :
    Lookup(drawn[p], row.epoch, 0) * WindowOf(p, PhaseNow) <= Cardinality(Compared(row.epoch))

\* A task is not promoted once more than StallFactor windows were compared at
\* its epoch (docs/shadow-mode.md, "When a task is stalled"), as long as
\* retention has lost no sequence number of the epoch.  Of several processes, others
\* may record more between the decision of one and its move.
StalledStays ==
  [][\A p \in Proc : Uses(p) /\ row.status = "shadow" /\ row'.status = "ready" =>
       \/ \E q \in Proc \ {p} : Uses(q)
       \/ EpochSeq(row.epoch) < Cardinality(Compared(row.epoch))
       \/ Cardinality(Compared(row.epoch)) <= StallFactor * WindowOf(p, "shadow")]_row

\* A task that is handed over leaves its state: an adapter that always agrees is
\* promoted, and one that never agrees any more is demoted, past restarts,
\* faults and dropped comparisons (one window of the comparisons there are).
Moves ==
  /\ (row.epoch = 0 /\ row.status = "shadow") ~> row.status = "ready"
  /\ (row.epoch = 0 /\ row.status = "ready")  ~> row.status = "shadow"
=============================================================================
