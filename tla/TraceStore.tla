----------------------------- MODULE TraceStore -----------------------------
(***************************************************************************)
(* The transactions of class TraceDB (jit/db.py) on a file that TraceSchema    *)
(* opens: a connection to each thread and close(), `_write_txn` under           *)
(* `_with_write_retry`, `_read_txn`, and the prune clock of each process.        *)
(*                                                                         *)
(* The write transaction is that of a change of status (set_status and its      *)
(* kin, sync_shadow_config): it reads the task's row, then writes the next epoch *)
(* and logs the transition.  The read transaction is get_task_report: the row,   *)
(* then the configuration.                                                    *)
(***************************************************************************)
EXTENDS TraceSchema

CONSTANTS
  Thread, ProcOf,   \* the threads that use a TraceDB, and the process of each
  World,            \* the file found, whether the processes have it open already,
                    \* the threads that use it, the processes that close() it, and
                    \* how many write transactions, faults and crashes there are
  Cap,              \* _STATE_TRANSITIONS_MAX_ROWS
  PruneEvery        \* _PRUNE_EVERY

ASSUME StoreAssumption ==
  /\ ProcOf \in [Thread -> Proc]
  /\ Thread \cap (Proc \union {Nobody}) = {}
  /\ Cap \in Nat \ {0} /\ PruneEvery \in Nat \ {0}
  /\ IsFiniteSet(Thread)
  /\ World \subseteq [files : SUBSET (Earlier \union {Fresh, Current}), open : BOOLEAN,
                      users : SUBSET Thread, closers : SUBSET Proc,
                      quota : Nat, faults : Nat, crashes : Nat]
  \* A process has the file open only after it has migrated it.
  /\ \A w \in World : w.open => w.files \subseteq {Current}

VARIABLES
  conn,     \* conn[t]: the thread's connection
  closing,  \* closing[p]: how far close() is in p's TraceDB
  txn,      \* txn[t]: the transaction thread t is in
  clock,    \* clock[p]: p's `_transition_writes` of the task
  world,    \* for good
  begun     \* write transactions begun

vars == <<file, draft, writer, opener, faults, crashes, conn, closing, txn, clock, world, begun>>

store == <<conn, closing, txn, clock, world, begun>>

\* _prune_interval
Interval == IF Cap <= PruneEvery THEN 1 ELSE PruneEvery

Idle == [at |-> "idle", seen |-> 0, config |-> 0, snap |-> <<>>, attempt |-> 1]

Init ==
  /\ world \in World
  /\ SchemaInit(world.files, world.open)
  /\ faults = world.faults /\ crashes = world.crashes
  /\ conn = [t \in Thread |-> "none"]
  /\ closing = [p \in Proc |-> "no"]
  /\ txn = [t \in Thread |-> Idle]
  /\ clock = [p \in Proc |-> 0]
  /\ begun = 0

-----------------------------------------------------------------------------
(* Connections. *)

Uses(t) == t \in world.users /\ opener[ProcOf[t]].at = "open"

\* sqlite3.connect, before _conns_lock is taken.
Connect(t) ==
  /\ Uses(t) /\ conn[t] = "none"
  /\ conn' = [conn EXCEPT ![t] = "unregistered"]
  /\ UNCHANGED <<schema, closing, txn, clock, world, begun>>

\* Faulty: the connection is listed whether or not close() has run.
RegisterAlways(t) ==
  /\ conn[t] = "unregistered"
  /\ conn' = [conn EXCEPT ![t] = "open"]
  /\ UNCHANGED <<schema, closing, txn, clock, world, begun>>

\* Under _conns_lock: listed, or closed again if close() has run.
Register(t) ==
  /\ conn[t] = "unregistered"
  /\ conn' = [conn EXCEPT ![t] = IF closing[ProcOf[t]] = "no" THEN "open" ELSE "none"]
  /\ UNCHANGED <<schema, closing, txn, clock, world, begun>>

\* close(), under _conns_lock: no connection is listed after this.
CloseMark(p) ==
  /\ p \in world.closers /\ opener[p].at = "open" /\ closing[p] = "no"
  /\ closing' = [closing EXCEPT ![p] = "marked"]
  /\ conn' = [t \in Thread |-> IF ProcOf[t] = p /\ conn[t] = "open" THEN "listed" ELSE conn[t]]
  /\ UNCHANGED <<schema, txn, clock, world, begun>>

\* It then closes each connection that was listed; an open transaction rolls back.
CloseOne(t) ==
  /\ closing[ProcOf[t]] = "marked" /\ conn[t] = "listed"
  /\ conn' = [conn EXCEPT ![t] = "closed"]
  /\ RollBack(t)
  /\ UNCHANGED <<file, opener, faults, crashes, closing, txn, clock, world, begun>>

CloseReturns(p) ==
  /\ closing[p] = "marked"
  /\ \A t \in Thread : ProcOf[t] = p => conn[t] # "listed"
  /\ closing' = [closing EXCEPT ![p] = "returned"]
  /\ UNCHANGED <<schema, conn, txn, clock, world, begun>>

-----------------------------------------------------------------------------
(* Transactions. *)

Live(t)    == conn[t] \in {"open", "listed"}
In(t, at)  == txn[t].at = at /\ Live(t)
Goto(t, at) == txn' = [txn EXCEPT ![t].at = at]

BeginWrite(t) ==
  /\ Uses(t) /\ In(t, "idle") /\ begun < world.quota
  /\ Goto(t, "begin")
  /\ begun' = begun + 1
  /\ UNCHANGED <<schema, conn, closing, clock, world>>

\* Faulty: the transaction begins with the first write, as sqlite3 would have it.
BeginAtDML(t) ==
  /\ In(t, "begin")
  /\ Goto(t, "read")
  /\ UNCHANGED <<schema, conn, closing, clock, world, begun>>

\* BEGIN IMMEDIATE, before the first read.
BeginImmediate(t) ==
  /\ In(t, "begin") /\ MayWrite(t)
  /\ writer' = t
  /\ draft' = file
  /\ Goto(t, "read")
  /\ UNCHANGED <<file, opener, faults, crashes, conn, closing, clock, world, begun>>

ReadRow(t) ==
  /\ In(t, "read")
  /\ txn' = [txn EXCEPT ![t].at = "write", ![t].seen = Seen(t).epoch]
  /\ UNCHANGED <<schema, conn, closing, clock, world, begun>>

\* UPDATE tasks and INSERT INTO state_transitions, of the epoch after the one read.
WriteRow(t) ==
  /\ In(t, "write") /\ MayWrite(t)
  /\ writer' = t
  /\ \E c \in {Seen(t).config, txn[t].seen + 1} :
       draft' = [Seen(t) EXCEPT !.epoch = txn[t].seen + 1, !.config = c,
                                !.log = Append(@, txn[t].seen + 1)]
  /\ Goto(t, "commit")
  /\ UNCHANGED <<file, opener, faults, crashes, conn, closing, clock, world, begun>>

CommitRow(t) ==
  /\ In(t, "commit")
  /\ file' = draft
  /\ writer' = Nobody
  /\ Goto(t, "note")
  /\ UNCHANGED <<draft, opener, faults, crashes, conn, closing, clock, world, begun>>

\* Faulty: every attempt at the row advances the clock.
NoteAttempts(t) ==
  LET p == ProcOf[t]
      n == clock[p] + txn[t].attempt IN
  /\ txn[t].at = "note"
  /\ clock' = [clock EXCEPT ![p] = n]
  /\ IF n % Interval = 0 THEN Goto(t, "prune") ELSE txn' = [txn EXCEPT ![t] = Idle]
  /\ UNCHANGED <<schema, conn, closing, world, begun>>

\* _note_write, under _counter_lock.
NoteWrite(t) ==
  LET p == ProcOf[t]
      n == clock[p] + 1 IN
  /\ txn[t].at = "note"
  /\ clock' = [clock EXCEPT ![p] = n]
  /\ IF n % Interval = 0 THEN txn' = [txn EXCEPT ![t].at = "prune", ![t].attempt = 1]
     ELSE txn' = [txn EXCEPT ![t] = Idle]
  /\ UNCHANGED <<schema, conn, closing, world, begun>>

\* _prune_transitions_locked, a write transaction of one DELETE.
Prune(t) ==
  /\ In(t, "prune") /\ writer = Nobody
  /\ file' = [file EXCEPT !.log = SubSeq(@, IF Len(@) > Cap THEN Len(@) - Cap + 1 ELSE 1, Len(@))]
  /\ draft' = file'
  /\ txn' = [txn EXCEPT ![t] = Idle]
  /\ UNCHANGED <<writer, opener, faults, crashes, conn, closing, clock, world, begun>>

\* BEGIN DEFERRED and the first SELECT, which takes the snapshot.
ReadTask(t) ==
  /\ Uses(t) /\ In(t, "idle")
  /\ txn' = [txn EXCEPT ![t] =
       [@ EXCEPT !.at = "reading", !.seen = file.epoch, !.snap = <<file.config>>]]
  /\ UNCHANGED <<schema, conn, closing, clock, world, begun>>

\* get_shadow_config, inside the same read transaction.
ReadConfig(t) ==
  /\ In(t, "reading")
  /\ txn' = [txn EXCEPT ![t] = [@ EXCEPT !.at = "reported", !.config = txn[t].snap[1], !.snap = <<>>]]
  /\ UNCHANGED <<schema, conn, closing, clock, world, begun>>

EndReport(t) ==
  /\ txn[t].at = "reported"
  /\ txn' = [txn EXCEPT ![t] = Idle]
  /\ UNCHANGED <<schema, conn, closing, clock, world, begun>>

-----------------------------------------------------------------------------
(* Failures. *)

\* _with_write_retry: the closure is run again from its BEGIN.
Again(x) == [x EXCEPT !.at = IF @ = "prune" THEN @ ELSE "begin", !.attempt = @ + 1]

\* A statement raises OperationalError: `with conn` rolls back, and the closure is
\* run again, or the error raised.
StatementFault(t) ==
  /\ txn[t].at \in {"begin", "read", "write", "commit", "prune"} /\ Live(t)
  /\ faults > 0 /\ faults' = faults - 1
  /\ RollBack(t)
  /\ txn' = [txn EXCEPT ![t] = IF @.attempt = Attempts THEN Idle ELSE Again(@)]
  /\ UNCHANGED <<file, opener, crashes, conn, closing, clock, world, begun>>

\* A statement on a connection that close() has closed: ProgrammingError, not retried.
UseAfterClose(t) ==
  /\ conn[t] = "closed" /\ txn[t].at \notin {"idle", "note", "reported"}
  /\ txn' = [txn EXCEPT ![t] = Idle]
  /\ UNCHANGED <<schema, conn, closing, clock, world, begun>>

\* A process dies, and may open the file again.
Crash(p) ==
  LET mine == {t \in Thread : ProcOf[t] = p} IN
  /\ crashes > 0 /\ crashes' = crashes - 1
  /\ opener[p].at # "closed"
  /\ opener' = [opener EXCEPT ![p] = Closed]
  /\ IF writer \in mine \union {p} THEN RollBack(writer) ELSE UNCHANGED <<writer, draft>>
  /\ conn' = [t \in Thread |-> IF t \in mine THEN "none" ELSE conn[t]]
  /\ txn' = [t \in Thread |-> IF t \in mine THEN Idle ELSE txn[t]]
  /\ closing' = [closing EXCEPT ![p] = "no"]
  /\ clock' = [clock EXCEPT ![p] = 0]
  /\ UNCHANGED <<file, faults, world, begun>>

-----------------------------------------------------------------------------
ThreadStep(t) ==
  \/ Connect(t) \/ Register(t) \/ CloseOne(t)
  \/ BeginWrite(t) \/ BeginImmediate(t) \/ ReadRow(t) \/ WriteRow(t) \/ CommitRow(t)
  \/ NoteWrite(t) \/ Prune(t)
  \/ ReadTask(t) \/ ReadConfig(t) \/ EndReport(t)
  \/ StatementFault(t) \/ UseAfterClose(t)

Next ==
  \/ \E p \in Proc : (SchemaStep(p) /\ UNCHANGED store) \/ CloseMark(p) \/ CloseReturns(p) \/ Crash(p)
  \/ \E t \in Thread : ThreadStep(t)

Spec == Init /\ [][Next]_vars

-----------------------------------------------------------------------------
\* D-1 and D-4 of db.py: whatever the threads of the processes interleave, a change of
\* status takes an epoch nobody else has, is logged with it, and a report holds
\* the epoch and the configuration of one moment.
Atomic == INSTANCE AtomicTasks WITH
  Reader <- Thread, epoch <- file.epoch, log <- file.log, config <- file.config,
  got <- [t \in Thread |->
            CASE txn[t].at = "reading"  -> <<txn[t].seen, txn[t].snap[1]>>
              [] txn[t].at = "reported" -> <<txn[t].seen, txn[t].config>>
              [] OTHER -> <<>>]

KeepsTasks == Atomic!AtomicSpec

\* J-7, db.py:165: close() leaves no connection open, also not one a thread was opening
\* meanwhile.
NoneOpenAfterClose ==
  \A t \in Thread :
    /\ closing[ProcOf[t]] # "no" => conn[t] # "open"
    /\ closing[ProcOf[t]] = "returned" => conn[t] # "listed"

\* The comment on _PRUNE_EVERY gives a table `cap + prune_interval - 1` rows at worst.
\* That is so of one process that lives: each process, and each one that died, adds
\* what it wrote since its own clock last struck, and so does a thread that has yet
\* to look at the clock, or to prune, or was to prune when close() ran, or gave up when
\* every attempt at the DELETE failed.
RetentionBounded ==
  LET writing == {ProcOf[t] : t \in world.users}
      noting  == {t \in Thread : txn[t].at = "note"}
      pruning == {t \in Thread : txn[t].at = "prune" \/ conn[t] = "closed"}
      died    == world.crashes - crashes
      gaveUp  == (world.faults - faults) \div Attempts IN
  Len(file.log) <= Cap + (Interval - 1) * (Cardinality(writing) + died)
                   + Cardinality(noting)
                   + Interval * (Cardinality(pruning) + died * Cardinality(Thread) + gaveUp)

\* Only the holder of the write lock sees anything but the committed file, and it is
\* an opening past its backfill or a thread inside `_write_txn`.
TypeOK ==
  /\ DOMAIN file = DOMAIN Fresh /\ DOMAIN draft = DOMAIN Fresh
  /\ opener \in [Proc -> Opener]
  /\ conn \in [Thread -> {"none", "unregistered", "open", "listed", "closed"}]
  /\ closing \in [Proc -> {"no", "marked", "returned"}]
  /\ DOMAIN txn = Thread
  /\ writer = Nobody => draft = file
  /\ writer \in Proc => opener[writer].at = "opening" /\ opener[writer].next > 8
  /\ writer \in Thread => txn[writer].at \in {"read", "write", "commit"} /\ Live(writer)
=============================================================================
