----------------------------- MODULE TraceSchema -----------------------------
(***************************************************************************)
(* Opening a trace file: TraceDB._init_db (jit/db.py) run by several           *)
(* processes on a file of any earlier release.                                *)
(*                                                                         *)
(* A step is one SQL statement.  Python's sqlite3 begins a transaction before   *)
(* DML only, so every CREATE and ALTER commits by itself, up to the one UPDATE  *)
(* of the script: from there on the statements are one transaction, which the   *)
(* end of `with self._conn` commits and an exception rolls back.               *)
(***************************************************************************)
EXTENDS Naturals, Sequences, FiniteSets

CONSTANTS
  Proc,        \* processes that open the file
  Attempts,    \* _DB_RETRY_ATTEMPTS
  Nobody       \* holds the write lock when nothing does

ASSUME SchemaAssumption == Attempts \in Nat \ {0} /\ Nobody \notin Proc

Tables  == {"tasks", "traces", "shadow_pairs", "state_transitions"}
\* state_epoch and shadow_config stand for the eight columns of schema v2.
Columns == {"compile_attempts", "state_epoch", "shadow_config", "compiling_started_at"}
SchemaVersion == 3

\* The statements, in order: a table is created, a column is added.
Script == <<"tasks", "probe", "compile_attempts", "traces", "state_epoch", "shadow_config",
            "compiling_started_at", "backfill", "shadow_pairs", "state_transitions",
            "version", "commit">>

\* Of the rows: whether one is `compiling`, and then whether its lease is stamped.
Lease == {"no compile", "unstamped", "stamped"}

Schema(tables, columns, version, lease) ==
  [tables |-> tables, columns |-> columns, version |-> version, lease |-> lease,
   epoch |-> 0, config |-> 0, log |-> <<>>]

Fresh   == Schema({}, {}, 0, "no compile")
\* What the releases before compile_attempts, before shadow mode and before the
\* lease left behind, each with a compile that its process did not survive.
Earlier == {Schema({"tasks", "traces"}, {}, 0, "unstamped"),
            Schema({"tasks", "traces"}, {"compile_attempts"}, 0, "unstamped"),
            Schema(Tables, Columns \ {"compiling_started_at"}, 2, "unstamped")}
Current == Schema(Tables, Columns, SchemaVersion, "stamped")

VARIABLES
  file,     \* the committed file: its schema, its lease, and the epoch, shadow
            \* configuration and transition log of one task
  draft,    \* what the holder of the write lock sees
  writer,   \* who holds SQLite's write lock
  opener,   \* opener[p]: where the constructor of p's TraceDB is
  faults, crashes   \* sqlite3.OperationalErrors with a cause outside the model, and
                    \* deaths of processes, still to come

schema == <<file, draft, writer, opener, faults, crashes>>

Closed == [at |-> "closed", next |-> 1, known |-> {}, attempt |-> 1]

Opener == [at : {"closed", "opening", "open", "raised"}, next : 1..Len(Script),
           known : SUBSET Columns, attempt : 1..Attempts]

SchemaInit(files, open) ==
  /\ file \in files /\ draft = file
  /\ writer = Nobody
  /\ opener = [p \in Proc |-> IF open THEN [Closed EXCEPT !.at = "open"] ELSE Closed]

-----------------------------------------------------------------------------
Seen(w)     == IF writer = w THEN draft ELSE file
MayWrite(w) == writer \in {Nobody, w}

\* In a transaction a write stays in the draft; outside it commits at once.
Put(w, f) ==
  /\ MayWrite(w)
  /\ draft' = f
  /\ file' = IF writer = w THEN file ELSE f
  /\ UNCHANGED writer

RollBack(w) ==
  /\ writer' = IF writer = w THEN Nobody ELSE writer
  /\ draft' = IF writer = w THEN file ELSE draft

Statement(p) == Script[opener[p].next]
At(p, s)     == opener[p].at = "opening" /\ Statement(p) = s

Step(p, n) == opener' = [opener EXCEPT ![p].next = @ + n]

\* Faulty: a duplicate column means that another process has migrated the file.
TakeForMigrated(p) ==
  /\ opener' = [opener EXCEPT ![p].at = "open"]
  /\ RollBack(p) /\ UNCHANGED file

\* _with_write_retry: the whole closure again, or the error.
Retry(p) ==
  /\ opener' = [opener EXCEPT ![p] =
       IF @.attempt < Attempts THEN [Closed EXCEPT !.at = "opening", !.attempt = opener[p].attempt + 1]
       ELSE [@ EXCEPT !.at = "raised"]]
  /\ RollBack(p) /\ UNCHANGED file

-----------------------------------------------------------------------------
Open(p) ==
  /\ opener[p].at = "closed"
  /\ opener' = [opener EXCEPT ![p] = [Closed EXCEPT !.at = "opening"]]
  /\ UNCHANGED <<file, draft, writer, faults, crashes>>

\* CREATE TABLE IF NOT EXISTS; that of `tasks` has compile_attempts already.
CreateTable(p) ==
  /\ opener[p].at = "opening" /\ Statement(p) \in Tables
  /\ LET s == Statement(p) IN
     IF s \in Seen(p).tables THEN UNCHANGED <<file, draft, writer>>
     ELSE Put(p, [Seen(p) EXCEPT
            !.tables = @ \union {s},
            !.columns = IF s = "tasks" THEN @ \union {"compile_attempts"} ELSE @])
  /\ Step(p, 1)
  /\ UNCHANGED <<faults, crashes>>

\* PRAGMA table_info(tasks), read once for all columns.
Probe(p) ==
  /\ At(p, "probe")
  /\ opener' = [opener EXCEPT ![p].next = @ + 1, ![p].known = Seen(p).columns]
  /\ UNCHANGED <<file, draft, writer, faults, crashes>>

\* A column the probe saw is passed over, with the backfill that goes with it.
PassColumn(p) ==
  /\ opener[p].at = "opening" /\ Statement(p) \in opener[p].known
  /\ Step(p, IF Statement(p) = "compiling_started_at" THEN 2 ELSE 1)
  /\ UNCHANGED <<file, draft, writer, faults, crashes>>

AddColumn(p) ==
  /\ opener[p].at = "opening" /\ Statement(p) \in Columns \ opener[p].known
  /\ Statement(p) \notin Seen(p).columns
  /\ Put(p, [Seen(p) EXCEPT !.columns = @ \union {Statement(p)}])
  /\ Step(p, 1)
  /\ UNCHANGED <<faults, crashes>>

\* Another process has added it since the probe: "duplicate column name".
Collide(p) ==
  /\ opener[p].at = "opening" /\ Statement(p) \in Columns \ opener[p].known
  /\ Statement(p) \in Seen(p).columns
  /\ Retry(p)
  /\ UNCHANGED <<faults, crashes>>

\* The UPDATE that stamps the leases of rows already `compiling`: sqlite3 begins a
\* transaction before it.
Backfill(p) ==
  /\ At(p, "backfill") /\ MayWrite(p)
  /\ writer' = p
  /\ draft' = [Seen(p) EXCEPT !.lease = IF @ = "unstamped" THEN "stamped" ELSE @]
  /\ Step(p, 1)
  /\ UNCHANGED <<file, faults, crashes>>

\* PRAGMA user_version: read, and set if it is lower.
BumpVersion(p) ==
  /\ At(p, "version")
  /\ IF Seen(p).version < SchemaVersion
     THEN Put(p, [Seen(p) EXCEPT !.version = SchemaVersion])
     ELSE UNCHANGED <<file, draft, writer>>
  /\ Step(p, 1)
  /\ UNCHANGED <<faults, crashes>>

Commit(p) ==
  /\ At(p, "commit")
  /\ file' = Seen(p)
  /\ writer' = IF writer = p THEN Nobody ELSE writer
  /\ opener' = [opener EXCEPT ![p].at = "open"]
  /\ UNCHANGED <<draft, faults, crashes>>

\* Any statement may raise OperationalError: the lock is not had in 30 s, the disk
\* is full.
OpenFault(p) ==
  /\ opener[p].at = "opening"
  /\ faults > 0 /\ faults' = faults - 1
  /\ Retry(p)
  /\ UNCHANGED crashes

\* reclaim_stale_compile takes a lease that is stamped (and has run out).
Reclaim(p) ==
  /\ opener[p].at = "open" /\ writer = Nobody
  /\ file.lease = "stamped"
  /\ file' = [file EXCEPT !.lease = "no compile"] /\ draft' = file'
  /\ UNCHANGED <<writer, opener, faults, crashes>>

SchemaStep(p) ==
  \/ Open(p) \/ CreateTable(p) \/ Probe(p) \/ PassColumn(p) \/ AddColumn(p) \/ Collide(p)
  \/ Backfill(p) \/ BumpVersion(p) \/ Commit(p) \/ OpenFault(p) \/ Reclaim(p)

-----------------------------------------------------------------------------
\* What _init_db promises: a process that has a TraceDB finds every table and column
\* its statements name, however its opening raced, failed and was begun again.
SchemaComplete ==
  \A p \in Proc : opener[p].at = "open" =>
    /\ file.tables = Tables
    /\ file.columns = Columns
    /\ file.version >= SchemaVersion

\* What the comment on the backfill says of it (db.py:529): no task that was wedged
\* in `compiling` before the upgrade is without a stamp after it, as a row without
\* one is never reclaimed.
WedgedIsStamped ==
  (\E p \in Proc : opener[p].at = "open") => file.lease # "unstamped"
=============================================================================
