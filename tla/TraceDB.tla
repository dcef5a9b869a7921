------------------------------ MODULE TraceDB ------------------------------
(***************************************************************************)
(* One row of the `tasks` table of jit/db.py and the write methods of class *)
(* TraceDB on it.  Every write method of the class is one committed SQLite  *)
(* transaction (`_write_txn`, db.py:287, or a single UPDATE), so a write is  *)
(* an operator from a row to a row, and a compare-and-set is a guard        *)
(* CanX(row) beside an effect X(row): a writer whose guard is false sees     *)
(* `rowcount == 0` and changes nothing.                                     *)
(*                                                                         *)
(* A task without a row reads ("tracing", None, 0) in every read method and  *)
(* every writer is an upsert, so the missing row is the row NewRow.         *)
(*                                                                         *)
(* `compiling_started_at` is compared with one cutoff only; it is "none"     *)
(* (NULL), "fresh" (younger than the lease) or "stale" (older).             *)
(* `adapter_path` is the same path for a task's whole life, so only whether  *)
(* it is set is kept.  call_count is compared with the threshold only and   *)
(* is kept saturated at it.                                                 *)
(***************************************************************************)
EXTENDS Naturals

CONSTANTS
  MaxAttempts,   \* BackgroundCompiler._MAX_COMPILE_ATTEMPTS
  Threshold,     \* compile_on_hit(threshold=...), the call_count that compiles
  Configs        \* the persisted shadow configurations processes may use

ASSUME DBAssumption ==
  /\ MaxAttempts \in Nat \ {0}
  /\ Threshold \in Nat \ {0}

NoConfig == "no config"

ASSUME ConfigAssumption == NoConfig \notin Configs

Status == {"tracing", "compiling", "shadow", "ready", "failed"}

Row == [status : Status, epoch : Nat, adapter : BOOLEAN, attempts : Nat,
        lease : {"none", "fresh", "stale"}, calls : 0..Threshold,
        config : Configs \union {NoConfig}]

NewRow == [status |-> "tracing", epoch |-> 0, adapter |-> FALSE, attempts |-> 0,
           lease |-> "none", calls |-> 0, config |-> NoConfig]

-----------------------------------------------------------------------------
(* Reads. *)

\* get_task_routing: what one call of the decorated function is routed on.
Routing(r) == [status |-> r.status, adapter |-> r.adapter, epoch |-> r.epoch]

\* What the wrapper assumes when that read fails (decorator.py:659).
NoRouting == [status |-> "tracing", adapter |-> FALSE, epoch |-> 0]

-----------------------------------------------------------------------------
(* Writes. *)

RecordTrace(r) == [r EXCEPT !.calls = IF @ < Threshold THEN @ + 1 ELSE @]

\* set_status: unconditional; the epoch moves only when the status does, and
\* the lease is stamped or cleared.
SetStatus(r, s) ==
  [r EXCEPT !.status = s,
            !.epoch  = IF s # r.status THEN @ + 1 ELSE @,
            !.lease  = IF s = "compiling" THEN "fresh" ELSE "none"]

\* Faulty: the deny-lists the allow-list of one replaced, each short of a state.
CanBeginUnlessDeployed(r) == r.status \notin {"shadow", "ready", "failed"}
CanBeginUnlessCompiling(r) == r.status # "compiling"

CanBeginCompile(r) == r.status = "tracing"
BeginCompile(r) ==
  [r EXCEPT !.status = "compiling", !.epoch = @ + 1, !.lease = "fresh"]

\* Faulty: reclaims on the stamp alone; reclaims only a lease never stamped.
CanReclaimOldStamp(r) == r.lease = "stale"
CanReclaimUnstamped(r) == r.status = "compiling" /\ r.lease = "none"

CanReclaim(r) == r.status = "compiling" /\ r.lease = "stale"
Reclaim(r) ==
  [r EXCEPT !.status   = IF r.attempts + 1 >= MaxAttempts THEN "failed" ELSE "tracing",
            !.epoch    = @ + 1,
            !.attempts = @ + 1,
            !.lease    = "none"]

IncrementAttempts(r) == [r EXCEPT !.attempts = @ + 1]

\* set_shadow_started and set_ready_from_compile: unconditional, always a new
\* epoch; neither statement names compiling_started_at.
ShadowStarted(r) ==
  [r EXCEPT !.status = "shadow", !.adapter = TRUE, !.epoch = @ + 1]
ReadyFromCompile(r) ==
  [r EXCEPT !.status = "ready", !.adapter = TRUE, !.epoch = @ + 1]

CanPromote(r, expected) == r.status = "shadow" /\ r.epoch = expected
\* Faulty: no new epoch.
PromoteInPlace(r) == [r EXCEPT !.status = "ready"]

Promote(r) == [r EXCEPT !.status = "ready", !.epoch = @ + 1]

CanDemote(r, expected) == r.status = "ready" /\ r.epoch = expected
Demote(r) == [r EXCEPT !.status = "shadow", !.epoch = @ + 1]

\* sync_shadow_config: a changed configuration starts a new epoch of a task
\* that is being compared (shadow) or audited (ready).
SyncShadowConfig(r, c) ==
  [r EXCEPT !.config = c,
            !.epoch  = IF /\ r.config \notin {c, NoConfig}
                          /\ r.status \in {"shadow", "ready"}
                       THEN @ + 1 ELSE @]
=============================================================================
