----------------------------- MODULE ShadowDrain -----------------------------
(***************************************************************************)
(* The counters of the shadow runner (jit/shadow.py): what submit() and the        *)
(* workers write, and what drain(), shutdown() and stats() read.  The counters are     *)
(* under the lock of the runner; each queue is under its own.                        *)
(*                                                                         *)
(* ShadowRunner says what a job does; here it ends or raises, which counts alike.     *)
(***************************************************************************)
EXTENDS Naturals, Sequences, FiniteSets

CONSTANTS
  ShadowJob,     \* jobs: [key, phase] and what tells them apart; a key is a database and a task in it
  QueueSize,     \* maxsize of a queue
  Drainer,       \* calls of drain()
  AtExit,        \* the call of shutdown(), which is none of them
  Scope(_)       \* the keys a drain is about: a task in one database, or in all

JobKey == {j.key : j \in ShadowJob}
Phase  == {"shadow", "audit", "fail_open"}
Waiter == Drainer \union {AtExit}

ASSUME DrainAssumption ==
  /\ QueueSize \in Nat \ {0} /\ AtExit \notin Drainer
  /\ IsFiniteSet(ShadowJob) /\ \A j \in ShadowJob : j.phase \in Phase

VARIABLES
  place,      \* place[j]: where the job, or the submit() that brings it, is
  queues,     \* _queues
  pendingOf,  \* _pending
  droppedOf,  \* _dropped
  waiter      \* waiter[d]: [step, keys, before]: `before` are the jobs accepted by then

drain == <<place, queues, pendingOf, droppedOf, waiter>>

NotWaiting == [step |-> "none", keys |-> {}, before |-> {}]

DrainInit ==
  /\ place = [j \in ShadowJob |-> "new"]
  /\ queues = [k \in {} |-> <<>>]
  /\ pendingOf = [k \in JobKey |-> 0]
  /\ droppedOf = [told \in JobKey \X Phase |-> 0]
  /\ waiter = [d \in Waiter |-> NotWaiting]

Goes(j, from, to) == place[j] = from /\ place' = [place EXCEPT ![j] = to]
Uncount(n) == IF n = 0 THEN 0 ELSE n - 1

-----------------------------------------------------------------------------
(* submit *)

\* _ensure_worker: a key has its queue, and its worker, from its first job on.
EnsureWorker(j) ==
  /\ Goes(j, "new", "ensured")
  /\ queues' = IF j.key \in DOMAIN queues THEN queues
               ELSE [k \in DOMAIN queues \union {j.key} |-> IF k = j.key THEN <<>> ELSE queues[k]]
  /\ UNCHANGED <<pendingOf, droppedOf, waiter>>

CountJob(j) ==
  /\ Goes(j, "ensured", "counted")
  /\ pendingOf' = [pendingOf EXCEPT ![j.key] = @ + 1]
  /\ UNCHANGED <<queues, droppedOf, waiter>>

Accept(j) ==
  /\ Goes(j, "counted", "queued")
  /\ Len(queues[j.key]) < QueueSize
  /\ queues' = [queues EXCEPT ![j.key] = Append(@, j)]
  /\ UNCHANGED <<pendingOf, droppedOf, waiter>>

Refuse(j) ==
  /\ Goes(j, "counted", "refused")
  /\ Len(queues[j.key]) >= QueueSize
  /\ UNCHANGED <<queues, pendingOf, droppedOf, waiter>>

\* The newest job is dropped: its count is taken back, and told by its phase.
Drop(j) ==
  /\ Goes(j, "refused", "dropped")
  /\ pendingOf' = [pendingOf EXCEPT ![j.key] = Uncount(@)]
  /\ droppedOf' = [droppedOf EXCEPT ![<<j.key, j.phase>>] = @ + 1]
  /\ UNCHANGED <<queues, waiter>>

-----------------------------------------------------------------------------
(* The worker of a key *)

Busy(k) == \E j \in ShadowJob : j.key = k /\ place[j] = "running"

Takes(k) ==
  /\ k \in DOMAIN queues /\ queues[k] # <<>> /\ ~Busy(k)
  /\ Goes(Head(queues[k]), "queued", "running")
  /\ queues' = [queues EXCEPT ![k] = Tail(@)]
  /\ UNCHANGED <<droppedOf, waiter>>

\* Faulty: what is pending is what is in the queue.
GetUncounted(k) == Takes(k) /\ pendingOf' = [pendingOf EXCEPT ![k] = Uncount(@)]
\* A job that is taken is still pending.
Get(k) == Takes(k) /\ UNCHANGED pendingOf

\* _run_job has returned or raised.
Finish(j) ==
  /\ Goes(j, "running", "done")
  /\ pendingOf' = [pendingOf EXCEPT ![j.key] = Uncount(@)]
  /\ UNCHANGED <<queues, droppedOf, waiter>>

-----------------------------------------------------------------------------
(* drain and shutdown *)

\* The pending jobs of the keys add up to some.
Pending(keys) == \E k \in keys : pendingOf[k] > 0
Accepted(keys) == {j \in ShadowJob : j.key \in keys /\ place[j] \in {"queued", "running", "done"}}
About(d) == IF d = AtExit THEN JobKey ELSE Scope(d)

BeginWait(d) ==
  /\ waiter[d] = NotWaiting
  /\ waiter' = [waiter EXCEPT ![d] = [step |-> "look", keys |-> {}, before |-> Accepted(About(d))]]
  /\ UNCHANGED <<place, queues, pendingOf, droppedOf>>

\* _keys_for, under a lock of its own; shutdown looks at all there is.
KeysFor(d) ==
  /\ d # AtExit /\ waiter[d].step = "look"
  /\ waiter' = [waiter EXCEPT ![d].step = "sum", ![d].keys = Scope(d) \intersect DOMAIN queues]
  /\ UNCHANGED <<place, queues, pendingOf, droppedOf>>

\* It is quiet, or it looks again, or its time is up.
Look(d) ==
  /\ waiter[d].step = (IF d = AtExit THEN "look" ELSE "sum")
  /\ LET keys == IF d = AtExit THEN JobKey ELSE waiter[d].keys IN
     IF ~ Pending(keys)
     THEN waiter' = [waiter EXCEPT ![d].step = "quiet"]
     ELSE waiter' \in {[waiter EXCEPT ![d].step = "look"], [waiter EXCEPT ![d].step = "late"]}
  /\ UNCHANGED <<place, queues, pendingOf, droppedOf>>

DrainNext ==
  \/ \E j \in ShadowJob : EnsureWorker(j) \/ CountJob(j) \/ Accept(j) \/ Refuse(j) \/ Drop(j) \/ Finish(j)
  \/ \E k \in JobKey : Get(k)
  \/ \E d \in Waiter : BeginWait(d) \/ KeysFor(d) \/ Look(d)

DrainSpec == DrainInit /\ [][DrainNext]_drain

-----------------------------------------------------------------------------
(* Properties *)

\* What stats() adds up of a key: its pending jobs, and those dropped in any phase.
Told(k) ==
  pendingOf[k] + droppedOf[<<k, "shadow">>] + droppedOf[<<k, "audit">>] + droppedOf[<<k, "fail_open">>]

\* When drain() or shutdown() says that a task is quiet, every job that was accepted before
\* it was asked has been run, in whichever of the task's databases; and once no
\* submit() is under way, the counters account for every job that has not been run, so
\* that none is left over which the next drain would wait for in vain, and no drop is
\* told as another's (stats()).
DrainTellsTruth ==
  /\ \A d \in Waiter : waiter[d].step = "quiet" => \A j \in waiter[d].before : place[j] = "done"
  /\ \A k \in JobKey :
       LET of == {j \in ShadowJob : j.key = k} IN
       (\A j \in of : place[j] \notin {"ensured", "counted", "refused"}) =>
         Told(k) = Cardinality({j \in of : place[j] \in {"queued", "running", "dropped"}})
=============================================================================
