---------------------------- MODULE DeadlinePool ----------------------------
(***************************************************************************)
(* The deadline pool of jit/deadline.py: callers acquire a permit without     *)
(* blocking, queue their call and wait for its `done` event or the deadline;  *)
(* a fixed set of worker threads runs the calls and releases the permits.     *)
(*                                                                         *)
(* A step is one operation on the semaphore, the queue or an event.  A call    *)
(* is made once: a thread that calls again is another call.                   *)
(***************************************************************************)
EXTENDS Naturals, Sequences, FiniteSets

CONSTANTS
  Call,     \* the calls made on the pool
  Wedged,   \* those whose function never returns
  Worker    \* the worker threads: max_workers of them

ASSUME PoolAssumption ==
  /\ IsFiniteSet(Call)
  /\ IsFiniteSet(Worker)
  /\ Worker # {}
  /\ Wedged \subseteq Call

MaxWorkers == Cardinality(Worker)

VARIABLES
  permits,   \* the semaphore `_free`
  queue,     \* `_queue`
  call,      \* call[c]: where the caller is, or what it got
  done,      \* done[c]: the event of the call
  worker     \* worker[w]: where the thread is, and its call

vars == <<permits, queue, call, done, worker>>

CallPC == {"new", "admitted", "waiting", "exhausted", "answered", "expired"}

Idle == [pc |-> "get", job |-> {}]

TypeOK ==
  /\ permits \in Nat
  /\ queue \in Seq(Call)
  /\ call \in [Call -> CallPC]
  /\ done \in [Call -> BOOLEAN]
  /\ worker \in [Worker -> [pc : {"get", "run", "set", "release"}, job : SUBSET Call]]

Init ==
  /\ permits = MaxWorkers
  /\ queue = <<>>
  /\ call = [c \in Call |-> "new"]
  /\ done = [c \in Call |-> FALSE]
  /\ worker = [w \in Worker |-> Idle]

-----------------------------------------------------------------------------
(* The caller (DeadlinePool.call). *)

\* A non-blocking acquire; PoolExhausted is raised without one.
Acquire(c) ==
  /\ call[c] = "new"
  /\ IF permits > 0
     THEN /\ permits' = permits - 1
          /\ call' = [call EXCEPT ![c] = "admitted"]
     ELSE /\ call' = [call EXCEPT ![c] = "exhausted"]
          /\ UNCHANGED permits
  /\ UNCHANGED <<queue, done, worker>>

Put(c) ==
  /\ call[c] = "admitted"
  /\ queue' = Append(queue, c)
  /\ call' = [call EXCEPT ![c] = "waiting"]
  /\ UNCHANGED <<permits, done, worker>>

\* The caller returns the value of the function or raises what it raised.
Answered(c) ==
  /\ call[c] = "waiting" /\ done[c]
  /\ call' = [call EXCEPT ![c] = "answered"]
  /\ UNCHANGED <<permits, queue, done, worker>>

\* Faulty: the caller that gives up releases the permit; gives up on an answer.
ExpiresAndReleases(c) ==
  /\ call[c] = "waiting" /\ ~done[c]
  /\ call' = [call EXCEPT ![c] = "expired"]
  /\ permits' = permits + 1
  /\ UNCHANGED <<queue, done, worker>>
ExpiresAnyway(c) ==
  /\ call[c] = "waiting"
  /\ call' = [call EXCEPT ![c] = "expired"]
  /\ UNCHANGED <<permits, queue, done, worker>>

\* The deadline passes first: DeadlineExceeded.
Expires(c) ==
  /\ call[c] = "waiting" /\ ~done[c]
  /\ call' = [call EXCEPT ![c] = "expired"]
  /\ UNCHANGED <<permits, queue, done, worker>>

-----------------------------------------------------------------------------
(* A worker thread (_worker_loop).  `job` is the set of its one call. *)

Get(w) ==
  /\ worker[w].pc = "get" /\ queue # <<>>
  /\ worker' = [worker EXCEPT ![w] = [pc |-> "run", job |-> {Head(queue)}]]
  /\ queue' = Tail(queue)
  /\ UNCHANGED <<permits, call, done>>

\* The function returns or raises.
Returns(w) ==
  /\ worker[w].pc = "run" /\ worker[w].job \cap Wedged = {}
  /\ worker' = [worker EXCEPT ![w].pc = "set"]
  /\ UNCHANGED <<permits, queue, call, done>>

SetDone(w) ==
  /\ worker[w].pc = "set"
  /\ done' = [c \in Call |-> done[c] \/ c \in worker[w].job]
  /\ worker' = [worker EXCEPT ![w].pc = "release"]
  /\ UNCHANGED <<permits, queue, call>>

\* Faulty: the permit of an abandoned call is lost.
ReleaseIfWaitedFor(w) ==
  /\ worker[w].pc = "release"
  /\ permits' = IF \E c \in worker[w].job : call[c] = "expired" THEN permits ELSE permits + 1
  /\ worker' = [worker EXCEPT ![w] = Idle]
  /\ UNCHANGED <<queue, call, done>>

Release(w) ==
  /\ worker[w].pc = "release"
  /\ permits' = permits + 1
  /\ worker' = [worker EXCEPT ![w] = Idle]
  /\ UNCHANGED <<queue, call, done>>

CallStep(c)   == Acquire(c) \/ Put(c) \/ Answered(c)
WorkerStep(w) == Get(w) \/ Returns(w) \/ SetDone(w) \/ Release(w)

Next ==
  \/ \E c \in Call : CallStep(c) \/ Expires(c)
  \/ \E w \in Worker : WorkerStep(w)

Spec == Init /\ [][Next]_vars

\* Threads run; no deadline has to pass.
Fairness ==
  /\ \A c \in Call : WF_vars(CallStep(c))
  /\ \A w \in Worker : WF_vars(WorkerStep(w))

FairSpec == Spec /\ Fairness

-----------------------------------------------------------------------------
(* Properties. *)

Admitted == {c \in Call : call[c] = "admitted"}
Busy     == {w \in Worker : worker[w].pc # "get"}

\* Every permit is in the semaphore, with a caller about to queue its call, in
\* the queue, or with a busy worker.
PermitsConserved ==
  permits + Cardinality(Admitted) + Len(queue) + Cardinality(Busy) = MaxWorkers

\* A call is never queued behind one that may not return: the queue never
\* holds more calls than there are workers free to take one (the module
\* docstring, "rather than queueing behind a wedged one").
NeverBehindWedged == Len(queue) <= Cardinality(Worker \ Busy)

\* An accepted call whose function returns gets its answer ready, however many
\* others never return.
AnswerReady ==
  \A c \in Call \ Wedged : call[c] = "admitted" ~> done[c]

\* The permits of every call whose function returns come back, those of
\* abandoned calls too: in the end only wedged functions hold one.
PermitsComeBack ==
  <>[](permits = MaxWorkers - Cardinality({w \in Worker : worker[w].job \cap Wedged # {}}))

\* The pool keeps what CallSlots promises, where a slot is given back when the
\* permit is.
SlotOf(c) ==
  CASE call[c] \in {"new", "exhausted"} -> "none"
    [] call[c] = "admitted" \/ (\E i \in DOMAIN queue : queue[i] = c)
         \/ (\E w \in Worker : c \in worker[w].job /\ worker[w].pc \in {"run", "set"}) -> "held"
    [] \E w \in Worker : c \in worker[w].job /\ worker[w].pc = "release" -> "returned"
    [] OTHER -> "given back"

OutcomeOf(c) ==
  CASE call[c] = "exhausted" -> "refused"
    [] call[c] \in {"answered", "expired"} -> call[c]
    [] OTHER -> "none"

Promise == INSTANCE CallSlots WITH
  Slots   <- MaxWorkers,
  slot    <- [c \in Call |-> SlotOf(c)],
  outcome <- [c \in Call |-> OutcomeOf(c)]

KeepsPromise == Promise!SlotsSpec
=============================================================================
