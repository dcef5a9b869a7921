------------------------- MODULE ShadowRunnerProofs -------------------------
(***************************************************************************)
(* Proofs of the safety properties of ShadowRunner for any number of          *)
(* processes, callers and comparisons, any windows and tests, and whatever      *)
(* retention, restarts and faults do.                                       *)
(***************************************************************************)
EXTENDS ShadowRunner, FiniteSetTheorems, TLAPS

-----------------------------------------------------------------------------
(* The inductive invariant. *)

\* A dict of epochs.
IsDict(d) ==
  /\ d = [e \in DOMAIN d |-> d[e]]
  /\ DOMAIN d \subseteq Nat
  /\ \A e \in DOMAIN d : d[e] \in Nat

Dicts(f) == f = [p \in Proc |-> f[p]] /\ \A p \in Proc : IsDict(f[p])

WorkerPC == {"idle", "compare", "prune", "score", "move"}
PairRec   == [epoch : Nat, verdict : Verdict, seq : Nat]
CallerRec == [pc : {"idle", "routed"}, route : [status : Status, adapter : BOOLEAN, epoch : Nat]]
WorkerRec == [pc : WorkerPC, job : Job, seq : Nat]

Types ==
  /\ row \in Row
  /\ pairs \in Seq(PairRec)
  /\ pruned \in Nat /\ pruned <= Len(pairs)
  /\ caller \in [Caller -> CallerRec]
  /\ queue \in [Proc -> Seq(Job)]
  /\ worker \in [Proc -> WorkerRec]
  /\ Dicts(scored) /\ Dicts(seqCache) /\ Dicts(drawn)
  /\ clock \in [Proc -> 0..(PruneEvery - 1)]
  /\ restarts \in Nat /\ faults \in Nat
  /\ world \in World

\* A comparison is of the row's epoch or an older one, and an epoch names one phase.
Fit(status, epoch) ==
  /\ epoch <= row.epoch
  /\ epoch = row.epoch => (status = "shadow" <=> row.status = "shadow")

FitJob(job) == job.phase # "fail_open" => Fit(job.phase, job.epoch)

CallerFits(c) ==
  caller[c].pc = "routed" =>
    c \in world.callers /\ Fit(caller[c].route.status, caller[c].route.epoch)
QueueFits(p)  == \A i \in DOMAIN queue[p] : Uses(p) /\ FitJob(queue[p][i])
WorkerFits(p) ==
  worker[p].pc # "idle" => Uses(p) /\ worker[p].job.phase # "fail_open" /\ FitJob(worker[p].job)

Fits ==
  /\ \A c \in Caller : CallerFits(c)
  /\ \A p \in Proc : QueueFits(p) /\ WorkerFits(p)

\* No sequence number is ahead of what was counted at its epoch.
Seqs ==
  \A e \in Nat :
    /\ \A i \in DOMAIN pairs : pairs[i].epoch = e => pairs[i].seq <= Cardinality(Compared(e))
    /\ \A p \in Proc : worker[p].pc \in {"prune", "score", "move"} /\ worker[p].job.epoch = e =>
         worker[p].seq <= Cardinality(Compared(e))

\* What a worker that scores was told by _maybe_transition, and what it keeps of it.
Dues ==
  \A p \in Proc :
    /\ worker[p].pc = "score" => Due(p, worker[p].job, worker[p].seq)
    /\ worker[p].pc = "move" /\ worker[p].job.phase = "shadow" =>
         worker[p].seq > 0 /\ worker[p].seq <= StallFactor * WindowOf(p, "shadow")

\* The windows drawn at the row's epoch are among those `scored` counts, which are
\* no more than the comparisons fill; nothing is kept of an epoch to come.
Draws ==
  \A p \in Proc, e \in Nat :
    /\ e \in DOMAIN scored[p] \union DOMAIN drawn[p] => e <= row.epoch
    /\ row.epoch = e => /\ Lookup(drawn[p], e, 0) <= Lookup(scored[p], e, 0)
                        /\ Lookup(scored[p], e, 0) * WindowOf(p, PhaseNow) <= Cardinality(Compared(e))

\* A worker about to move the task has a run that passes.
Earned ==
  \A p \in Proc, job \in Job : worker[p].pc = "move" /\ worker[p].job = job =>
    \E run \in Runs(job.epoch, WindowOf(p, job.phase)) : Passes(p, job.phase, run)

\* The only process is never behind the sequence numbers of the epoch it compares at.
Alone(p) == Uses(p) /\ \A q \in Proc \ {p} : ~Uses(q)
Abreast ==
  \A p \in Proc : Alone(p) /\ worker[p].pc \in {"prune", "score", "move"} /\ worker[p].seq > 0 =>
    \A i \in AtEpoch(Retained, worker[p].job.epoch) : pairs[i].seq <= worker[p].seq
-----------------------------------------------------------------------------
(* Numbers. *)

\* The sets 0..t are well-founded by inclusion, so there is a least t.
LEMMA LeastNat ==
  ASSUME NEW T, T \subseteq Nat, T # {}
  PROVE  \E x \in T : \A y \in T : x <= y
  <1> DEFINE F == {0..t : t \in T}
             R == StrictSubsetOrdering(Nat)
  <1>1. IsWellFoundedOn(R, FiniteSubsetsOf(Nat))
    BY FS_StrictSubsetOrderingWellFounded
  <1>2. F \subseteq FiniteSubsetsOf(Nat) /\ F # {}
    <2>1. \A t \in T : IsFiniteSet(0..t) /\ 0..t \subseteq Nat
      BY FS_Interval
    <2> QED BY <2>1 DEF FiniteSubsetsOf
  <1>3. PICK X \in F : \A Y \in F : ~(<<Y, X>> \in R)
    <2> HIDE DEF F, R
    <2> QED BY <1>1, <1>2, WFMin
  <1>4. PICK x \in T : X = 0..x
    OBVIOUS
  <1>5. ASSUME NEW y \in T PROVE x <= y
    <2>1. CASE y < x
      <3>1. 0..y \subseteq 0..x /\ 0..y # 0..x
        <4>1. x \in 0..x /\ x \notin 0..y
          BY <2>1
        <4> QED BY <2>1, <4>1
      <3>2. <<0..y, 0..x>> \in R
        BY <3>1 DEF StrictSubsetOrdering
      <3> QED BY <1>3, <1>4, <3>2
    <2> QED BY <2>1
  <1> QED BY <1>5

LEMMA GreatestNat ==
  ASSUME NEW T, T \subseteq Nat, T # {}, NEW n \in Nat, \A t \in T : t <= n
  PROVE  \E x \in T : \A y \in T : y <= x
  <1> DEFINE D == {n - t : t \in T}
  <1>1. D \subseteq Nat /\ D # {}
    <2>1. \A t \in T : n - t \in Nat
      OBVIOUS
    <2>2. PICK t \in T : TRUE
      OBVIOUS
    <2>3. n - t \in D
      OBVIOUS
    <2> QED BY <2>1, <2>3
  <1>2. PICK d \in D : \A e \in D : d <= e
    <2> HIDE DEF D
    <2> QED BY <1>1, LeastNat
  <1>3. PICK x \in T : d = n - x
    OBVIOUS
  <1>4. ASSUME NEW y \in T PROVE y <= x
    <2>1. n - x <= n - y
      BY <1>2, <1>3
    <2> QED BY <2>1
  <1> QED BY <1>4

LEMMA TimesMonotone ==
  ASSUME NEW a \in Nat, NEW b \in Nat, NEW w \in Nat, a <= b
  PROVE  a * w <= b * w
  <1>1. PICK d \in Nat : b = a + d
    <2>1. b - a \in Nat /\ b = a + (b - a)
      OBVIOUS
    <2> QED BY <2>1
  <1>2. d * w \in Nat /\ a * w \in Nat /\ b * w = a * w + d * w
    BY <1>1
  <1> QED BY <1>2

LEMMA DivTimes ==
  ASSUME NEW s \in Nat, NEW w \in Nat \ {0}
  PROVE  (s \div w) \in Nat /\ (s \div w) * w <= s
  OBVIOUS

LEMMA WindowNat ==
  ASSUME NEW p \in Proc, NEW phase
  PROVE  WindowOf(p, phase) \in Nat \ {0}
  BY ShadowAssumption DEF WindowOf

-----------------------------------------------------------------------------
(* Dicts. *)

LEMMA DictOps ==
  ASSUME NEW d, IsDict(d), NEW e \in Nat
  PROVE  /\ Lookup(d, e, 0) \in Nat
         /\ IsDict(DropOlder(d, e))
         /\ \A v \in Nat : /\ IsDict(Store(d, e, v))
                          /\ Lookup(Store(d, e, v), e, 0) = v
                          /\ DOMAIN Store(d, e, v) = DOMAIN d \union {e}
         /\ \A v \in Nat : \A x \in Nat \ {e} : Lookup(Store(d, e, v), x, 0) = Lookup(d, x, 0)
         /\ DOMAIN DropOlder(d, e) \subseteq DOMAIN d
         /\ \A x \in Nat : x >= e => Lookup(DropOlder(d, e), x, 0) = Lookup(d, x, 0)
  <1>1. Lookup(d, e, 0) \in Nat
    BY DEF Lookup, IsDict
  <1>2. IsDict(DropOlder(d, e)) /\ DOMAIN DropOlder(d, e) \subseteq DOMAIN d
    BY DEF IsDict, DropOlder
  <1>3. \A x \in Nat : x >= e => Lookup(DropOlder(d, e), x, 0) = Lookup(d, x, 0)
    BY DEF IsDict, DropOlder, Lookup
  <1>4. ASSUME NEW v \in Nat
        PROVE  /\ IsDict(Store(d, e, v))
               /\ Lookup(Store(d, e, v), e, 0) = v
               /\ DOMAIN Store(d, e, v) = DOMAIN d \union {e}
               /\ \A x \in Nat \ {e} : Lookup(Store(d, e, v), x, 0) = Lookup(d, x, 0)
    BY DEF IsDict, Store, Lookup
  <1> QED BY <1>1, <1>2, <1>3, <1>4

LEMMA EmptyDict == IsDict(NoEntries) /\ DOMAIN NoEntries = {} /\ \A e : Lookup(NoEntries, e, 0) = 0
  BY DEF IsDict, NoEntries, Lookup

-----------------------------------------------------------------------------
(* The rows of shadow_pairs. *)

LEMMA ComparedFinite ==
  ASSUME Types, NEW e
  PROVE  /\ Compared(e) \subseteq 1..Len(pairs) /\ Len(pairs) \in Nat
         /\ \A S \in SUBSET (1..Len(pairs)) : IsFiniteSet(S) /\ Cardinality(S) \in Nat
         /\ IsFiniteSet(Compared(e)) /\ Cardinality(Compared(e)) \in Nat
  <1>1. pairs \in Seq(PairRec) /\ Len(pairs) \in Nat /\ DOMAIN pairs = 1..Len(pairs)
    BY DEF Types
  <1>2. Compared(e) \subseteq 1..Len(pairs)
    BY <1>1 DEF Compared, Countable, AtEpoch
  <1>3. IsFiniteSet(1..Len(pairs))
    BY <1>1, FS_Interval
  <1>4. \A S \in SUBSET (1..Len(pairs)) : IsFiniteSet(S) /\ Cardinality(S) \in Nat
    BY <1>3, FS_Subset, FS_CardinalityType
  <1> QED BY <1>1, <1>2, <1>4

\* MAX(seq) is a sequence number of the epoch, or 0, and none is above it.
LEMMA EpochSeqMax ==
  ASSUME Types, Seqs, NEW e
  PROVE  /\ EpochSeq(e) \in Nat
         /\ EpochSeq(e) <= Cardinality(Compared(e))
         /\ \A i \in AtEpoch(Retained, e) : pairs[i].seq <= EpochSeq(e)
         /\ EpochSeq(e) = 0 \/ \E i \in AtEpoch(Retained, e) : EpochSeq(e) = pairs[i].seq
  <1> DEFINE seqs == {pairs[i].seq : i \in AtEpoch(Retained, e)} \union {0}
             n == Cardinality(Compared(e))
  <1>1. n \in Nat
    BY ComparedFinite
  <1>2. \A i \in AtEpoch(Retained, e) : i \in DOMAIN pairs /\ pairs[i] \in PairRec /\ pairs[i].epoch = e
    BY DEF Types, AtEpoch, Retained
  <1>3. seqs \subseteq Nat /\ \A s \in seqs : s <= n
    BY <1>1, <1>2 DEF PairRec, Seqs
  <1>4. \E s \in seqs : \A t \in seqs : t <= s
    <2> HIDE DEF n
    <2>1. 0 \in seqs
      OBVIOUS
    <2> HIDE DEF seqs
    <2> QED BY <1>1, <1>3, <2>1, GreatestNat
  <1>5. EpochSeq(e) \in seqs /\ \A t \in seqs : t <= EpochSeq(e)
    <2>1. EpochSeq(e) = CHOOSE s \in seqs : \A t \in seqs : t <= s
      BY DEF EpochSeq
    <2> HIDE DEF seqs
    <2> QED BY <1>4, <2>1
  <1> QED BY <1>3, <1>5
-----------------------------------------------------------------------------
(* The steps, by what they change. *)

LEMMA RowOps ==
  ASSUME NEW r \in Row, NEW c \in Configs
  PROVE  /\ Promote(r) \in Row /\ Promote(r).epoch = r.epoch + 1 /\ Promote(r).status = "ready"
         /\ Demote(r) \in Row /\ Demote(r).epoch = r.epoch + 1 /\ Demote(r).status = "shadow"
         /\ SyncShadowConfig(r, c) \in Row /\ SyncShadowConfig(r, c).status = r.status
         /\ SyncShadowConfig(r, c).epoch \in {r.epoch, r.epoch + 1}
  <1>1. /\ r = [r EXCEPT !.status = r.status] /\ r.epoch \in Nat /\ r.epoch + 1 \in Nat
        /\ {"ready", "shadow"} \subseteq Status
    BY DEF Row, Status
  <1>2. /\ Promote(r) \in Row /\ Promote(r).epoch = r.epoch + 1 /\ Promote(r).status = "ready"
        /\ Demote(r) \in Row /\ Demote(r).epoch = r.epoch + 1 /\ Demote(r).status = "shadow"
    BY <1>1 DEF Promote, Demote, Row
  <1>3. /\ SyncShadowConfig(r, c) \in Row /\ SyncShadowConfig(r, c).status = r.status
        /\ SyncShadowConfig(r, c).epoch \in {r.epoch, r.epoch + 1}
    BY <1>1 DEF SyncShadowConfig, Row
  <1> QED BY <1>2, <1>3

\* The state of every process but p.
OnlyAt(p) ==
  \A q \in Proc \ {p} :
    /\ queue'[q] = queue[q] /\ worker'[q] = worker[q] /\ scored'[q] = scored[q]
    /\ seqCache'[q] = seqCache[q] /\ drawn'[q] = drawn[q] /\ clock'[q] = clock[q]

\* The steps of process p.
ProcStep(p) == WorkerStep(p) \/ WorkerFault(p) \/ Restart(p)

\* The steps of caller c.
CallStep(c) == CallerStep(c) \/ EndUnsampled(c)

LEMMA Steps ==
  Next <=> (\E c \in Caller : CallStep(c)) \/ (\E p \in Proc : ProcStep(p))
  BY DEF Next, CallStep, ProcStep

LEMMA CallShape ==
  ASSUME NEW c \in Caller, CallStep(c)
  PROVE  UNCHANGED <<row, pairs, pruned, worker, scored, seqCache, clock, drawn, restarts, faults, world>>
  BY DEF CallStep, CallerStep, Route, Submit, EndUnsampled, local

\* Take, and the fault that Begin survives.
TakeShape(p) ==
  /\ UNCHANGED <<row, pairs, pruned, caller, clock, drawn, restarts, world>>
  /\ queue[p] # <<>> /\ queue'[p] = Tail(queue[p]) /\ worker[p].pc = "idle"
  /\ \/ worker'[p] = worker[p] /\ scored'[p] = scored[p] /\ seqCache'[p] = seqCache[p]
     \/ /\ Head(queue[p]).phase # "fail_open"
        /\ scored'[p] = DropOlder(scored[p], Head(queue[p]).epoch)
        /\ \E seq \in Nat :
             seqCache'[p] \in {DropOlder(seqCache[p], Head(queue[p]).epoch),
                              Store(DropOlder(seqCache[p], Head(queue[p]).epoch), Head(queue[p]).epoch, seq)}
        /\ worker'[p] \in {IdleWorker, [pc |-> "compare", job |-> Head(queue[p]), seq |-> 0]}

\* A worker gives up, or has nothing to move.
IdleShape(p) ==
  /\ UNCHANGED <<row, pairs, pruned, caller, queue, scored, seqCache, clock, drawn, restarts, world>>
  /\ worker'[p] = IdleWorker

LEMMA LookupNat ==
  ASSUME NEW d, IsDict(d), NEW e, NEW v \in Nat
  PROVE  Lookup(d, e, v) \in Nat
  <1>1. CASE e \in DOMAIN d
    BY <1>1 DEF Lookup, IsDict
  <1>2. CASE e \notin DOMAIN d
    BY <1>2 DEF Lookup
  <1> QED BY <1>1, <1>2

\* What Begin does to the process.
BeginShape(p, job, seq) ==
  /\ scored'[p] = DropOlder(scored[p], job.epoch)
  /\ seqCache'[p] \in {DropOlder(seqCache[p], job.epoch),
                       Store(DropOlder(seqCache[p], job.epoch), job.epoch, seq)}
  /\ worker'[p] \in {IdleWorker, [pc |-> "compare", job |-> job, seq |-> 0]}
  /\ \A q \in Proc \ {p} :
       worker'[q] = worker[q] /\ scored'[q] = scored[q] /\ seqCache'[q] = seqCache[q]

LEMMA Functions ==
  ASSUME Types
  PROVE  /\ scored = [p \in Proc |-> scored[p]] /\ seqCache = [p \in Proc |-> seqCache[p]]
         /\ drawn = [p \in Proc |-> drawn[p]]
         /\ worker \in [Proc -> WorkerRec] /\ queue \in [Proc -> Seq(Job)]
         /\ clock \in [Proc -> 0..(PruneEvery - 1)]
  BY DEF Types, Dicts

LEMMA BeginShapes ==
  ASSUME Types, NEW p \in Proc, NEW job, NEW seq, Begin(p, job, seq)
  PROVE  BeginShape(p, job, seq)
  <1>1. scored' = [scored EXCEPT ![p] = DropOlder(@, job.epoch)]
    BY DEF Begin
  <1>2. seqCache' = [seqCache EXCEPT ![p] =
          IF job.phase = "shadow" THEN Store(DropOlder(@, job.epoch), job.epoch, seq)
                                  ELSE DropOlder(@, job.epoch)]
    BY DEF Begin
  <1>3. \/ worker' = [worker EXCEPT ![p] = [pc |-> "compare", job |-> job, seq |-> 0]]
        \/ worker' = [worker EXCEPT ![p] = IdleWorker]
    BY DEF Begin, WorkerIdle
  <1>4. scored'[p] = DropOlder(scored[p], job.epoch) /\ \A q \in Proc \ {p} : scored'[q] = scored[q]
    BY <1>1, Functions
  <1>5. /\ seqCache'[p] \in {DropOlder(seqCache[p], job.epoch),
                             Store(DropOlder(seqCache[p], job.epoch), job.epoch, seq)}
        /\ \A q \in Proc \ {p} : seqCache'[q] = seqCache[q]
    BY <1>2, Functions
  <1>6. /\ worker'[p] \in {IdleWorker, [pc |-> "compare", job |-> job, seq |-> 0]}
        /\ \A q \in Proc \ {p} : worker'[q] = worker[q]
    BY <1>3, Functions
  <1> QED BY <1>4, <1>5, <1>6 DEF BeginShape

LEMMA TakeShapes ==
  ASSUME Types, Seqs, NEW p \in Proc, Take(p)
  PROVE  TakeShape(p) /\ faults' = faults /\ OnlyAt(p)
  <1>1. /\ queue[p] \in Seq(Job) /\ queue[p] # <<>> /\ queue' = [queue EXCEPT ![p] = Tail(@)]
        /\ worker[p].pc = "idle"
        /\ UNCHANGED <<row, pairs, pruned, caller, clock, drawn, restarts, faults, world>>
    BY DEF Types, Take, At
  <1>2. queue'[p] = Tail(queue[p]) /\ \A q \in Proc \ {p} : queue'[q] = queue[q]
    BY <1>1, Functions
  <1> DEFINE job == Head(queue[p])
             seq == Lookup(seqCache[p], job.epoch, EpochSeq(job.epoch))
  <1>3. CASE job.phase = "fail_open"
    <2>1. UNCHANGED <<scored, seqCache, worker>>
      BY <1>3 DEF Take
    <2> QED BY <1>1, <1>2, <2>1 DEF TakeShape, OnlyAt
  <1>4. CASE job.phase # "fail_open"
    <2>1. Begin(p, job, seq)
      BY <1>4 DEF Take
    <2>2. seq \in Nat
      <3>1. EpochSeq(job.epoch) \in Nat /\ IsDict(seqCache[p])
        BY EpochSeqMax DEF Types, Dicts
      <3> QED BY <3>1, LookupNat
    <2> HIDE DEF seq
    <2>3. BeginShape(p, job, seq)
      BY <2>1, BeginShapes
    <2> QED BY <1>1, <1>2, <1>4, <2>2, <2>3 DEF TakeShape, OnlyAt, BeginShape
  <1> QED BY <1>3, <1>4

LEMMA FaultShapes ==
  ASSUME Types, Seqs, NEW p \in Proc, WorkerFault(p)
  PROVE  (TakeShape(p) \/ IdleShape(p)) /\ faults' = faults + 1 /\ OnlyAt(p)
  <1>0. UNCHANGED <<row, pairs, pruned, caller, clock, drawn, restarts, world>> /\ faults' = faults + 1
    BY DEF WorkerFault
  <1>1. CASE /\ At(p, "idle") /\ queue[p] # <<>> /\ Head(queue[p]).phase = "shadow"
             /\ queue' = [queue EXCEPT ![p] = Tail(@)]
             /\ Begin(p, Head(queue[p]), 0)
    <2>1. queue'[p] = Tail(queue[p]) /\ \A q \in Proc \ {p} : queue'[q] = queue[q]
      BY <1>1, Functions
    <2>2. BeginShape(p, Head(queue[p]), 0) /\ worker[p].pc = "idle" /\ queue[p] # <<>>
      BY <1>1, BeginShapes DEF At
    <2>3. Head(queue[p]).phase # "fail_open" /\ 0 \in Nat
      BY <1>1
    <2>4. TakeShape(p) /\ OnlyAt(p)
      BY <1>0, <2>1, <2>2, <2>3 DEF TakeShape, OnlyAt, BeginShape
    <2> QED BY <1>0, <2>4
  <1>2. CASE WorkerIdle(p) /\ UNCHANGED <<queue, scored, seqCache>>
    <2>1. worker'[p] = IdleWorker /\ \A q \in Proc \ {p} : worker'[q] = worker[q]
      BY <1>2, Functions DEF WorkerIdle
    <2> QED BY <1>0, <1>2, <2>1 DEF IdleShape, OnlyAt
  <1> QED BY <1>1, <1>2 DEF WorkerFault

\* What Recorded does: the worker goes on to score when a window is due.
RecordedShape(p, seq) ==
  /\ \/ worker'[p] = IdleWorker
     \/ /\ worker'[p] = [pc |-> "score", job |-> worker[p].job, seq |-> seq]
        /\ Due(p, worker[p].job, seq)
  /\ seqCache'[p] \in {seqCache[p], Store(seqCache[p], worker[p].job.epoch, seq)}
  /\ \A q \in Proc \ {p} : worker'[q] = worker[q] /\ seqCache'[q] = seqCache[q]

LEMMA RecordedShapes ==
  ASSUME Types, NEW p \in Proc, NEW seq \in Nat, Recorded(p, seq)
  PROVE  RecordedShape(p, seq)
  <1> DEFINE job == worker[p].job
  <1>1. seqCache'[p] \in {seqCache[p], Store(seqCache[p], job.epoch, seq)}
        /\ \A q \in Proc \ {p} : seqCache'[q] = seqCache[q]
    <2>1. \/ seqCache' = [seqCache EXCEPT ![p] = Store(@, job.epoch, seq)]
          \/ seqCache' = seqCache
      BY DEF Recorded
    <2> HIDE DEF job
    <2> QED BY <2>1, Functions
  <1>2. CASE Due(p, job, seq)
    <2>1. worker' = [worker EXCEPT ![p].pc = "score", ![p].seq = seq]
      BY <1>2 DEF Recorded
    <2>2. worker'[p] = [pc |-> "score", job |-> job, seq |-> seq] /\ \A q \in Proc \ {p} : worker'[q] = worker[q]
      BY <2>1, Functions DEF WorkerRec
    <2> QED BY <1>1, <1>2, <2>2 DEF RecordedShape
  <1>3. CASE ~Due(p, job, seq)
    <2>1. worker' = [worker EXCEPT ![p] = IdleWorker]
      BY <1>3 DEF Recorded, WorkerIdle
    <2>2. worker'[p] = IdleWorker /\ \A q \in Proc \ {p} : worker'[q] = worker[q]
      BY <2>1, Functions
    <2> QED BY <1>1, <2>2 DEF RecordedShape
  <1> QED BY <1>2, <1>3

\* Record: a row of the job's epoch, with the next sequence number when it counts.
RecordShape(p) ==
  /\ UNCHANGED <<row, pruned, caller, queue, scored, drawn, restarts, faults, world>>
  /\ worker[p].pc = "compare"
  /\ clock'[p] \in 0..(PruneEvery - 1)
  /\ \E r \in PairRec :
       /\ pairs' = Append(pairs, r)
       /\ r.epoch = worker[p].job.epoch
       /\ r.seq = IF r.verdict = "excluded" THEN 0 ELSE EpochSeq(r.epoch) + 1
       /\ \/ RecordedShape(p, r.seq)
          \/ /\ worker'[p] = [pc |-> "prune", job |-> worker[p].job, seq |-> r.seq]
             /\ seqCache'[p] = seqCache[p]

LEMMA RecordShapes ==
  ASSUME Types, Fits, Seqs, NEW p \in Proc, Record(p)
  PROVE  RecordShape(p) /\ OnlyAt(p)
  <1> DEFINE job == worker[p].job
  <1>0. /\ UNCHANGED <<row, pruned, caller, queue, scored, drawn, restarts, faults, world>>
        /\ worker[p].pc = "compare" /\ worker[p] \in WorkerRec /\ job \in Job /\ job.epoch \in Nat
        /\ job.phase \in {"shadow", "audit"}
    BY DEF Record, At, Types, WorkerRec, Job, Fits, WorkerFits, Phase
  <1>1. PICK v \in world.outcomes[job.phase] :
          LET seq == IF v = "excluded" THEN 0 ELSE EpochSeq(job.epoch) + 1
          IN /\ pairs' = Append(pairs, [epoch |-> job.epoch, verdict |-> v, seq |-> seq])
             /\ clock' = [clock EXCEPT ![p] = (@ + 1) % PruneEvery]
             /\ IF clock[p] + 1 = PruneEvery
                THEN /\ worker' = [worker EXCEPT ![p].pc = "prune", ![p].seq = seq]
                     /\ UNCHANGED seqCache
                ELSE Recorded(p, seq)
    BY DEF Record
  <1>2. v \in Verdict
    BY <1>0, ShadowAssumption DEF Types
  <1>3. EpochSeq(job.epoch) \in Nat
    BY EpochSeqMax
  <1> DEFINE seq == IF v = "excluded" THEN 0 ELSE EpochSeq(job.epoch) + 1
             r   == [epoch |-> job.epoch, verdict |-> v, seq |-> seq]
  <1>4. seq \in Nat /\ r \in PairRec
    BY <1>0, <1>2, <1>3 DEF PairRec
  <1>5. /\ pairs' = Append(pairs, r) /\ r.epoch = job.epoch
        /\ r.seq = IF r.verdict = "excluded" THEN 0 ELSE EpochSeq(r.epoch) + 1
    BY <1>1
  <1>6. clock'[p] \in 0..(PruneEvery - 1) /\ \A q \in Proc \ {p} : clock'[q] = clock[q]
    <2>1. clock' = [clock EXCEPT ![p] = (@ + 1) % PruneEvery]
      BY <1>1
    <2>2. clock[p] \in Nat /\ PruneEvery \in Nat \ {0}
      BY Functions, ShadowAssumption
    <2>3. (clock[p] + 1) % PruneEvery \in 0..(PruneEvery - 1)
      BY <2>2
    <2> QED BY <2>1, <2>3, Functions
  <1>7. CASE clock[p] + 1 = PruneEvery
    <2>1. worker' = [worker EXCEPT ![p].pc = "prune", ![p].seq = seq] /\ seqCache' = seqCache
      BY <1>1, <1>7
    <2>2. worker'[p] = [pc |-> "prune", job |-> job, seq |-> seq] /\ \A q \in Proc \ {p} : worker'[q] = worker[q]
      <3> HIDE DEF seq
      <3> QED BY <2>1, Functions DEF WorkerRec
    <2> QED BY <1>0, <1>4, <1>5, <1>6, <2>1, <2>2 DEF RecordShape, OnlyAt
  <1>8. CASE clock[p] + 1 # PruneEvery
    <2>1. Recorded(p, seq)
      BY <1>1, <1>8
    <2>2. RecordedShape(p, seq)
      <3> HIDE DEF seq
      <3> QED BY <1>4, <2>1, RecordedShapes
    <2> QED BY <1>0, <1>4, <1>5, <1>6, <2>2 DEF RecordShape, OnlyAt, RecordedShape
  <1> QED BY <1>7, <1>8
\* Prune: only rows leave the table.
PruneShape(p) ==
  /\ UNCHANGED <<row, pairs, caller, queue, scored, clock, drawn, restarts, faults, world>>
  /\ worker[p].pc = "prune"
  /\ pruned' \in Nat /\ pruned' >= pruned /\ pruned' <= Len(pairs)
  /\ RecordedShape(p, worker[p].seq)

LEMMA PruneShapes ==
  ASSUME Types, NEW p \in Proc, Prune(p)
  PROVE  PruneShape(p) /\ OnlyAt(p)
  <1>0. /\ UNCHANGED <<row, pairs, caller, queue, scored, clock, drawn, restarts, faults, world>>
        /\ worker[p].pc = "prune" /\ Recorded(p, worker[p].seq)
        /\ pruned' = MaxOf(pruned, IF Len(pairs) > MaxPairs THEN Len(pairs) - MaxPairs ELSE 0)
    BY DEF Prune, At
  <1>1. pruned \in Nat /\ pruned <= Len(pairs) /\ Len(pairs) \in Nat /\ worker[p].seq \in Nat
    BY DEF Types, WorkerRec
  <1>2. pruned' \in Nat /\ pruned' >= pruned /\ pruned' <= Len(pairs)
    BY <1>0, <1>1, ShadowAssumption DEF MaxOf
  <1>3. RecordedShape(p, worker[p].seq)
    BY <1>0, <1>1, RecordedShapes
  <1> QED BY <1>0, <1>2, <1>3 DEF PruneShape, OnlyAt, RecordedShape

\* Score: one more window is spent, and one that passes goes on to move.
ScoreShape(p) ==
  LET job    == worker[p].job
      window == WindowOf(p, job.phase)
      stats  == Stats(job.epoch, window)
      done   == Lookup(scored[p], job.epoch, 0)
  IN /\ UNCHANGED <<row, pairs, pruned, caller, queue, seqCache, clock, restarts, faults, world>>
     /\ worker[p].pc = "score"
     /\ Cardinality(stats) = window
     /\ scored'[p] = Store(scored[p], job.epoch, MaxOf(done + 1, worker[p].seq \div window))
     /\ drawn'[p] = Store(drawn[p], job.epoch, Lookup(drawn[p], job.epoch, 0) + 1)
     /\ \/ worker'[p] = IdleWorker
        \/ Passes(p, job.phase, stats) /\ worker'[p] = [worker[p] EXCEPT !.pc = "move"]

LEMMA ScoreShapes ==
  ASSUME Types, NEW p \in Proc, Score(p)
  PROVE  ((IdleShape(p) /\ faults' = faults) \/ ScoreShape(p)) /\ OnlyAt(p)
  <1> DEFINE job    == worker[p].job
             window == WindowOf(p, job.phase)
             stats  == Stats(job.epoch, window)
             done   == Lookup(scored[p], job.epoch, 0)
             spent  == MaxOf(done + 1, worker[p].seq \div window)
             more   == Lookup(drawn[p], job.epoch, 0) + 1
  <1>0. /\ UNCHANGED <<row, pairs, pruned, caller, queue, seqCache, clock, restarts, faults, world>>
        /\ worker[p].pc = "score"
    BY DEF Score, At
  <1>1. CASE StatsRaise(job.epoch, window) \/ Cardinality(stats) # window
    <2>1. worker' = [worker EXCEPT ![p] = IdleWorker] /\ UNCHANGED <<scored, drawn>>
      BY <1>1 DEF Score, WorkerIdle
    <2>2. worker'[p] = IdleWorker /\ \A q \in Proc \ {p} : worker'[q] = worker[q]
      BY <2>1, Functions
    <2> QED BY <1>0, <2>1, <2>2 DEF IdleShape, OnlyAt
  <1>2. CASE ~(StatsRaise(job.epoch, window) \/ Cardinality(stats) # window)
    <2>1. /\ scored' = [scored EXCEPT ![p] = Store(@, job.epoch, spent)]
          /\ drawn' = [drawn EXCEPT ![p] = Store(@, job.epoch, Lookup(@, job.epoch, 0) + 1)]
          /\ IF Passes(p, job.phase, stats)
             THEN worker' = [worker EXCEPT ![p].pc = "move"]
             ELSE worker' = [worker EXCEPT ![p] = IdleWorker]
      BY <1>2 DEF Score, WorkerIdle
    <2>2. /\ scored'[p] = Store(scored[p], job.epoch, spent)
          /\ \A q \in Proc \ {p} : scored'[q] = scored[q]
      <3> HIDE DEF job, spent
      <3> QED BY <2>1, Functions
    <2>3. /\ drawn'[p] = Store(drawn[p], job.epoch, more)
          /\ \A q \in Proc \ {p} : drawn'[q] = drawn[q]
      <3> HIDE DEF job
      <3> QED BY <2>1, Functions
    <2>4. /\ \/ worker'[p] = IdleWorker
             \/ Passes(p, job.phase, stats) /\ worker'[p] = [worker[p] EXCEPT !.pc = "move"]
          /\ \A q \in Proc \ {p} : worker'[q] = worker[q]
      <3>1. CASE Passes(p, job.phase, stats)
        <4>1. worker' = [worker EXCEPT ![p].pc = "move"]
          BY <2>1, <3>1
        <4>2. worker'[p] = [worker[p] EXCEPT !.pc = "move"] /\ \A q \in Proc \ {p} : worker'[q] = worker[q]
          BY <4>1, Functions
        <4> QED BY <3>1, <4>2
      <3>2. CASE ~Passes(p, job.phase, stats)
        <4>1. worker' = [worker EXCEPT ![p] = IdleWorker]
          BY <2>1, <3>2
        <4> QED BY <4>1, Functions
      <3> QED BY <3>1, <3>2
    <2>5. Cardinality(stats) = window
      BY <1>2
    <2> QED BY <1>0, <2>2, <2>3, <2>4, <2>5 DEF ScoreShape, OnlyAt
  <1> QED BY <1>1, <1>2

\* Move: the compare-and-set of the job's epoch.
MoveShape(p) ==
  /\ UNCHANGED <<pairs, pruned, caller, queue, scored, seqCache, clock, drawn, restarts, faults, world>>
  /\ worker[p].pc = "move" /\ worker'[p] = IdleWorker
  /\ \/ row' = row
     \/ /\ worker[p].job.phase = "shadow" /\ row.status = "shadow" /\ row.epoch = worker[p].job.epoch
        /\ row' = Promote(row)
     \/ /\ worker[p].job.phase # "shadow" /\ row.status = "ready" /\ row.epoch = worker[p].job.epoch
        /\ row' = Demote(row)

LEMMA MoveShapes ==
  ASSUME Types, NEW p \in Proc, Move(p)
  PROVE  MoveShape(p) /\ OnlyAt(p)
  <1>1. worker' = [worker EXCEPT ![p] = IdleWorker]
    BY DEF Move, WorkerIdle
  <1>2. worker'[p] = IdleWorker /\ \A q \in Proc \ {p} : worker'[q] = worker[q]
    BY <1>1, Functions
  <1>3. /\ UNCHANGED <<pairs, pruned, caller, queue, scored, seqCache, clock, drawn, restarts, faults, world>>
        /\ worker[p].pc = "move"
    BY DEF Move, At
  <1>4. \/ row' = row
        \/ /\ worker[p].job.phase = "shadow" /\ row.status = "shadow" /\ row.epoch = worker[p].job.epoch
           /\ row' = Promote(row)
        \/ /\ worker[p].job.phase # "shadow" /\ row.status = "ready" /\ row.epoch = worker[p].job.epoch
           /\ row' = Demote(row)
    BY DEF Move, Moved, CanPromote, CanDemote
  <1> QED BY <1>2, <1>3, <1>4 DEF MoveShape, OnlyAt

\* Restart: the process forgets, and its configuration may start an epoch.
RestartShape(p) ==
  /\ UNCHANGED <<pairs, pruned, faults, world>> /\ restarts' = restarts + 1
  /\ row' = SyncShadowConfig(row, ConfigOf[p])
  /\ caller' = [c \in Caller |-> IF ProcOf[c] = p THEN IdleCaller ELSE caller[c]]
  /\ Uses(p) /\ worker'[p] = IdleWorker /\ queue'[p] = <<>>
  /\ scored'[p] = NoEntries /\ seqCache'[p] = NoEntries /\ drawn'[p] = NoEntries /\ clock'[p] = 0

LEMMA RestartShapes ==
  ASSUME Types, NEW p \in Proc, Restart(p)
  PROVE  RestartShape(p) /\ OnlyAt(p)
  <1>1. /\ queue' = [queue EXCEPT ![p] = <<>>]
        /\ worker' = [worker EXCEPT ![p] = IdleWorker]
        /\ scored' = [scored EXCEPT ![p] = NoEntries]
        /\ seqCache' = [seqCache EXCEPT ![p] = NoEntries]
        /\ clock' = [clock EXCEPT ![p] = 0]
        /\ drawn' = [drawn EXCEPT ![p] = NoEntries]
    BY DEF Restart
  <1>2. /\ worker'[p] = IdleWorker /\ queue'[p] = <<>>
        /\ scored'[p] = NoEntries /\ seqCache'[p] = NoEntries /\ drawn'[p] = NoEntries /\ clock'[p] = 0
    BY <1>1, Functions
  <1>3. OnlyAt(p)
    BY <1>1, Functions DEF OnlyAt
  <1>4. /\ UNCHANGED <<pairs, pruned, faults, world>> /\ restarts' = restarts + 1
        /\ row' = SyncShadowConfig(row, ConfigOf[p]) /\ Uses(p)
        /\ caller' = [c \in Caller |-> IF ProcOf[c] = p THEN IdleCaller ELSE caller[c]]
    BY DEF Restart
  <1> QED BY <1>2, <1>3, <1>4 DEF RestartShape

\* Every step of a process is of one of these shapes.
LEMMA Shapes ==
  ASSUME Types, Fits, Seqs, NEW p \in Proc, ProcStep(p)
  PROVE  /\ OnlyAt(p)
         /\ \/ TakeShape(p) \/ IdleShape(p) \/ RecordShape(p) \/ PruneShape(p)
            \/ ScoreShape(p) \/ MoveShape(p) \/ RestartShape(p)
         /\ faults' \in {faults, faults + 1}
  <1>1. CASE Take(p)
    BY <1>1, TakeShapes
  <1>2. CASE Record(p)
    <2>1. RecordShape(p) /\ OnlyAt(p)
      BY <1>2, RecordShapes
    <2> QED BY <2>1 DEF RecordShape
  <1>3. CASE Prune(p)
    <2>1. PruneShape(p) /\ OnlyAt(p)
      BY <1>3, PruneShapes
    <2> QED BY <2>1 DEF PruneShape
  <1>4. CASE Score(p)
    <2>1. ((IdleShape(p) /\ faults' = faults) \/ ScoreShape(p)) /\ OnlyAt(p)
      BY <1>4, ScoreShapes
    <2>2. ScoreShape(p) => faults' = faults
      BY DEF ScoreShape
    <2> QED BY <2>1, <2>2
  <1>5. CASE Move(p)
    <2>1. MoveShape(p) /\ OnlyAt(p)
      BY <1>5, MoveShapes
    <2> QED BY <2>1 DEF MoveShape
  <1>6. CASE WorkerFault(p)
    BY <1>6, FaultShapes
  <1>7. CASE Restart(p)
    <2>1. RestartShape(p) /\ OnlyAt(p)
      BY <1>7, RestartShapes
    <2> QED BY <2>1 DEF RestartShape
  <1> QED BY <1>1, <1>2, <1>3, <1>4, <1>5, <1>6, <1>7 DEF ProcStep, WorkerStep
-----------------------------------------------------------------------------
(* Types. *)

IsFun(f) == f = [q \in Proc |-> f[q]]

LEMMA StayFun ==
  ASSUME NEW f, NEW g, IsFun(f), NEW p \in Proc, NEW x, g = f \/ g = [f EXCEPT ![p] = x]
  PROVE  IsFun(g)
  BY DEF IsFun

LEMMA StayFunctions ==
  ASSUME Types, NEW p \in Proc, ProcStep(p)
  PROVE  /\ IsFun(queue') /\ IsFun(worker') /\ IsFun(scored') /\ IsFun(seqCache')
         /\ IsFun(drawn') /\ IsFun(clock')
  <1>0. /\ IsFun(queue) /\ IsFun(worker) /\ IsFun(scored) /\ IsFun(seqCache)
        /\ IsFun(drawn) /\ IsFun(clock)
    BY Functions DEF IsFun
  <1>1. IsFun(queue')
    <2>1. queue' = queue \/ (\E x : queue' = [queue EXCEPT ![p] = x])
      BY DEF ProcStep, WorkerStep, Take, Record, Prune, Score, Move, WorkerFault, Restart
    <2> QED BY <1>0, <2>1, StayFun
  <1>2. IsFun(clock')
    <2>1. clock' = clock \/ (\E x : clock' = [clock EXCEPT ![p] = x])
      BY DEF ProcStep, WorkerStep, Take, Record, Prune, Score, Move, WorkerFault, Restart
    <2> QED BY <1>0, <2>1, StayFun
  <1>3. IsFun(drawn')
    <2>1. drawn' = drawn \/ (\E x : drawn' = [drawn EXCEPT ![p] = x])
      BY DEF ProcStep, WorkerStep, Take, Record, Prune, Score, Move, WorkerFault, Restart
    <2> QED BY <1>0, <2>1, StayFun
  <1>4. IsFun(scored')
    <2>1. scored' = scored \/ (\E x : scored' = [scored EXCEPT ![p] = x])
      BY DEF ProcStep, WorkerStep, Take, Begin, Record, Prune, Score, Move, WorkerFault, Restart
    <2> QED BY <1>0, <2>1, StayFun
  <1>5. IsFun(seqCache')
    <2>1. ASSUME NEW seq, Recorded(p, seq)
          PROVE  seqCache' = seqCache \/ (\E x : seqCache' = [seqCache EXCEPT ![p] = x])
      BY <2>1 DEF Recorded
    <2>2. seqCache' = seqCache \/ (\E x : seqCache' = [seqCache EXCEPT ![p] = x])
      BY <2>1 DEF ProcStep, WorkerStep, Take, Begin, Record, Prune, Score, Move, WorkerFault, Restart
    <2> QED BY <1>0, <2>2, StayFun
  <1>6. IsFun(worker')
    <2> DEFINE G == worker' = worker \/ (\E x : worker' = [worker EXCEPT ![p] = x])
    <2>1. ASSUME NEW seq, Recorded(p, seq) PROVE G
      BY <2>1 DEF Recorded, WorkerIdle
    <2>2. G
      BY <2>1 DEF ProcStep, WorkerStep, Take, Begin, Record, Prune, Score, Move, WorkerFault, Restart, WorkerIdle
    <2> QED BY <1>0, <2>2, StayFun
  <1> QED BY <1>1, <1>2, <1>3, <1>4, <1>5, <1>6
\* The state of one process.
LocalTypes(p) ==
  /\ queue[p] \in Seq(Job) /\ worker[p] \in WorkerRec
  /\ IsDict(scored[p]) /\ IsDict(seqCache[p]) /\ IsDict(drawn[p])
  /\ clock[p] \in 0..(PruneEvery - 1)

LEMMA LocalStep ==
  ASSUME Types, Fits, Seqs, NEW p \in Proc, ProcStep(p)
  PROVE  LocalTypes(p)'
  <1>0. LocalTypes(p) /\ pairs \in Seq(PairRec)
    BY DEF Types, Dicts, LocalTypes
  <1>1. IdleWorker \in WorkerRec
    BY DEF IdleWorker, WorkerRec, WorkerPC, NoJob, Job, Phase
  <1>a. ASSUME NEW seq \in Nat, RecordedShape(p, seq)
        PROVE  worker'[p] \in WorkerRec /\ IsDict(seqCache'[p])
    <2>1. worker'[p] \in WorkerRec
      BY <1>0, <1>1, <1>a DEF RecordedShape, LocalTypes, WorkerRec, WorkerPC
    <2>2. worker[p].job.epoch \in Nat
      BY <1>0 DEF LocalTypes, WorkerRec, Job
    <2>3. IsDict(Store(seqCache[p], worker[p].job.epoch, seq))
      BY <1>0, <2>2, DictOps DEF LocalTypes
    <2> QED BY <1>0, <1>a, <2>1, <2>3 DEF RecordedShape, LocalTypes
  <1>2. CASE TakeShape(p)
    <2>1. Head(queue[p]) \in Job /\ Tail(queue[p]) \in Seq(Job)
      BY <1>0, <1>2 DEF TakeShape, LocalTypes
    <2>2. Head(queue[p]).epoch \in Nat
      BY <2>1 DEF Job
    <2>3. /\ IsDict(DropOlder(scored[p], Head(queue[p]).epoch))
          /\ IsDict(DropOlder(seqCache[p], Head(queue[p]).epoch))
      BY <1>0, <2>2, DictOps DEF LocalTypes
    <2>4. \A seq \in Nat : IsDict(Store(DropOlder(seqCache[p], Head(queue[p]).epoch), Head(queue[p]).epoch, seq))
      BY <2>2, <2>3, DictOps
    <2>5. [pc |-> "compare", job |-> Head(queue[p]), seq |-> 0] \in WorkerRec
      BY <2>1 DEF WorkerRec, WorkerPC
    <2>6. worker'[p] \in WorkerRec
      BY <1>0, <1>1, <1>2, <2>5 DEF TakeShape, LocalTypes
    <2>7. IsDict(scored'[p]) /\ IsDict(seqCache'[p])
      BY <1>0, <1>2, <2>3, <2>4 DEF TakeShape, LocalTypes
    <2> QED BY <1>0, <1>2, <2>1, <2>6, <2>7 DEF TakeShape, LocalTypes
  <1>3. CASE IdleShape(p)
    BY <1>0, <1>1, <1>3 DEF IdleShape, LocalTypes
  <1>4. CASE RecordShape(p)
    <2>1. PICK r \in PairRec :
            \/ RecordedShape(p, r.seq)
            \/ /\ worker'[p] = [pc |-> "prune", job |-> worker[p].job, seq |-> r.seq]
               /\ seqCache'[p] = seqCache[p]
      BY <1>4 DEF RecordShape
    <2>2. r.seq \in Nat
      BY DEF PairRec
    <2>3. worker'[p] \in WorkerRec /\ IsDict(seqCache'[p])
      <3>1. CASE RecordedShape(p, r.seq)
        BY <1>a, <2>2, <3>1
      <3>2. CASE /\ worker'[p] = [pc |-> "prune", job |-> worker[p].job, seq |-> r.seq]
                 /\ seqCache'[p] = seqCache[p]
        BY <1>0, <2>2, <3>2 DEF LocalTypes, WorkerRec, WorkerPC
      <3> QED BY <2>1, <3>1, <3>2
    <2> QED BY <1>0, <1>4, <2>3 DEF RecordShape, LocalTypes
  <1>5. CASE PruneShape(p)
    <2>1. worker[p].seq \in Nat
      BY <1>0 DEF LocalTypes, WorkerRec
    <2>2. worker'[p] \in WorkerRec /\ IsDict(seqCache'[p])
      BY <1>5, <1>a, <2>1 DEF PruneShape
    <2> QED BY <1>0, <1>5, <2>2 DEF PruneShape, LocalTypes
  <1>6. CASE ScoreShape(p)
    <2> DEFINE e == worker[p].job.epoch
               w == WindowOf(p, worker[p].job.phase)
    <2>1. e \in Nat /\ w \in Nat \ {0} /\ worker[p].seq \in Nat
      BY <1>0, WindowNat DEF LocalTypes, WorkerRec, Job
    <2> HIDE DEF w
    <2>2. Lookup(scored[p], e, 0) \in Nat /\ Lookup(drawn[p], e, 0) \in Nat
      BY <1>0, LookupNat DEF LocalTypes
    <2>3. MaxOf(Lookup(scored[p], e, 0) + 1, worker[p].seq \div w) \in Nat
      BY <2>1, <2>2, DivTimes DEF MaxOf
    <2>4. IsDict(scored'[p]) /\ IsDict(drawn'[p])
      <3> DEFINE spent == MaxOf(Lookup(scored[p], e, 0) + 1, worker[p].seq \div w)
                 more  == Lookup(drawn[p], e, 0) + 1
      <3>1. scored'[p] = Store(scored[p], e, spent) /\ drawn'[p] = Store(drawn[p], e, more)
        BY <1>6 DEF ScoreShape, w
      <3>2. spent \in Nat /\ more \in Nat /\ IsDict(scored[p]) /\ IsDict(drawn[p])
        BY <1>0, <2>2, <2>3 DEF LocalTypes
      <3> HIDE DEF e, spent, more
      <3>3. IsDict(Store(scored[p], e, spent))
        BY <2>1, <3>2, DictOps
      <3>4. IsDict(Store(drawn[p], e, more))
        BY <2>1, <3>2, DictOps
      <3> QED BY <3>1, <3>3, <3>4
    <2>5. worker'[p] \in WorkerRec
      BY <1>0, <1>1, <1>6 DEF ScoreShape, LocalTypes, WorkerRec, WorkerPC
    <2> QED BY <1>0, <1>6, <2>4, <2>5 DEF ScoreShape, LocalTypes
  <1>7. CASE MoveShape(p)
    BY <1>0, <1>1, <1>7 DEF MoveShape, LocalTypes
  <1>8. CASE RestartShape(p)
    <2>1. 0 \in 0..(PruneEvery - 1)
      BY ShadowAssumption
    <2> QED BY <1>1, <1>8, <2>1, EmptyDict DEF RestartShape, LocalTypes
  <1> QED BY <1>2, <1>3, <1>4, <1>5, <1>6, <1>7, <1>8, Shapes

\* The row, the table and the callers.
LEMMA SharedStep ==
  ASSUME Types, Fits, Seqs, NEW p \in Proc, ProcStep(p)
  PROVE  /\ row' \in Row /\ row'.epoch \in {row.epoch, row.epoch + 1}
         /\ row'.epoch = row.epoch => row'.status = row.status
         /\ pairs' \in Seq(PairRec) /\ pruned' \in Nat /\ pruned' >= pruned /\ pruned' <= Len(pairs')
         /\ pairs' = pairs \/ (RecordShape(p) /\ \E r \in PairRec : pairs' = Append(pairs, r))
         /\ caller' \in [Caller -> CallerRec] /\ \A c \in Caller : caller'[c] \in {caller[c], IdleCaller}
         /\ restarts' \in Nat /\ faults' \in Nat /\ world' = world
  <1>0. /\ row \in Row /\ pairs \in Seq(PairRec) /\ pruned \in Nat /\ pruned <= Len(pairs)
        /\ caller \in [Caller -> CallerRec] /\ restarts \in Nat /\ row.epoch \in Nat
        /\ faults' \in Nat
    <2>1. faults \in Nat /\ faults' \in {faults, faults + 1}
      BY Shapes DEF Types
    <2> QED BY <2>1 DEF Types, Row
  <1>1. CASE TakeShape(p) \/ IdleShape(p) \/ ScoreShape(p)
    BY <1>0, <1>1 DEF TakeShape, IdleShape, ScoreShape
  <1>2. CASE RecordShape(p)
    <2>1. PICK r \in PairRec : pairs' = Append(pairs, r)
      BY <1>2 DEF RecordShape
    <2>2. pairs' \in Seq(PairRec) /\ Len(pairs') = Len(pairs) + 1 /\ Len(pairs) \in Nat
      BY <1>0, <2>1
    <2>3. pruned' \in Nat /\ pruned' >= pruned /\ pruned' <= Len(pairs')
      BY <1>0, <1>2, <2>2 DEF RecordShape
    <2>4. row' = row /\ caller' = caller /\ restarts' = restarts /\ world' = world
      BY <1>2 DEF RecordShape
    <2> QED BY <1>0, <1>2, <2>1, <2>2, <2>3, <2>4
  <1>3. CASE PruneShape(p)
    BY <1>0, <1>3 DEF PruneShape
  <1>4. CASE MoveShape(p)
    <2>1. /\ row' \in Row /\ row'.epoch \in {row.epoch, row.epoch + 1}
          /\ row'.epoch = row.epoch => row'.status = row.status
      <3>1. PICK c \in Configs : c = ConfigOf[p]
        BY ShadowAssumption
      <3> QED BY <1>0, <1>4, <3>1, RowOps DEF MoveShape
    <2> QED BY <1>0, <1>4, <2>1 DEF MoveShape
  <1>5. CASE RestartShape(p)
    <2>1. ConfigOf[p] \in Configs
      BY ShadowAssumption
    <2>2. /\ row' \in Row /\ row'.epoch \in {row.epoch, row.epoch + 1} /\ row'.status = row.status
      BY <1>0, <1>5, <2>1, RowOps DEF RestartShape
    <2>3. IdleCaller \in CallerRec
      BY DEF IdleCaller, CallerRec, NoRouting, Status
    <2>4. caller' \in [Caller -> CallerRec] /\ \A c \in Caller : caller'[c] \in {caller[c], IdleCaller}
      BY <1>0, <1>5, <2>3 DEF RestartShape
    <2> QED BY <1>0, <1>5, <2>2, <2>4 DEF RestartShape
  <1> QED BY <1>1, <1>2, <1>3, <1>4, <1>5, Shapes

LEMMA CallTypes ==
  ASSUME Types, NEW c \in Caller, CallStep(c)
  PROVE  caller' \in [Caller -> CallerRec] /\ queue' \in [Proc -> Seq(Job)]
  <1>0. caller \in [Caller -> CallerRec] /\ queue \in [Proc -> Seq(Job)] /\ row \in Row /\ ProcOf[c] \in Proc
    BY ShadowAssumption DEF Types
  <1>1. IdleCaller \in CallerRec
    BY DEF IdleCaller, CallerRec, NoRouting, Status
  <1>2. CASE Route(c)
    <2>1. [pc |-> "routed", route |-> Routing(row)] \in CallerRec
      BY <1>0 DEF CallerRec, Routing, Row
    <2> QED BY <1>0, <1>2, <2>1 DEF Route, local
  <1>3. CASE EndUnsampled(c)
    BY <1>0, <1>1, <1>3 DEF EndUnsampled, local
  <1>4. ASSUME NEW phase \in Phase, Submit(c, phase)
        PROVE  caller' \in [Caller -> CallerRec] /\ queue' \in [Proc -> Seq(Job)]
    <2> DEFINE job == IF phase = "fail_open" THEN FailOpenJob ELSE [epoch |-> caller[c].route.epoch, phase |-> phase]
    <2>1. job \in Job
      BY <1>0 DEF CallerRec, Job, FailOpenJob
    <2>2. queue' = queue \/ queue' = [queue EXCEPT ![ProcOf[c]] = Append(@, job)]
      BY <1>4 DEF Submit, Enqueue
    <2> HIDE DEF job
    <2>3. Append(queue[ProcOf[c]], job) \in Seq(Job)
      BY <1>0, <2>1
    <2>4. caller' = [caller EXCEPT ![c] = IdleCaller]
      BY <1>4 DEF Submit
    <2>5. caller' \in [Caller -> CallerRec]
      BY <1>0, <1>1, <2>4
    <2>6. queue' \in [Proc -> Seq(Job)]
      BY <1>0, <2>2, <2>3
    <2> QED BY <2>5, <2>6
  <1> QED BY <1>2, <1>3, <1>4 DEF CallStep, CallerStep

LEMMA TypesStep ==
  ASSUME Types, Fits, Seqs, Next
  PROVE  Types'
  <1>1. ASSUME NEW c \in Caller, CallStep(c) PROVE Types'
    <2>1. UNCHANGED <<row, pairs, pruned, worker, scored, seqCache, clock, drawn, restarts, faults, world>>
      BY <1>1, CallShape
    <2>2. caller' \in [Caller -> CallerRec] /\ queue' \in [Proc -> Seq(Job)]
      BY <1>1, CallTypes
    <2>3. Dicts(scored)' /\ Dicts(seqCache)' /\ Dicts(drawn)'
      BY <2>1 DEF Types, Dicts
    <2> QED BY <2>1, <2>2, <2>3 DEF Types
  <1>2. ASSUME NEW p \in Proc, ProcStep(p) PROVE Types'
    <2>1. /\ IsFun(queue') /\ IsFun(worker') /\ IsFun(scored') /\ IsFun(seqCache')
          /\ IsFun(drawn') /\ IsFun(clock')
      BY <1>2, StayFunctions
    <2>2. ASSUME NEW q \in Proc PROVE LocalTypes(q)'
      <3>1. LocalTypes(q)
        BY DEF Types, Dicts, LocalTypes
      <3>2. CASE q # p
        BY <1>2, <3>1, <3>2, Shapes DEF OnlyAt, LocalTypes
      <3> QED BY <1>2, <3>2, LocalStep
    <2>3. /\ queue' \in [Proc -> Seq(Job)] /\ worker' \in [Proc -> WorkerRec]
          /\ Dicts(scored)' /\ Dicts(seqCache)' /\ Dicts(drawn)'
          /\ clock' \in [Proc -> 0..(PruneEvery - 1)]
      <3>1. queue' \in [Proc -> Seq(Job)]
        BY <2>1, <2>2 DEF IsFun, LocalTypes
      <3>2. worker' \in [Proc -> WorkerRec]
        BY <2>1, <2>2 DEF IsFun, LocalTypes
      <3>3. Dicts(scored)' /\ Dicts(seqCache)' /\ Dicts(drawn)'
        <4>1. \A q \in Proc : IsDict(scored[q])' /\ IsDict(seqCache[q])' /\ IsDict(drawn[q])'
          BY <2>2 DEF LocalTypes
        <4> QED BY <2>1, <4>1 DEF IsFun, Dicts
      <3>4. clock' \in [Proc -> 0..(PruneEvery - 1)]
        BY <2>1, <2>2 DEF IsFun, LocalTypes
      <3> QED BY <3>1, <3>2, <3>3, <3>4
    <2>4. /\ row' \in Row /\ pairs' \in Seq(PairRec) /\ pruned' \in Nat /\ pruned' <= Len(pairs')
          /\ caller' \in [Caller -> CallerRec] /\ restarts' \in Nat /\ faults' \in Nat /\ world' = world
      BY <1>2, SharedStep
    <2> QED BY <2>3, <2>4 DEF Types
  <1> QED BY <1>1, <1>2, Steps
-----------------------------------------------------------------------------
(* What fits the row. *)

LEMMA CallFits ==
  ASSUME Types, Fits, NEW c \in Caller, CallStep(c)
  PROVE  Fits'
  <1>0. /\ row \in Row /\ row.epoch \in Nat /\ caller \in [Caller -> CallerRec]
        /\ queue \in [Proc -> Seq(Job)] /\ worker \in [Proc -> WorkerRec]
        /\ \A d \in Caller : CallerFits(d)
        /\ \A q \in Proc : QueueFits(q) /\ WorkerFits(q)
    BY DEF Types, Row, Fits
  <1>1. UNCHANGED <<row, worker, world>>
    BY CallShape
  <1>2. \A q \in Proc : WorkerFits(q)'
    BY <1>0, <1>1 DEF WorkerFits, FitJob, Fit, Uses
  <1>3. \A d \in Caller \ {c} : caller'[d] = caller[d]
    BY <1>0 DEF CallStep, CallerStep, Route, Submit, EndUnsampled
  <1>4. \A d \in Caller \ {c} : CallerFits(d)'
    BY <1>0, <1>1, <1>3 DEF CallerFits, Fit
  <1>5. ASSUME caller' = [caller EXCEPT ![c] = IdleCaller] PROVE CallerFits(c)'
    <2>1. caller'[c].pc = "idle"
      BY <1>0, <1>5 DEF IdleCaller
    <2> QED BY <2>1 DEF CallerFits
  <1>6. ASSUME queue' = queue PROVE \A q \in Proc : QueueFits(q)'
    BY <1>0, <1>1, <1>6 DEF QueueFits, FitJob, Fit, Uses
  <1>7. CASE Route(c)
    <2>1. /\ caller' = [caller EXCEPT ![c] = [pc |-> "routed", route |-> Routing(row)]]
          /\ queue' = queue /\ c \in world.callers
      BY <1>7 DEF Route, local
    <2>2. caller'[c].route = Routing(row)
      BY <1>0, <2>1
    <2>3. CallerFits(c)'
      BY <1>0, <1>1, <2>1, <2>2 DEF CallerFits, Fit, Routing
    <2> QED BY <1>2, <1>4, <1>6, <2>1, <2>3 DEF Fits
  <1>8. CASE EndUnsampled(c)
    <2>1. caller' = [caller EXCEPT ![c] = IdleCaller] /\ queue' = queue
      BY <1>8 DEF EndUnsampled, local
    <2> QED BY <1>2, <1>4, <1>5, <1>6, <2>1 DEF Fits
  <1>9. ASSUME NEW phase \in Phase, Submit(c, phase) PROVE Fits'
    <2> DEFINE p   == ProcOf[c]
               job == IF phase = "fail_open" THEN FailOpenJob ELSE [epoch |-> caller[c].route.epoch, phase |-> phase]
    <2>1. /\ caller' = [caller EXCEPT ![c] = IdleCaller] /\ caller[c].pc = "routed"
          /\ phase \in IF caller[c].route.status = "shadow" THEN {"shadow"} ELSE {"audit", "fail_open"}
          /\ queue' = queue \/ queue' = [queue EXCEPT ![p] = Append(@, job)]
      BY <1>9 DEF Submit, Enqueue
    <2>2. c \in world.callers /\ Fit(caller[c].route.status, caller[c].route.epoch) /\ p \in Proc
      BY <1>0, <2>1, ShadowAssumption DEF CallerFits
    <2>3. FitJob(job) /\ Uses(p)
      BY <2>1, <2>2 DEF FitJob, Fit, Uses, FailOpenJob
    <2>4. job \in Job
      BY <1>0 DEF CallerRec, Job, FailOpenJob
    <2> HIDE DEF job, p
    <2>5. ASSUME NEW q \in Proc PROVE QueueFits(q)'
      <3>1. CASE queue'[q] = queue[q]
        BY <1>0, <1>1, <3>1 DEF QueueFits, FitJob, Fit, Uses
      <3>2. CASE queue'[q] = Append(queue[q], job) /\ q = p
        <4>1. queue[q] \in Seq(Job) /\ DOMAIN queue[q] = 1..Len(queue[q]) /\ Len(queue[q]) \in Nat
          BY <1>0
        <4>2. /\ DOMAIN queue'[q] = 1..(Len(queue[q]) + 1) /\ queue'[q][Len(queue[q]) + 1] = job
              /\ \A i \in DOMAIN queue[q] : queue'[q][i] = queue[q][i]
          BY <2>4, <3>2, <4>1
        <4>3. \A i \in DOMAIN queue'[q] : i \in DOMAIN queue[q] \/ i = Len(queue[q]) + 1
          BY <4>1, <4>2
        <4>4. \A i \in DOMAIN queue'[q] : FitJob(queue'[q][i])
          BY <1>0, <2>3, <3>2, <4>2, <4>3 DEF QueueFits
        <4> QED BY <1>1, <2>3, <3>2, <4>4 DEF QueueFits, FitJob, Fit, Uses
      <3>3. queue'[q] = queue[q] \/ (queue'[q] = Append(queue[q], job) /\ q = p)
        BY <1>0, <2>1, <2>2
      <3> QED BY <3>1, <3>2, <3>3
    <2> QED BY <1>2, <1>4, <1>5, <2>1, <2>5 DEF Fits
  <1> QED BY <1>7, <1>8, <1>9 DEF CallStep, CallerStep

\* Nothing that fits stops fitting: the epoch only grows, and names one phase.
LEMMA ProcFits ==
  ASSUME Types, Fits, Seqs, NEW p \in Proc, ProcStep(p)
  PROVE  Fits'
  <1>0. /\ row \in Row /\ row.epoch \in Nat /\ caller \in [Caller -> CallerRec]
        /\ queue \in [Proc -> Seq(Job)] /\ worker \in [Proc -> WorkerRec]
        /\ \A c \in Caller : CallerFits(c)
        /\ \A q \in Proc : QueueFits(q) /\ WorkerFits(q)
    BY DEF Types, Row, Fits
  <1>1. /\ row'.epoch \in {row.epoch, row.epoch + 1} /\ (row'.epoch = row.epoch => row'.status = row.status)
        /\ world' = world /\ \A c \in Caller : caller'[c] \in {caller[c], IdleCaller}
    BY SharedStep
  <1>2. ASSUME NEW job \in Job, FitJob(job) PROVE FitJob(job)'
    <2>1. job.epoch \in Nat
      BY DEF Job
    <2> QED BY <1>0, <1>1, <1>2, <2>1 DEF FitJob, Fit
  <1>3. ASSUME NEW c \in Caller PROVE CallerFits(c)'
    <2>1. caller[c].route.epoch \in Nat
      BY <1>0 DEF CallerRec
    <2>2. CASE caller'[c] = caller[c]
      BY <1>0, <1>1, <2>1, <2>2 DEF CallerFits, Fit
    <2>3. CASE caller'[c] = IdleCaller
      BY <2>3 DEF CallerFits, IdleCaller
    <2> QED BY <1>1, <2>2, <2>3
  <1>4. ASSUME NEW q \in Proc, queue'[q] = queue[q] PROVE QueueFits(q)'
    <2>1. \A i \in DOMAIN queue[q] : queue[q][i] \in Job
      BY <1>0
    <2> QED BY <1>0, <1>1, <1>2, <1>4, <2>1 DEF QueueFits, Uses, FitJob, Fit
  <1>5. ASSUME NEW q \in Proc, worker'[q].pc # "idle",
               worker[q].pc # "idle", worker'[q].job = worker[q].job
        PROVE  WorkerFits(q)'
    <2>1. worker[q].job \in Job /\ FitJob(worker[q].job) /\ Uses(q) /\ worker[q].job.phase # "fail_open"
      BY <1>0, <1>5 DEF WorkerRec, WorkerFits
    <2> QED BY <1>0, <1>1, <1>2, <1>5, <2>1 DEF WorkerFits, Uses, FitJob, Fit
  <1>6. ASSUME NEW q \in Proc, q # p PROVE QueueFits(q)' /\ WorkerFits(q)'
    <2>1. queue'[q] = queue[q] /\ worker'[q] = worker[q]
      BY <1>6, Shapes DEF OnlyAt
    <2>2. CASE worker[q].pc = "idle"
      BY <1>4, <2>1, <2>2 DEF WorkerFits
    <2> QED BY <1>4, <1>5, <2>1, <2>2
  <1>7. ASSUME worker'[p] = IdleWorker PROVE WorkerFits(p)'
    BY <1>7 DEF WorkerFits, IdleWorker
  <1>8. QueueFits(p)' /\ WorkerFits(p)'
    <2>1. CASE TakeShape(p)
      <3> DEFINE job == Head(queue[p])
      <3>1. /\ queue[p] \in Seq(Job) /\ queue[p] # <<>> /\ queue'[p] = Tail(queue[p])
            /\ job \in Job /\ 1 \in DOMAIN queue[p] /\ job = queue[p][1]
            /\ \A i \in DOMAIN queue'[p] : i + 1 \in DOMAIN queue[p] /\ queue'[p][i] = queue[p][i + 1]
            /\ worker[p].pc = "idle"
        BY <1>0, <2>1 DEF TakeShape
      <3>2. \A i \in DOMAIN queue'[p] : queue'[p][i] \in Job /\ FitJob(queue'[p][i]) /\ Uses(p)
        BY <1>0, <3>1 DEF QueueFits
      <3>3. QueueFits(p)'
        <4>1. \A j \in Job : j.epoch \in Nat
          BY DEF Job
        <4> QED BY <1>0, <1>1, <3>2, <4>1 DEF QueueFits, Uses, FitJob, Fit
      <3>4. FitJob(job) /\ Uses(p)
        BY <1>0, <3>1 DEF QueueFits
      <3>5. CASE worker'[p].pc = "idle"
        BY <3>3, <3>5 DEF WorkerFits
      <3>6. CASE worker'[p].pc # "idle"
        <4>1. job.phase # "fail_open" /\ worker'[p].job = job
          BY <2>1, <3>1, <3>6 DEF TakeShape, IdleWorker
        <4>2. job.epoch \in Nat
          BY <3>1 DEF Job
        <4> HIDE DEF job
        <4>3. WorkerFits(p)'
          BY <1>0, <1>1, <3>4, <4>1, <4>2 DEF WorkerFits, Uses, FitJob, Fit
        <4> QED BY <3>3, <4>3
      <3> QED BY <3>5, <3>6
    <2>2. CASE IdleShape(p) \/ MoveShape(p)
      BY <1>4, <1>7, <2>2 DEF IdleShape, MoveShape
    <2>3. CASE RecordShape(p)
      <3>1. queue'[p] = queue[p] /\ worker[p].pc = "compare"
        BY <2>3 DEF RecordShape
      <3>2. worker'[p] = IdleWorker \/ worker'[p].job = worker[p].job
        BY <2>3 DEF RecordShape, RecordedShape
      <3> QED BY <1>4, <1>5, <1>7, <3>1, <3>2 DEF WorkerFits
    <2>4. CASE PruneShape(p)
      <3>1. queue'[p] = queue[p] /\ worker[p].pc = "prune"
        BY <2>4 DEF PruneShape
      <3>2. worker'[p] = IdleWorker \/ worker'[p].job = worker[p].job
        BY <2>4 DEF PruneShape, RecordedShape
      <3> QED BY <1>4, <1>5, <1>7, <3>1, <3>2 DEF WorkerFits
    <2>5. CASE ScoreShape(p)
      <3>1. queue'[p] = queue[p] /\ worker[p].pc = "score"
        BY <2>5 DEF ScoreShape
      <3>2. worker'[p] = IdleWorker \/ worker'[p].job = worker[p].job
        BY <1>0, <2>5 DEF ScoreShape, WorkerRec
      <3> QED BY <1>4, <1>5, <1>7, <3>1, <3>2 DEF WorkerFits
    <2>6. CASE RestartShape(p)
      <3>1. queue'[p] = <<>> /\ worker'[p] = IdleWorker
        BY <2>6 DEF RestartShape
      <3> QED BY <1>7, <3>1 DEF QueueFits
    <2> QED BY <2>1, <2>2, <2>3, <2>4, <2>5, <2>6, Shapes
  <1> QED BY <1>3, <1>6, <1>8 DEF Fits

LEMMA FitsStep ==
  ASSUME Types, Fits, Seqs, Next
  PROVE  Fits'
  BY CallFits, ProcFits, Steps
-----------------------------------------------------------------------------
(* What was compared only grows, at its end. *)

FiniteRows ==
  \A e : /\ Compared(e) \subseteq 1..Len(pairs) /\ Len(pairs) \in Nat
         /\ IsFiniteSet(Compared(e)) /\ Cardinality(Compared(e)) \in Nat

LEMMA ComparedFiniteAlways == Types => FiniteRows
  BY ComparedFinite DEF FiniteRows

Inserted ==
  pairs' = pairs \/ \E r \in PairRec : pairs' = Append(pairs, r)

LEMMA RowsStay ==
  ASSUME Types, Inserted
  PROVE  /\ Len(pairs) \in Nat /\ DOMAIN pairs = 1..Len(pairs)
         /\ Len(pairs') \in Nat /\ DOMAIN pairs' = 1..Len(pairs') /\ Len(pairs) <= Len(pairs')
         /\ \A i \in DOMAIN pairs : i \in DOMAIN pairs' /\ pairs'[i] = pairs[i]
         /\ \A i \in DOMAIN pairs' \ DOMAIN pairs : \A j \in DOMAIN pairs : j < i
  <1>1. pairs \in Seq(PairRec) /\ Len(pairs) \in Nat /\ DOMAIN pairs = 1..Len(pairs)
    BY DEF Types
  <1>2. CASE pairs' = pairs
    BY <1>1, <1>2
  <1>3. ASSUME NEW r \in PairRec, pairs' = Append(pairs, r)
        PROVE  /\ Len(pairs') = Len(pairs) + 1 /\ DOMAIN pairs' = 1..(Len(pairs) + 1)
               /\ \A i \in DOMAIN pairs : pairs'[i] = pairs[i]
    BY <1>1, <1>3
  <1>4. CASE \E r \in PairRec : pairs' = Append(pairs, r)
    <2>1. /\ Len(pairs') = Len(pairs) + 1 /\ DOMAIN pairs' = 1..(Len(pairs) + 1)
          /\ \A i \in DOMAIN pairs : pairs'[i] = pairs[i]
      BY <1>3, <1>4
    <2> QED BY <1>1, <2>1
  <1> QED BY <1>2, <1>4 DEF Inserted

LEMMA ComparedGrows ==
  ASSUME Types, Types', Inserted, NEW e
  PROVE  /\ Compared(e) \subseteq Compared(e)'
         /\ \A i \in Compared(e)' \ Compared(e) : \A j \in Compared(e) : j < i
         /\ Cardinality(Compared(e)) \in Nat /\ Cardinality(Compared(e))' \in Nat
         /\ Cardinality(Compared(e)) <= Cardinality(Compared(e))'
  <1>1. /\ \A i \in DOMAIN pairs : i \in DOMAIN pairs' /\ pairs'[i] = pairs[i]
        /\ \A i \in DOMAIN pairs' \ DOMAIN pairs : \A j \in DOMAIN pairs : j < i
    BY RowsStay
  <1>2. Compared(e) \subseteq Compared(e)'
    BY <1>1 DEF Compared, Countable, AtEpoch
  <1>3. \A i \in Compared(e)' \ Compared(e) : \A j \in Compared(e) : j < i
    <2>1. ASSUME NEW i \in Compared(e)', i \notin Compared(e)
          PROVE  i \in DOMAIN pairs' /\ i \notin DOMAIN pairs
      BY <1>1, <2>1 DEF Compared, Countable, AtEpoch
    <2>2. \A j \in Compared(e) : j \in DOMAIN pairs
      BY DEF Compared, Countable, AtEpoch
    <2>3. ASSUME NEW i \in Compared(e)' \ Compared(e), NEW j \in Compared(e) PROVE j < i
      BY <1>1, <2>1, <2>2
    <2> QED BY <2>3
  <1>4. IsFiniteSet(Compared(e)) /\ Cardinality(Compared(e)) \in Nat
    BY ComparedFinite
  <1>5. IsFiniteSet(Compared(e)') /\ Cardinality(Compared(e)') \in Nat
    <2>1. FiniteRows'
      BY ComparedFiniteAlways, PTL
    <2> QED BY <2>1 DEF FiniteRows
  <1>6. Cardinality(Compared(e)) <= Cardinality(Compared(e))'
    <2> DEFINE S == Compared(e)
               T == Compared(e)'
    <2>1. IsFiniteSet(T) /\ S \in SUBSET T
      BY <1>2, <1>5
    <2> HIDE DEF S, T
    <2>2. Cardinality(S) <= Cardinality(T)
      BY <2>1, FS_Subset
    <2> QED BY <2>2 DEF S, T
  <1> QED BY <1>2, <1>3, <1>4, <1>5, <1>6

\* One more comparison that counts is one more compared at its epoch.
LEMMA OneMoreCompared ==
  ASSUME Types, NEW r \in PairRec, pairs' = Append(pairs, r), r.verdict # "excluded"
  PROVE  Cardinality(Compared(r.epoch))' = Cardinality(Compared(r.epoch)) + 1
  <1> DEFINE n == Len(pairs) + 1
             S == Compared(r.epoch)
             T == Compared(r.epoch)'
  <1>1. /\ pairs \in Seq(PairRec) /\ Len(pairs) \in Nat /\ DOMAIN pairs = 1..Len(pairs)
        /\ DOMAIN pairs' = 1..n /\ pairs'[n] = r /\ \A i \in DOMAIN pairs : pairs'[i] = pairs[i]
    BY DEF Types
  <1>2. T = S \union {n}
    BY <1>1 DEF Compared, Countable, AtEpoch
  <1>3. IsFiniteSet(S) /\ n \notin S
    BY <1>1, ComparedFinite
  <1> HIDE DEF S, T, n
  <1>4. Cardinality(T) = Cardinality(S) + 1
    BY <1>2, <1>3, FS_AddElement
  <1> QED BY <1>4 DEF S, T

\* A run stays a run, and keeps its agreements.
LEMMA RunStays ==
  ASSUME Types, Types', Inserted, NEW p \in Proc, NEW e, NEW n, NEW phase,
         NEW run \in Runs(e, n), Passes(p, phase, run)
  PROVE  run \in Runs(e, n)' /\ Passes(p, phase, run)'
  <1>1. /\ Compared(e) \subseteq Compared(e)'
        /\ \A i \in Compared(e)' \ Compared(e) : \A j \in Compared(e) : j < i
        /\ Compared(e) \subseteq 1..Len(pairs) /\ Len(pairs) \in Nat
    BY ComparedGrows, ComparedFinite
  <1>2. Compared(e)' \subseteq Nat
    BY RowsStay DEF Compared, Countable, AtEpoch
  <1>3. /\ run \in SUBSET Compared(e) /\ Cardinality(run) = n
        /\ \A i, k \in run : \A j \in Compared(e) : i < j /\ j < k => j \in run
    BY DEF Runs
  <1>4. ASSUME NEW i \in run, NEW k \in run, NEW j \in Compared(e)', i < j, j < k PROVE j \in run
    <2>1. j \in Compared(e) \/ k < j
      BY <1>1, <1>3
    <2>2. j \in Nat /\ k \in Nat
      BY <1>1, <1>2, <1>3
    <2>3. j \in Compared(e)
      BY <1>4, <2>1, <2>2
    <2> QED BY <1>3, <1>4, <2>3
  <1>5. run \in Runs(e, n)'
    BY <1>1, <1>3, <1>4 DEF Runs
  <1>6. Agreements(run)' = Agreements(run)
    <2>1. \A i \in run : pairs'[i] = pairs[i]
      BY <1>3, RowsStay DEF Compared, Countable, AtEpoch
    <2>2. {i \in run : pairs'[i].verdict = "agree"} = {i \in run : pairs[i].verdict = "agree"}
      BY <2>1
    <2> QED BY <2>2 DEF Agreements
  <1>7. Passes(p, phase, run)'
    BY <1>6 DEF Passes
  <1> QED BY <1>5, <1>7

\* Every step inserts at most one row.
LEMMA EveryStepInserts ==
  ASSUME Types, Fits, Seqs, Next
  PROVE  Inserted
  <1>1. ASSUME NEW c \in Caller, CallStep(c) PROVE Inserted
    BY <1>1, CallShape DEF Inserted
  <1>2. ASSUME NEW p \in Proc, ProcStep(p) PROVE Inserted
    BY <1>2, SharedStep DEF Inserted
  <1> QED BY <1>1, <1>2, Steps
-----------------------------------------------------------------------------
(* Sequence numbers. *)

\* What a step of p leaves of a worker that has recorded: its job, and its seq.
LEMMA RecordedWorkers ==
  ASSUME Types, Fits, Seqs, NEW p \in Proc, ProcStep(p), NEW q \in Proc,
         worker'[q].pc \in {"prune", "score", "move"}
  PROVE  /\ worker'[q].job = worker[q].job
         /\ \/ worker'[q].seq = worker[q].seq /\ worker[q].pc \in {"prune", "score", "move"}
            \/ /\ q = p /\ worker[p].pc = "compare" /\ pruned' = pruned
               /\ \E r \in PairRec :
                    /\ pairs' = Append(pairs, r) /\ r.epoch = worker[p].job.epoch
                    /\ r.seq = IF r.verdict = "excluded" THEN 0 ELSE EpochSeq(r.epoch) + 1
                    /\ worker'[p].seq = r.seq
  <1>0. worker[p] \in WorkerRec
    BY DEF Types
  <1>1. CASE q # p
    BY <1>1, Shapes DEF OnlyAt
  <1>2. ASSUME q = p, TakeShape(p) PROVE FALSE
    BY <1>2 DEF TakeShape, IdleWorker
  <1>3. ASSUME q = p, IdleShape(p) \/ MoveShape(p) \/ RestartShape(p) PROVE FALSE
    BY <1>3 DEF IdleShape, MoveShape, RestartShape, IdleWorker
  <1>4. CASE q = p /\ RecordShape(p)
    BY <1>4 DEF RecordShape, RecordedShape, IdleWorker
  <1>5. CASE q = p /\ PruneShape(p)
    BY <1>5 DEF PruneShape, RecordedShape, IdleWorker
  <1>6. CASE q = p /\ ScoreShape(p)
    <2>1. worker'[p] = [worker[p] EXCEPT !.pc = "move"] /\ worker[p].pc = "score"
      BY <1>6 DEF ScoreShape, IdleWorker
    <2> QED BY <1>0, <1>6, <2>1 DEF WorkerRec
  <1> QED BY <1>1, <1>2, <1>3, <1>4, <1>5, <1>6, Shapes

LEMMA SeqsStep ==
  ASSUME Types, Types', Fits, Seqs, Inserted, Next
  PROVE  Seqs'
  <1> SUFFICES ASSUME NEW e \in Nat
               PROVE  /\ \A i \in DOMAIN pairs' : pairs'[i].epoch = e =>
                           pairs'[i].seq <= Cardinality(Compared(e))'
                      /\ \A q \in Proc : worker'[q].pc \in {"prune", "score", "move"} /\ worker'[q].job.epoch = e =>
                           worker'[q].seq <= Cardinality(Compared(e))'
    BY DEF Seqs
  <1> DEFINE m == Cardinality(Compared(e))
             n == Cardinality(Compared(e))'
  <1>0. m \in Nat /\ n \in Nat /\ m <= n
    BY ComparedGrows
  <1>1. /\ \A i \in DOMAIN pairs : i \in DOMAIN pairs' /\ pairs'[i] = pairs[i]
        /\ \A i \in DOMAIN pairs : pairs[i] \in PairRec
    BY RowsStay DEF Types
  <1>2. ASSUME NEW i \in DOMAIN pairs, pairs[i].epoch = e
        PROVE  pairs'[i].seq <= n
    <2>1. pairs[i].seq <= m /\ pairs[i].seq \in Nat /\ pairs'[i] = pairs[i]
      BY <1>1, <1>2 DEF Seqs, PairRec
    <2> QED BY <1>0, <2>1
  <1>3. ASSUME NEW r \in PairRec, pairs' = Append(pairs, r), r.epoch = e,
               r.seq = IF r.verdict = "excluded" THEN 0 ELSE EpochSeq(r.epoch) + 1
        PROVE  r.seq <= n
    <2>1. CASE r.verdict = "excluded"
      BY <1>0, <1>3, <2>1
    <2>2. CASE r.verdict # "excluded"
      <3>1. n = m + 1
        BY <1>3, <2>2, OneMoreCompared
      <3>2. EpochSeq(e) \in Nat /\ EpochSeq(e) <= m
        BY EpochSeqMax
      <3> QED BY <1>0, <1>3, <2>2, <3>1, <3>2
    <2> QED BY <2>1, <2>2
  <1> HIDE DEF m, n
  <1>4. ASSUME NEW i \in DOMAIN pairs', pairs'[i].epoch = e PROVE pairs'[i].seq <= n
    <2>1. CASE pairs' = pairs
      BY <1>1, <1>2, <1>4, <2>1
    <2>2. CASE pairs' # pairs
      <3>1. PICK p \in Proc : ProcStep(p)
        BY <2>2, CallShape, Steps
      <3>2. PICK r \in PairRec :
              /\ pairs' = Append(pairs, r)
              /\ r.seq = IF r.verdict = "excluded" THEN 0 ELSE EpochSeq(r.epoch) + 1
        BY <2>2, <3>1, SharedStep DEF RecordShape
      <3>3. /\ pairs \in Seq(PairRec) /\ Len(pairs) \in Nat /\ DOMAIN pairs = 1..Len(pairs)
            /\ DOMAIN pairs' = 1..(Len(pairs) + 1) /\ pairs'[Len(pairs) + 1] = r
        BY <3>2 DEF Types
      <3>4. i \in DOMAIN pairs \/ i = Len(pairs) + 1
        BY <3>3
      <3>5. CASE i \in DOMAIN pairs
        BY <1>1, <1>2, <1>4, <3>5
      <3>6. CASE i = Len(pairs) + 1
        BY <1>3, <1>4, <3>2, <3>3, <3>6
      <3> QED BY <3>4, <3>5, <3>6
    <2> QED BY <2>1, <2>2
  <1>5. ASSUME NEW q \in Proc, worker'[q].pc \in {"prune", "score", "move"}, worker'[q].job.epoch = e
        PROVE  worker'[q].seq <= n
    <2>1. worker[q] \in WorkerRec
      BY DEF Types
    <2>2. CASE worker'[q].seq = worker[q].seq /\ worker'[q].job = worker[q].job
               /\ worker[q].pc \in {"prune", "score", "move"}
      <3>1. worker[q].seq <= m /\ worker[q].seq \in Nat
        BY <1>5, <2>1, <2>2 DEF Seqs, WorkerRec, m
      <3> QED BY <1>0, <2>2, <3>1
    <2>3. CASE \E r \in PairRec :
                 /\ pairs' = Append(pairs, r) /\ r.epoch = worker'[q].job.epoch
                 /\ r.seq = IF r.verdict = "excluded" THEN 0 ELSE EpochSeq(r.epoch) + 1
                 /\ worker'[q].seq = r.seq
      BY <1>3, <1>5, <2>3
    <2>4. ASSUME NEW c \in Caller, CallStep(c) PROVE worker' = worker
      BY <2>4, CallShape
    <2>5. ASSUME NEW p \in Proc, ProcStep(p)
          PROVE  \/ worker'[q].seq = worker[q].seq /\ worker'[q].job = worker[q].job
                    /\ worker[q].pc \in {"prune", "score", "move"}
                 \/ \E r \in PairRec :
                      /\ pairs' = Append(pairs, r) /\ r.epoch = worker'[q].job.epoch
                      /\ r.seq = IF r.verdict = "excluded" THEN 0 ELSE EpochSeq(r.epoch) + 1
                      /\ worker'[q].seq = r.seq
      BY <1>5, <2>5, RecordedWorkers
    <2> QED BY <1>5, <2>2, <2>3, <2>4, <2>5, Steps
  <1> QED BY <1>4, <1>5 DEF n
-----------------------------------------------------------------------------
(* Windows due, drawn and earned. *)

LEMMA DuesStep ==
  ASSUME Types, Fits, Seqs, Dues, Next
  PROVE  Dues'
  <1> DEFINE Scores(q) == worker[q].pc = "score" => Due(q, worker[q].job, worker[q].seq)
             Moving(q) == worker[q].pc = "move" /\ worker[q].job.phase = "shadow" =>
                            worker[q].seq > 0 /\ worker[q].seq <= StallFactor * WindowOf(q, "shadow")
  <1>0. \A q \in Proc : Scores(q) /\ Moving(q)
    BY DEF Dues
  <1>1. ASSUME NEW q \in Proc, worker'[q] = worker[q], scored'[q] = scored[q] PROVE Scores(q)' /\ Moving(q)'
    BY <1>0, <1>1 DEF Due
  <1>2. ASSUME NEW q \in Proc, worker'[q].pc \in {"idle", "compare", "prune"} PROVE Scores(q)' /\ Moving(q)'
    BY <1>2
  <1>3. ASSUME NEW c \in Caller, CallStep(c) PROVE Dues'
    <2>1. worker' = worker /\ scored' = scored
      BY <1>3, CallShape
    <2> QED BY <1>1, <2>1 DEF Dues
  <1>4. ASSUME NEW p \in Proc, ProcStep(p) PROVE Dues'
    <2>1. \A q \in Proc \ {p} : Scores(q)' /\ Moving(q)'
      BY <1>1, <1>4, Shapes DEF OnlyAt
    <2>2. ASSUME NEW seq \in Nat, RecordedShape(p, seq), scored' = scored PROVE Scores(p)' /\ Moving(p)'
      <3>1. CASE worker'[p] = IdleWorker
        BY <1>2, <3>1 DEF IdleWorker
      <3>2. CASE worker'[p] = [pc |-> "score", job |-> worker[p].job, seq |-> seq] /\ Due(p, worker[p].job, seq)
        BY <2>2, <3>2 DEF Due
      <3> QED BY <2>2, <3>1, <3>2 DEF RecordedShape
    <2>3. Scores(p)' /\ Moving(p)'
      <3>0. worker[p] \in WorkerRec
        BY DEF Types
      <3>1. CASE TakeShape(p) \/ IdleShape(p) \/ MoveShape(p) \/ RestartShape(p)
        <4>1. worker'[p].pc \in {"idle", "compare"}
          BY <3>1 DEF TakeShape, IdleShape, MoveShape, RestartShape, IdleWorker
        <4> QED BY <1>2, <4>1
      <3>2. CASE RecordShape(p)
        <4>1. PICK r \in PairRec : RecordedShape(p, r.seq) \/ worker'[p].pc = "prune"
          BY <3>2 DEF RecordShape
        <4>2. r.seq \in Nat /\ scored' = scored
          BY <3>2 DEF PairRec, RecordShape
        <4> QED BY <1>2, <2>2, <4>1, <4>2
      <3>3. CASE PruneShape(p)
        BY <2>2, <3>0, <3>3 DEF PruneShape, WorkerRec
      <3>4. CASE ScoreShape(p)
        <4>1. CASE worker'[p] = IdleWorker
          BY <1>2, <4>1 DEF IdleWorker
        <4>2. CASE worker'[p] = [worker[p] EXCEPT !.pc = "move"]
          <5>1. worker'[p].pc = "move" /\ worker'[p].job = worker[p].job /\ worker'[p].seq = worker[p].seq
            BY <3>0, <4>2 DEF WorkerRec
          <5>2. Due(p, worker[p].job, worker[p].seq) /\ worker[p].seq \in Nat
            BY <1>0, <3>0, <3>4 DEF ScoreShape, WorkerRec
          <5>3. ASSUME worker[p].job.phase = "shadow"
                PROVE  worker[p].seq > 0 /\ worker[p].seq <= StallFactor * WindowOf(p, "shadow")
            <6>1. StallFactor * WindowOf(p, "shadow") \in Nat
              BY WindowNat, ShadowAssumption
            <6>2. worker[p].seq > 0 /\ ~(worker[p].seq > StallFactor * WindowOf(p, "shadow"))
              BY <5>2, <5>3 DEF Due
            <6> QED BY <5>2, <6>1, <6>2
          <5> QED BY <5>1, <5>3
        <4> QED BY <3>4, <4>1, <4>2 DEF ScoreShape
      <3> QED BY <1>4, <3>1, <3>2, <3>3, <3>4, Shapes
    <2>4. \A q \in Proc : Scores(q)' /\ Moving(q)'
      BY <2>1, <2>3
    <2> QED BY <2>4 DEF Dues
  <1> QED BY <1>3, <1>4, Steps

\* The windows a process has drawn, when it draws one more.
LEMMA OneMoreDraw ==
  ASSUME NEW drawnNow \in Nat, NEW done \in Nat, NEW seq \in Nat, NEW window \in Nat \ {0}, NEW count \in Nat,
         drawnNow <= done, seq >= (done + 1) * window, seq <= count
  PROVE  /\ drawnNow + 1 <= MaxOf(done + 1, seq \div window)
         /\ MaxOf(done + 1, seq \div window) * window <= count
  <1>1. (seq \div window) \in Nat /\ (seq \div window) * window <= seq
    BY DivTimes
  <1>2. (done + 1) * window \in Nat /\ (seq \div window) * window \in Nat
    BY <1>1
  <1>3. CASE done + 1 >= seq \div window
    BY <1>2, <1>3 DEF MaxOf
  <1>4. CASE ~(done + 1 >= seq \div window)
    <2>1. MaxOf(done + 1, seq \div window) = seq \div window
      BY <1>4 DEF MaxOf
    <2>2. drawnNow + 1 <= seq \div window
      BY <1>1, <1>4
    <2>3. (seq \div window) * window <= count
      BY <1>1, <1>2
    <2> QED BY <2>1, <2>2, <2>3
  <1> QED BY <1>3, <1>4

LEMMA DrawsStep ==
  ASSUME Types, Types', Fits, Seqs, Dues, Draws, Inserted, Next
  PROVE  Draws'
  <1> DEFINE Kept(q, e)  == e \in DOMAIN scored[q] \union DOMAIN drawn[q] => e <= row.epoch
             Drawn(q, e) == /\ Lookup(drawn[q], e, 0) <= Lookup(scored[q], e, 0)
                            /\ Lookup(scored[q], e, 0) * WindowOf(q, PhaseNow) <= Cardinality(Compared(e))
  <1>0. /\ \A q \in Proc, e \in Nat : Kept(q, e) /\ (row.epoch = e => Drawn(q, e))
        /\ row.epoch \in Nat
        /\ \A e : /\ Cardinality(Compared(e)) \in Nat /\ Cardinality(Compared(e))' \in Nat
                  /\ Cardinality(Compared(e)) <= Cardinality(Compared(e))'
        /\ \A q \in Proc : IsDict(scored[q]) /\ IsDict(drawn[q])
    BY ComparedGrows DEF Draws, Types, Row, Dicts
  <1>a. \A e \in Nat, q \in Proc : Lookup(scored[q], e, 0) \in Nat /\ Lookup(drawn[q], e, 0) \in Nat
    BY <1>0, DictOps
  \* What is not written, in an epoch that goes on.
  <1>1. ASSUME NEW q \in Proc, NEW e \in Nat, row'.epoch = e, row'.epoch = row.epoch, row'.status = row.status,
               Lookup(scored'[q], e, 0) = Lookup(scored[q], e, 0), Lookup(drawn'[q], e, 0) = Lookup(drawn[q], e, 0)
        PROVE  Drawn(q, e)'
    <2> DEFINE a == Lookup(scored[q], e, 0) * WindowOf(q, PhaseNow)
    <2>1. a \in Nat /\ a <= Cardinality(Compared(e)) /\ Lookup(drawn[q], e, 0) <= Lookup(scored[q], e, 0)
      <3>1. WindowOf(q, PhaseNow) \in Nat
        BY WindowNat
      <3> QED BY <1>0, <1>1, <1>a, <3>1
    <2>2. a <= Cardinality(Compared(e))'
      BY <1>0, <2>1
    <2>3. PhaseNow' = PhaseNow
      BY <1>1 DEF PhaseNow
    <2> HIDE DEF a
    <2>4. Lookup(scored'[q], e, 0) * WindowOf(q, PhaseNow') = a
      BY <1>1, <2>3 DEF a
    <2> QED BY <1>1, <2>1, <2>2, <2>4
  \* A new epoch has nothing to count.
  <1>2. ASSUME NEW q \in Proc, NEW e \in Nat, e \notin DOMAIN scored'[q] \union DOMAIN drawn'[q]
        PROVE  Drawn(q, e)'
    <2>1. Lookup(scored'[q], e, 0) = 0 /\ Lookup(drawn'[q], e, 0) = 0
      BY <1>2 DEF Lookup
    <2>2. WindowOf(q, PhaseNow') \in Nat
      BY WindowNat
    <2>3. 0 * WindowOf(q, PhaseNow') = 0
      BY <2>2
    <2> QED BY <1>0, <2>1, <2>3
  <1>3. ASSUME NEW c \in Caller, CallStep(c) PROVE Draws'
    <2>1. UNCHANGED <<row, scored, drawn>>
      BY <1>3, CallShape
    <2>2. \A q \in Proc, e \in Nat : Kept(q, e)'
      BY <1>0, <2>1
    <2>3. \A q \in Proc, e \in Nat : row'.epoch = e => Drawn(q, e)'
      BY <1>1, <2>1
    <2> QED BY <2>2, <2>3 DEF Draws
  <1>4. ASSUME NEW p \in Proc, ProcStep(p), NEW q \in Proc, NEW e \in Nat
        PROVE  Kept(q, e)' /\ (row'.epoch = e => Drawn(q, e)')
    <2>0. row'.epoch \in {row.epoch, row.epoch + 1} /\ (row'.epoch = row.epoch => row'.status = row.status)
      BY <1>4, SharedStep
    <2>1. ASSUME DOMAIN scored'[q] \subseteq DOMAIN scored[q], DOMAIN drawn'[q] \subseteq DOMAIN drawn[q],
                 \A x \in Nat : x = row.epoch /\ row'.epoch = x =>
                   Lookup(scored'[q], x, 0) = Lookup(scored[q], x, 0) /\ Lookup(drawn'[q], x, 0) = Lookup(drawn[q], x, 0)
          PROVE  Kept(q, e)' /\ (row'.epoch = e => Drawn(q, e)')
      <3>1. Kept(q, e)'
        BY <1>0, <2>0, <2>1
      <3>2. CASE row'.epoch = e /\ row'.epoch = row.epoch
        BY <1>0, <1>1, <2>0, <2>1, <3>1, <3>2
      <3>3. CASE row'.epoch = e /\ row'.epoch # row.epoch
        <4>1. e \notin DOMAIN scored'[q] \union DOMAIN drawn'[q]
          BY <1>0, <2>0, <2>1, <3>3
        <4> QED BY <1>2, <3>1, <4>1
      <3> QED BY <3>1, <3>2, <3>3
    <2>2. CASE q # p \/ IdleShape(p) \/ RecordShape(p) \/ PruneShape(p) \/ MoveShape(p)
      <3>1. scored'[q] = scored[q] /\ drawn'[q] = drawn[q]
        BY <1>4, <2>2, Shapes DEF OnlyAt, IdleShape, RecordShape, PruneShape, MoveShape
      <3> QED BY <2>1, <3>1
    <2>3. CASE q = p /\ TakeShape(p)
      <3>1. drawn'[q] = drawn[q]
        BY <2>3 DEF TakeShape
      <3>2. CASE scored'[q] = scored[q]
        BY <2>1, <3>1, <3>2
      <3>3. CASE scored'[q] # scored[q]
        <4> DEFINE job == Head(queue[p])
        <4>1. scored'[q] = DropOlder(scored[q], job.epoch) /\ job.phase # "fail_open"
              /\ queue[p] # <<>>
          BY <2>3, <3>3 DEF TakeShape
        <4>2. queue[p] \in Seq(Job) /\ job = queue[p][1] /\ 1 \in DOMAIN queue[p] /\ job \in Job
          BY <4>1 DEF Types
        <4>3. job.epoch \in Nat /\ job.epoch <= row.epoch
          <5>1. FitJob(job)
            BY <4>2 DEF Fits, QueueFits
          <5> QED BY <4>1, <4>2, <5>1 DEF Job, FitJob, Fit
        <4> HIDE DEF job
        <4>4. /\ DOMAIN DropOlder(scored[q], job.epoch) \subseteq DOMAIN scored[q]
              /\ \A x \in Nat : x >= job.epoch => Lookup(DropOlder(scored[q], job.epoch), x, 0) = Lookup(scored[q], x, 0)
          BY <1>0, <4>3, DictOps
        <4> QED BY <1>0, <2>1, <3>1, <4>1, <4>3, <4>4
      <3> QED BY <3>2, <3>3
    <2>4. CASE q = p /\ RestartShape(p)
      <3>1. scored'[q] = NoEntries /\ drawn'[q] = NoEntries
        BY <2>4 DEF RestartShape
      <3>2. e \notin DOMAIN scored'[q] \union DOMAIN drawn'[q]
        BY <3>1, EmptyDict
      <3> QED BY <1>2, <3>2
    <2>5. CASE q = p /\ ScoreShape(p)
      <3> DEFINE job    == worker[p].job
                 window == WindowOf(p, job.phase)
                 done   == Lookup(scored[p], job.epoch, 0)
                 more   == Lookup(drawn[p], job.epoch, 0) + 1
                 spent  == MaxOf(done + 1, worker[p].seq \div window)
      <3>1. /\ row' = row /\ worker[p].pc = "score" /\ scored'[p] = Store(scored[p], job.epoch, spent)
            /\ drawn'[p] = Store(drawn[p], job.epoch, more)
        BY <2>5 DEF ScoreShape
      <3>2. worker[p].seq \in Nat /\ job.epoch \in Nat
        BY DEF Types, WorkerRec, Job
      <3>3. job.phase # "fail_open" /\ FitJob(job)
        BY <3>1 DEF Fits, WorkerFits
      <3>4. job.epoch <= row.epoch /\ (job.epoch = row.epoch => window = WindowOf(p, PhaseNow))
        BY <3>3 DEF FitJob, Fit, WindowOf, PhaseNow
      <3>5. window \in Nat \ {0} /\ done \in Nat /\ more - 1 \in Nat /\ more \in Nat
        BY <1>a, <3>2, WindowNat
      <3>6. worker[p].seq >= (done + 1) * window
        BY <3>1 DEF Dues, Due
      <3>7. worker[p].seq <= Cardinality(Compared(job.epoch))
        BY <3>1, <3>2 DEF Seqs
      <3>8. spent \in Nat
        BY <3>2, <3>5, DivTimes DEF MaxOf
      <3>9. /\ DOMAIN scored'[p] = DOMAIN scored[p] \union {job.epoch} /\ Lookup(scored'[p], job.epoch, 0) = spent
            /\ DOMAIN drawn'[p] = DOMAIN drawn[p] \union {job.epoch} /\ Lookup(drawn'[p], job.epoch, 0) = more
            /\ \A x \in Nat \ {job.epoch} : /\ Lookup(scored'[p], x, 0) = Lookup(scored[p], x, 0)
                                            /\ Lookup(drawn'[p], x, 0) = Lookup(drawn[p], x, 0)
        <4>1. IsDict(scored[p]) /\ IsDict(drawn[p])
          BY <1>0
        <4> HIDE DEF spent, more, job, done, window
        <4>2. /\ DOMAIN scored'[p] = DOMAIN scored[p] \union {job.epoch} /\ Lookup(scored'[p], job.epoch, 0) = spent
              /\ \A x \in Nat \ {job.epoch} : Lookup(scored'[p], x, 0) = Lookup(scored[p], x, 0)
          <5>1. scored'[p] = Store(scored[p], job.epoch, spent)
            BY <3>1
          <5>2. job.epoch \in Nat
            BY <3>2
          <5> QED BY <3>8, <4>1, <5>1, <5>2 DEF IsDict, Store, Lookup
        <4>3. /\ DOMAIN drawn'[p] = DOMAIN drawn[p] \union {job.epoch} /\ Lookup(drawn'[p], job.epoch, 0) = more
              /\ \A x \in Nat \ {job.epoch} : Lookup(drawn'[p], x, 0) = Lookup(drawn[p], x, 0)
          <5>1. drawn'[p] = Store(drawn[p], job.epoch, more)
            BY <3>1
          <5>2. job.epoch \in Nat /\ more \in Nat
            BY <3>2, <3>5
          <5> QED BY <4>1, <5>1, <5>2 DEF IsDict, Store, Lookup
        <4> QED BY <4>2, <4>3
      <3>10. Kept(p, e)'
        BY <1>0, <3>1, <3>4, <3>9
      <3>11. CASE row'.epoch = e /\ e # job.epoch
        BY <1>1, <2>5, <3>1, <3>9, <3>10, <3>11
      <3>12. CASE row'.epoch = e /\ e = job.epoch
        <4>1. more - 1 <= done
          <5>1. row.epoch = job.epoch
            BY <3>1, <3>12
          <5>2. Lookup(drawn[p], job.epoch, 0) <= done /\ Lookup(drawn[p], job.epoch, 0) \in Nat
            BY <1>0, <1>a, <3>2, <5>1
          <5> HIDE DEF done
          <5> QED BY <5>2
        <4>2. more <= spent /\ spent * window <= Cardinality(Compared(job.epoch))
          <5> DEFINE count == Cardinality(Compared(job.epoch))
                     before == more - 1
          <5>1. count \in Nat /\ before \in Nat /\ before <= done /\ more = before + 1
            BY <1>0, <3>5, <4>1
          <5> HIDE DEF more, count, done, window, job
          <5>2. before + 1 <= MaxOf(done + 1, worker[p].seq \div window)
                /\ MaxOf(done + 1, worker[p].seq \div window) * window <= count
            <6> HIDE DEF before
            <6> QED BY <3>2, <3>5, <3>6, <3>7, <5>1, OneMoreDraw DEF count
          <5> QED BY <5>1, <5>2 DEF count
        <4>3. spent * window \in Nat
          BY <3>5, <3>8
        <4>4. PhaseNow' = PhaseNow
          BY <3>1 DEF PhaseNow
        <4>5. window = WindowOf(p, PhaseNow')
          BY <3>1, <3>4, <3>12, <4>4
        <4> HIDE DEF spent, more, window, job, done
        <4>6. spent * window <= Cardinality(Compared(e))'
          BY <1>0, <3>12, <4>2, <4>3
        <4>7. Drawn(p, e)'
          BY <3>9, <3>12, <4>2, <4>5, <4>6
        <4> QED BY <2>5, <3>10, <4>7
      <3> QED BY <2>5, <3>10, <3>11, <3>12
    <2> QED BY <1>4, <2>2, <2>3, <2>4, <2>5, Shapes
  <1>5. ASSUME NEW p \in Proc, ProcStep(p) PROVE Draws'
    <2>1. \A q \in Proc, e \in Nat : Kept(q, e)' /\ (row'.epoch = e => Drawn(q, e)')
      BY <1>4, <1>5
    <2> QED BY <2>1 DEF Draws
  <1> QED BY <1>3, <1>5, Steps

\* The newest rows that get_agreement_stats returns are a run.
LEMMA StatsRun ==
  ASSUME Types, NEW e, NEW n \in Nat, Cardinality(Stats(e, n)) = n
  PROVE  Stats(e, n) \in Runs(e, n)
  <1> DEFINE rows == Countable(AtEpoch(Retained, e))
  <1>1. /\ pairs \in Seq(PairRec) /\ DOMAIN pairs = 1..Len(pairs) /\ Len(pairs) \in Nat
        /\ pruned \in Nat /\ Retained \subseteq DOMAIN pairs /\ Compared(e) \subseteq DOMAIN pairs
    BY DEF Types, Retained, Compared, Countable, AtEpoch
  <1>2. rows \subseteq Compared(e)
    BY <1>1 DEF Compared, Countable, AtEpoch
  <1>3. \A j \in Compared(e) : j > pruned => j \in rows
    BY <1>1 DEF Compared, Countable, AtEpoch, Retained
  <1>4. \A i \in rows : i > pruned
    BY <1>1 DEF Countable, AtEpoch, Retained
  <1> DEFINE After(i) == {j \in rows : j > i}
  <1>5. Stats(e, n) = {i \in rows : Cardinality(After(i)) < n}
    BY DEF Stats, Newest
  <1> HIDE DEF rows
  <1>6. rows \subseteq Nat /\ \A i \in rows : IsFiniteSet(After(i)) /\ Cardinality(After(i)) \in Nat
    <2>1. rows \subseteq 1..Len(pairs)
      BY <1>1, <1>2
    <2>2. \A i \in rows : After(i) \in SUBSET (1..Len(pairs))
      BY <2>1
    <2> QED BY <2>1, <2>2, ComparedFinite
  <1>7. ASSUME NEW i \in Stats(e, n), NEW k \in Stats(e, n), NEW j \in Compared(e), i < j, j < k
        PROVE  j \in Stats(e, n)
    <2>1. i \in rows /\ i > pruned /\ i \in Nat /\ j \in Nat
      <3>1. i \in rows
        BY <1>5
      <3>2. j \in 1..Len(pairs)
        BY <1>1
      <3> QED BY <1>4, <1>6, <3>1, <3>2
    <2>2. j \in rows
      BY <1>1, <1>3, <1>7, <2>1
    <2>3. After(j) \subseteq After(i)
      <3>1. ASSUME NEW x \in rows, x > j PROVE x > i
        BY <1>6, <1>7, <2>1, <3>1
      <3> QED BY <3>1
    <2>4. Cardinality(After(j)) <= Cardinality(After(i))
      <3> DEFINE S == After(i)
                 T == After(j)
      <3>1. IsFiniteSet(S) /\ T \in SUBSET S
        BY <1>6, <2>1, <2>3
      <3> HIDE DEF S, T
      <3>2. Cardinality(T) <= Cardinality(S)
        BY <3>1, FS_Subset
      <3> QED BY <3>2 DEF S, T
    <2>5. Cardinality(After(i)) < n /\ Cardinality(After(i)) \in Nat /\ Cardinality(After(j)) \in Nat
      BY <1>5, <1>6, <2>1, <2>2
    <2>6. Cardinality(After(j)) < n
      <3> HIDE DEF After
      <3> QED BY <2>4, <2>5
    <2> QED BY <1>5, <2>2, <2>6
  <1>8. Stats(e, n) \in SUBSET Compared(e)
    BY <1>2, <1>5
  <1> QED BY <1>7, <1>8 DEF Runs

LEMMA EarnedStep ==
  ASSUME Types, Types', Fits, Seqs, Earned, Inserted, Next
  PROVE  Earned'
  <1> SUFFICES ASSUME NEW q \in Proc, NEW job \in Job, worker'[q].pc = "move", worker'[q].job = job
               PROVE  \E run \in Runs(job.epoch, WindowOf(q, job.phase))' : Passes(q, job.phase, run)'
    BY DEF Earned
  <1> DEFINE window == WindowOf(q, job.phase)
  <1>1. ASSUME NEW run \in Runs(job.epoch, window), Passes(q, job.phase, run)
        PROVE  \E r \in Runs(job.epoch, window)' : Passes(q, job.phase, r)'
    <2>1. run \in Runs(job.epoch, window)' /\ Passes(q, job.phase, run)'
      BY <1>1, RunStays
    <2> QED BY <2>1
  <1>2. CASE worker'[q] = worker[q]
    BY <1>1, <1>2 DEF Earned
  <1>3. CASE worker'[q] # worker[q]
    <2>1. PICK p \in Proc : ProcStep(p)
      BY <1>3, CallShape, Steps
    <2>2. p = q
      BY <1>3, <2>1, Shapes DEF OnlyAt
    <2>3. ScoreShape(q)
      <3>1. ~TakeShape(q) /\ ~IdleShape(q) /\ ~MoveShape(q) /\ ~RestartShape(q)
        BY <1>3 DEF TakeShape, IdleShape, MoveShape, RestartShape, IdleWorker
      <3>2. \A seq : ~RecordedShape(q, seq)
        BY DEF RecordedShape, IdleWorker
      <3>3. ~RecordShape(q) /\ ~PruneShape(q)
        <4>1. ASSUME RecordShape(q) PROVE FALSE
          <5>1. PICK r : worker'[q] = [pc |-> "prune", job |-> worker[q].job, seq |-> r.seq]
            BY <3>2, <4>1 DEF RecordShape
          <5> QED BY <5>1
        <4>2. ~PruneShape(q)
          BY <3>2 DEF PruneShape
        <4> QED BY <4>1, <4>2
      <3> QED BY <2>1, <2>2, <3>1, <3>3, Shapes
    <2>4. worker[q] \in WorkerRec /\ worker'[q] = [worker[q] EXCEPT !.pc = "move"]
      BY <2>3 DEF Types, ScoreShape, IdleWorker
    <2>5. job = worker[q].job
      BY <2>4 DEF WorkerRec
    <2>6. Cardinality(Stats(job.epoch, window)) = window /\ Passes(q, job.phase, Stats(job.epoch, window))
      BY <2>3, <2>4, <2>5 DEF ScoreShape, IdleWorker
    <2>7. Stats(job.epoch, window) \in Runs(job.epoch, window)
      BY <2>6, StatsRun, WindowNat
    <2> HIDE DEF window
    <2>8. \E r \in Runs(job.epoch, window)' : Passes(q, job.phase, r)'
      BY <1>1, <2>6, <2>7
    <2> QED BY <2>8 DEF window
  <1> QED BY <1>2, <1>3

-----------------------------------------------------------------------------
(* One process that is alone. *)

LEMMA AbreastStep ==
  ASSUME Types, Types', Fits, Seqs, Abreast, Inserted, Next
  PROVE  Abreast'
  <1> SUFFICES ASSUME NEW q \in Proc, Alone(q)', worker'[q].pc \in {"prune", "score", "move"},
                      worker'[q].seq > 0, NEW i \in Retained', pairs'[i].epoch = worker'[q].job.epoch
               PROVE  pairs'[i].seq <= worker'[q].seq
    BY DEF Abreast, AtEpoch
  <1>0. /\ worker[q] \in WorkerRec /\ pairs \in Seq(PairRec) /\ Len(pairs) \in Nat /\ DOMAIN pairs = 1..Len(pairs)
        /\ pruned \in Nat /\ pruned' \in Nat /\ Len(pairs') \in Nat
        /\ i \in Nat /\ i > pruned' /\ i <= Len(pairs')
        /\ \A j \in DOMAIN pairs : pairs'[j] = pairs[j]
    <2>1. pruned' \in Nat /\ Len(pairs') \in Nat /\ \A j \in DOMAIN pairs : pairs'[j] = pairs[j]
      BY RowsStay DEF Types
    <2>2. i \in (pruned' + 1)..Len(pairs')
      BY DEF Retained
    <2>3. \A a, b \in Nat : \A j \in (a + 1)..b : j \in Nat /\ j > a /\ j <= b
      OBVIOUS
    <2>4. i \in Nat /\ i > pruned' /\ i <= Len(pairs')
      BY <2>1, <2>2, <2>3
    <2> QED BY <2>1, <2>4 DEF Types
  <1>1. world' = world
    BY CallShape, SharedStep, Steps
  <1>2. Alone(q)
    BY <1>1 DEF Alone, Uses
  <1>3. ASSUME worker'[q].seq = worker[q].seq, worker'[q].job = worker[q].job,
               worker[q].pc \in {"prune", "score", "move"}, i \in Retained, i \in DOMAIN pairs
        PROVE  pairs'[i].seq <= worker'[q].seq
    BY <1>0, <1>2, <1>3 DEF Abreast, AtEpoch
  <1>4. ASSUME NEW c \in Caller, CallStep(c) PROVE pairs'[i].seq <= worker'[q].seq
    <2>1. worker' = worker /\ pairs' = pairs /\ pruned' = pruned
      BY <1>4, CallShape
    <2>2. i \in Retained /\ i \in DOMAIN pairs
      BY <1>0, <2>1 DEF Retained
    <2> QED BY <1>3, <2>1, <2>2
  <1>5. ASSUME NEW p \in Proc, ProcStep(p) PROVE pairs'[i].seq <= worker'[q].seq
    <2>1. pruned' >= pruned
      BY <1>5, SharedStep
    <2>2. CASE worker'[q].seq = worker[q].seq /\ worker[q].pc \in {"prune", "score", "move"}
      <3>1. pairs' = pairs
        <4>1. CASE p = q
          BY <1>5, <2>2, <4>1, SharedStep DEF RecordShape
        <4>2. CASE p # q
          <5>1. ~Uses(p)
            BY <1>2, <4>2 DEF Alone
          <5>2. worker[p].pc = "idle"
            BY <5>1 DEF Fits, WorkerFits
          <5> QED BY <1>5, <5>2, SharedStep DEF RecordShape
        <4> QED BY <4>1, <4>2
      <3>2. i \in Retained /\ i \in DOMAIN pairs
        BY <1>0, <2>1, <3>1 DEF Retained
      <3>3. worker'[q].job = worker[q].job
        BY <1>5, RecordedWorkers
      <3> QED BY <1>3, <2>2, <3>2, <3>3
    <2>3. CASE /\ q = p /\ worker[p].pc = "compare" /\ pruned' = pruned
               /\ \E r \in PairRec :
                    /\ pairs' = Append(pairs, r) /\ r.epoch = worker[p].job.epoch
                    /\ r.seq = IF r.verdict = "excluded" THEN 0 ELSE EpochSeq(r.epoch) + 1
                    /\ worker'[p].seq = r.seq
      <3>1. PICK r \in PairRec :
              /\ pairs' = Append(pairs, r) /\ r.epoch = worker[p].job.epoch
              /\ r.seq = IF r.verdict = "excluded" THEN 0 ELSE EpochSeq(r.epoch) + 1
              /\ worker'[p].seq = r.seq
        BY <2>3
      <3>2. r.seq = EpochSeq(r.epoch) + 1 /\ EpochSeq(r.epoch) \in Nat
            /\ \A j \in AtEpoch(Retained, r.epoch) : pairs[j].seq <= EpochSeq(r.epoch)
        BY <2>3, <3>1, EpochSeqMax
      <3>3. /\ Len(pairs') = Len(pairs) + 1 /\ pairs'[Len(pairs) + 1] = r
        BY <1>0, <3>1
      <3>4. CASE i = Len(pairs) + 1
        BY <2>3, <3>1, <3>2, <3>3, <3>4
      <3>5. CASE i # Len(pairs) + 1
        <4>1. i \in Retained /\ i \in DOMAIN pairs
          BY <1>0, <2>3, <3>3, <3>5 DEF Retained
        <4>2. pairs'[i] = pairs[i] /\ pairs[i] \in PairRec
          BY <1>0, <4>1
        <4>3. worker'[q].job = worker[q].job
          BY <1>5, RecordedWorkers
        <4>4. i \in AtEpoch(Retained, r.epoch)
          BY <2>3, <3>1, <4>1, <4>2, <4>3 DEF AtEpoch
        <4>5. pairs[i].seq <= EpochSeq(r.epoch) /\ pairs[i].seq \in Nat
          BY <3>2, <4>2, <4>4 DEF PairRec
        <4> QED BY <2>3, <3>1, <3>2, <4>2, <4>5
      <3> QED BY <3>4, <3>5
    <2> QED BY <1>5, <2>2, <2>3, RecordedWorkers
  <1> QED BY <1>4, <1>5, Steps

-----------------------------------------------------------------------------
(* The invariant is inductive. *)

Bounded == \A p \in Proc : Len(queue[p]) <= QueueSize

IInv == Types /\ Fits /\ Seqs /\ Dues /\ Draws /\ Earned /\ Abreast /\ Bounded

LEMMA BoundedStep ==
  ASSUME Types, Fits, Seqs, Bounded, Next
  PROVE  Bounded'
  <1>0. queue \in [Proc -> Seq(Job)] /\ QueueSize \in Nat \ {0}
    BY ShadowAssumption DEF Types
  <1>1. ASSUME NEW c \in Caller, CallStep(c), NEW q \in Proc PROVE Len(queue'[q]) <= QueueSize
    <2>1. CASE queue' = queue
      BY <2>1 DEF Bounded
    <2>2. ASSUME NEW phase \in Phase, Submit(c, phase) PROVE Len(queue'[q]) <= QueueSize
      <3> DEFINE job == IF phase = "fail_open" THEN FailOpenJob ELSE [epoch |-> caller[c].route.epoch, phase |-> phase]
      <3>1. IF Len(queue[ProcOf[c]]) < QueueSize
            THEN queue' = [queue EXCEPT ![ProcOf[c]] = Append(@, job)] ELSE queue' = queue
        BY <2>2 DEF Submit, Enqueue
      <3> HIDE DEF job
      <3>2. CASE queue' = [queue EXCEPT ![ProcOf[c]] = Append(@, job)] /\ Len(queue[ProcOf[c]]) < QueueSize
        <4>1. CASE q = ProcOf[c]
          <5>1. queue'[q] = Append(queue[q], job) /\ queue[q] \in Seq(Job)
            BY <1>0, <3>2, <4>1
          <5>2. Len(queue'[q]) = Len(queue[q]) + 1 /\ Len(queue[q]) \in Nat
            BY <5>1
          <5> QED BY <1>0, <3>2, <4>1, <5>2
        <4>2. CASE q # ProcOf[c]
          BY <1>0, <3>2, <4>2 DEF Bounded
        <4> QED BY <4>1, <4>2
      <3> QED BY <2>1, <3>1, <3>2
    <2> QED BY <1>1, <2>1, <2>2 DEF CallStep, CallerStep, Route, EndUnsampled, local
  <1>2. ASSUME NEW p \in Proc, ProcStep(p), NEW q \in Proc PROVE Len(queue'[q]) <= QueueSize
    <2>0. queue[q] \in Seq(Job) /\ Len(queue[q]) <= QueueSize /\ Len(queue[q]) \in Nat
      BY <1>0 DEF Bounded
    <2>1. CASE queue'[q] = queue[q]
      BY <2>0, <2>1
    <2>2. CASE queue'[q] = <<>>
      BY <1>0, <2>2
    <2>3. CASE queue[q] # <<>> /\ queue'[q] = Tail(queue[q])
      <3>1. Len(queue'[q]) = Len(queue[q]) - 1
        BY <2>0, <2>3
      <3> QED BY <1>0, <2>0, <3>1
    <2>4. CASE q # p
      BY <1>2, <2>1, <2>4, Shapes DEF OnlyAt
    <2>5. CASE q = p
      BY <1>2, <2>1, <2>2, <2>3, <2>5, Shapes
         DEF TakeShape, IdleShape, RecordShape, PruneShape, ScoreShape, MoveShape, RestartShape
    <2> QED BY <2>4, <2>5
  <1> QED BY <1>1, <1>2, Steps DEF Bounded

LEMMA InitIInv ==
  ASSUME Init
  PROVE  IInv
  <1>1. /\ pairs = <<>> /\ pruned = 0 /\ restarts = 0 /\ faults = 0 /\ world \in World
        /\ \A c \in Caller : caller[c] = IdleCaller
        /\ \A p \in Proc : queue[p] = <<>> /\ worker[p] = IdleWorker /\ clock[p] = 0
                           /\ scored[p] = NoEntries /\ seqCache[p] = NoEntries /\ drawn[p] = NoEntries
    <2>1. pairs = <<>> /\ pruned = 0 /\ restarts = 0 /\ faults = 0 /\ world \in World
      BY DEF Init
    <2>2. /\ caller = [c \in Caller |-> IdleCaller] /\ queue = [p \in Proc |-> <<>>]
          /\ worker = [p \in Proc |-> IdleWorker] /\ clock = [p \in Proc |-> 0]
      BY DEF Init
    <2>3. /\ scored = [p \in Proc |-> NoEntries] /\ seqCache = [p \in Proc |-> NoEntries]
          /\ drawn = [p \in Proc |-> NoEntries]
      BY DEF Init
    <2> QED BY <2>1, <2>2, <2>3
  <1>2. row \in Row
    <2>1. PICK st \in {"shadow", "ready"}, c \in world.callers :
            row = [NewRow EXCEPT !.status = st, !.adapter = TRUE, !.config = ConfigOf[ProcOf[c]]]
      BY DEF Init
    <2>2. c \in Caller
      BY <1>1, ShadowAssumption
    <2>3. ConfigOf[ProcOf[c]] \in Configs
      BY <2>2, ShadowAssumption
    <2>4. 0 \in 0..Threshold
      BY DBAssumption
    <2>5. row = [status |-> st, epoch |-> 0, adapter |-> TRUE, attempts |-> 0,
                 lease |-> "none", calls |-> 0, config |-> ConfigOf[ProcOf[c]]]
      BY <2>1 DEF NewRow
    <2> QED BY <2>3, <2>4, <2>5 DEF Row, Status
  <1>3. Types
    <2>1. IdleCaller \in CallerRec /\ IdleWorker \in WorkerRec /\ IsDict(NoEntries)
      BY EmptyDict DEF IdleCaller, CallerRec, NoRouting, Status, IdleWorker, WorkerRec, WorkerPC, NoJob, Job, Phase
    <2>2. caller \in [Caller -> CallerRec] /\ worker \in [Proc -> WorkerRec]
      BY <2>1 DEF Init
    <2>3. queue \in [Proc -> Seq(Job)] /\ clock \in [Proc -> 0..(PruneEvery - 1)]
      <3>1. 0 \in 0..(PruneEvery - 1)
        BY ShadowAssumption
      <3>2. queue = [p \in Proc |-> <<>>] /\ clock = [p \in Proc |-> 0]
        BY DEF Init
      <3> QED BY <3>1, <3>2
    <2>4. Dicts(scored) /\ Dicts(seqCache) /\ Dicts(drawn)
      BY <2>1 DEF Init, Dicts
    <2>5. pairs \in Seq(PairRec) /\ Len(pairs) = 0
      BY <1>1
    <2> QED BY <1>1, <1>2, <2>2, <2>3, <2>4, <2>5 DEF Types
  <1>4. \A e : Cardinality(Compared(e)) \in Nat
    BY <1>3, ComparedFinite
  <1>5. Fits
    BY <1>1 DEF Fits, CallerFits, QueueFits, WorkerFits, IdleCaller, IdleWorker
  <1>6. Seqs
    BY <1>1 DEF Seqs, IdleWorker
  <1>7. Dues /\ Earned /\ Abreast
    BY <1>1 DEF Dues, Earned, Abreast, IdleWorker
  <1>8. Draws
    <2>1. \A p \in Proc : WindowOf(p, PhaseNow) \in Nat
      BY WindowNat
    <2>2. \A p \in Proc : 0 * WindowOf(p, PhaseNow) = 0
      BY <2>1
    <2> QED BY <1>1, <1>4, <2>2, EmptyDict DEF Draws
  <1>9. Bounded
    BY <1>1, ShadowAssumption DEF Bounded
  <1> QED BY <1>3, <1>5, <1>6, <1>7, <1>8, <1>9 DEF IInv

LEMMA StutterIInv ==
  ASSUME IInv, UNCHANGED vars
  PROVE  IInv'
  <1>1. /\ UNCHANGED <<row, pairs, pruned, caller, queue, worker, scored>>
        /\ UNCHANGED <<seqCache, clock, drawn, restarts, faults, world>>
    BY DEF vars, local
  <1>2. Types'
    BY <1>1 DEF IInv, Types, Dicts
  <1>3. Fits' /\ Bounded'
    BY <1>1 DEF IInv, Fits, CallerFits, QueueFits, WorkerFits, FitJob, Fit, Uses, Bounded
  <1>4. \A e : Compared(e)' = Compared(e) /\ AtEpoch(Retained, e)' = AtEpoch(Retained, e)
    BY <1>1 DEF Compared, Countable, AtEpoch, Retained
  <1>5. Seqs' /\ Draws'
    BY <1>1, <1>4 DEF IInv, Seqs, Draws, PhaseNow
  <1>6. Dues'
    BY <1>1 DEF IInv, Dues, Due
  <1>7. Earned'
    BY <1>1, <1>4 DEF IInv, Earned, Runs, Passes, Agreements
  <1>8. Abreast'
    BY <1>1 DEF IInv, Abreast, Alone, Uses, AtEpoch, Retained
  <1> QED BY <1>2, <1>3, <1>5, <1>6, <1>7, <1>8 DEF IInv

LEMMA NextIInv ==
  ASSUME IInv, Next
  PROVE  IInv'
  <1>1. Types /\ Fits /\ Seqs /\ Dues /\ Draws /\ Earned /\ Abreast /\ Bounded
    BY DEF IInv
  <1>2. Types' /\ Inserted
    BY <1>1, TypesStep, EveryStepInserts
  <1>3. Fits' /\ Seqs' /\ Dues'
    BY <1>1, <1>2, FitsStep, SeqsStep, DuesStep
  <1>4. Draws' /\ Earned' /\ Abreast' /\ Bounded'
    BY <1>1, <1>2, DrawsStep, EarnedStep, AbreastStep, BoundedStep
  <1> QED BY <1>2, <1>3, <1>4 DEF IInv

\* IInv is an invariant, whatever the processes and the windows.
THEOREM Inductive == Spec => []IInv
  <1>1. Init => IInv
    BY InitIInv
  <1>2. IInv /\ [Next]_vars => IInv'
    BY NextIInv, StutterIInv
  <1> QED BY <1>1, <1>2, PTL DEF Spec

-----------------------------------------------------------------------------
(* The properties. *)

\* Every value is of its type, and no worker's queue is longer than shadow_queue_size.
THEOREM TypeCorrect == Spec => []TypeOK
  <1>1. IInv => TypeOK
    <2> SUFFICES ASSUME IInv PROVE TypeOK
      OBVIOUS
    <2>1. Types /\ Bounded
      BY DEF IInv
    <2>2. \A d \in UNION {{scored[p], seqCache[p], drawn[p]} : p \in Proc} :
            \A e \in DOMAIN d : e \in Nat /\ d[e] \in Nat
      BY <2>1 DEF Types, Dicts, IsDict
    <2>3. pruned \in 0..Len(pairs)
      BY <2>1 DEF Types
    <2> QED BY <2>1, <2>2, <2>3
            DEF TypeOK, Types, Bounded, PairRec, CallerRec, WorkerRec, WorkerPC
  <1> QED BY <1>1, Inductive, PTL

\* No process evaluates a window of the current epoch twice, whatever is pruned,
\* fails or is retried.
THEOREM DrawsOncePerWindow == Spec => []OneDrawPerWindow
  <1>1. IInv => OneDrawPerWindow
    <2> SUFFICES ASSUME IInv, NEW p \in Proc
                 PROVE  Lookup(drawn[p], row.epoch, 0) * WindowOf(p, PhaseNow)
                          <= Cardinality(Compared(row.epoch))
      BY DEF OneDrawPerWindow
    <2> DEFINE e == row.epoch
               a == Lookup(drawn[p], e, 0)
               b == Lookup(scored[p], e, 0)
               w == WindowOf(p, PhaseNow)
               n == Cardinality(Compared(e))
    <2>1. e \in Nat /\ IsDict(drawn[p]) /\ IsDict(scored[p]) /\ n \in Nat
      BY ComparedFinite DEF IInv, Types, Row, Dicts
    <2>2. a \in Nat /\ b \in Nat /\ w \in Nat
      BY <2>1, DictOps, WindowNat
    <2>3. a <= b /\ b * w <= n
      BY <2>1 DEF IInv, Draws
    <2> HIDE DEF a, b, w, n
    <2>4. a * w <= b * w /\ a * w \in Nat /\ b * w \in Nat
      BY <2>2, <2>3, TimesMonotone
    <2>5. a * w <= n
      BY <2>1, <2>3, <2>4
    <2> QED BY <2>5 DEF a, w, n
  <1> QED BY <1>1, Inductive, PTL

\* What changes the status of the row.
LEMMA StatusMoves ==
  ASSUME IInv, Next, row'.status # row.status
  PROVE  \E p \in Proc :
           /\ worker[p].pc = "move" /\ worker[p].job.epoch = row.epoch /\ Uses(p)
           /\ worker[p].job.phase = PhaseNow
           /\ PhaseNow = "shadow" <=> row'.status = "ready"
  <1>1. Types /\ Fits /\ Seqs
    BY DEF IInv
  <1>2. PICK p \in Proc : ProcStep(p)
    BY CallShape, Steps
  <1>3. MoveShape(p)
    <2>1. row \in Row /\ ConfigOf[p] \in Configs
      BY <1>1, ShadowAssumption DEF Types
    <2>2. ~RestartShape(p)
      <3>1. SyncShadowConfig(row, ConfigOf[p]).status = row.status
        BY <2>1, RowOps
      <3> QED BY <3>1 DEF RestartShape
    <2> QED BY <1>1, <1>2, <2>2, Shapes DEF TakeShape, IdleShape, RecordShape, PruneShape, ScoreShape
  <1>4. worker[p].job.phase \in Phase /\ worker[p].job.phase # "fail_open" /\ Uses(p) /\ worker[p].pc = "move"
    BY <1>1, <1>3 DEF Types, WorkerRec, Job, Fits, WorkerFits, MoveShape
  <1>5. row \in Row
    BY <1>1 DEF Types
  <1>6. Promote(row).status = "ready" /\ Demote(row).status = "shadow"
    BY <1>5 DEF Promote, Demote, Row
  <1>7. \/ /\ worker[p].job.phase = "shadow" /\ row.status = "shadow" /\ row.epoch = worker[p].job.epoch
           /\ row' = Promote(row)
        \/ /\ worker[p].job.phase # "shadow" /\ row.status = "ready" /\ row.epoch = worker[p].job.epoch
           /\ row' = Demote(row)
    BY <1>3 DEF MoveShape
  <1> QED BY <1>4, <1>6, <1>7 DEF PhaseNow, Phase

\* The adapter starts or stops serving only on a full, contiguous run of what was
\* compared at the very epoch of the row, that passes the test of some process.
THEOREM MovesAreEarned == Spec => MoveEarned
  <1>1. IInv /\ [Next]_vars =>
          [row'.status # row.status =>
             \E p \in Proc : \E run \in Runs(row.epoch, WindowOf(p, PhaseNow)) : Passes(p, PhaseNow, run)]_row
    <2> SUFFICES ASSUME IInv, [Next]_vars, row' # row, row'.status # row.status
                 PROVE  \E p \in Proc : \E run \in Runs(row.epoch, WindowOf(p, PhaseNow)) : Passes(p, PhaseNow, run)
      OBVIOUS
    <2>1. Next
      BY DEF vars
    <2>2. PICK p \in Proc : worker[p].pc = "move" /\ worker[p].job.epoch = row.epoch /\ worker[p].job.phase = PhaseNow
      BY <2>1, StatusMoves
    <2>3. worker[p].job \in Job
      BY DEF IInv, Types, WorkerRec
    <2>4. \E run \in Runs(worker[p].job.epoch, WindowOf(p, worker[p].job.phase)) : Passes(p, worker[p].job.phase, run)
      BY <2>2, <2>3 DEF IInv, Earned
    <2> QED BY <2>2, <2>4
  <1> QED BY <1>1, Inductive, PTL DEF Spec, MoveEarned

\* A stalled task is not promoted by a process that is alone, as long as its epoch
\* has lost no sequence number to retention.
THEOREM StalledTasksStay == Spec => StalledStays
  <1> DEFINE Stays(p) ==
        \/ \E q \in Proc \ {p} : Uses(q)
        \/ EpochSeq(row.epoch) < Cardinality(Compared(row.epoch))
        \/ Cardinality(Compared(row.epoch)) <= StallFactor * WindowOf(p, "shadow")
  <1>1. IInv /\ [Next]_vars =>
          [\A p \in Proc : Uses(p) /\ row.status = "shadow" /\ row'.status = "ready" => Stays(p)]_row
    <2> SUFFICES ASSUME IInv, [Next]_vars, row' # row, NEW p \in Proc, Uses(p),
                        row.status = "shadow", row'.status = "ready"
                 PROVE  Stays(p)
      OBVIOUS
    <2>1. Next
      BY DEF vars
    <2>2. PICK q \in Proc : /\ worker[q].pc = "move" /\ worker[q].job.epoch = row.epoch /\ Uses(q)
                            /\ worker[q].job.phase = "shadow"
      BY <2>1, StatusMoves DEF PhaseNow
    <2>3. CASE q # p
      BY <2>2, <2>3
    <2>4. CASE q = p /\ Alone(p)
      <3> DEFINE e == row.epoch
                 m == EpochSeq(e)
                 n == Cardinality(Compared(e))
                 stall == StallFactor * WindowOf(p, "shadow")
      <3>1. m \in Nat /\ n \in Nat
        BY EpochSeqMax, ComparedFinite DEF IInv
      <3>2. worker[p].seq \in Nat /\ worker[p].seq > 0 /\ worker[p].seq <= stall /\ stall \in Nat
        <4>1. worker[p] \in WorkerRec
          BY DEF IInv, Types
        <4>2. WindowOf(p, "shadow") \in Nat /\ StallFactor \in Nat
          BY WindowNat, ShadowAssumption
        <4>3. stall \in Nat
          BY <4>2
        <4>4. worker[p].seq > 0 /\ worker[p].seq <= stall
          BY <2>2, <2>4 DEF IInv, Dues
        <4> QED BY <4>1, <4>3, <4>4 DEF WorkerRec
      <3>3. \A i \in AtEpoch(Retained, e) : pairs[i].seq <= worker[p].seq
        BY <2>2, <2>4, <3>2 DEF IInv, Abreast
      <3>4. m = 0 \/ \E i \in AtEpoch(Retained, e) : m = pairs[i].seq
        BY EpochSeqMax DEF IInv
      <3>5. m <= stall
        <4> HIDE DEF m, stall
        <4> QED BY <3>1, <3>2, <3>3, <3>4
      <3> HIDE DEF m, n, stall
      <3>6. m < n \/ n <= stall
        BY <3>1, <3>2, <3>5
      <3> QED BY <3>6 DEF m, n, stall
    <2> QED BY <2>3, <2>4 DEF Alone
  <1> QED BY <1>1, Inductive, PTL DEF Spec, StalledStays
=============================================================================
