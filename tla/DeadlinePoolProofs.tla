------------------------- MODULE DeadlinePoolProofs -------------------------
(***************************************************************************)
(* Proofs of the safety properties of DeadlinePool for any number of calls    *)
(* and worker threads, whichever calls never return.                         *)
(***************************************************************************)
EXTENDS DeadlinePool, FiniteSetTheorems, TLAPS

WorkerRec == [pc : {"get", "run", "set", "release"}, job : SUBSET Call]

\* The number of workers, which is the number of permits.
LEMMA SomeWorkers == MaxWorkers \in Nat
  BY PoolAssumption, FS_CardinalityType DEF MaxWorkers

\* The type invariant of the pool.
THEOREM TypeCorrect == Spec => []TypeOK
  <1>1. Init => TypeOK
    BY SomeWorkers DEF Init, TypeOK, Idle, CallPC
  <1>2. TypeOK /\ [Next]_vars => TypeOK'
    <2> SUFFICES ASSUME TypeOK, [Next]_vars PROVE TypeOK'
      OBVIOUS
    <2>0. /\ permits \in Nat /\ queue \in Seq(Call) /\ call \in [Call -> CallPC]
          /\ done \in [Call -> BOOLEAN] /\ worker \in [Worker -> WorkerRec]
      BY DEF TypeOK, WorkerRec
    <2>t. ASSUME permits' \in Nat, queue' \in Seq(Call), call' \in [Call -> CallPC],
                 done' \in [Call -> BOOLEAN], worker' \in [Worker -> WorkerRec]
          PROVE  TypeOK'
      BY <2>t DEF TypeOK, WorkerRec
    <2>1. ASSUME NEW c \in Call, CallStep(c) \/ Expires(c) PROVE TypeOK'
      <3>1. {"admitted", "exhausted", "waiting", "answered", "expired"} \subseteq CallPC
        BY DEF CallPC
      <3>2. CASE Acquire(c)
        BY <2>0, <2>t, <3>1, <3>2 DEF Acquire
      <3>3. CASE Put(c)
        BY <2>0, <2>t, <3>1, <3>3 DEF Put
      <3>4. CASE Answered(c) \/ Expires(c)
        BY <2>0, <2>t, <3>1, <3>4 DEF Answered, Expires
      <3> QED BY <2>1, <3>2, <3>3, <3>4 DEF CallStep
    <2>2. ASSUME NEW w \in Worker, WorkerStep(w) PROVE TypeOK'
      <3>1. CASE Get(w)
        <4>1. Head(queue) \in Call /\ Tail(queue) \in Seq(Call)
          BY <2>0, <3>1 DEF Get
        <4>2. [pc |-> "run", job |-> {Head(queue)}] \in WorkerRec
          BY <4>1 DEF WorkerRec
        <4> QED BY <2>0, <2>t, <3>1, <4>1, <4>2 DEF Get
      <3>2. CASE Returns(w)
        BY <2>0, <2>t, <3>2 DEF Returns, WorkerRec
      <3>3. CASE SetDone(w)
        BY <2>0, <2>t, <3>3 DEF SetDone, WorkerRec
      <3>4. CASE Release(w)
        <4>1. Idle \in WorkerRec
          BY DEF Idle, WorkerRec
        <4> QED BY <2>0, <2>t, <3>4, <4>1 DEF Release
      <3> QED BY <2>2, <3>1, <3>2, <3>3, <3>4 DEF WorkerStep
    <2>3. CASE UNCHANGED vars
      BY <2>0, <2>t, <2>3 DEF vars
    <2> QED BY <2>1, <2>2, <2>3 DEF Next
  <1> QED BY <1>1, <1>2, PTL DEF Spec

-----------------------------------------------------------------------------
(* Permits. *)

\* The sets that are counted are finite.
LEMMA Counts ==
  /\ IsFiniteSet(Admitted) /\ Cardinality(Admitted) \in Nat
  /\ IsFiniteSet(Busy) /\ Cardinality(Busy) \in Nat
  <1>1. Admitted \subseteq Call /\ Busy \subseteq Worker
    BY DEF Admitted, Busy
  <1> QED BY <1>1, PoolAssumption, FS_Subset, FS_CardinalityType

\* Every permit is accounted for.
THEOREM PermitsCorrect == Spec => []PermitsConserved
  <1>1. Init => PermitsConserved
    <2> SUFFICES ASSUME Init PROVE PermitsConserved
      OBVIOUS
    <2>1. Admitted = {} /\ Busy = {}
      BY DEF Init, Admitted, Busy, Idle
    <2> QED BY <2>1, FS_EmptySet, SomeWorkers DEF Init, PermitsConserved
  <1>2. TypeOK /\ PermitsConserved /\ [Next]_vars => PermitsConserved'
    <2> SUFFICES ASSUME TypeOK, PermitsConserved, [Next]_vars PROVE PermitsConserved'
      OBVIOUS
    <2> DEFINE a == Cardinality(Admitted)
               b == Cardinality(Busy)
    <2>0. /\ permits \in Nat /\ queue \in Seq(Call) /\ Len(queue) \in Nat
          /\ a \in Nat /\ b \in Nat /\ MaxWorkers \in Nat
          /\ permits + a + Len(queue) + b = MaxWorkers
          /\ call \in [Call -> CallPC] /\ worker \in [Worker -> WorkerRec]
      BY Counts, SomeWorkers DEF TypeOK, PermitsConserved, WorkerRec
    <2>a. ASSUME call' = call PROVE a' = a
      BY <2>a DEF Admitted
    <2>b. ASSUME worker' = worker PROVE b' = b
      BY <2>b DEF Busy
    <2>1. ASSUME NEW c \in Call, CallStep(c) \/ Expires(c) PROVE PermitsConserved'
      <3>0. worker' = worker
        BY <2>1 DEF CallStep, Acquire, Put, Answered, Expires
      <3>1. CASE Acquire(c)
        <4>1. CASE permits > 0
          <5>1. Admitted' = Admitted \union {c} /\ c \notin Admitted
            BY <2>0, <3>1, <4>1 DEF Acquire, Admitted
          <5>2. a' = a + 1
            BY <5>1, Counts, FS_AddElement
          <5> QED BY <2>0, <2>b, <3>0, <3>1, <4>1, <5>2 DEF Acquire, PermitsConserved
        <4>2. CASE ~(permits > 0)
          <5>1. Admitted' = Admitted
            BY <2>0, <3>1, <4>2 DEF Acquire, Admitted
          <5> QED BY <2>0, <2>b, <3>0, <3>1, <4>2, <5>1 DEF Acquire, PermitsConserved
        <4> QED BY <4>1, <4>2
      <3>2. CASE Put(c)
        <4>1. Admitted' = Admitted \ {c} /\ c \in Admitted
          BY <2>0, <3>2 DEF Put, Admitted
        <4>2. a' = a - 1
          BY <4>1, Counts, FS_RemoveElement
        <4>3. Len(queue') = Len(queue) + 1
          BY <2>0, <3>2 DEF Put
        <4>4. permits' = permits /\ b' = b
          BY <2>b, <3>0, <3>2 DEF Put
        <4>5. permits' + a' + Len(queue') + b' = MaxWorkers
          <5> HIDE DEF a, b
          <5> QED BY <2>0, <4>2, <4>3, <4>4
        <4>6. MaxWorkers' = MaxWorkers
          BY DEF MaxWorkers
        <4> QED BY <4>5, <4>6 DEF PermitsConserved
      <3>3. CASE Answered(c) \/ Expires(c)
        <4>1. Admitted' = Admitted
          BY <2>0, <3>3 DEF Answered, Expires, Admitted
        <4> QED BY <2>0, <2>b, <3>0, <3>3, <4>1 DEF Answered, Expires, PermitsConserved
      <3> QED BY <2>1, <3>1, <3>2, <3>3 DEF CallStep
    <2>2. ASSUME NEW w \in Worker, WorkerStep(w) PROVE PermitsConserved'
      <3>0. call' = call
        BY <2>2 DEF WorkerStep, Get, Returns, SetDone, Release
      <3>1. CASE Get(w)
        <4>1. Busy' = Busy \union {w} /\ w \notin Busy
          BY <2>0, <3>1 DEF Get, Busy
        <4>2. b' = b + 1
          BY <4>1, Counts, FS_AddElement
        <4>3. Len(queue') = Len(queue) - 1
          BY <2>0, <3>1 DEF Get
        <4> QED BY <2>0, <2>a, <3>0, <3>1, <4>2, <4>3 DEF Get, PermitsConserved
      <3>2. CASE Returns(w) \/ SetDone(w)
        <4>1. Busy' = Busy
          BY <2>0, <3>2 DEF Returns, SetDone, Busy, WorkerRec
        <4> QED BY <2>0, <2>a, <3>0, <3>2, <4>1 DEF Returns, SetDone, PermitsConserved
      <3>3. CASE Release(w)
        <4>1. Busy' = Busy \ {w} /\ w \in Busy
          BY <2>0, <3>3 DEF Release, Busy, Idle
        <4>2. b' = b - 1
          BY <4>1, Counts, FS_RemoveElement
        <4> QED BY <2>0, <2>a, <3>0, <3>3, <4>2 DEF Release, PermitsConserved
      <3> QED BY <2>2, <3>1, <3>2, <3>3 DEF WorkerStep
    <2>3. CASE UNCHANGED vars
      BY <2>0, <2>a, <2>b, <2>3 DEF vars, PermitsConserved
    <2> QED BY <2>1, <2>2, <2>3 DEF Next
  <1> QED BY <1>1, <1>2, TypeCorrect, PTL DEF Spec

\* An accepted call always has a free worker to take it, so it never waits
\* behind a call that does not return.
THEOREM NeverBehindWedgedCorrect == Spec => []NeverBehindWedged
  <1>1. TypeOK /\ PermitsConserved => NeverBehindWedged
    <2> SUFFICES ASSUME TypeOK, PermitsConserved PROVE NeverBehindWedged
      OBVIOUS
    <2>1. Busy \subseteq Worker
      BY DEF Busy
    <2>2. Cardinality(Worker \ Busy) = MaxWorkers - Cardinality(Busy)
      <3>1. Worker \cap Busy = Busy
        BY <2>1
      <3>2. Cardinality(Worker \ Busy) = Cardinality(Worker) - Cardinality(Worker \cap Busy)
        <4>1. IsFiniteSet(Worker)
          BY PoolAssumption
        <4> QED BY <4>1, FS_Difference, Zenon
      <3> QED BY <3>1, <3>2 DEF MaxWorkers
    <2>3. permits \in Nat /\ Len(queue) \in Nat
      BY DEF TypeOK
    <2>4. /\ Cardinality(Admitted) \in Nat /\ Cardinality(Busy) \in Nat /\ MaxWorkers \in Nat
          /\ permits + Cardinality(Admitted) + Len(queue) + Cardinality(Busy) = MaxWorkers
      BY Counts, SomeWorkers DEF PermitsConserved
    <2>5. Len(queue) <= MaxWorkers - Cardinality(Busy)
      BY <2>3, <2>4
    <2> QED BY <2>2, <2>5 DEF NeverBehindWedged
  <1> QED BY <1>1, PermitsCorrect, TypeCorrect, PTL

-----------------------------------------------------------------------------
(* The promise of CallSlots.                                                *)
(*                                                                         *)
(* Where a call is decides what it holds, so the mapping needs to know that a *)
(* call is in one place at a time: once in the queue or with one worker, and   *)
(* its event set exactly when it has left both.                             *)

Queued(c)  == \E i \in DOMAIN queue : queue[i] = c
Run(c)     == \E w \in Worker : c \in worker[w].job /\ worker[w].pc \in {"run", "set"}
Ends(c)    == \E w \in Worker : c \in worker[w].job /\ worker[w].pc = "release"
Pending(c) == Queued(c) \/ Run(c)
Sent       == {"waiting", "answered", "expired"}

OnceQueued == \A i, j \in DOMAIN queue : queue[i] = queue[j] => i = j

OneJob ==
  \A w \in Worker : IF worker[w].pc = "get" THEN worker[w].job = {}
                                             ELSE \E c \in Call : worker[w].job = {c}

OneWorker ==
  \A c \in Call : \A v, w \in Worker :
    c \in worker[v].job /\ c \in worker[w].job => v = w

OnePlace ==
  \A c \in Call :
    /\ Queued(c) => call[c] \in Sent /\ ~Run(c) /\ ~Ends(c)
    /\ Run(c) \/ Ends(c) => call[c] \in Sent

DoneOnce ==
  \A c \in Call :
    /\ done[c] <=> call[c] \in Sent /\ ~Pending(c)
    /\ call[c] = "answered" => done[c]

Placing == OnceQueued /\ OneJob /\ OneWorker /\ OnePlace /\ DoneOnce

\* A worker that is past "get" has one call, and the call no other worker.
LEMMA JobOf ==
  ASSUME TypeOK, OneJob, OneWorker, NEW w \in Worker, worker[w].pc # "get"
  PROVE  \E c \in Call :
           /\ worker[w].job = {c}
           /\ \A v \in Worker \ {w} : c \notin worker[v].job
  <1>1. PICK c \in Call : worker[w].job = {c}
    BY DEF OneJob
  <1> QED BY <1>1 DEF OneWorker

\* What Get moves: call c, from the head of the queue to a worker without one.
Taken(w, c) ==
  /\ Len(queue) # 0 /\ queue[1] = c /\ Queued(c)
  /\ worker[w].job = {} /\ worker'[w].pc = "run" /\ worker'[w].job = {c}
  /\ \A v \in Worker \ {w} : worker'[v] = worker[v]
  /\ \A d \in Call \ {c} : Queued(d)' <=> Queued(d)
  /\ \A d \in Call : (Run(d)' <=> Run(d) \/ d = c) /\ (Ends(d)' <=> Ends(d))

LEMMA GetTakes ==
  ASSUME TypeOK, OneJob, NEW w \in Worker, Get(w)
  PROVE  \E c \in Call : Taken(w, c)
  <1>0. queue \in Seq(Call) /\ worker \in [Worker -> WorkerRec]
    BY DEF TypeOK, WorkerRec
  <1>1. PICK c \in Call : c = Head(queue)
    BY <1>0 DEF Get
  <1>2. /\ queue' = Tail(queue) /\ worker[w].pc = "get"
        /\ worker'[w].pc = "run" /\ worker'[w].job = {c}
        /\ \A v \in Worker \ {w} : worker'[v] = worker[v]
    BY <1>0, <1>1 DEF Get
  <1>3. Len(queue) \in Nat /\ Len(queue) # 0 /\ DOMAIN queue = 1..Len(queue) /\ queue[1] = c
    BY <1>0, <1>1 DEF Get
  <1>4. DOMAIN queue' = 1..(Len(queue) - 1) /\ \A i \in DOMAIN queue' : queue'[i] = queue[i + 1]
    BY <1>0, <1>2, <1>3
  <1>5. \A d \in Call \ {c} : Queued(d)' <=> Queued(d)
    <2> SUFFICES ASSUME NEW d \in Call, d # c PROVE Queued(d)' <=> Queued(d)
      OBVIOUS
    <2>1. ASSUME NEW i \in DOMAIN queue, queue[i] = d PROVE Queued(d)'
      <3>1. i # 1 /\ i \in Nat /\ i - 1 \in DOMAIN queue' /\ queue'[i - 1] = d
        BY <1>3, <1>4, <2>1
      <3> QED BY <3>1 DEF Queued
    <2>2. ASSUME NEW i \in DOMAIN queue', queue'[i] = d PROVE Queued(d)
      <3>1. i + 1 \in DOMAIN queue /\ queue[i + 1] = d
        BY <1>3, <1>4, <2>2
      <3> QED BY <3>1 DEF Queued
    <2> QED BY <2>1, <2>2 DEF Queued
  <1>6. worker[w].job = {}
    BY <1>2 DEF OneJob
  <1>7. \A d \in Call : (Run(d)' <=> Run(d) \/ d = c) /\ (Ends(d)' <=> Ends(d))
    BY <1>2, <1>6 DEF Run, Ends
  <1>8. Queued(c)
    BY <1>3 DEF Queued
  <1> QED BY <1>2, <1>3, <1>5, <1>6, <1>7, <1>8 DEF Taken

\* A call is queued, with a worker and done in turn, and never in two places.
LEMMA PlacingCorrect == Spec => []Placing
  <1>1. Init => Placing
    BY DEF Init, Idle, Placing, OnceQueued, OneJob, OneWorker, OnePlace, DoneOnce,
           Queued, Run, Ends, Pending, Sent
  <1>2. TypeOK /\ Placing /\ [Next]_vars => Placing'
    <2> SUFFICES ASSUME TypeOK, Placing, [Next]_vars PROVE Placing'
      OBVIOUS
    <2>0. /\ queue \in Seq(Call) /\ call \in [Call -> CallPC]
          /\ done \in [Call -> BOOLEAN] /\ worker \in [Worker -> WorkerRec]
          /\ OnceQueued /\ OneJob /\ OneWorker /\ OnePlace /\ DoneOnce
      BY DEF TypeOK, WorkerRec, Placing
    <2>1. ASSUME NEW c \in Call, Acquire(c) PROVE Placing'
      <3>1. /\ UNCHANGED <<queue, done, worker>> /\ call[c] = "new"
            /\ call'[c] \in {"admitted", "exhausted"}
            /\ \A d \in Call \ {c} : call'[d] = call[d]
        BY <2>0, <2>1 DEF Acquire
      <3>2. \A d \in Call : (Queued(d)' <=> Queued(d)) /\ (Run(d)' <=> Run(d)) /\ (Ends(d)' <=> Ends(d))
        BY <3>1 DEF Queued, Run, Ends
      <3>3. OnceQueued' /\ OneJob' /\ OneWorker'
        BY <2>0, <3>1 DEF OnceQueued, OneJob, OneWorker
      <3>4. OnePlace' /\ DoneOnce'
        BY <2>0, <3>1, <3>2 DEF OnePlace, DoneOnce, Pending, Sent
      <3> QED BY <3>3, <3>4 DEF Placing
    <2>2. ASSUME NEW c \in Call, Put(c) PROVE Placing'
      <3>1. /\ UNCHANGED <<done, worker>> /\ queue' = Append(queue, c)
            /\ call[c] = "admitted" /\ call'[c] = "waiting"
            /\ \A d \in Call \ {c} : call'[d] = call[d]
        BY <2>0, <2>2 DEF Put
      <3>2. \A d \in Call : (Run(d)' <=> Run(d)) /\ (Ends(d)' <=> Ends(d))
        BY <3>1 DEF Run, Ends
      <3>3. ~Queued(c) /\ ~Run(c) /\ ~Ends(c) /\ ~done[c]
        BY <2>0, <3>1 DEF OnePlace, DoneOnce, Sent
      <3>4. \A d \in Call : Queued(d)' <=> Queued(d) \/ d = c
        BY <2>0, <3>1 DEF Queued
      <3>5. OnceQueued'
        BY <2>0, <3>1, <3>3 DEF OnceQueued, Queued
      <3>6. OneJob' /\ OneWorker'
        BY <2>0, <3>1 DEF OneJob, OneWorker
      <3>7. OnePlace'
        BY <2>0, <3>1, <3>2, <3>3, <3>4 DEF OnePlace, Sent
      <3>8. DoneOnce'
        BY <2>0, <3>1, <3>2, <3>3, <3>4 DEF DoneOnce, Pending, Sent
      <3> QED BY <3>5, <3>6, <3>7, <3>8 DEF Placing
    <2>3. ASSUME NEW c \in Call, Answered(c) \/ Expires(c) PROVE Placing'
      <3>1. /\ UNCHANGED <<queue, done, worker>> /\ call[c] = "waiting"
            /\ call'[c] \in {"answered", "expired"} /\ (call'[c] = "answered" => done[c])
            /\ \A d \in Call \ {c} : call'[d] = call[d]
        BY <2>0, <2>3 DEF Answered, Expires
      <3>2. \A d \in Call : (Queued(d)' <=> Queued(d)) /\ (Run(d)' <=> Run(d)) /\ (Ends(d)' <=> Ends(d))
        BY <3>1 DEF Queued, Run, Ends
      <3>3. OnceQueued' /\ OneJob' /\ OneWorker'
        BY <2>0, <3>1 DEF OnceQueued, OneJob, OneWorker
      <3>4. OnePlace' /\ DoneOnce'
        BY <2>0, <3>1, <3>2 DEF OnePlace, DoneOnce, Pending, Sent
      <3> QED BY <3>3, <3>4 DEF Placing
    <2>4. ASSUME NEW w \in Worker, Get(w) PROVE Placing'
      <3>1. PICK c \in Call : Taken(w, c)
        BY <2>0, <2>4, GetTakes
      <3>2. /\ UNCHANGED <<done, call>> /\ queue' = Tail(queue) /\ worker[w].job = {}
            /\ worker'[w].pc = "run" /\ worker'[w].job = {c}
            /\ \A v \in Worker \ {w} : worker'[v] = worker[v]
        BY <2>4, <3>1 DEF Get, Taken
      <3>3. Len(queue) \in Nat /\ Len(queue) # 0 /\ DOMAIN queue = 1..Len(queue) /\ queue[1] = c
        BY <2>0, <3>1 DEF Taken
      <3>4. DOMAIN queue' = 1..(Len(queue) - 1) /\ \A i \in DOMAIN queue' : queue'[i] = queue[i + 1]
        BY <2>0, <3>2, <3>3
      <3>5. OnceQueued'
        BY <2>0, <3>3, <3>4 DEF OnceQueued
      <3>6. Queued(c) /\ ~Queued(c)'
        BY <2>0, <3>1, <3>3, <3>4 DEF OnceQueued, Queued, Taken
      <3>7. \A d \in Call \ {c} : Queued(d)' <=> Queued(d)
        BY <3>1 DEF Taken
      <3>9. call[c] \in Sent /\ ~Run(c) /\ ~Ends(c) /\ ~done[c]
        BY <2>0, <3>6 DEF OnePlace, DoneOnce, Pending
      <3>10. \A v \in Worker : c \notin worker[v].job
        BY <2>0, <3>9 DEF OneJob, Run, Ends, WorkerRec
      <3>11. \A d \in Call : (Run(d)' <=> Run(d) \/ d = c) /\ (Ends(d)' <=> Ends(d))
        BY <3>1 DEF Taken
      <3>12. OneJob' /\ OneWorker'
        BY <2>0, <3>2, <3>10 DEF OneJob, OneWorker
      <3>13. OnePlace'
        BY <2>0, <3>2, <3>6, <3>7, <3>9, <3>11 DEF OnePlace
      <3>14. DoneOnce'
        BY <2>0, <3>2, <3>6, <3>7, <3>9, <3>11 DEF DoneOnce, Pending
      <3> QED BY <3>5, <3>12, <3>13, <3>14 DEF Placing
    <2>5. ASSUME NEW w \in Worker, Returns(w) PROVE Placing'
      <3>1. /\ UNCHANGED <<queue, call, done>> /\ worker[w].pc = "run" /\ worker'[w].pc = "set"
            /\ worker'[w].job = worker[w].job
            /\ \A v \in Worker \ {w} : worker'[v] = worker[v]
        BY <2>0, <2>5 DEF Returns, WorkerRec
      <3>2. \A d \in Call : (Queued(d)' <=> Queued(d)) /\ (Run(d)' <=> Run(d)) /\ (Ends(d)' <=> Ends(d))
        BY <3>1 DEF Queued, Run, Ends
      <3>3. OnceQueued' /\ OneJob' /\ OneWorker'
        BY <2>0, <3>1 DEF OnceQueued, OneJob, OneWorker
      <3>4. OnePlace' /\ DoneOnce'
        BY <2>0, <3>1, <3>2 DEF OnePlace, DoneOnce, Pending
      <3> QED BY <3>3, <3>4 DEF Placing
    <2>6. ASSUME NEW w \in Worker, SetDone(w) PROVE Placing'
      <3>1. /\ UNCHANGED <<queue, call>> /\ worker[w].pc = "set" /\ worker'[w].pc = "release"
            /\ worker'[w].job = worker[w].job
            /\ \A v \in Worker \ {w} : worker'[v] = worker[v]
        BY <2>0, <2>6 DEF SetDone, WorkerRec
      <3>2. PICK c \in Call : /\ worker[w].job = {c}
                             /\ \A v \in Worker \ {w} : c \notin worker[v].job
        BY <2>0, <3>1, JobOf
      <3>3. done'[c] /\ \A d \in Call \ {c} : done'[d] = done[d]
        BY <2>0, <2>6, <3>2 DEF SetDone
      <3>4. \A d \in Call : Queued(d)' <=> Queued(d)
        BY <3>1 DEF Queued
      <3>5. /\ Run(c) /\ ~Run(c)' /\ Ends(c)'
            /\ \A d \in Call \ {c} : (Run(d)' <=> Run(d)) /\ (Ends(d)' <=> Ends(d))
        BY <3>1, <3>2 DEF Run, Ends
      <3>6. OnceQueued' /\ OneJob' /\ OneWorker'
        BY <2>0, <3>1 DEF OnceQueued, OneJob, OneWorker
      <3>7. OnePlace'
        BY <2>0, <3>1, <3>4, <3>5 DEF OnePlace
      <3>8. DoneOnce'
        BY <2>0, <3>1, <3>3, <3>4, <3>5 DEF OnePlace, DoneOnce, Pending
      <3> QED BY <3>6, <3>7, <3>8 DEF Placing
    <2>7. ASSUME NEW w \in Worker, Release(w) PROVE Placing'
      <3>1. /\ UNCHANGED <<queue, call, done>> /\ worker[w].pc = "release" /\ worker'[w].pc = "get"
            /\ worker'[w].job = {}
            /\ \A v \in Worker \ {w} : worker'[v] = worker[v]
        BY <2>0, <2>7 DEF Release, Idle
      <3>2. PICK c \in Call : worker[w].job = {c}
        BY <2>0, <3>1, JobOf
      <3>3. \A d \in Call : /\ (Queued(d)' <=> Queued(d)) /\ (Run(d)' <=> Run(d))
                            /\ (Ends(d)' => Ends(d))
        BY <3>1 DEF Queued, Run, Ends
      <3>4. OnceQueued' /\ OneJob' /\ OneWorker'
        BY <2>0, <3>1 DEF OnceQueued, OneJob, OneWorker
      <3>5. OnePlace' /\ DoneOnce'
        BY <2>0, <3>1, <3>3 DEF OnePlace, DoneOnce, Pending
      <3> QED BY <3>4, <3>5 DEF Placing
    <2>8. CASE UNCHANGED vars
      BY <2>0, <2>8 DEF vars, Placing, OnceQueued, OneJob, OneWorker, OnePlace, DoneOnce,
                        Queued, Run, Ends, Pending
    <2> QED BY <2>1, <2>2, <2>3, <2>4, <2>5, <2>6, <2>7, <2>8 DEF Next, CallStep, WorkerStep
  <1> QED BY <1>1, <1>2, TypeCorrect, PTL DEF Spec
-----------------------------------------------------------------------------
(* The refinement of CallSlots.  Every step of the pool moves at most one call *)
(* between the places a mapped slot tells apart: outside, inside with its       *)
(* function to return, inside with it returned, and gone.                      *)

New(c)  == call[c] \in {"new", "exhausted"}
Held(c) == call[c] = "admitted" \/ Pending(c)
Gone(c) == ~New(c) /\ ~Held(c) /\ ~Ends(c)

SlotIs(c) ==
  /\ New(c) => SlotOf(c) = "none"
  /\ Held(c) => SlotOf(c) = "held"
  /\ Ends(c) => SlotOf(c) = "returned"
  /\ Gone(c) => SlotOf(c) = "given back"
  /\ ~(New(c) /\ Held(c)) /\ ~(New(c) /\ Ends(c)) /\ ~(Held(c) /\ Ends(c))

\* Where a call is says what it holds.
LEMMA SlotCases == TypeOK /\ Placing => \A c \in Call : SlotIs(c)
  <1> SUFFICES ASSUME TypeOK, Placing, NEW c \in Call PROVE SlotIs(c)
    OBVIOUS
  <1>1. /\ Queued(c) => call[c] \in Sent /\ ~Run(c) /\ ~Ends(c)
        /\ Run(c) \/ Ends(c) => call[c] \in Sent
    BY DEF Placing, OnePlace
  <1>2. ~(Run(c) /\ Ends(c))
    BY DEF Placing, OneWorker, Run, Ends
  <1>3. ~(New(c) /\ Held(c)) /\ ~(New(c) /\ Ends(c)) /\ ~(Held(c) /\ Ends(c))
    BY <1>1, <1>2 DEF New, Held, Sent, Pending
  <1>4. SlotOf(c) = CASE New(c) -> "none" [] Held(c) -> "held" [] Ends(c) -> "returned"
                      [] OTHER -> "given back"
    BY DEF SlotOf, New, Held, Pending, Queued, Run, Ends
  <1>5. New(c) => SlotOf(c) = "none"
    BY <1>3, <1>4
  <1>6. Held(c) => SlotOf(c) = "held"
    BY <1>3, <1>4
  <1>7. Ends(c) => SlotOf(c) = "returned"
    BY <1>3, <1>4
  <1>8. Gone(c) => SlotOf(c) = "given back"
    BY <1>4 DEF Gone
  <1> QED BY <1>3, <1>5, <1>6, <1>7, <1>8 DEF SlotIs

\* The calls inside hold the permits that the semaphore does not.
InsidePool    == {c \in Call : Held(c) \/ Ends(c)}
InsideCounted == permits + Cardinality(InsidePool) = MaxWorkers

LEMMA InsideFinite == IsFiniteSet(InsidePool) /\ Cardinality(InsidePool) \in Nat
  <1>1. InsidePool \subseteq Call
    BY DEF InsidePool
  <1> QED BY <1>1, PoolAssumption, FS_Subset, FS_CardinalityType

\* The ways a step may move call c.
SamePlace(c)   == (New(c)' <=> New(c)) /\ (Held(c)' <=> Held(c)) /\ (Ends(c)' <=> Ends(c))
SameOutcome(c) == OutcomeOf(c)' = OutcomeOf(c)
OutcomeGoes(c, got) == OutcomeOf(c) = "none" /\ OutcomeOf(c)' = got

IsRefused(c)  == New(c) /\ SamePlace(c) /\ OutcomeGoes(c, "refused") /\ permits = 0 /\ permits' = 0
Enters(c)     == New(c) /\ ~New(c)' /\ Held(c)' /\ OutcomeGoes(c, "none")
                 /\ permits > 0 /\ permits' = permits - 1
HasEnded(c)   == Held(c) /\ Ends(c)' /\ SameOutcome(c) /\ permits' = permits
Leaves(c)     == Ends(c) /\ Gone(c)' /\ SameOutcome(c) /\ permits' = permits + 1
IsAnswered(c) == (Ends(c) \/ Gone(c)) /\ SamePlace(c) /\ OutcomeGoes(c, "answered") /\ permits' = permits
IsLeft(c)     == Held(c) /\ SamePlace(c) /\ OutcomeGoes(c, "expired") /\ permits' = permits
Stays(c)      == SamePlace(c) /\ SameOutcome(c) /\ permits' = permits

Moves(c) ==
  \/ IsRefused(c) \/ Enters(c) \/ HasEnded(c) \/ Leaves(c) \/ IsAnswered(c) \/ IsLeft(c) \/ Stays(c)

\* Every step of the pool moves one call and leaves the others where they are.
LEMMA OneMoves ==
  ASSUME TypeOK, Placing, Next
  PROVE  \E c \in Call : Moves(c) /\ \A d \in Call \ {c} : SamePlace(d) /\ SameOutcome(d)
  <1>0. /\ permits \in Nat /\ queue \in Seq(Call) /\ call \in [Call -> CallPC]
        /\ done \in [Call -> BOOLEAN] /\ worker \in [Worker -> WorkerRec]
        /\ OnceQueued /\ OneJob /\ OneWorker /\ OnePlace /\ DoneOnce
    BY DEF TypeOK, WorkerRec, Placing
  <1>a. ASSUME NEW c \in Call, CallStep(c) \/ Expires(c)
        PROVE  \A d \in Call \ {c} : SamePlace(d) /\ SameOutcome(d)
    <2> SUFFICES ASSUME NEW d \in Call, d # c PROVE SamePlace(d) /\ SameOutcome(d)
      OBVIOUS
    <2>1. call'[d] = call[d] /\ worker' = worker /\ (queue' = queue \/ queue' = Append(queue, c))
      BY <1>0, <1>a DEF CallStep, Acquire, Put, Answered, Expires
    <2>2. Queued(d)' <=> Queued(d)
      <3>1. CASE queue' = queue
        BY <3>1 DEF Queued
      <3>2. CASE queue' = Append(queue, c)
        <4>1. /\ DOMAIN queue = 1..Len(queue) /\ DOMAIN queue' = 1..(Len(queue) + 1) /\ Len(queue) \in Nat
              /\ queue'[Len(queue) + 1] = c /\ \A i \in DOMAIN queue : queue'[i] = queue[i]
          BY <1>0, <3>2
        <4> QED BY <4>1 DEF Queued
      <3> QED BY <2>1, <3>1, <3>2
    <2>3. (Run(d)' <=> Run(d)) /\ (Ends(d)' <=> Ends(d))
      BY <2>1 DEF Run, Ends
    <2> QED BY <2>1, <2>2, <2>3 DEF SamePlace, SameOutcome, New, Held, Pending, OutcomeOf
  <1>1. ASSUME NEW c \in Call, CallStep(c) \/ Expires(c) PROVE Moves(c)
    <2>0. worker' = worker /\ (Run(c)' <=> Run(c)) /\ (Ends(c)' <=> Ends(c))
      BY <1>1 DEF CallStep, Acquire, Put, Answered, Expires, Run, Ends
    <2>1. CASE Acquire(c)
      <3>1. /\ queue' = queue /\ call[c] = "new" /\ (Queued(c)' <=> Queued(c))
            /\ ~Queued(c) /\ ~Run(c) /\ ~Ends(c)
        BY <1>0, <2>1 DEF Acquire, Queued, OnePlace, Sent
      <3>2. CASE permits > 0
        <4>1. call'[c] = "admitted" /\ permits' = permits - 1
          BY <1>0, <2>1, <3>2 DEF Acquire
        <4>2. Enters(c)
          BY <3>1, <3>2, <4>1 DEF Enters, New, Held, OutcomeGoes, OutcomeOf
        <4> QED BY <4>2 DEF Moves
      <3>3. CASE ~(permits > 0)
        <4>1. call'[c] = "exhausted" /\ permits' = permits /\ permits = 0
          BY <1>0, <2>1, <3>3 DEF Acquire
        <4>2. IsRefused(c)
          BY <2>0, <3>1, <4>1 DEF IsRefused, SamePlace, New, Held, Pending, OutcomeGoes, OutcomeOf
        <4> QED BY <4>2 DEF Moves
      <3> QED BY <3>2, <3>3
    <2>2. CASE Put(c)
      <3>1. call[c] = "admitted" /\ call'[c] = "waiting" /\ permits' = permits
        BY <1>0, <2>2 DEF Put
      <3>2. Queued(c)'
        <4>1. queue' = Append(queue, c)
          BY <2>2 DEF Put
        <4>2. Len(queue) + 1 \in DOMAIN queue' /\ queue'[Len(queue) + 1] = c
          BY <1>0, <4>1
        <4> QED BY <4>2 DEF Queued
      <3>3. Stays(c)
        BY <2>0, <3>1, <3>2 DEF Stays, SamePlace, SameOutcome, New, Held, Pending, OutcomeOf
      <3> QED BY <3>3 DEF Moves
    <2>3. CASE Answered(c)
      <3>1. /\ call[c] = "waiting" /\ call'[c] = "answered" /\ permits' = permits /\ queue' = queue
            /\ done[c] /\ (Queued(c)' <=> Queued(c))
        BY <1>0, <2>3 DEF Answered, Queued
      <3>2. ~Pending(c)
        BY <1>0, <3>1 DEF DoneOnce
      <3>3. IsAnswered(c)
        BY <2>0, <3>1, <3>2
           DEF IsAnswered, Gone, SamePlace, New, Held, Pending, OutcomeGoes, OutcomeOf
      <3> QED BY <3>3 DEF Moves
    <2>4. CASE Expires(c)
      <3>1. /\ call[c] = "waiting" /\ call'[c] = "expired" /\ permits' = permits /\ queue' = queue
            /\ ~done[c] /\ (Queued(c)' <=> Queued(c))
        BY <1>0, <2>4 DEF Expires, Queued
      <3>2. Pending(c)
        BY <1>0, <3>1 DEF DoneOnce, Sent
      <3>3. IsLeft(c)
        BY <2>0, <3>1, <3>2 DEF IsLeft, SamePlace, New, Held, Pending, OutcomeGoes, OutcomeOf
      <3> QED BY <3>3 DEF Moves
    <2> QED BY <1>1, <2>1, <2>2, <2>3, <2>4 DEF CallStep
  <1>b. ASSUME NEW w \in Worker, WorkerStep(w)
        PROVE  \A d \in Call : SameOutcome(d) /\ (New(d)' <=> New(d)) /\ (call'[d] = call[d])
    BY <1>b DEF WorkerStep, Get, Returns, SetDone, Release, SameOutcome, OutcomeOf, New
  <1>2. ASSUME NEW w \in Worker, WorkerStep(w)
        PROVE  \E c \in Call : Moves(c) /\ \A d \in Call \ {c} : SamePlace(d) /\ SameOutcome(d)
    <2>1. CASE Get(w)
      <3>1. PICK c \in Call : Taken(w, c)
        BY <1>0, <2>1, GetTakes
      <3>2. permits' = permits
        BY <2>1 DEF Get
      <3>3. \A d \in Call : SamePlace(d)
        BY <1>b, <1>2, <3>1 DEF SamePlace, Held, Pending, Taken
      <3> QED BY <1>b, <1>2, <3>2, <3>3 DEF Moves, Stays
    <2>2. CASE Returns(w)
      <3>1. /\ queue' = queue /\ permits' = permits /\ worker[w].pc = "run" /\ worker'[w].pc = "set"
            /\ worker'[w].job = worker[w].job
            /\ \A v \in Worker \ {w} : worker'[v] = worker[v]
        BY <1>0, <2>2 DEF Returns, WorkerRec
      <3>2. \A d \in Call : (Queued(d)' <=> Queued(d)) /\ (Run(d)' <=> Run(d)) /\ (Ends(d)' <=> Ends(d))
        BY <3>1 DEF Queued, Run, Ends
      <3>3. \A d \in Call : SamePlace(d)
        BY <1>b, <1>2, <3>2 DEF SamePlace, Held, Pending
      <3>4. PICK c \in Call : worker[w].job = {c}
        BY <1>0, <3>1, JobOf
      <3> QED BY <1>b, <1>2, <3>1, <3>3, <3>4 DEF Moves, Stays
    <2>3. CASE SetDone(w)
      <3>1. /\ queue' = queue /\ permits' = permits /\ worker[w].pc = "set" /\ worker'[w].pc = "release"
            /\ worker'[w].job = worker[w].job
            /\ \A v \in Worker \ {w} : worker'[v] = worker[v]
        BY <1>0, <2>3 DEF SetDone, WorkerRec
      <3>2. PICK c \in Call : /\ worker[w].job = {c}
                             /\ \A v \in Worker \ {w} : c \notin worker[v].job
        BY <1>0, <3>1, JobOf
      <3>3. /\ Run(c) /\ Ends(c)'
            /\ \A d \in Call \ {c} : (Run(d)' <=> Run(d)) /\ (Ends(d)' <=> Ends(d))
        BY <3>1, <3>2 DEF Run, Ends
      <3>4. \A d \in Call : Queued(d)' <=> Queued(d)
        BY <3>1 DEF Queued
      <3>5. \A d \in Call \ {c} : SamePlace(d)
        BY <1>b, <1>2, <3>3, <3>4 DEF SamePlace, Held, Pending
      <3>6. HasEnded(c)
        BY <1>b, <1>2, <3>1, <3>3 DEF HasEnded, Held, Pending
      <3> QED BY <1>b, <1>2, <3>5, <3>6 DEF Moves
    <2>4. CASE Release(w)
      <3>1. /\ queue' = queue /\ permits' = permits + 1 /\ worker[w].pc = "release"
            /\ worker'[w].pc = "get" /\ worker'[w].job = {}
            /\ \A v \in Worker \ {w} : worker'[v] = worker[v]
        BY <1>0, <2>4 DEF Release, Idle
      <3>2. PICK c \in Call : /\ worker[w].job = {c}
                             /\ \A v \in Worker \ {w} : c \notin worker[v].job
        BY <1>0, <3>1, JobOf
      <3>3. /\ Ends(c) /\ ~Ends(c)' /\ ~Run(c)'
            /\ \A d \in Call \ {c} : (Run(d)' <=> Run(d)) /\ (Ends(d)' <=> Ends(d))
        BY <3>1, <3>2 DEF Run, Ends
      <3>4. \A d \in Call : Queued(d)' <=> Queued(d)
        BY <3>1 DEF Queued
      <3>5. \A d \in Call \ {c} : SamePlace(d)
        BY <1>b, <1>2, <3>3, <3>4 DEF SamePlace, Held, Pending
      <3>6. ~Queued(c) /\ call[c] \in Sent
        BY <1>0, <3>3 DEF OnePlace
      <3>7. Leaves(c)
        BY <1>b, <1>2, <3>1, <3>3, <3>4, <3>6 DEF Leaves, Gone, Held, Pending, New, Sent
      <3> QED BY <1>b, <1>2, <3>5, <3>7 DEF Moves
    <2> QED BY <1>2, <2>1, <2>2, <2>3, <2>4 DEF WorkerStep
  <1> QED BY <1>1, <1>2, <1>a DEF Next
\* A moved call makes the abstract step its move stands for, and the count of
\* the calls inside follows the semaphore.
LEMMA StepRefines ==
  ASSUME TypeOK, InsideCounted,
         \A c \in Call : SlotIs(c), (\A c \in Call : SlotIs(c))',
         NEW c \in Call, Moves(c), \A d \in Call \ {c} : SamePlace(d) /\ SameOutcome(d)
  PROVE  InsideCounted' /\ [Promise!SlotsNext]_(Promise!svars)
  <1> DEFINE s == [d \in Call |-> SlotOf(d)]
             o == [d \in Call |-> OutcomeOf(d)]
             n == Cardinality(InsidePool)
  <1>0. /\ permits \in Nat /\ n \in Nat /\ MaxWorkers \in Nat /\ permits + n = MaxWorkers
        /\ MaxWorkers' = MaxWorkers
    BY InsideFinite, SomeWorkers DEF TypeOK, InsideCounted, MaxWorkers
  <1>1. Promise!Inside = InsidePool
    <2>1. \A d \in Call : s[d] \in {"held", "returned"} <=> Held(d) \/ Ends(d)
      BY DEF SlotIs, Gone
    <2> QED BY <2>1 DEF Promise!Inside, InsidePool
  <1>2. \A d \in Call \ {c} : s'[d] = s[d] /\ o'[d] = o[d]
    <2> SUFFICES ASSUME NEW d \in Call, d # c PROVE SlotOf(d)' = SlotOf(d) /\ OutcomeOf(d)' = OutcomeOf(d)
      OBVIOUS
    <2>1. SlotIs(d) /\ SlotIs(d)' /\ SamePlace(d) /\ SameOutcome(d)
      OBVIOUS
    <2> QED BY <2>1 DEF SlotIs, SamePlace, SameOutcome, Gone
  <1>3. s' = [s EXCEPT ![c] = SlotOf(c)'] /\ o' = [o EXCEPT ![c] = OutcomeOf(c)']
    <2>1. /\ s = [d \in Call |-> s[d]] /\ o = [d \in Call |-> o[d]]
          /\ s' = [d \in Call |-> s'[d]] /\ o' = [d \in Call |-> o'[d]]
          /\ s'[c] = SlotOf(c)' /\ o'[c] = OutcomeOf(c)'
      OBVIOUS
    <2> HIDE DEF s, o
    <2> QED BY <1>2, <2>1
  <1>4. /\ s[c] = SlotOf(c) /\ s'[c] = SlotOf(c)' /\ o[c] = OutcomeOf(c) /\ o'[c] = OutcomeOf(c)'
        /\ SlotIs(c) /\ SlotIs(c)'
    OBVIOUS
  <1>5. s = [d \in Call |-> s[d]] /\ o = [d \in Call |-> o[d]]
    OBVIOUS
  <1>6. ASSUME SlotOf(c)' = SlotOf(c) PROVE s' = s
    BY <1>3, <1>5, <1>6, <1>4
  <1>7. ASSUME SameOutcome(c) PROVE o' = o
    BY <1>3, <1>5, <1>7, <1>4 DEF SameOutcome
  <1>8. ASSUME SamePlace(c) PROVE SlotOf(c)' = SlotOf(c) /\ InsidePool' = InsidePool
    <2>1. SlotOf(c)' = SlotOf(c)
      BY <1>4, <1>8 DEF SlotIs, SamePlace, Gone
    <2>2. InsidePool' = InsidePool
      BY <1>8 DEF InsidePool, SamePlace
    <2> QED BY <2>1, <2>2
  <1>9. ASSUME InsidePool' = InsidePool, permits' = permits PROVE InsideCounted'
    BY <1>0, <1>9 DEF InsideCounted
  <1> HIDE DEF s, o, n
  <1>10. ASSUME \/ Promise!Refuse(c) \/ Promise!Admit(c) \/ Promise!FunctionReturns(c)
                \/ Promise!GiveBack(c) \/ Promise!GetAnswer(c) \/ Promise!GiveUp(c)
         PROVE  [Promise!SlotsNext]_(Promise!svars)
    BY <1>10 DEF Promise!SlotsNext
  <1>c. Promise!Cardinality(Promise!Inside) = n
    BY <1>1 DEF Promise!Cardinality, Cardinality, n
  <1>11. CASE IsRefused(c)
    <2>1. s[c] = "none" /\ o[c] = "none" /\ OutcomeOf(c)' = "refused"
      BY <1>4, <1>11 DEF IsRefused, SlotIs, OutcomeGoes
    <2>2. n = MaxWorkers /\ permits' = permits
      BY <1>0, <1>11 DEF IsRefused
    <2>3. s' = s /\ o' = [o EXCEPT ![c] = "refused"] /\ InsideCounted'
      BY <1>3, <1>6, <1>8, <1>9, <1>11, <2>1, <2>2 DEF IsRefused
    <2>4. Promise!Refuse(c)
      BY <1>c, <2>1, <2>2, <2>3 DEF Promise!Refuse, s, o
    <2> QED BY <1>10, <2>3, <2>4
  <1>12. CASE Enters(c)
    <2>1. s[c] = "none" /\ o[c] = "none" /\ SlotOf(c)' = "held" /\ SameOutcome(c) /\ ~Held(c) /\ ~Ends(c)
      BY <1>4, <1>12 DEF Enters, SlotIs, OutcomeGoes, SameOutcome
    <2>2. InsidePool' = InsidePool \union {c} /\ c \notin InsidePool
      BY <1>12, <2>1 DEF InsidePool, Enters, SamePlace
    <2>3. Cardinality(InsidePool') = n + 1
      BY <2>2, InsideFinite, FS_AddElement DEF n
    <2>4. permits' = permits - 1 /\ permits' \in Nat
      BY <1>12 DEF Enters, TypeOK
    <2>5. n < MaxWorkers /\ InsideCounted'
      BY <1>0, <2>3, <2>4 DEF InsideCounted
    <2>6. s' = [s EXCEPT ![c] = "held"] /\ o' = o
      BY <1>3, <1>7, <2>1
    <2>7. Promise!Admit(c)
      BY <1>c, <2>1, <2>5, <2>6 DEF Promise!Admit, s, o
    <2> QED BY <1>10, <2>5, <2>7
  <1>13. CASE HasEnded(c)
    <2>1. s[c] = "held" /\ SlotOf(c)' = "returned" /\ SameOutcome(c)
      BY <1>4, <1>13 DEF HasEnded, SlotIs
    <2>2. InsidePool' = InsidePool
      BY <1>13 DEF HasEnded, InsidePool, SamePlace
    <2>3. s' = [s EXCEPT ![c] = "returned"] /\ o' = o /\ InsideCounted'
      BY <1>3, <1>7, <1>9, <1>13, <2>1, <2>2 DEF HasEnded
    <2>4. Promise!FunctionReturns(c)
      BY <2>1, <2>3 DEF Promise!FunctionReturns, s, o
    <2> QED BY <1>10, <2>3, <2>4
  <1>14. CASE Leaves(c)
    <2>1. s[c] = "returned" /\ SlotOf(c)' = "given back" /\ SameOutcome(c)
      BY <1>4, <1>14 DEF Leaves, SlotIs
    <2>2. InsidePool' = InsidePool \ {c} /\ c \in InsidePool
      BY <1>14 DEF Leaves, Gone, InsidePool, SamePlace
    <2>3. Cardinality(InsidePool') = n - 1
      BY <2>2, InsideFinite, FS_RemoveElement DEF n
    <2>4. InsideCounted'
      BY <1>0, <1>14, <2>3 DEF InsideCounted, Leaves
    <2>5. s' = [s EXCEPT ![c] = "given back"] /\ o' = o
      BY <1>3, <1>7, <2>1
    <2>6. Promise!GiveBack(c)
      BY <2>1, <2>5 DEF Promise!GiveBack, s, o
    <2> QED BY <1>10, <2>4, <2>6
  <1>15. CASE IsAnswered(c)
    <2>1. s[c] \in {"returned", "given back"} /\ o[c] = "none" /\ OutcomeOf(c)' = "answered"
      BY <1>4, <1>15 DEF IsAnswered, SlotIs, OutcomeGoes
    <2>2. s' = s /\ o' = [o EXCEPT ![c] = "answered"] /\ InsideCounted'
      BY <1>3, <1>6, <1>8, <1>9, <1>15, <2>1 DEF IsAnswered
    <2>3. Promise!GetAnswer(c)
      BY <2>1, <2>2 DEF Promise!GetAnswer, s, o
    <2> QED BY <1>10, <2>2, <2>3
  <1>16. CASE IsLeft(c)
    <2>1. s[c] = "held" /\ o[c] = "none" /\ OutcomeOf(c)' = "expired"
      BY <1>4, <1>16 DEF IsLeft, SlotIs, OutcomeGoes
    <2>2. s' = s /\ o' = [o EXCEPT ![c] = "expired"] /\ InsideCounted'
      BY <1>3, <1>6, <1>8, <1>9, <1>16, <2>1 DEF IsLeft
    <2>3. Promise!GiveUp(c)
      BY <2>1, <2>2 DEF Promise!GiveUp, s, o
    <2> QED BY <1>10, <2>2, <2>3
  <1>17. CASE Stays(c)
    <2>1. s' = s /\ o' = o /\ InsideCounted'
      BY <1>6, <1>7, <1>8, <1>9, <1>17 DEF Stays
    <2> QED BY <2>1 DEF Promise!svars, s, o
  <1> QED BY <1>11, <1>12, <1>13, <1>14, <1>15, <1>16, <1>17 DEF Moves

\* The pool implements CallSlots: a call is refused only when every slot is
\* taken, keeps its slot until its function has returned, whether its caller
\* waits or not, and no caller gets an answer that is not there.
THEOREM KeepsPromiseCorrect == Spec => KeepsPromise
  <1> DEFINE Cases == \A c \in Call : SlotIs(c)
  <1>1. Init => Promise!SlotsInit /\ InsideCounted
    <2> SUFFICES ASSUME Init PROVE Promise!SlotsInit /\ InsideCounted
      OBVIOUS
    <2>1. ASSUME NEW c \in Call PROVE SlotOf(c) = "none" /\ OutcomeOf(c) = "none"
      <3>1. call[c] = "new" /\ DOMAIN queue = {} /\ \A w \in Worker : worker[w].job = {}
        BY DEF Init, Idle
      <3> QED BY <3>1 DEF SlotOf, OutcomeOf
    <2>2. InsidePool = {}
      BY DEF Init, InsidePool, Held, Pending, Queued, Run, Ends, Idle
    <2>3. InsideCounted
      BY <2>2, FS_EmptySet, SomeWorkers DEF Init, InsideCounted
    <2> QED BY <2>1, <2>3 DEF Promise!SlotsInit
  <1>2. TypeOK /\ Placing => Cases
    BY SlotCases
  <1>3. (TypeOK /\ Placing => Cases)'
    BY <1>2, PTL
  <1>4. TypeOK /\ TypeOK' /\ Placing /\ Placing' /\ InsideCounted /\ [Next]_vars
          => InsideCounted' /\ [Promise!SlotsNext]_(Promise!svars)
    <2> SUFFICES ASSUME TypeOK, TypeOK', Placing, Placing', InsideCounted, [Next]_vars
                 PROVE  InsideCounted' /\ [Promise!SlotsNext]_(Promise!svars)
      OBVIOUS
    <2>1. Cases /\ Cases'
      BY <1>2, <1>3
    <2>2. CASE Next
      <3>1. PICK c \in Call : Moves(c) /\ \A d \in Call \ {c} : SamePlace(d) /\ SameOutcome(d)
        BY <2>2, OneMoves
      <3> QED BY <2>1, <3>1, StepRefines
    <2>3. CASE UNCHANGED vars
      <3>1. InsideCounted'
        BY <2>3 DEF vars, InsideCounted, InsidePool, Held, Pending, Queued, Run, Ends, MaxWorkers
      <3>2. UNCHANGED Promise!svars
        BY <2>3 DEF vars, Promise!svars, SlotOf, OutcomeOf
      <3> QED BY <3>1, <3>2
    <2> QED BY <2>2, <2>3
  <1> QED BY <1>1, <1>4, TypeCorrect, PlacingCorrect, PTL DEF Spec, KeepsPromise, Promise!SlotsSpec
=============================================================================
