------------------------ MODULE InferenceServerProofs ------------------------
(***************************************************************************)
(* Proofs about the rate limiter, the inference slot and the telemetry of the   *)
(* server, for any number of clients and requests and any limits.              *)
(***************************************************************************)
EXTENDS InferenceServer, FiniteSetTheorems, TLAPS

-----------------------------------------------------------------------------
(* Buckets and time. *)

LEMMA AtMostBounds ==
  ASSUME NEW cap \in Nat, NEW n \in Nat
  PROVE  AtMost(cap, n) \in 0..cap /\ AtMost(cap, n) <= n
  BY DEF AtMost

LEMMA Elapsed ==
  ASSUME NEW n \in Nat, NEW l \in Nat, l <= n, NEW r \in Nat
  PROVE  /\ (n - l) * r \in Nat
         /\ ((n + 1) - l) * r = (n - l) * r + r
         /\ (n - n) * r = 0
  <1>1. n - l \in Nat /\ (n + 1) - l = (n - l) + 1 /\ n - n = 0
    OBVIOUS
  <1>2. \A k \in Nat : k * r \in Nat /\ (k + 1) * r = k * r + r /\ 0 * r = 0
    OBVIOUS
  <1> QED BY <1>1, <1>2

\* Refilling up to a unit of time later is refilling twice.
LEMMA Later ==
  ASSUME NEW cap \in Nat, NEW t \in Nat, NEW n \in Nat, NEW l \in Nat, l <= n, NEW r \in Nat
  PROVE  AtMost(cap, t + ((n + 1) - l) * r) = AtMost(cap, AtMost(cap, t + (n - l) * r) + r)
  <1> DEFINE e == (n - l) * r
  <1>1. e \in Nat /\ ((n + 1) - l) * r = e + r
    BY Elapsed
  <1> HIDE DEF e
  <1>2. AtMost(cap, t + (e + r)) = AtMost(cap, AtMost(cap, t + e) + r)
    BY <1>1 DEF AtMost
  <1> QED BY <1>1, <1>2 DEF e

LEMMA LevelBounds ==
  ASSUME NEW b \in Bucket, now \in Nat, b.last <= now
  PROVE  Level(b) \in 0..Capacity
  <1>1. b.tokens + (now - b.last) * Refill \in Nat
    BY Elapsed, LimitAssumption DEF Bucket
  <1> QED BY <1>1, AtMostBounds, LimitAssumption DEF Level

LEMMA Levels ==
  ASSUME LimitTypes
  PROVE  /\ \A c \in Client : LevelOf(c) \in 0..Capacity
         /\ GlobalLevel \in 0..GlobalCapacity
  <1>1. \A c \in Client : LevelOf(c) \in 0..Capacity
    BY LevelBounds, LimitAssumption DEF LimitTypes, LevelOf
  <1>2. global.tokens + (now - global.last) * GlobalRefill \in Nat
    BY Elapsed, LimitAssumption DEF LimitTypes, Bucket
  <1> QED BY <1>1, <1>2, AtMostBounds, LimitAssumption DEF GlobalLevel

LEMMA TickEffect ==
  ASSUME LimitTypes, Tick
  PROVE  /\ \A c \in Client : LevelOf(c)' = AtMost(Capacity, LevelOf(c) + Refill)
         /\ GlobalLevel' = AtMost(GlobalCapacity, GlobalLevel + GlobalRefill)
         /\ admitted' = admitted /\ now' = now + 1
  <1>0. now' = now + 1 /\ global' = global /\ buckets' = buckets /\ admitted' = admitted
    BY DEF Tick, limiter
  <1>1. GlobalLevel' = AtMost(GlobalCapacity, GlobalLevel + GlobalRefill)
    BY <1>0, Later, LimitAssumption DEF GlobalLevel, LimitTypes, Bucket
  <1>2. ASSUME NEW c \in Client PROVE LevelOf(c)' = AtMost(Capacity, LevelOf(c) + Refill)
    <2>1. CASE c \in DOMAIN buckets
      <3> DEFINE t == buckets[c].tokens
                 l == buckets[c].last
      <3>1. t \in Nat /\ l \in Nat /\ l <= now
        BY <2>1 DEF LimitTypes, Bucket
      <3>2. now \in Nat /\ Capacity \in Nat /\ Refill \in Nat
        BY LimitAssumption DEF LimitTypes
      <3>3. AtMost(Capacity, t + ((now + 1) - l) * Refill)
              = AtMost(Capacity, AtMost(Capacity, t + (now - l) * Refill) + Refill)
        <4> DEFINE e == (now - l) * Refill
        <4>1. e \in Nat /\ ((now + 1) - l) * Refill = e + Refill
          <5>1. /\ now \in Nat /\ l \in Nat /\ l <= now /\ Refill \in Nat
            BY <3>1, <3>2
          <5> HIDE DEF l
          <5> QED BY <5>1, Elapsed
        <4> HIDE DEF e, t
        <4>2. AtMost(Capacity, t + (e + Refill)) = AtMost(Capacity, AtMost(Capacity, t + e) + Refill)
          BY <3>1, <3>2, <4>1 DEF AtMost
        <4> QED BY <4>1, <4>2 DEF e
      <3>4. Level(buckets[c])' = AtMost(Capacity, Level(buckets[c]) + Refill)
        BY <1>0, <3>3 DEF Level
      <3> QED BY <2>1, <1>0, <3>4 DEF LevelOf
    <2>2. CASE c \notin DOMAIN buckets
      BY <2>2, <1>0, LimitAssumption DEF LevelOf, AtMost
    <2> QED BY <2>1, <2>2
  <1> QED BY <1>0, <1>1, <1>2

\* A bucket that is stored is not refilled in the same moment.
LEMMA StoredLevel ==
  ASSUME now \in Nat, NEW t, NEW cap \in Nat, NEW r \in Nat, t \in 0..cap
  PROVE  AtMost(cap, t + (now - now) * r) = t
  <1>1. (now - now) * r = 0
    BY Elapsed
  <1> QED BY <1>1 DEF AtMost

LEMMA PaidEffect ==
  ASSUME LimitTypes, GlobalPaid, UNCHANGED now
  PROVE  GlobalLevel >= Cost /\ GlobalLevel' = GlobalLevel - Cost
  <1>1. GlobalLevel - Cost \in 0..GlobalCapacity
    BY Levels, LimitAssumption DEF GlobalPaid
  <1>2. GlobalLevel' = AtMost(GlobalCapacity, (GlobalLevel - Cost) + (now - now) * GlobalRefill)
    BY DEF GlobalPaid, GlobalLevel
  <1> QED BY <1>1, <1>2, StoredLevel, LimitAssumption DEF GlobalPaid, LimitTypes

LEMMA RefusedEffect ==
  ASSUME LimitTypes, GlobalRefused, UNCHANGED now
  PROVE  /\ GlobalLevel' = GlobalLevel
         /\ \A c \in Client : LevelOf(c)' = LevelOf(c)
  <1>1. GlobalLevel' = AtMost(GlobalCapacity, GlobalLevel + (now - now) * GlobalRefill)
    BY DEF GlobalRefused, GlobalLevel
  <1>2. GlobalLevel' = GlobalLevel
    BY <1>1, Levels, StoredLevel, LimitAssumption DEF LimitTypes
  <1>3. \A c \in Client : LevelOf(c)' = LevelOf(c)
    BY DEF GlobalRefused, LevelOf, Level
  <1> QED BY <1>2, <1>3

\* A charge is seen in the bucket of its client only: one that is evicted
\* was as full as the one its client would get.
LEMMA ChargeEffect ==
  ASSUME LimitTypes, NEW c \in Client, NEW allowed \in BOOLEAN, Charge(c, allowed), UNCHANGED now
  PROVE  /\ allowed => LevelOf(c) >= Cost
         /\ \A d \in Client :
              LevelOf(d)' = IF d = c /\ allowed THEN LevelOf(c) - Cost ELSE LevelOf(d)
  <1> DEFINE left == IF allowed THEN LevelOf(c) - Cost ELSE LevelOf(c)
  <1>1. allowed => LevelOf(c) >= Cost
    BY DEF Charge
  <1>2. left \in 0..Capacity
    BY <1>1, Levels, LimitAssumption
  <1> HIDE DEF left
  <1>3. PICK others \in Kept(c) :
          buckets' = [d \in others \union {c} |->
                        IF d # c THEN buckets[d] ELSE [tokens |-> left, last |-> now]]
    BY DEF Charge, left
  <1>4. LevelOf(c)' = left
    <2>1. LevelOf(c)' = AtMost(Capacity, left + (now - now) * Refill)
      BY <1>3 DEF LevelOf, Level
    <2> QED BY <2>1, <1>2, StoredLevel, LimitAssumption DEF LimitTypes
  <1>5. ASSUME NEW d \in Client, d # c PROVE LevelOf(d)' = LevelOf(d)
    <2>1. CASE d \in others
      <3>1. d \in DOMAIN buckets
        BY <2>1 DEF Kept
      <3>2. d \in DOMAIN buckets' /\ buckets'[d] = buckets[d]
        BY <2>1, <1>3, <1>5
      <3> QED BY <3>1, <3>2 DEF LevelOf, Level
    <2>2. CASE d \notin others
      <3>1. d \notin DOMAIN buckets'
        BY <2>2, <1>3, <1>5
      <3>2. d \in DOMAIN buckets => Level(buckets[d]) = Capacity
        BY <2>2 DEF Kept, Evictable
      <3> QED BY <3>1, <3>2 DEF LevelOf
    <2> QED BY <2>1, <2>2
  <1> QED BY <1>1, <1>4, <1>5 DEF left

-----------------------------------------------------------------------------
(* Types of the limiter. *)

LEMMA LimitInitTypes == LimitInit => LimitTypes
  BY FS_EmptySet, LimitAssumption DEF LimitInit, LimitTypes, Bucket

LEMMA TableFinite ==
  ASSUME LimitTypes
  PROVE  IsFiniteSet(DOMAIN buckets) /\ Cardinality(DOMAIN buckets) \in Nat
  BY FS_Subset, FS_CardinalityType, LimitAssumption DEF LimitTypes

\* There is room in the table for the client that is charged.
LEMMA TableBounded ==
  ASSUME LimitTypes, NEW c \in Client, NEW others \in Kept(c)
  PROVE  /\ others \subseteq DOMAIN buckets
         /\ Cardinality(others \union {c}) <= MaxBuckets
  <1>1. IsFiniteSet(DOMAIN buckets) /\ Cardinality(DOMAIN buckets) \in Nat
    BY TableFinite
  <1>2. CASE c \in DOMAIN buckets
    <2>1. others = DOMAIN buckets /\ others \union {c} = others
      BY <1>2 DEF Kept
    <2> QED BY <2>1 DEF LimitTypes
  <1>3. CASE c \notin DOMAIN buckets /\ ~TableFull
    <2>1. others = DOMAIN buckets
      BY <1>3 DEF Kept
    <2>2. Cardinality(DOMAIN buckets \union {c}) = Cardinality(DOMAIN buckets) + 1
      BY <1>1, <1>3, FS_AddElement
    <2>3. ~(Cardinality(DOMAIN buckets) >= MaxBuckets) /\ MaxBuckets \in Nat
      BY <1>3, LimitAssumption DEF TableFull
    <2> QED BY <1>1, <2>1, <2>2, <2>3
  <1>4. CASE c \notin DOMAIN buckets /\ TableFull
    <2>1. PICK d \in DOMAIN buckets : others = DOMAIN buckets \ {d}
      BY <1>4 DEF Kept, Evictable
    <2>2. IsFiniteSet(others) /\ Cardinality(others) = Cardinality(DOMAIN buckets) - 1
      BY <1>1, <2>1, FS_RemoveElement
    <2>3. Cardinality(others \union {c}) = Cardinality(DOMAIN buckets)
      <3>1. c \notin others
        BY <1>4, <2>1
      <3>2. Cardinality(others \union {c}) = Cardinality(others) + 1
        BY <2>2, <3>1, FS_AddElement
      <3> QED BY <1>1, <2>2, <3>2
    <2> QED BY <2>1, <2>3 DEF LimitTypes
  <1> QED BY <1>2, <1>3, <1>4

LEMMA ChargeTypes ==
  ASSUME LimitTypes, NEW c \in Client, NEW allowed \in BOOLEAN, Charge(c, allowed), UNCHANGED now
  PROVE  LimitTypes'
  <1> DEFINE left == IF allowed THEN LevelOf(c) - Cost ELSE LevelOf(c)
  <1>1. left \in Nat
    <2>1. LevelOf(c) \in Nat /\ Cost \in Nat
      BY Levels, LimitAssumption
    <2>2. allowed => LevelOf(c) >= Cost
      BY DEF Charge
    <2> QED BY <2>1, <2>2
  <1>2. global' \in Bucket /\ global'.last <= now'
    BY Levels, LimitAssumption DEF Charge, GlobalPaid, Bucket, LimitTypes
  <1>3. admitted' \in [Client -> Nat]
    BY DEF Charge, LimitTypes
  <1> HIDE DEF left
  <1>4. PICK others \in Kept(c) :
          buckets' = [d \in others \union {c} |->
                        IF d # c THEN buckets[d] ELSE [tokens |-> left, last |-> now]]
    BY DEF Charge, left
  <1>5. others \subseteq DOMAIN buckets /\ Cardinality(others \union {c}) <= MaxBuckets
    BY TableBounded
  <1>6. DOMAIN buckets' = others \union {c}
    BY <1>4
  <1>7. ASSUME NEW d \in others \union {c}
        PROVE  buckets'[d] \in Bucket /\ buckets'[d].last <= now'
    <2>1. CASE d = c
      BY <2>1, <1>1, <1>4 DEF Bucket, LimitTypes
    <2>2. CASE d # c
      <3>1. d \in DOMAIN buckets /\ buckets'[d] = buckets[d]
        BY <2>2, <1>4, <1>5
      <3> QED BY <3>1 DEF LimitTypes
    <2> QED BY <2>1, <2>2
  <1>8. buckets' \in [DOMAIN buckets' -> Bucket]
    BY <1>4, <1>6, <1>7
  <1> QED BY <1>2, <1>3, <1>5, <1>6, <1>7, <1>8 DEF LimitTypes

LEMMA LimitStepTypes ==
  ASSUME LimitTypes, [LimitNext]_limits
  PROVE  LimitTypes'
  <1>1. CASE Tick
    <2>1. now' = now + 1 /\ global' = global /\ buckets' = buckets /\ admitted' = admitted
      BY <1>1 DEF Tick, limiter
    <2>2. \A c \in DOMAIN buckets : buckets[c].last <= now + 1
      BY DEF LimitTypes, Bucket
    <2>3. global.last <= now + 1 /\ now + 1 \in Nat
      BY DEF LimitTypes, Bucket
    <2> QED BY <2>1, <2>2, <2>3 DEF LimitTypes
  <1>2. ASSUME NEW c \in Client, NEW allowed \in BOOLEAN, Consume(c, allowed)
        PROVE  LimitTypes'
    <2>1. CASE GlobalRefused
      BY <1>2, <2>1, Levels DEF GlobalRefused, Consume, LimitTypes, Bucket
    <2>2. CASE Shed(c)
      BY <1>2, <2>2, Levels, LimitAssumption DEF Shed, GlobalPaid, Consume, LimitTypes, Bucket
    <2>3. CASE Charge(c, allowed)
      BY <1>2, <2>3, ChargeTypes DEF Consume
    <2> QED BY <1>2, <2>1, <2>2, <2>3 DEF Consume
  <1>3. CASE UNCHANGED limits
    BY <1>3 DEF limits, LimitTypes
  <1> QED BY <1>1, <1>2, <1>3 DEF LimitNext

-----------------------------------------------------------------------------
(* The limiter implements TokenBuckets. *)

LEMMA BucketsInitMap == LimitInit => Buckets!BucketsInit
  <1> SUFFICES ASSUME LimitInit PROVE Buckets!BucketsInit
    OBVIOUS
  <1>1. \A c \in Client : LevelOf(c) = Capacity
    BY DEF LimitInit, LevelOf
  <1>2. GlobalLevel = AtMost(GlobalCapacity, GlobalCapacity + (now - now) * GlobalRefill)
    BY DEF LimitInit, GlobalLevel
  <1>3. GlobalLevel = GlobalCapacity
    <2>1. now \in Nat /\ GlobalRefill \in Nat /\ GlobalCapacity \in 0..GlobalCapacity
      BY LimitAssumption DEF LimitInit
    <2>2. AtMost(GlobalCapacity, GlobalCapacity + (now - now) * GlobalRefill) = GlobalCapacity
      BY <2>1, StoredLevel
    <2> QED BY <1>2, <2>2
  <1> QED BY <1>1, <1>3 DEF LimitInit, Buckets!BucketsInit

LEMMA BucketsStepMap ==
  ASSUME LimitTypes, [LimitNext]_limits
  PROVE  [Buckets!BucketsNext]_Buckets!bvars
  <1> DEFINE level == [c \in Client |-> LevelOf(c)]
             levelNext == [c \in Client |-> LevelOf(c)']
  <1>1. CASE Tick
    <2>1. levelNext = [c \in Client |-> AtMost(Capacity, level[c] + Refill)]
      BY <1>1, TickEffect
    <2>2. Buckets!Passes
      BY <1>1, <2>1, TickEffect DEF Buckets!Passes, Buckets!AtMost, AtMost
    <2> QED BY <2>2 DEF Buckets!BucketsNext
  <1>2. ASSUME NEW c \in Client, NEW allowed \in BOOLEAN, Consume(c, allowed)
        PROVE  [Buckets!BucketsNext]_Buckets!bvars
    <2>0. now' = now
      BY <1>2 DEF Consume
    <2>1. CASE GlobalRefused
      <3>1. levelNext = level /\ GlobalLevel' = GlobalLevel
        BY <2>0, <2>1, RefusedEffect
      <3>2. admitted' = admitted
        BY <2>1 DEF GlobalRefused
      <3> QED BY <2>0, <3>1, <3>2 DEF Buckets!bvars
    <2>2. CASE Shed(c)
      <3>1. GlobalLevel >= Cost /\ GlobalLevel' = GlobalLevel - Cost
        BY <2>0, <2>2, PaidEffect DEF Shed
      <3>2. levelNext = level /\ admitted' = admitted
        BY <2>0, <2>2 DEF Shed, LevelOf, Level
      <3>3. Buckets!Refuse
        BY <2>0, <3>1, <3>2 DEF Buckets!Refuse
      <3> QED BY <3>3 DEF Buckets!BucketsNext
    <2>3. CASE Charge(c, allowed)
      <3>1. GlobalLevel >= Cost /\ GlobalLevel' = GlobalLevel - Cost
        BY <2>0, <2>3, PaidEffect DEF Charge
      <3>2. CASE allowed
        <4>1. LevelOf(c) >= Cost /\ levelNext = [level EXCEPT ![c] = @ - Cost]
          BY <2>0, <2>3, <3>2, ChargeEffect
        <4>2. admitted' = [admitted EXCEPT ![c] = @ + 1]
          BY <2>3, <3>2 DEF Charge
        <4>3. Buckets!Admit(c)
          BY <2>0, <3>1, <4>1, <4>2 DEF Buckets!Admit
        <4> QED BY <4>3 DEF Buckets!BucketsNext
      <3>3. CASE ~allowed
        <4>1. levelNext = level
          BY <2>0, <2>3, <3>3, ChargeEffect
        <4>2. admitted' = admitted
          BY <2>3, <3>3 DEF Charge
        <4>3. Buckets!Refuse
          BY <2>0, <3>1, <4>1, <4>2 DEF Buckets!Refuse
        <4> QED BY <4>3 DEF Buckets!BucketsNext
      <3> QED BY <3>2, <3>3
    <2> QED BY <1>2, <2>1, <2>2, <2>3 DEF Consume
  <1>3. CASE UNCHANGED limits
    BY <1>3 DEF limits, Buckets!bvars, LevelOf, Level, GlobalLevel
  <1> QED BY <1>1, <1>2, <1>3 DEF LimitNext

-----------------------------------------------------------------------------
(* The ceiling. *)

\* What a client has had and what it may still spend came from its first bucket
\* and the time.
CeilingInv == \A c \in Client : admitted[c] * Cost + LevelOf(c) <= Capacity + now * Refill

LEMMA CeilingInit == LimitInit => CeilingInv
  <1> SUFFICES ASSUME LimitInit, NEW c \in Client
               PROVE  admitted[c] * Cost + LevelOf(c) <= Capacity + now * Refill
    BY DEF CeilingInv
  <1>1. admitted[c] = 0 /\ now = 0 /\ LevelOf(c) = Capacity
    BY DEF LimitInit, LevelOf
  <1>2. 0 * Cost = 0 /\ 0 * Refill = 0
    BY LimitAssumption
  <1> QED BY <1>1, <1>2, LimitAssumption

LEMMA OneMore ==
  ASSUME NEW n \in Nat, NEW k \in Nat
  PROVE  n * k \in Nat /\ (n + 1) * k = n * k + k
  OBVIOUS

LEMMA CeilingStep ==
  ASSUME LimitTypes, CeilingInv, [LimitNext]_limits
  PROVE  CeilingInv'
  <1> SUFFICES ASSUME NEW d \in Client
               PROVE  admitted'[d] * Cost + LevelOf(d)' <= Capacity + now' * Refill
    BY DEF CeilingInv
  <1> DEFINE spent == admitted[d] * Cost
             time  == now * Refill
  <1>0. /\ spent \in Nat /\ (admitted[d] + 1) * Cost = spent + Cost
        /\ time \in Nat /\ (now + 1) * Refill = time + Refill
        /\ spent + LevelOf(d) <= Capacity + time
        /\ LevelOf(d) \in 0..Capacity
        /\ {Cost, Capacity, Refill} \subseteq Nat
    BY OneMore, Levels, LimitAssumption DEF LimitTypes, CeilingInv
  <1>1. CASE Tick
    <2>1. admitted' = admitted /\ now' = now + 1 /\ LevelOf(d)' = AtMost(Capacity, LevelOf(d) + Refill)
      BY <1>1, TickEffect
    <2>2. LevelOf(d)' \in Nat /\ LevelOf(d)' <= LevelOf(d) + Refill
      BY <1>0, <2>1, AtMostBounds
    <2>3. spent + LevelOf(d)' <= Capacity + (time + Refill)
      <3> HIDE DEF spent, time
      <3> QED BY <1>0, <2>2
    <2> QED BY <1>0, <2>1, <2>3
  <1>2. ASSUME NEW c \in Client, NEW allowed \in BOOLEAN, Consume(c, allowed)
        PROVE  admitted'[d] * Cost + LevelOf(d)' <= Capacity + now' * Refill
    <2>0. now' = now
      BY <1>2 DEF Consume
    <2>1. CASE d = c /\ allowed /\ Charge(c, allowed)
      <3>1. LevelOf(d) >= Cost /\ LevelOf(d)' = LevelOf(d) - Cost
        BY <2>0, <2>1, ChargeEffect
      <3>2. admitted'[d] = admitted[d] + 1
        BY <2>1 DEF Charge, LimitTypes
      <3>3. (spent + Cost) + LevelOf(d)' <= Capacity + time
        <4> HIDE DEF spent, time
        <4> QED BY <1>0, <3>1
      <3> QED BY <1>0, <2>0, <3>2, <3>3
    <2>2. CASE ~(d = c /\ allowed) /\ Charge(c, allowed)
      <3>1. LevelOf(d)' = LevelOf(d)
        BY <2>0, <2>2, ChargeEffect
      <3>2. admitted'[d] = admitted[d]
        BY <2>2 DEF Charge, LimitTypes
      <3> QED BY <1>0, <2>0, <3>1, <3>2
    <2>3. CASE GlobalRefused \/ Shed(c)
      <3>1. LevelOf(d)' = LevelOf(d)
        BY <2>0, <2>3 DEF GlobalRefused, Shed, LevelOf, Level
      <3>2. admitted'[d] = admitted[d]
        BY <2>3 DEF GlobalRefused, Shed
      <3> QED BY <1>0, <2>0, <3>1, <3>2
    <2> QED BY <1>2, <2>1, <2>2, <2>3 DEF Consume
  <1>3. CASE UNCHANGED limits
    BY <1>0, <1>3 DEF limits, LevelOf, Level
  <1> QED BY <1>1, <1>2, <1>3 DEF LimitNext

LEMMA CeilingHolds == LimitTypes /\ CeilingInv => ClientCeiling
  <1> SUFFICES ASSUME LimitTypes, CeilingInv, NEW c \in Client
               PROVE  admitted[c] * Cost <= Capacity + now * Refill
    BY DEF ClientCeiling
  <1> DEFINE spent == admitted[c] * Cost
             most  == Capacity + now * Refill
  <1>1. spent \in Nat /\ most \in Nat /\ spent + LevelOf(c) <= most /\ LevelOf(c) \in Nat
    BY OneMore, Levels, LimitAssumption DEF LimitTypes, CeilingInv
  <1> HIDE DEF spent, most
  <1>2. spent <= most
    BY <1>1
  <1> QED BY <1>2 DEF spent, most

-----------------------------------------------------------------------------
(* The server is a user of the limiter. *)

LEMMA StepOfLimiter ==
  ASSUME [Next]_vars
  PROVE  [LimitNext]_limits
  <1>1. ASSUME NEW r \in Request, RequestStep(r) PROVE [LimitNext]_limits
    <2>1. CASE Arrive(r)
      BY <2>1 DEF Arrive, Throttle, LimitNext
    <2>2. CASE ~Arrive(r)
      BY <1>1, <2>2 DEF RequestStep, BodyRefused, Waits, Receives, BodyTimesOut, Refuse, Invoke, ChatCompletions,
                        AnthropicMessages, Submit, Finishes, Deliver, TimesOut
    <2> QED BY <2>1, <2>2
  <1>2. ASSUME NEW c \in Client, OtherRoute(c) PROVE [LimitNext]_limits
    BY <1>2 DEF OtherRoute, Throttle, LimitNext
  <1>3. CASE Tick \/ UNCHANGED vars
    BY <1>3 DEF LimitNext, vars
  <1> QED BY <1>1, <1>2, <1>3 DEF Next

LEMMA LimitTypesCorrect == Spec => []LimitTypes
  <1>1. Init => LimitTypes
    BY LimitInitTypes DEF Init
  <1>2. LimitTypes /\ [Next]_vars => LimitTypes'
    BY StepOfLimiter, LimitStepTypes
  <1> QED BY <1>1, <1>2, PTL DEF Spec

\* No client gets past more often than its first bucket and the time allow,
\* whatever the table forgets (_evict_one_full_bucket_locked).
THEOREM CeilingCorrect == Spec => []ClientCeiling
  <1>1. Init => CeilingInv
    BY CeilingInit DEF Init
  <1>2. LimitTypes /\ CeilingInv /\ [Next]_vars => CeilingInv'
    BY StepOfLimiter, CeilingStep
  <1> QED BY <1>1, <1>2, CeilingHolds, LimitTypesCorrect, PTL DEF Spec

\* The bounded table implements one bucket for ever for every client, under one
\* common bucket (RateLimitMiddleware).
THEOREM BudgetsCorrect == Spec => KeepsBudgets
  <1>1. Init => Buckets!BucketsInit
    BY BucketsInitMap DEF Init
  <1>2. LimitTypes /\ [Next]_vars => [Buckets!BucketsNext]_Buckets!bvars
    BY StepOfLimiter, BucketsStepMap
  <1> QED BY <1>1, <1>2, LimitTypesCorrect, PTL DEF Spec, KeepsBudgets, Buckets!BucketsSpec

-----------------------------------------------------------------------------
(* The slot and the telemetry. *)

\* Arrive without the limiter, and what a handler does with a body it takes.
Arrives(r) ==
  /\ At(r, "new")
  /\ \/ Goto(r, "denied") /\ state' = Counted(state, 1)
     \/ \E where \in {"refused", "reading"} : Goto(r, where) /\ UNCHANGED state
  /\ UNCHANGED <<thread, held, warm, stack>>

Admits(r) == At(r, "reading") /\ Submit(r)
Refuses(r) == At(r, "reading") /\ Refuse(r)

ServerStep(r) ==
  Arrives(r) \/ Refuses(r) \/ Admits(r) \/ Finishes(r) \/ Deliver(r) \/ TimesOut(r)

LEMMA ServerSteps ==
  ASSUME [Next]_vars
  PROVE  (\E r \in Request : ServerStep(r)) \/ UNCHANGED served
  <1>1. ASSUME NEW r \in Request, Arrive(r) PROVE Arrives(r)
    BY <1>1 DEF Arrive, Unauthorized, CheckLength, Arrives
  <1>2. ASSUME NEW r \in Request, Invoke(r) \/ ChatCompletions(r) \/ AnthropicMessages(r)
        PROVE  Refuses(r) \/ Admits(r)
    BY <1>2 DEF Invoke, ChatCompletions, AnthropicMessages, Reading, Refuses, Admits
  <1>3. ASSUME NEW r \in Request, RequestStep(r) PROVE ServerStep(r) \/ UNCHANGED served
    BY <1>1, <1>2, <1>3 DEF RequestStep, Waits, Receives, BodyTimesOut, BodyRefused, Reading,
                              Refuses, ServerStep
  <1>4. ASSUME NEW c \in Client, OtherRoute(c) PROVE UNCHANGED served
    BY <1>4 DEF OtherRoute, server
  <1>5. CASE UNCHANGED vars
    BY <1>5 DEF vars, server
  <1>6. CASE Tick /\ UNCHANGED server
    BY <1>6 DEF server
  <1> QED BY <1>3, <1>4, <1>5, <1>6 DEF Next

ServerTypes ==
  /\ request \in [Request -> {"new", "reading", "admitted"} \union Ended]
  /\ thread \in [Request -> {"none", "running", "returned", "raised"}]
  /\ held \in BOOLEAN
  /\ state \in [total : Nat, errors : Nat, ready : BOOLEAN]
  /\ warm \in BOOLEAN
  /\ stack \subseteq {"RateLimit", "Auth"}

LEMMA GotoTypes ==
  ASSUME ServerTypes, NEW r \in Request,
         NEW where \in {"new", "reading", "admitted"} \union Ended, Goto(r, where)
  PROVE  request' \in [Request -> {"new", "reading", "admitted"} \union Ended]
  BY DEF Goto, ServerTypes

LEMMA CountedTypes ==
  ASSUME ServerTypes, NEW failures \in {0, 1}
  PROVE  /\ Counted(state, failures) \in [total : Nat, errors : Nat, ready : BOOLEAN]
         /\ [Counted(state, 0) EXCEPT !.ready = TRUE] \in [total : Nat, errors : Nat, ready : BOOLEAN]
  <1>1. /\ state.total + 1 \in Nat /\ state.errors + failures \in Nat /\ state.errors + 0 \in Nat
        /\ state.ready \in BOOLEAN
    BY DEF ServerTypes
  <1> QED BY <1>1 DEF Counted

LEMMA ServerStepTypes ==
  ASSUME ServerTypes, [Next]_vars
  PROVE  ServerTypes'
  <1>0. {"refused", "reading", "denied", "failed", "admitted", "answered"}
          \subseteq {"new", "reading", "admitted"} \union Ended
    BY DEF Ended
  <1>1. ASSUME NEW r \in Request, Arrives(r)
        PROVE  ServerTypes'
    <2>1. request' \in [Request -> {"new", "reading", "admitted"} \union Ended]
      BY <1>0, <1>1, GotoTypes DEF Arrives
    <2> QED BY <1>1, <2>1, CountedTypes DEF Arrives, ServerTypes
  <1>2. ASSUME NEW r \in Request, Refuses(r)
        PROVE  ServerTypes'
    <2>1. request' \in [Request -> {"new", "reading", "admitted"} \union Ended]
      BY <1>0, <1>2, GotoTypes DEF Refuses, Refuse
    <2> QED BY <1>2, <2>1 DEF Refuses, Refuse, ServerTypes
  <1>3. ASSUME NEW r \in Request, Admits(r) PROVE ServerTypes'
    <2>1. request' \in [Request -> {"new", "reading", "admitted"} \union Ended]
      BY <1>0, <1>3, GotoTypes DEF Admits, Submit
    <2>2. thread' \in [Request -> {"none", "running", "returned", "raised"}]
      BY <1>3 DEF Admits, Submit, ServerTypes
    <2> QED BY <1>3, <2>1, <2>2, CountedTypes DEF Admits, Submit, ServerTypes
  <1>4. ASSUME NEW r \in Request, Finishes(r) PROVE ServerTypes'
    BY <1>4 DEF Finishes, ServerTypes
  <1>5. ASSUME NEW r \in Request, Deliver(r) PROVE ServerTypes'
    <2>1. request' \in [Request -> {"new", "reading", "admitted"} \union Ended]
      BY <1>0, <1>5, GotoTypes DEF Deliver
    <2>2. thread' \in [Request -> {"none", "running", "returned", "raised"}]
      BY <1>5 DEF Deliver, ServerTypes
    <2> QED BY <1>5, <2>1, <2>2, CountedTypes DEF Deliver, ServerTypes
  <1>6. ASSUME NEW r \in Request, TimesOut(r) PROVE ServerTypes'
    <2>1. request' \in [Request -> {"new", "reading", "admitted"} \union Ended]
      BY <1>0, <1>6, GotoTypes DEF TimesOut
    <2>2. thread' \in [Request -> {"none", "running", "returned", "raised"}]
      BY <1>6 DEF TimesOut, Abandon, ServerTypes
    <2> QED BY <1>6, <2>1, <2>2, CountedTypes DEF TimesOut, ServerTypes
  <1>7. CASE UNCHANGED served
    BY <1>7 DEF served, ServerTypes
  <1> QED BY <1>1, <1>2, <1>3, <1>4, <1>5, <1>6, <1>7, ServerSteps DEF ServerStep

LEMMA ServerInit == Init => ServerTypes /\ SlotIsOfOne
  <1> SUFFICES ASSUME Init PROVE ServerTypes /\ SlotIsOfOne
    OBVIOUS
  <1>1. ServerTypes
    BY RequestAssumption DEF Init, WarmedUp, ServerTypes
  <1>2. Admitted = {} /\ ~held
    BY DEF Init, Admitted, At
  <1> QED BY <1>1, <1>2 DEF SlotIsOfOne

LEMMA SlotStep ==
  ASSUME ServerTypes, SlotIsOfOne, [Next]_vars
  PROVE  SlotIsOfOne'
  <1>1. ASSUME NEW r \in Request, Arrives(r) \/ Refuses(r)
        PROVE  SlotIsOfOne'
    <2>1. Admitted' = Admitted /\ held' = held
      BY <1>1 DEF Arrives, Refuses, Refuse, At, Goto, Admitted, ServerTypes
    <2> QED BY <2>1 DEF SlotIsOfOne
  <1>2. ASSUME NEW r \in Request, Admits(r) PROVE SlotIsOfOne'
    <2>1. CASE held
      <3>1. Admitted' = Admitted /\ held' = held
        BY <1>2, <2>1 DEF Admits, Submit, At, Goto, Admitted, ServerTypes
      <3> QED BY <3>1 DEF SlotIsOfOne
    <2>2. CASE ~held
      <3>1. Admitted' = Admitted \union {r} /\ held'
        BY <1>2, <2>2 DEF Admits, Submit, At, Goto, Admitted, ServerTypes
      <3> QED BY <2>2, <3>1 DEF SlotIsOfOne
    <2> QED BY <2>1, <2>2
  <1>3. ASSUME NEW r \in Request, Finishes(r) PROVE SlotIsOfOne'
    BY <1>3 DEF Finishes, SlotIsOfOne, Admitted, At
  <1>4. ASSUME NEW r \in Request, Deliver(r) \/ TimesOut(r) PROVE SlotIsOfOne'
    <2>1. r \in Admitted /\ Admitted' = Admitted \ {r} /\ ~held'
      BY <1>4 DEF Deliver, TimesOut, At, Goto, Admitted, ServerTypes
    <2> QED BY <2>1 DEF SlotIsOfOne
  <1>5. CASE UNCHANGED served
    BY <1>5 DEF served, SlotIsOfOne, Admitted, At
  <1> QED BY <1>1, <1>2, <1>3, <1>4, <1>5, ServerSteps DEF ServerStep

\* How a step of one request changes how many have ended in one of some ways.
LEMMA OneEnds ==
  ASSUME ServerTypes, NEW r \in Request, NEW where, Goto(r, where), NEW ends, request[r] \notin ends
  PROVE  /\ HowMany(ends) \in Nat
         /\ HowMany(ends)' = IF where \in ends THEN HowMany(ends) + 1 ELSE HowMany(ends)
  <1> DEFINE have == {s \in Request : request[s] \in ends}
  <1>1. IsFiniteSet(have) /\ Cardinality(have) \in Nat /\ r \notin have
    BY FS_Subset, FS_CardinalityType, RequestAssumption
  <1>2. {s \in Request : request'[s] \in ends} = IF where \in ends THEN have \union {r} ELSE have
    BY DEF Goto, ServerTypes
  <1>3. Cardinality(have \union {r}) = Cardinality(have) + 1
    BY <1>1, FS_AddElement
  <1> QED BY <1>1, <1>2, <1>3 DEF HowMany

LEMMA TelemetryInit == Init => TelemetryIsTrue
  <1> SUFFICES ASSUME Init PROVE TelemetryIsTrue
    OBVIOUS
  <1>1. \A ends \in {{"answered", "failed", "denied"}, {"failed", "denied"}, {"answered"}} :
          {r \in Request : request[r] \in ends} = {}
    BY DEF Init
  <1>2. /\ HowMany({"answered", "failed", "denied"}) = 0
        /\ HowMany({"failed", "denied"}) = 0
        /\ HowMany({"answered"}) = 0
    BY <1>1, FS_EmptySet DEF HowMany
  <1> QED BY <1>2 DEF Init, WarmedUp, TelemetryIsTrue

LEMMA TelemetryStep ==
  ASSUME ServerTypes, TelemetryIsTrue, [Next]_vars
  PROVE  TelemetryIsTrue'
  <1> DEFINE all == {"answered", "failed", "denied"}
             bad == {"failed", "denied"}
             good == {"answered"}
  <1>1. ASSUME NEW r \in Request, NEW where, Goto(r, where), request[r] \notin all,
               \/ where \notin all /\ state' = state
               \/ where \in bad /\ state' = Counted(state, 1)
               \/ where \in good /\ state' = [Counted(state, 0) EXCEPT !.ready = TRUE],
               warm' = warm
        PROVE  TelemetryIsTrue'
    <2>1. /\ HowMany(all) \in Nat /\ HowMany(bad) \in Nat /\ HowMany(good) \in Nat
          /\ HowMany(all)' = IF where \in all THEN HowMany(all) + 1 ELSE HowMany(all)
          /\ HowMany(bad)' = IF where \in bad THEN HowMany(bad) + 1 ELSE HowMany(bad)
          /\ HowMany(good)' = IF where \in good THEN HowMany(good) + 1 ELSE HowMany(good)
      BY <1>1, OneEnds
    <2>2. /\ state.total = HowMany(all) /\ state.errors = HowMany(bad)
          /\ state.ready <=> warm \/ HowMany(good) > 0
      BY DEF TelemetryIsTrue
    <2>3. /\ Counted(state, 1).total = state.total + 1 /\ Counted(state, 1).errors = state.errors + 1
          /\ Counted(state, 1).ready = state.ready
          /\ [Counted(state, 0) EXCEPT !.ready = TRUE].total = state.total + 1
          /\ [Counted(state, 0) EXCEPT !.ready = TRUE].errors = state.errors
          /\ [Counted(state, 0) EXCEPT !.ready = TRUE].ready
      BY DEF Counted, ServerTypes
    <2> HIDE DEF all, bad, good
    <2>4. /\ where \in bad => where \in all /\ where \notin good
          /\ where \in good => where \in all /\ where \notin bad
          /\ where \notin all => where \notin bad /\ where \notin good
      BY DEF all, bad, good
    <2>5. state'.total = HowMany(all)' /\ state'.errors = HowMany(bad)'
      BY <1>1, <2>1, <2>2, <2>3, <2>4
    <2>6. state'.ready <=> warm' \/ HowMany(good)' > 0
      <3>1. CASE where \in good
        <4>1. state'.ready
          BY <1>1, <2>3, <2>4, <3>1
        <4>2. HowMany(good)' > 0
          BY <2>1, <3>1
        <4> QED BY <4>1, <4>2
      <3>2. CASE where \notin good
        <4>1. state'.ready = state.ready
          BY <1>1, <2>3, <3>2
        <4>2. HowMany(good)' = HowMany(good)
          BY <2>1, <3>2
        <4> QED BY <1>1, <2>2, <4>1, <4>2
      <3> QED BY <3>1, <3>2
    <2> QED BY <2>5, <2>6 DEF TelemetryIsTrue, all, bad, good
  <1>2. CASE UNCHANGED <<request, state, warm>>
    BY <1>2 DEF TelemetryIsTrue, HowMany
  <1>3. ASSUME NEW r \in Request, Arrives(r) PROVE TelemetryIsTrue'
    BY <1>1, <1>3 DEF Arrives, At
  <1>4. ASSUME NEW r \in Request, Refuses(r) PROVE TelemetryIsTrue'
    BY <1>1, <1>4 DEF Refuses, Refuse, At
  <1>5. ASSUME NEW r \in Request, Admits(r) PROVE TelemetryIsTrue'
    BY <1>1, <1>5 DEF Admits, Submit, At
  <1>6. ASSUME NEW r \in Request, Finishes(r) PROVE TelemetryIsTrue'
    BY <1>2, <1>6 DEF Finishes
  <1>7. ASSUME NEW r \in Request, Deliver(r) \/ TimesOut(r) PROVE TelemetryIsTrue'
    BY <1>1, <1>7 DEF Deliver, TimesOut, At
  <1>8. CASE UNCHANGED served
    BY <1>2, <1>8 DEF served
  <1> QED BY <1>3, <1>4, <1>5, <1>6, <1>7, <1>8, ServerSteps DEF ServerStep

LEMMA ServerTypesCorrect == Spec => []ServerTypes
  <1>1. Init => ServerTypes
    BY ServerInit
  <1>2. ServerTypes /\ [Next]_vars => ServerTypes'
    BY ServerStepTypes
  <1> QED BY <1>1, <1>2, PTL DEF Spec

\* What remains of a body's time never grows past all of it.
Deadlines == remaining \in [Request -> 0..ReadTime]

LEMMA DeadlineStep ==
  ASSUME Deadlines, [Next]_vars
  PROVE  Deadlines'
  <1>1. ASSUME NEW r \in Request, NEW where, Goto(r, where) PROVE Deadlines'
    BY <1>1, RequestAssumption DEF Goto, Deadlines
  <1>2. CASE UNCHANGED remaining
    BY <1>2 DEF Deadlines
  <1>3. ASSUME NEW r \in Request, Waits(r) \/ Receives(r) PROVE Deadlines'
    <2>1. remaining[r] \in 1..ReadTime
      BY <1>3, RequestAssumption DEF Waits, Receives, Reading, Deadlines
    <2>2. PICK took \in {0, 1} : remaining' = [remaining EXCEPT ![r] = @ - took]
      BY <1>3 DEF Waits, Receives
    <2> QED BY <2>1, <2>2, RequestAssumption DEF Deadlines
  <1>4. ASSUME NEW r \in Request, RequestStep(r) PROVE Deadlines'
    <2>1. CASE Arrive(r)
      BY <1>1, <2>1 DEF Arrive, Unauthorized, CheckLength
    <2>2. CASE BodyRefused(r) \/ BodyTimesOut(r)
      BY <1>1, <2>2 DEF BodyRefused, BodyTimesOut, Refuse
    <2>3. CASE Invoke(r) \/ ChatCompletions(r) \/ AnthropicMessages(r)
      BY <1>1, <2>3 DEF Invoke, ChatCompletions, AnthropicMessages, Submit, Refuse
    <2>4. CASE Finishes(r)
      BY <1>2, <2>4 DEF Finishes
    <2>5. CASE Deliver(r) \/ TimesOut(r)
      BY <1>1, <2>5 DEF Deliver, TimesOut
    <2> QED BY <1>3, <1>4, <2>1, <2>2, <2>3, <2>4, <2>5 DEF RequestStep
  <1>5. CASE Tick /\ UNCHANGED server
    BY <1>2, <1>5 DEF server
  <1>6. ASSUME NEW c \in Client, OtherRoute(c) PROVE Deadlines'
    BY <1>2, <1>6 DEF OtherRoute, server
  <1>7. CASE UNCHANGED vars
    BY <1>2, <1>7 DEF vars, server
  <1> QED BY <1>4, <1>5, <1>6, <1>7 DEF Next

\* The type invariant.
THEOREM TypeCorrect == Spec => []TypeOK
  <1>1. LimitTypes /\ ServerTypes /\ Deadlines => TypeOK
    BY DEF TypeOK, ServerTypes, Deadlines
  <1>2. Init => Deadlines
    BY RequestAssumption DEF Init, Deadlines
  <1>3. Spec => []Deadlines
    BY <1>2, DeadlineStep, PTL DEF Spec
  <1> QED BY <1>1, <1>3, LimitTypesCorrect, ServerTypesCorrect, PTL

\* The slot is of the one request that waits for its inference, and free when there
\* is none, whatever abandoned threads still run (_execute_with_telemetry).
THEOREM SlotCorrect == Spec => []SlotIsOfOne
  <1>1. Init => SlotIsOfOne
    BY ServerInit
  <1>2. ServerTypes /\ SlotIsOfOne /\ [Next]_vars => SlotIsOfOne'
    BY SlotStep
  <1> QED BY <1>1, <1>2, ServerTypesCorrect, PTL DEF Spec

\* Every request that failed authentication or reached the slot is counted once,
\* as what its client saw (_execute_with_telemetry, AuthMiddleware).
THEOREM TelemetryCorrect == Spec => []TelemetryIsTrue
  <1>1. Init => TelemetryIsTrue
    BY TelemetryInit
  <1>2. ServerTypes /\ TelemetryIsTrue /\ [Next]_vars => TelemetryIsTrue'
    BY TelemetryStep
  <1> QED BY <1>1, <1>2, ServerTypesCorrect, PTL DEF Spec
=============================================================================
