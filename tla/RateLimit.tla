------------------------------ MODULE RateLimit ------------------------------
(***************************************************************************)
(* The rate limiter of serve/server.py (RateLimitMiddleware): a common token   *)
(* bucket, and one for each client in a table of bounded size.  The middleware   *)
(* awaits nothing between reading the clock and storing the bucket, so that a    *)
(* request is one step.                                                     *)
(*                                                                         *)
(* Tokens and time are counted in units: a request costs Cost, a unit of time    *)
(* refills Refill.                                                          *)
(***************************************************************************)
EXTENDS Naturals, FiniteSets

CONSTANTS
  Client,                         \* the keys of _resolve_client_key
  MaxBuckets,                     \* _MAX_RATE_LIMIT_BUCKETS
  Cost,
  Capacity, Refill,               \* requests_per_minute
  GlobalCapacity, GlobalRefill,   \* global_requests_per_minute
  MaxTime                         \* bound on time

ASSUME LimitAssumption ==
  /\ {MaxBuckets, Cost, Capacity, Refill, GlobalCapacity, GlobalRefill, MaxTime} \subseteq Nat
  /\ Cost > 0
  /\ IsFiniteSet(Client)

VARIABLES
  now,        \* time.monotonic()
  global,     \* _global_tokens, _global_last_refill
  buckets,    \* _buckets
  admitted    \* history: admitted[c] is how many requests of c were let past

limiter == <<global, buckets, admitted>>
limits  == <<now, global, buckets, admitted>>

Bucket == [tokens : Nat, last : Nat]

LimitTypes ==
  /\ now \in Nat
  /\ global \in Bucket /\ global.last <= now
  /\ DOMAIN buckets \subseteq Client
  /\ buckets \in [DOMAIN buckets -> Bucket]
  /\ \A c \in DOMAIN buckets : buckets[c].last <= now
  /\ Cardinality(DOMAIN buckets) <= MaxBuckets
  /\ admitted \in [Client -> Nat]

LimitInit ==
  /\ now = 0
  /\ global = [tokens |-> GlobalCapacity, last |-> 0]
  /\ buckets = [c \in {} |-> 0]
  /\ admitted = [c \in Client |-> 0]

AtMost(cap, n) == IF n < cap THEN n ELSE cap

Level(b)    == AtMost(Capacity, b.tokens + (now - b.last) * Refill)
GlobalLevel == AtMost(GlobalCapacity, global.tokens + (now - global.last) * GlobalRefill)

\* What a client may spend: one that is not in the table gets a full bucket.
LevelOf(c) == IF c \in DOMAIN buckets THEN Level(buckets[c]) ELSE Capacity

\* Faulty: a refusal leaves the stamp of the last refill.
GlobalRefusedUnstamped ==
  /\ GlobalLevel < Cost
  /\ global' = [global EXCEPT !.tokens = GlobalLevel]
  /\ UNCHANGED <<buckets, admitted>>

\* The common bucket is empty.
GlobalRefused ==
  /\ GlobalLevel < Cost
  /\ global' = [tokens |-> GlobalLevel, last |-> now]
  /\ UNCHANGED <<buckets, admitted>>

\* The common bucket pays for the request, whatever becomes of it.
GlobalPaid ==
  /\ GlobalLevel >= Cost
  /\ global' = [tokens |-> GlobalLevel - Cost, last |-> now]

\* Faulty: any bucket may go.
EvictableAny == DOMAIN buckets

\* The buckets that are as full as a new one.
Evictable == {d \in DOMAIN buckets : Level(buckets[d]) = Capacity}

TableFull == Cardinality(DOMAIN buckets) >= MaxBuckets

\* A client that is not in the table, which has no room and no full bucket.
Shed(c) ==
  /\ GlobalPaid
  /\ c \notin DOMAIN buckets /\ TableFull /\ Evictable = {}
  /\ UNCHANGED <<buckets, admitted>>

\* The clients that stay in the table with c.  The code evicts the first full
\* bucket of its order; full ones differ in nothing a later request sees.
Kept(c) ==
  IF c \in DOMAIN buckets \/ ~TableFull THEN {DOMAIN buckets}
  ELSE {DOMAIN buckets \ {d} : d \in Evictable}

\* The client's bucket is charged if it can pay, and stored either way.
Charge(c, allowed) ==
  /\ GlobalPaid
  /\ allowed = (LevelOf(c) >= Cost)
  /\ \E others \in Kept(c) :
       buckets' = [d \in others \union {c} |->
                     IF d # c THEN buckets[d]
                     ELSE [tokens |-> IF allowed THEN LevelOf(c) - Cost ELSE LevelOf(c),
                           last |-> now]]
  /\ admitted' = IF allowed THEN [admitted EXCEPT ![c] = @ + 1] ELSE admitted

\* A request of client c, let past or not (_consume).
Consume(c, allowed) ==
  /\ \/ GlobalRefused /\ ~allowed
     \/ Shed(c) /\ ~allowed
     \/ Charge(c, allowed)
  /\ UNCHANGED now

Tick ==
  /\ now < MaxTime
  /\ now' = now + 1
  /\ UNCHANGED limiter

LimitNext == Tick \/ \E c \in Client, allowed \in BOOLEAN : Consume(c, allowed)

LimitSpec == LimitInit /\ [][LimitNext]_limits

-----------------------------------------------------------------------------
(* Properties. *)

\* No client gets past more often than its capacity and the time that has passed
\* allow, though its bucket may have been evicted and made anew in between
\* (_evict_one_full_bucket_locked, X-5).
ClientCeiling == \A c \in Client : admitted[c] * Cost <= Capacity + now * Refill

\* The bounded table keeps what an unbounded one would promise: at every
\* moment each client and all of them together can spend what they have left and
\* no more (X-4, X-5).
Buckets == INSTANCE TokenBuckets WITH
  level <- [c \in Client |-> LevelOf(c)], common <- GlobalLevel
KeepsBudgets == Buckets!BucketsSpec
=============================================================================
