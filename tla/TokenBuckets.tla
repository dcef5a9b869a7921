---------------------------- MODULE TokenBuckets ----------------------------
(***************************************************************************)
(* What the rate limiter promises (serve/server.py, RateLimitMiddleware):      *)
(* every client has a bucket of its own for ever, and there is one for all of   *)
(* them together; a request that is let past takes its cost from both; both       *)
(* refill with time up to their capacity.  A refused request may cost the common  *)
(* bucket, never the client's.                                              *)
(***************************************************************************)
EXTENDS Naturals

CONSTANTS
  Client,
  Cost,                          \* of a request
  Capacity, Refill,              \* of a client's bucket, per unit of time
  GlobalCapacity, GlobalRefill   \* of the common bucket

VARIABLES
  level,      \* level[c]: what is in the bucket of c
  common,     \* what is in the common bucket
  admitted,   \* admitted[c]: how many requests of c were let past
  now

bvars == <<level, common, admitted, now>>

AtMost(cap, n) == IF n < cap THEN n ELSE cap

BucketsInit ==
  /\ level = [c \in Client |-> Capacity]
  /\ common = GlobalCapacity
  /\ admitted = [c \in Client |-> 0]
  /\ now = 0

Passes ==
  /\ now' = now + 1
  /\ level' = [c \in Client |-> AtMost(Capacity, level[c] + Refill)]
  /\ common' = AtMost(GlobalCapacity, common + GlobalRefill)
  /\ UNCHANGED admitted

Admit(c) ==
  /\ level[c] >= Cost /\ common >= Cost
  /\ level' = [level EXCEPT ![c] = @ - Cost]
  /\ common' = common - Cost
  /\ admitted' = [admitted EXCEPT ![c] = @ + 1]
  /\ UNCHANGED now

Refuse ==
  /\ common >= Cost
  /\ common' = common - Cost
  /\ UNCHANGED <<level, admitted, now>>

BucketsNext == Passes \/ Refuse \/ \E c \in Client : Admit(c)

BucketsSpec == BucketsInit /\ [][BucketsNext]_bvars
=============================================================================
