---------------------------- MODULE BucketState ----------------------------
(***************************************************************************)
(* A token bucket: its parameters, its row in the store with what is under  *)
(* way at it, and what it promises.  RateBucket has its transactions.       *)
(***************************************************************************)
EXTENDS Integers

CONSTANTS Workers,    \* threads of all replicas that take a token
          Capacity,   \* the bucket, in units
          Unit,       \* one token
          Rate,       \* units gained per unit of time
          Horizon     \* bound on the clock

ASSUME BucketAssumption == /\ Capacity \in Nat /\ Unit \in Nat \ {0}
                           /\ Rate \in Nat /\ Horizon \in Nat

VARIABLES tokens,     \* consumer_rate_buckets.tokens
          updated,    \* consumer_rate_buckets.updated_at
          stamp,      \* worker -> time read on entry, or Idle
          first,      \* ghost: stamp of the transaction that made the row
          granted,    \* ghost: tokens handed out so far
          setBack     \* ghost: how much time updated_at was set back so far

(* What all replicas together admit is one bucket and its refill, plus the *)
(* refill of every stretch of time that a late transaction set updated_at  *)
(* back over: that stretch is refilled twice (consume_rate_token, whose    *)
(* docstring says replicas cannot independently admit the same quota).     *)
QuotaSharedUnlessSetBack ==
    granted * Unit + tokens <= Capacity + Rate * (updated - first + setBack)
=============================================================================
