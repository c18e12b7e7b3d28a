----------------------------- MODULE RateBucket -----------------------------
(***************************************************************************)
(* The token bucket of one caller (or one key subject), a row of the       *)
(* operational store shared by every replica: host_store.py                *)
(* consume_rate_token.  The row is locked for the transaction, but the     *)
(* time stamp is read on entry, before the wait for a pooled connection    *)
(* and for the lock, so the transactions need not run in stamp order.      *)
(* One token is Unit, and a bucket gains Rate per unit of time.            *)
(***************************************************************************)
EXTENDS BucketState

VARIABLE now   \* the clock

vars == <<now, tokens, updated, stamp, first, granted, setBack>>

Idle == -1
NoRow == -1

Init == /\ now = 0 /\ tokens = Capacity /\ updated = NoRow
        /\ stamp = [w \in Workers |-> Idle]
        /\ first = NoRow /\ granted = 0 /\ setBack = 0

Larger(a, b) == IF a > b THEN a ELSE b
Smaller(a, b) == IF a < b THEN a ELSE b

(* The refill of a row last written at time since, capped by the bucket.   *)
Refilled(since, at) == Smaller(Capacity, tokens + Larger(0, at - since) * Rate)

\* Mutant of Written: an existing row keeps its time stamp.
WrittenOnce(since, at) == since

(* What the transaction writes back as updated_at.                         *)
Written(since, at) == at

Ask(w) == /\ stamp[w] = Idle
          /\ stamp' = [stamp EXCEPT ![w] = now]
          /\ UNCHANGED <<now, tokens, updated, first, granted, setBack>>

(* The transaction: a first caller makes a full row of its own stamp.      *)
Consume(w) ==
    /\ stamp[w] # Idle
    /\ LET since == IF updated = NoRow THEN stamp[w] ELSE updated
           held == Refilled(since, stamp[w])
           taken == IF held >= Unit THEN 1 ELSE 0
       IN /\ tokens' = held - taken * Unit
          /\ updated' = Written(since, stamp[w])
          /\ granted' = granted + taken
          /\ setBack' = setBack + Larger(0, since - updated')
    /\ first' = IF updated = NoRow THEN stamp[w] ELSE first
    /\ stamp' = [stamp EXCEPT ![w] = Idle]
    /\ UNCHANGED now

(* The store fails: no token, and nothing is written.                      *)
StoreFails(w) == /\ stamp[w] # Idle
                 /\ stamp' = [stamp EXCEPT ![w] = Idle]
                 /\ UNCHANGED <<now, tokens, updated, first, granted, setBack>>

Tick == /\ now < Horizon /\ now' = now + 1
        /\ UNCHANGED <<tokens, updated, stamp, first, granted, setBack>>

Next == Tick \/ \E w \in Workers : Ask(w) \/ Consume(w) \/ StoreFails(w)

Spec == Init /\ [][Next]_vars

TypeOK == /\ now \in 0..Horizon /\ tokens \in 0..Capacity
          /\ updated \in 0..Horizon \cup {NoRow}
          /\ stamp \in [Workers -> 0..Horizon \cup {Idle}]
          /\ first \in 0..Horizon \cup {NoRow} /\ granted \in Nat /\ setBack \in Nat
=============================================================================
