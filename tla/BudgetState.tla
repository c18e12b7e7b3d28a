---------------------------- MODULE BudgetState -----------------------------
(***************************************************************************)
(* The budget of one key subject: its parameters, its rows in the store     *)
(* with the settles under way, and what they promise.  SubjectBudget has its *)
(* transactions, Ingress the calls that spend it.                          *)
(***************************************************************************)
EXTENDS Integers, FiniteSets

CONSTANTS Calls,
          Limit,      \* monthly_budget_usd of the subject
          Amount,     \* min(CLOUD_BUDGET_RESERVATION_USD, Limit)
          Owed,       \* costs a call may book
          TTL,        \* KEY_BUDGET_RESERVATION_TTL_S
          PruneAfter, \* age at which _prune drops a swept reservation
          Attempts,   \* Len(SETTLE_RETRY_DELAYS_S)
          MaxTime, MaxFaults  \* bounds: the clock, store failures and crashes

ASSUME BudgetAssumption ==
    /\ IsFiniteSet(Calls) /\ Limit \in Nat /\ Amount \in Nat /\ Amount <= Limit
    /\ Owed \subseteq Nat /\ TTL \in Nat /\ PruneAfter \in Nat
    /\ Attempts \in Nat \ {0} /\ MaxTime \in Nat /\ MaxFaults \in Nat

VARIABLES now,
          spent,    \* subject_budget_usage.spent_usd
          row,      \* reservation row of each call
          expires,  \* its expires_at
          job,      \* settle of each call: none, queued, done or lost
          cost,     \* what that settle books
          tries,    \* its attempts so far
          over,     \* ghost: what was booked beyond what was reserved for it
          faults    \* store failures and crashes still to come

Live(rows) == {c \in Calls : rows[c] = "live"}

(* However many replicas reserve at once, what is spent and what is held by *)
(* live reservations stays within the limit, but for what calls cost beyond *)
(* the amount reserved for them (reserve_subject_budget, "spent + live      *)
(* reservations + amount <= limit").                                       *)
BudgetHeld == spent + Amount * Cardinality(Live(row)) <= Limit + over
=============================================================================
