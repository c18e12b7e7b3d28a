---------------------------- MODULE SubjectBudget ----------------------------
(***************************************************************************)
(* The monthly budget of one key subject in the operational store          *)
(* (host_store.py, reserve_subject_budget and settle_subject_budget), and   *)
(* the worker pool of the ingress that settles (auth_proxy.py,             *)
(* _submit_settle).  A call reserves Amount before it runs and books what it *)
(* cost when it is over.  Both transactions lock the usage row, so each is  *)
(* one step; a client may fail to learn that its transaction committed.     *)
(*                                                                         *)
(* Simplifications: one subject, one period, one limit; amounts are whole   *)
(* numbers; the reserved_usd column is display only and left out.           *)
(***************************************************************************)
EXTENDS BudgetState

vars == <<now, spent, row, expires, job, cost, tries, over, faults>>

Rows == {"absent", "live", "swept", "consumed", "pruned"}
Jobs == {"none", "queued", "done", "lost"}

Init == /\ now = 0 /\ spent = 0 /\ over = 0 /\ faults \in 0..MaxFaults
        /\ row = [c \in Calls |-> "absent"] /\ expires = [c \in Calls |-> 0]
        /\ job = [c \in Calls |-> "none"] /\ cost = [c \in Calls |-> 0]
        /\ tries = [c \in Calls |-> 0]

(***************************************************************************)
(* reserve_subject_budget                                                  *)
(***************************************************************************)
\* Reservations whose holder did not settle in time are swept, then counted.
Swept == [c \in Calls |->
            IF row[c] = "live" /\ expires[c] <= now THEN "swept" ELSE row[c]]

\* Mutant of Admits: the live reservations of others are forgotten.
AdmitsUnspent == spent + Amount <= Limit

Admits == spent + Amount * Cardinality(Live(Swept)) + Amount <= Limit

Reserve(c) ==
    /\ row[c] = "absent"
    /\ row' = IF Admits THEN [Swept EXCEPT ![c] = "live"] ELSE Swept
    /\ expires' = IF Admits THEN [expires EXCEPT ![c] = now + TTL] ELSE expires
    /\ UNCHANGED <<now, spent, job, cost, tries, over>>

(***************************************************************************)
(* settle_subject_budget, in the pool's worker                             *)
(***************************************************************************)
Submit(c, amount) ==
    /\ job[c] = "none"
    /\ job' = [job EXCEPT ![c] = "queued"] /\ cost' = [cost EXCEPT ![c] = amount]
    /\ UNCHANGED <<now, spent, row, expires, tries, over, faults>>

\* Mutant of Consume: the row is marked released and stays.
ConsumeMarks(c) ==
    IF row[c] \in {"live", "swept"}
    THEN /\ row' = [row EXCEPT ![c] = "swept"]
         /\ spent' = spent + cost[c]
         /\ over' = over + IF row[c] = "swept" THEN cost[c]
                           ELSE IF cost[c] > Amount THEN cost[c] - Amount ELSE 0
    ELSE UNCHANGED <<row, spent, over>>

\* The transaction: the row is consumed, swept or not, and its cost booked.  A
\* row that is gone books nothing.
Consume(c) ==
    IF row[c] \in {"live", "swept"}
    THEN /\ row' = [row EXCEPT ![c] = "consumed"]
         /\ spent' = spent + cost[c]
         /\ over' = over + IF row[c] = "swept" THEN cost[c]
                           ELSE IF cost[c] > Amount THEN cost[c] - Amount ELSE 0
    ELSE UNCHANGED <<row, spent, over>>

Settle(c) ==
    /\ job[c] = "queued" /\ Consume(c)
    /\ job' = [job EXCEPT ![c] = "done"]
    /\ UNCHANGED <<now, expires, cost, tries, faults>>

\* An attempt that fails, before or after it committed; after the last one the
\* settle is given up.
SettleFails(c) ==
    /\ job[c] = "queued" /\ faults > 0 /\ faults' = faults - 1
    /\ Consume(c) \/ UNCHANGED <<row, spent, over>>
    /\ tries' = [tries EXCEPT ![c] = @ + 1]
    /\ job' = [job EXCEPT ![c] = IF tries'[c] = Attempts THEN "lost" ELSE "queued"]
    /\ UNCHANGED <<now, expires, cost>>

\* The pool dies with its process, and the settles of S with it.
LoseJobs(S) ==
    job' = [c \in Calls |-> IF c \in S /\ job[c] = "queued" THEN "lost" ELSE job[c]]

\* _prune: swept reservations only wait for a late settle.
Prune ==
    LET old == {c \in Calls : row[c] = "swept" /\ expires[c] + PruneAfter < now}
    IN /\ old # {}
       /\ row' = [c \in Calls |-> IF c \in old THEN "pruned" ELSE row[c]]
       /\ UNCHANGED <<now, spent, expires, job, cost, tries, over, faults>>

Tick == /\ now < MaxTime /\ now' = now + 1
        /\ UNCHANGED <<spent, row, expires, job, cost, tries, over, faults>>

(***************************************************************************)
(* The service for any client: calls reserve, and settle once, when they   *)
(* please; a failed reservation may have committed.                        *)
(***************************************************************************)
Next ==
    \/ Tick \/ Prune
    \/ \E c \in Calls :
        \/ Reserve(c) /\ faults' \in {faults, faults - 1} /\ faults' >= 0
        \/ \E amount \in Owed \cup {0, Amount} : Submit(c, amount)
        \/ Settle(c) \/ SettleFails(c)
    \/ /\ faults > 0 /\ faults' = faults - 1
       /\ UNCHANGED <<now, spent, row, expires, cost, tries, over>>
       /\ \E S \in SUBSET Calls : LoseJobs(S)

Spec == Init /\ [][Next]_vars

TypeOK == /\ now \in 0..MaxTime /\ spent \in Nat /\ over \in Nat
          /\ faults \in 0..MaxFaults
          /\ row \in [Calls -> Rows] /\ expires \in [Calls -> Nat]
          /\ job \in [Calls -> Jobs] /\ cost \in [Calls -> Nat]
          /\ tries \in [Calls -> 0..Attempts]
=============================================================================
