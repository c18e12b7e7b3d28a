--------------------------- MODULE Ingress_proofs ---------------------------
(***************************************************************************)
(* The ingress uses the store of budgets only as its service allows, for    *)
(* every set of calls and replicas, every limit, price and queue: each of   *)
(* its steps is one of SubjectBudget, or leaves the store alone.  And every *)
(* call gives its permit back and settles its reservation, however it ends, *)
(* and is booked once.                                                     *)
(***************************************************************************)
EXTENDS Ingress, FoldTheorems, FiniteSetTheorems, TLAPS

Costs == Owed \cup {0, Amount}

\* What the service asks of its client: failures are finitely many, and a stream
\* carries a cost that a call may book, or none.
ClientInv == faults \in Nat /\ reported \in [Calls -> Owed \cup {Unknown}]

\* _finish books what the stream carried, the reservation, or nothing.
LEMMA ChargeIsCost ==
    ASSUME NEW k \in Owed \cup {Unknown, Amount}, NEW bad \in BOOLEAN
    PROVE  Charge(k, bad) \in Costs
  BY DEF Charge, Costs

\* Settling is one step of the service or none, and costs no failure.
LEMMA SettlingIsService ==
    ASSUME NEW c \in Calls, NEW amount \in Costs, SettleReservation(c, amount)
    PROVE  [Store!Next]_budget /\ faults' = faults
  <1>1. CASE c \in Budgeted
    BY <1>1 DEF SettleReservation, Store!Submit, Store!Next, Costs
  <1>2. CASE c \notin Budgeted
    BY <1>2 DEF SettleReservation, budget
  <1> QED
    BY <1>1, <1>2

\* The failed reservation of a call may have committed; no other admission step
\* costs a failure.
LEMMA ReserveIsService ==
    ASSUME ClientInv, NEW c \in Calls, Reserve(c)
    PROVE  [Store!Next]_budget /\ faults' \in Nat
  <1>1. CASE c \in Budgeted
    <2>1. Store!Reserve(c) /\ faults' \in {faults, faults - 1} /\ faults' \in Nat
      BY <1>1 DEF Reserve, ClientInv
    <2> QED
      BY <2>1 DEF Store!Next
  <1>2. CASE c \notin Budgeted
    BY <1>2 DEF Reserve, ClientInv, budget
  <1> QED
    BY <1>1, <1>2

\* The end of a call books one of its possible costs.
LEMMA FinishIsService ==
    ASSUME NEW c \in Calls, NEW k \in Owed \cup {Unknown, Amount},
           NEW bad \in BOOLEAN, Finish(c, k, bad)
    PROVE  [Store!Next]_budget /\ faults' = faults
  <1>1. SettleReservation(c, Charge(k, bad))
    BY DEF Finish
  <1> QED
    BY <1>1, ChargeIsCost, SettlingIsService

\* The steps of one call.
LEMMA StepIsService ==
    ASSUME ClientInv, NEW c \in Calls, Step(c)
    PROVE  [Store!Next]_budget /\ ClientInv'
  <1> USE DEF ClientInv
  <1>1. CASE Reserve(c)
    BY <1>1, ReserveIsService DEF Reserve, answer
  <1>2. CASE \/ TurnedAway(c) \/ AcquireFree(c) \/ Queue(c) \/ Resume(c) \/ Lapse(c)
             \/ StartStream(c) \/ StreamEnds(c)
    BY <1>2 DEF TurnedAway, AcquireFree, Queue, Resume, Lapse, StartStream, StreamEnds, budget,
                answer
  <1>3. CASE Shed(c) \/ GiveUp(c)
    <2>1. SettleReservation(c, 0) /\ reported' = reported
      BY <1>3 DEF Shed, GiveUp, answer
    <2>2. 0 \in Costs
      BY DEF Costs
    <2> QED
      BY <2>1, <2>2, SettlingIsService
  <1>4. CASE Buffered(c)
    <2>1. PICK k \in Owed \cup {Unknown}, bad \in BOOLEAN : Finish(c, k, bad)
      BY <1>4 DEF Buffered
    <2>2. reported' = reported
      BY <1>4 DEF Buffered, answer
    <2> QED
      BY <2>1, <2>2, FinishIsService
  <1>5. CASE UsageChunk(c)
    <2>1. UNCHANGED budget
      BY <1>5 DEF UsageChunk
    <2>2. reported' \in [Calls -> Owed \cup {Unknown}]
      BY <1>5 DEF UsageChunk
    <2> QED
      BY <2>1, <2>2 DEF budget
  <1>6. CASE ClientLeft(c) \/ DrainTimeout(c)
    BY <1>6 DEF ClientLeft, DrainTimeout, budget
  <1>7. CASE Closed(c)
    <2>1. Finish(c, Accounted(c), FALSE) /\ Forget({c})
      BY <1>7 DEF Closed
    <2>2. Accounted(c) \in Owed \cup {Unknown, Amount}
      BY DEF Accounted
    <2>3. reported' \in [Calls -> Owed \cup {Unknown}]
      BY <2>1 DEF Forget
    <2> QED
      BY <2>1, <2>2, <2>3, FinishIsService
  <1>8. CASE SettleStep(c)
    BY <1>8 DEF SettleStep, Store!Settle, Store!Next, answer
  <1>9. CASE SettleFails(c)
    <2>1. Store!SettleFails(c) /\ reported' = reported
      BY <1>9 DEF SettleFails, answer
    <2>2. faults' \in Nat
      BY <2>1 DEF Store!SettleFails
    <2> QED
      BY <2>1, <2>2 DEF Store!Next
  <1> QED
    BY <1>1, <1>2, <1>3, <1>4, <1>5, <1>6, <1>7, <1>8, <1>9 DEF Step

\* A replica that dies takes the settles of its calls with it.
LEMMA CrashIsService ==
    ASSUME ClientInv, NEW p \in Replicas, Crash(p)
    PROVE  [Store!Next]_budget /\ ClientInv'
  <1>1. /\ faults > 0 /\ faults' = faults - 1
        /\ Store!LoseJobs({c \in Calls : Home[c] = p})
        /\ UNCHANGED <<now, spent, row, expires, cost, tries, over>>
    BY DEF Crash
  <1>2. {c \in Calls : Home[c] = p} \in SUBSET Calls
    OBVIOUS
  <1>3. Store!Next
    BY <1>1, <1>2 DEF Store!Next
  <1>4. reported' \in [Calls -> Owed \cup {Unknown}]
    BY DEF Crash, Forget, ClientInv
  <1> QED
    BY <1>1, <1>3, <1>4 DEF ClientInv

\* Every step of the ingress is a step of the service or leaves it alone.
LEMMA NextIsService ==
    ASSUME ClientInv, [Next]_vars
    PROVE  [Store!Next]_budget /\ ClientInv'
  <1>1. CASE Background
    <2>1. (Store!Tick \/ Store!Prune) /\ UNCHANGED <<faults, reported>>
      BY <1>1 DEF Background, Store!Tick, Store!Prune, answer
    <2> QED
      BY <2>1 DEF Store!Next, ClientInv
  <1>2. CASE UNCHANGED vars
    BY <1>2 DEF vars, budget, answer, ClientInv
  <1> QED
    BY <1>1, <1>2, StepIsService, CrashIsService DEF Next

(* Every behaviour of the ingress is one of the store of SubjectBudget       *)
(* (auth_proxy.py, _settle_reservation and _submit_settle).                 *)
LEMMA IngressImplementsStore == Spec => Store!Spec
  <1>1. Init => Store!Init /\ ClientInv
    BY BudgetAssumption DEF Init, Store!Init, ClientInv
  <1>2. ClientInv /\ [Next]_vars => [Store!Next]_(Store!vars) /\ ClientInv'
    BY NextIsService DEF budget, Store!vars
  <1> QED
    BY <1>1, <1>2, PTL DEF Spec, Store!Spec

(* The ingress implements a client of the store of budgets: whatever calls, *)
(* timeouts, disconnects, retries and crashes do, the store sees nothing    *)
(* but reservations, one settle at most for each, and failures (auth_proxy. *)
(* py, _settle_reservation and _submit_settle).                            *)
THEOREM IngressUsesStore == Spec => StoreService
  <1>1. [Store!Next]_(Store!vars) => [UNCHANGED budget \/ Store!Next]_budget
    BY DEF budget, Store!vars
  <1> QED
    BY <1>1, IngressImplementsStore, PTL DEF StoreService, Store!Spec

(***************************************************************************)
(* Types, and drain timers, which are set for a stream only.                *)
(***************************************************************************)
Rows == Store!Rows
Jobs == Store!Jobs

IngressTypes == /\ pc \in [Calls -> Stages] /\ armed \in [Calls -> BOOLEAN]
                /\ free \in [Replicas -> Nat] /\ active \in [Replicas -> Int]
                /\ pending \in [Replicas -> Int]

StoreTypes == row \in [Calls -> Rows] /\ job \in [Calls -> Jobs]

TimerInv == \A c \in Calls : armed[c] => pc[c] \in {"streaming", "drained", "broken"}

(***************************************************************************)
(* Counting calls.                                                         *)
(***************************************************************************)
\* The calls of replica p that f puts in one of the stages S.
Count(p, f, S) == Cardinality({c \in Calls : Home[c] = p /\ f[c] \in S})

\* A count is a number, and zero if and only if there is no such call.
LEMMA CountType ==
    ASSUME NEW p, NEW f, NEW S
    PROVE  /\ Count(p, f, S) \in Nat
           /\ IsFiniteSet({c \in Calls : Home[c] = p /\ f[c] \in S})
           /\ Count(p, f, S) = 0 <=> {c \in Calls : Home[c] = p /\ f[c] \in S} = {}
  <1> DEFINE T == {c \in Calls : Home[c] = p /\ f[c] \in S}
  <1>1. T \subseteq Calls
    OBVIOUS
  <1>2. IsFiniteSet(T)
    BY <1>1, FS_Subset, BudgetAssumption
  <1> QED
    BY <1>2, FS_CardinalityType, FS_EmptySet DEF Count

\* From f to g only call c may have moved.
Moves(f, c, g) == /\ f \in [Calls -> Stages] /\ g \in [Calls -> Stages]
                  /\ c \in Calls /\ \A d \in Calls : d # c => g[d] = f[d]

\* A call that goes to another stage is counted there and no longer where it was.
LEMMA CountMoves ==
    ASSUME NEW p, NEW f, NEW c, NEW g, Moves(f, c, g), NEW S
    PROVE  /\ Count(p, f, S) \in Nat /\ Count(p, g, S) \in Nat
           /\ Home[c] # p \/ (g[c] \in S <=> f[c] \in S) => Count(p, g, S) = Count(p, f, S)
           /\ Home[c] = p /\ g[c] \in S /\ f[c] \notin S => Count(p, g, S) = Count(p, f, S) + 1
           /\ Home[c] = p /\ g[c] \notin S /\ f[c] \in S => Count(p, g, S) = Count(p, f, S) - 1
  <1> DEFINE T(h) == {d \in Calls : Home[d] = p /\ h[d] \in S}
  <1>1. c \in Calls /\ \A d \in Calls \ {c} : g[d] = f[d]
    BY DEF Moves
  <1>2. IsFiniteSet(T(f)) /\ IsFiniteSet(T(g))
    <2>1. T(f) \subseteq Calls /\ T(g) \subseteq Calls
      OBVIOUS
    <2> QED
      BY <2>1, FS_Subset, BudgetAssumption
  <1>3. Count(p, f, S) \in Nat /\ Count(p, g, S) \in Nat
    BY CountType
  <1>4. ASSUME Home[c] # p \/ (g[c] \in S <=> f[c] \in S)
        PROVE  Count(p, g, S) = Count(p, f, S)
    <2>1. T(g) = T(f)
      BY <1>1, <1>4
    <2> QED
      BY <2>1 DEF Count
  <1>5. ASSUME Home[c] = p, g[c] \in S, f[c] \notin S
        PROVE  Count(p, g, S) = Count(p, f, S) + 1
    <2>1. T(g) = T(f) \cup {c} /\ c \notin T(f)
      BY <1>1, <1>5
    <2> QED
      BY <2>1, <1>2, FS_AddElement DEF Count
  <1>6. ASSUME Home[c] = p, g[c] \notin S, f[c] \in S
        PROVE  Count(p, g, S) = Count(p, f, S) - 1
    <2>1. T(g) = T(f) \ {c} /\ c \in T(f)
      BY <1>1, <1>6
    <2> QED
      BY <2>1, <1>2, FS_RemoveElement DEF Count
  <1> QED
    BY <1>1, <1>3, <1>4, <1>5, <1>6

(***************************************************************************)
(* Permits.  What each stage is worth, as one predicate of a replica.       *)
(***************************************************************************)
Asleep  == {"waiting"}
Woken   == {"woken"}
Counted == {Holding, Queued, Woken, Asleep}

LEMMA FourCounted == /\ Holding \in Counted /\ Queued \in Counted
                     /\ Woken \in Counted /\ Asleep \in Counted
  BY DEF Counted

Balanced(p, f, fr, ac, pe) ==
    /\ ac = Count(p, f, Holding)
    /\ pe = Count(p, f, Queued)
    /\ fr + ac + Count(p, f, Woken) = Permits
    /\ fr > 0 /\ Count(p, f, Asleep) # 0 => Count(p, f, Woken) # 0

PermitInv == \A p \in Replicas : Balanced(p, pc, free[p], active[p], pending[p])

\* Balance is what the property says.
LEMMA BalanceIsAgreement == PermitInv <=> PermitsAgree
  <1>1. \A p, S : At(p, S) = {c \in Calls : Home[c] = p /\ pc[c] \in S}
    BY DEF At
  <1>2. \A p \in Replicas :
           /\ Cardinality(At(p, Holding)) = Count(p, pc, Holding)
           /\ Cardinality(At(p, Queued)) = Count(p, pc, Queued)
           /\ Cardinality(At(p, {"woken"})) = Count(p, pc, Woken)
           /\ At(p, {"woken"}) = {} <=> Count(p, pc, Woken) = 0
           /\ At(p, {"waiting"}) = {} <=> Count(p, pc, Asleep) = 0
    BY <1>1, CountType DEF Count, Woken, Asleep
  <1> QED
    BY <1>2 DEF PermitInv, Balanced, PermitsAgree

\* What a stage adds to a count.
In(stage, S) == IF stage \in S THEN 1 ELSE 0

\* The move of one call, in the four counts that permits depend on.
LEMMA Shift ==
    ASSUME NEW p, NEW f, NEW c, NEW g, Moves(f, c, g)
    PROVE  \A S \in Counted :
             /\ Count(p, f, S) \in Nat /\ Count(p, g, S) \in Nat
             /\ Home[c] # p => Count(p, g, S) = Count(p, f, S)
             /\ Home[c] = p =>
                  Count(p, g, S) = Count(p, f, S) + In(g[c], S) - In(f[c], S)
  <1>1. ASSUME NEW S
        PROVE  /\ Count(p, f, S) \in Nat /\ Count(p, g, S) \in Nat
               /\ Home[c] # p => Count(p, g, S) = Count(p, f, S)
               /\ Home[c] = p =>
                    Count(p, g, S) = Count(p, f, S) + In(g[c], S) - In(f[c], S)
    <2>1. /\ Count(p, f, S) \in Nat /\ Count(p, g, S) \in Nat
          /\ Home[c] # p \/ (g[c] \in S <=> f[c] \in S) => Count(p, g, S) = Count(p, f, S)
          /\ Home[c] = p /\ g[c] \in S /\ f[c] \notin S => Count(p, g, S) = Count(p, f, S) + 1
          /\ Home[c] = p /\ g[c] \notin S /\ f[c] \in S => Count(p, g, S) = Count(p, f, S) - 1
      BY CountMoves
    <2>2. CASE g[c] \in S <=> f[c] \in S
      BY <2>1, <2>2 DEF In
    <2>3. CASE g[c] \in S /\ f[c] \notin S
      BY <2>1, <2>3 DEF In
    <2>4. CASE g[c] \notin S /\ f[c] \in S
      BY <2>1, <2>4 DEF In
    <2> QED
      BY <2>2, <2>3, <2>4
  <1> QED
    BY <1>1

\* A call that moves between stages that count alike leaves every balance alone.
LEMMA LevelMove ==
    ASSUME IngressTypes, PermitInv, NEW c \in Calls, NEW stage \in Stages, GoTo(c, stage),
           \A S \in Counted : stage \in S <=> pc[c] \in S,
           UNCHANGED permits
    PROVE  PermitInv'
  <1> SUFFICES ASSUME NEW p \in Replicas
               PROVE  Balanced(p, pc', free[p], active[p], pending[p])
    BY DEF PermitInv, permits
  <1>1. Balanced(p, pc, free[p], active[p], pending[p])
    BY DEF PermitInv
  <1>2. Moves(pc, c, pc') /\ pc'[c] = stage
    BY DEF GoTo, IngressTypes, Moves
  <1>3. \A S \in Counted : Count(p, pc', S) = Count(p, pc, S)
    BY <1>2, CountMoves
  <1> QED
    BY <1>1, <1>3, FourCounted DEF Balanced

\* From f to g, waiters of replica q, those in W, are woken.
Wakes(f, g, q, W) ==
    /\ f \in [Calls -> Stages] /\ g \in [Calls -> Stages]
    /\ W \subseteq Calls /\ \A d \in W : Home[d] = q /\ f[d] = "waiting" /\ g[d] = "woken"
    /\ \A d \in Calls : d \notin W => g[d] = f[d]

\* What that does to the counts.
LEMMA WakingCounts ==
    ASSUME NEW p \in Replicas, NEW f, NEW g, NEW q, NEW W, Wakes(f, g, q, W)
    PROVE  /\ Cardinality(W) \in Nat
           /\ Count(p, g, Holding) = Count(p, f, Holding)
           /\ Count(p, g, Queued) = Count(p, f, Queued)
           /\ p # q => /\ Count(p, g, Woken) = Count(p, f, Woken)
                       /\ Count(p, g, Asleep) = Count(p, f, Asleep)
           /\ p = q => Count(p, g, Woken) = Count(p, f, Woken) + Cardinality(W)
           /\ p = q /\ (\A d \in Calls : Home[d] = q /\ f[d] = "waiting" => d \in W) =>
                Count(p, g, Asleep) = 0
  <1> DEFINE T(h, S) == {d \in Calls : Home[d] = p /\ h[d] \in S}
  <1>1. W \subseteq Calls /\ IsFiniteSet(W)
    BY BudgetAssumption, FS_Subset DEF Wakes
  <1>2. Cardinality(W) \in Nat
    BY <1>1, FS_CardinalityType
  <1>4. T(g, Holding) = T(f, Holding) /\ T(g, Queued) = T(f, Queued)
    BY DEF Wakes, Holding, Queued
  <1>5. Count(p, g, Holding) = Count(p, f, Holding) /\ Count(p, g, Queued) = Count(p, f, Queued)
    BY <1>4 DEF Count
  <1>6. ASSUME p # q
        PROVE  /\ Count(p, g, Woken) = Count(p, f, Woken)
               /\ Count(p, g, Asleep) = Count(p, f, Asleep)
    <2>1. T(g, Woken) = T(f, Woken) /\ T(g, Asleep) = T(f, Asleep)
      BY <1>6 DEF Wakes
    <2> QED
      BY <2>1 DEF Count
  <1>7. ASSUME p = q
        PROVE  Count(p, g, Woken) = Count(p, f, Woken) + Cardinality(W)
    <2>1. T(g, Woken) = T(f, Woken) \cup W /\ T(f, Woken) \cap W = {}
      BY <1>1, <1>7 DEF Wakes, Woken
    <2>2. IsFiniteSet(T(f, Woken))
      BY CountType
    <2>3. PICK A : A = T(f, Woken)
      OBVIOUS
    <2>4. Cardinality(A \cup W) = Cardinality(A) + Cardinality(W) - Cardinality(A \cap W)
      BY <1>1, <2>2, <2>3, FS_Union
    <2>5. Cardinality(A \cap W) = 0
      BY <2>1, <2>3, FS_EmptySet
    <2>6. Cardinality(A) \in Nat /\ Count(p, f, Woken) = Cardinality(A)
          /\ Count(p, g, Woken) = Cardinality(A \cup W)
      BY <2>1, <2>2, <2>3, FS_CardinalityType DEF Count
    <2> QED
      BY <1>2, <2>4, <2>5, <2>6
  <1>8. ASSUME p = q, \A d \in Calls : Home[d] = q /\ f[d] = "waiting" => d \in W
        PROVE  Count(p, g, Asleep) = 0
    <2>1. T(g, Asleep) = {}
      BY <1>8 DEF Wakes, Asleep
    <2> QED
      BY <2>1, CountType
  <1> QED
    BY <1>2, <1>5, <1>6, <1>7, <1>8

\* A call that goes on and hands out permits wakes waiters, and moves nobody else.
LEMMA HandOutMoves ==
    ASSUME IngressTypes, NEW c \in Calls, NEW stage \in {"over", "forwarding"},
           pc[c] # "waiting", NEW f, NEW n, HandOut(c, stage, f, n)
    PROVE  /\ pc'[c] = stage
           /\ \A d \in Calls : d # c => \/ pc'[d] = pc[d]
                                        \/ pc[d] = "waiting" /\ pc'[d] = "woken"
  BY DEF HandOut, At, IngressTypes

\* Where the permits are after a hand-out: with the woken, or free, and then nobody
\* waits behind no one.
LEMMA HandOutCounts ==
    ASSUME IngressTypes, NEW c \in Calls, NEW stage \in {"over", "forwarding"},
           pc[c] \in {"forwarding", "drained", "broken", "woken", "lapsed"},
           NEW f \in Nat, NEW n \in {1, f}, n <= f, HandOut(c, stage, f, n),
           NEW p \in Replicas
    PROVE  /\ pc' \in [Calls -> Stages] /\ free' \in [Replicas -> Nat]
           /\ \A S \in Counted : Count(p, pc, S) \in Nat /\ Count(p, pc', S) \in Nat
           /\ Home[c] # p => /\ free'[p] = free[p]
                             /\ \A S \in Counted : Count(p, pc', S) = Count(p, pc, S)
           /\ Home[c] = p =>
                /\ Count(p, pc', Holding)
                     = Count(p, pc, Holding) + In(stage, Holding) - In(pc[c], Holding)
                /\ Count(p, pc', Queued) = Count(p, pc, Queued) - In(pc[c], Queued)
                /\ free'[p] + Count(p, pc', Woken)
                     = f + Count(p, pc, Woken) - In(pc[c], Woken)
                /\ free'[p] > 0 /\ Count(p, pc', Asleep) # 0 => Count(p, pc', Woken) # 0
  <1> DEFINE q == Home[c]
             mid == [pc EXCEPT ![c] = stage]
             waiting == {d \in Calls : Home[d] = q /\ mid[d] = "waiting"}
  <1>0. q \in Replicas /\ stage \in Stages /\ pc \in [Calls -> Stages]
        /\ free \in [Replicas -> Nat]
    BY IngressAssumption DEF IngressTypes, Stages
  <1>1. At(q, {"waiting"}) = waiting
    BY <1>0 DEF At
  <1>2. PICK W \in SUBSET waiting :
          /\ Cardinality(W) <= n /\ (Cardinality(W) < n => W = waiting)
          /\ pc' = [d \in Calls |-> IF d = c THEN stage ELSE IF d \in W THEN "woken" ELSE pc[d]]
          /\ free' = [free EXCEPT ![q] = f - Cardinality(W)]
    BY <1>1 DEF HandOut
  <1>3. Moves(pc, c, mid) /\ mid[c] = stage
    BY <1>0 DEF Moves
  <1>4. pc' \in [Calls -> Stages]
    BY <1>0, <1>2 DEF Stages, Queued
  <1>5. Wakes(mid, pc', q, W)
    BY <1>0, <1>2, <1>4 DEF Wakes
  <1>6. W = waiting => \A d \in Calls : Home[d] = q /\ mid[d] = "waiting" => d \in W
    OBVIOUS
  <1> HIDE DEF mid, waiting
  <1>7. /\ Cardinality(W) \in Nat
        /\ \A S \in Counted : Count(p, mid, S) \in Nat /\ Count(p, pc', S) \in Nat
        /\ Count(p, pc', Holding) = Count(p, mid, Holding)
        /\ Count(p, pc', Queued) = Count(p, mid, Queued)
        /\ p # q => /\ Count(p, pc', Woken) = Count(p, mid, Woken)
                    /\ Count(p, pc', Asleep) = Count(p, mid, Asleep)
        /\ p = q => Count(p, pc', Woken) = Count(p, mid, Woken) + Cardinality(W)
        /\ p = q /\ W = waiting => Count(p, pc', Asleep) = 0
    <2>1. PICK g, h, r : g = pc' /\ h = mid /\ r = q
      OBVIOUS
    <2>2. Wakes(h, g, r, W)
      BY <1>5, <2>1
    <2>3. \A S \in Counted : Count(p, h, S) \in Nat /\ Count(p, g, S) \in Nat
      BY CountType
    <2>4. /\ Cardinality(W) \in Nat
          /\ Count(p, g, Holding) = Count(p, h, Holding)
          /\ Count(p, g, Queued) = Count(p, h, Queued)
          /\ p # r => /\ Count(p, g, Woken) = Count(p, h, Woken)
                      /\ Count(p, g, Asleep) = Count(p, h, Asleep)
          /\ p = r => Count(p, g, Woken) = Count(p, h, Woken) + Cardinality(W)
      BY <2>2, WakingCounts
    <2>5. p = r /\ (\A d \in Calls : Home[d] = r /\ h[d] = "waiting" => d \in W) =>
             Count(p, g, Asleep) = 0
      BY <2>2, WakingCounts
    <2> QED
      BY <1>6, <2>1, <2>3, <2>4, <2>5, Zenon
  <1>8. \A S \in Counted :
          /\ Count(p, pc, S) \in Nat /\ Count(p, mid, S) \in Nat
          /\ q # p => Count(p, mid, S) = Count(p, pc, S)
          /\ q = p => Count(p, mid, S) = Count(p, pc, S) + In(stage, S) - In(pc[c], S)
    BY <1>3, Shift
  <1>9. In(stage, Queued) = 0 /\ In(stage, Woken) = 0
    BY DEF In, Queued, Woken
  <1>10. \A S \in Counted : In(pc[c], S) \in Int /\ In(stage, S) \in Int
    BY DEF In
  <1>11. free' \in [Replicas -> Nat]
    <2>1. f - Cardinality(W) \in Nat
      BY <1>2, <1>7
    <2> QED
      BY <1>0, <1>2, <2>1
  <1>12. CASE q # p
    <2>1. free'[p] = free[p]
      BY <1>0, <1>2, <1>12
    <2>2. \A S \in Counted : Count(p, pc', S) = Count(p, pc, S)
      BY <1>7, <1>8, <1>12 DEF Counted
    <2> QED
      BY <1>4, <1>7, <1>8, <1>11, <1>12, <2>1, <2>2
  <1>13. CASE q = p
    <2>1. free'[p] = f - Cardinality(W)
      BY <1>0, <1>2, <1>13
    <2>2. Count(p, pc', Holding) = Count(p, pc, Holding) + In(stage, Holding) - In(pc[c], Holding)
      BY <1>7, <1>8, <1>13, FourCounted
    <2>3. Count(p, pc', Queued) = Count(p, pc, Queued) - In(pc[c], Queued)
      BY <1>7, <1>8, <1>9, <1>10, <1>13, FourCounted
    <2>4. Count(p, pc', Woken) = Count(p, pc, Woken) - In(pc[c], Woken) + Cardinality(W)
      BY <1>7, <1>8, <1>9, <1>10, <1>13, FourCounted
    <2>5. free'[p] + Count(p, pc', Woken) = f + Count(p, pc, Woken) - In(pc[c], Woken)
      BY <1>7, <1>8, <1>10, <2>1, <2>4, FourCounted
    <2>6. free'[p] > 0 /\ Count(p, pc', Asleep) # 0 => Count(p, pc', Woken) # 0
      <3>1. CASE Cardinality(W) < n
        BY <1>2, <1>7, <1>13, <3>1
      <3>2. CASE Cardinality(W) = n
        <4>1. n = f => free'[p] = 0
          BY <2>1, <3>2
        <4>2. n = 1 => Count(p, pc', Woken) # 0
          BY <1>7, <1>8, <1>13, <3>2, FourCounted
        <4> QED
          BY <4>1, <4>2
      <3> QED
        BY <1>2, <1>7, <3>1, <3>2
    <2> QED
      BY <1>4, <1>7, <1>8, <1>11, <1>13, <2>2, <2>3, <2>5, <2>6
  <1> QED
    BY <1>12, <1>13

\* The permits of another replica than the one that moves.
LEMMA Elsewhere ==
    ASSUME NEW p \in Replicas, NEW c, Moves(pc, c, pc'), Home[c] # p,
           Balanced(p, pc, free[p], active[p], pending[p]),
           free'[p] = free[p], active'[p] = active[p], pending'[p] = pending[p]
    PROVE  Balanced(p, pc', free'[p], active'[p], pending'[p])
  <1>1. \A S \in Counted : Count(p, pc', S) = Count(p, pc, S)
    BY Shift
  <1> QED
    BY <1>1, FourCounted DEF Balanced

\* Taking a permit, entering the queue, and lapsing there.
LEMMA AcquireKeepsPermits ==
    ASSUME IngressTypes, PermitInv, NEW c \in Calls,
           AcquireFree(c) \/ Queue(c) \/ Lapse(c)
    PROVE  PermitInv'
  <1> SUFFICES ASSUME NEW p \in Replicas
               PROVE  Balanced(p, pc', free'[p], active'[p], pending'[p])
    BY DEF PermitInv
  <1>1. Balanced(p, pc, free[p], active[p], pending[p])
    BY DEF PermitInv
  <1>2. Moves(pc, c, pc')
    BY DEF AcquireFree, Queue, Lapse, GoTo, IngressTypes, Moves, Stages, Queued
  <1>3. CASE Home[c] # p
    <2>1. free'[p] = free[p] /\ active'[p] = active[p] /\ pending'[p] = pending[p]
      BY <1>3 DEF AcquireFree, Queue, Lapse, IngressTypes, permits
    <2> QED
      BY <2>1, <1>1, <1>2, <1>3, Elsewhere
  <1>4. CASE Home[c] = p
    <2>1. \A S \in Counted :
             /\ Count(p, pc, S) \in Nat /\ Count(p, pc', S) \in Nat
             /\ Count(p, pc', S) = Count(p, pc, S) + In(pc'[c], S) - In(pc[c], S)
      BY <1>2, <1>4, Shift
    <2>2. free[p] \in Nat /\ active[p] \in Int /\ pending[p] \in Int
      BY DEF IngressTypes
    <2>3. At(p, {"waiting", "woken"}) = {} <=> Count(p, pc, Asleep) = 0 /\ Count(p, pc, Woken) = 0
      <3>1. /\ Count(p, pc, Asleep) = 0 <=> {d \in Calls : Home[d] = p /\ pc[d] \in Asleep} = {}
            /\ Count(p, pc, Woken) = 0 <=> {d \in Calls : Home[d] = p /\ pc[d] \in Woken} = {}
        BY CountType
      <3> QED
        BY <3>1 DEF At, Asleep, Woken
    <2> USE FourCounted
    <2> USE DEF Balanced
    <2>4. CASE AcquireFree(c)
      <3>1. /\ pc[c] = "admitted" /\ pc'[c] = "forwarding"
            /\ free[p] # 0 /\ Count(p, pc, Asleep) = 0 /\ Count(p, pc, Woken) = 0
            /\ free'[p] = free[p] - 1 /\ active'[p] = active[p] + 1
            /\ pending'[p] = pending[p]
        BY <1>4, <2>3, <2>4 DEF AcquireFree, GoTo, Locked, IngressTypes
      <3>2. /\ In(pc[c], Holding) = 0 /\ In(pc'[c], Holding) = 1
            /\ In(pc[c], Queued) = 0 /\ In(pc'[c], Queued) = 0
            /\ In(pc[c], Woken) = 0 /\ In(pc'[c], Woken) = 0
            /\ In(pc[c], Asleep) = 0 /\ In(pc'[c], Asleep) = 0
        BY <3>1 DEF In, Holding, Queued, Woken, Asleep
      <3>3. /\ Count(p, pc', Holding) = Count(p, pc, Holding) + 1 - 0
            /\ Count(p, pc', Queued) = Count(p, pc, Queued) + 0 - 0
            /\ Count(p, pc', Woken) = Count(p, pc, Woken) + 0 - 0
            /\ Count(p, pc', Asleep) = Count(p, pc, Asleep) + 0 - 0
        BY <2>1, <3>2
      <3> QED
        BY <1>1, <2>1, <2>2, <3>1, <3>3
    <2>5. CASE Queue(c)
      <3>1. /\ pc[c] = "admitted" /\ pc'[c] = "waiting"
            /\ free[p] = 0 \/ Count(p, pc, Asleep) # 0 \/ Count(p, pc, Woken) # 0
            /\ free'[p] = free[p] /\ active'[p] = active[p]
            /\ pending'[p] = pending[p] + 1
        BY <1>4, <2>3, <2>5 DEF Queue, GoTo, Locked, IngressTypes
      <3>2. /\ Count(p, pc', Holding) = Count(p, pc, Holding)
            /\ Count(p, pc', Queued) = Count(p, pc, Queued) + 1
            /\ Count(p, pc', Woken) = Count(p, pc, Woken)
        BY <2>1, <3>1 DEF In, Holding, Queued, Woken, Asleep
      <3> QED
        BY <1>1, <2>1, <2>2, <3>1, <3>2
    <2>6. CASE Lapse(c)
      <3>1. /\ pc[c] = "waiting" /\ pc'[c] = "lapsed"
            /\ free'[p] = free[p] /\ active'[p] = active[p] /\ pending'[p] = pending[p]
        BY <1>4, <2>6 DEF Lapse, GoTo, IngressTypes, permits
      <3>2. /\ Count(p, pc', Holding) = Count(p, pc, Holding)
            /\ Count(p, pc', Queued) = Count(p, pc, Queued)
            /\ Count(p, pc', Woken) = Count(p, pc, Woken)
            /\ Count(p, pc', Asleep) = Count(p, pc, Asleep) - 1
        BY <2>1, <3>1 DEF In, Holding, Queued, Woken, Asleep
      <3> QED
        BY <1>1, <2>1, <2>2, <3>1, <3>2
    <2> QED
      BY <2>4, <2>5, <2>6
  <1> QED
    BY <1>3, <1>4

\* Giving a permit back at the end of a call, and leaving the line.
Hands(c) ==
    \/ /\ pc[c] \in {"forwarding", "drained", "broken"} /\ Release(c)
       /\ active' = [active EXCEPT ![Home[c]] = @ - 1] /\ UNCHANGED pending
    \/ Resume(c) \/ GiveUp(c)

\* They hand out permits: to which stage the call goes, of how many permits, and how
\* many of them are due to waiters.
LEMMA HandingOut ==
    ASSUME IngressTypes, NEW c \in Calls, Hands(c)
    PROVE  \E stage \in {"over", "forwarding"}, f \in Nat : \E n \in {1, f} :
             /\ HandOut(c, stage, f, n) /\ n <= f
             /\ pc[c] \in {"forwarding", "drained", "broken", "woken", "lapsed"}
             /\ f + In(stage, Holding) = free[Home[c]] + In(pc[c], Holding) + In(pc[c], Woken)
             /\ active'[Home[c]] = active[Home[c]] + In(stage, Holding) - In(pc[c], Holding)
             /\ pending'[Home[c]] = pending[Home[c]] - In(pc[c], Queued)
             /\ active' \in [Replicas -> Int] /\ pending' \in [Replicas -> Int]
             /\ \A p \in Replicas : p # Home[c] => active'[p] = active[p] /\ pending'[p] = pending[p]
  <1>0. /\ Home[c] \in Replicas /\ free[Home[c]] \in Nat
        /\ active \in [Replicas -> Int] /\ pending \in [Replicas -> Int]
    BY IngressAssumption DEF IngressTypes
  <1>1. /\ In("over", Holding) = 0 /\ In("forwarding", Holding) = 1
        /\ In("woken", Holding) = 0 /\ In("woken", Woken) = 1 /\ In("woken", Queued) = 1
        /\ In("lapsed", Holding) = 0 /\ In("lapsed", Woken) = 0 /\ In("lapsed", Queued) = 1
        /\ \A x \in {"forwarding", "drained", "broken"} :
             In(x, Holding) = 1 /\ In(x, Woken) = 0 /\ In(x, Queued) = 0
    BY DEF In, Holding, Queued, Woken
  <1>2. CASE /\ pc[c] \in {"forwarding", "drained", "broken"} /\ Release(c)
             /\ active' = [active EXCEPT ![Home[c]] = @ - 1] /\ UNCHANGED pending
    <2>1. HandOut(c, "over", free[Home[c]] + 1, 1) /\ free[Home[c]] + 1 \in Nat
      BY <1>0, <1>2 DEF Release
    <2>2. In(pc[c], Holding) = 1 /\ In(pc[c], Woken) = 0 /\ In(pc[c], Queued) = 0
      BY <1>1, <1>2
    <2> QED
      BY <1>0, <1>1, <1>2, <2>1, <2>2
  <1>3. CASE Resume(c)
    <2>1. /\ pc[c] = "woken" /\ HandOut(c, "forwarding", free[Home[c]], free[Home[c]])
          /\ pending' = [pending EXCEPT ![Home[c]] = @ - 1]
          /\ active' = [active EXCEPT ![Home[c]] = @ + 1]
      BY <1>3 DEF Resume, LeaveLine
    <2> QED
      BY <1>0, <1>1, <2>1
  <1>4. CASE GiveUp(c)
    <2>1. pending' = [pending EXCEPT ![Home[c]] = @ - 1] /\ active' = active
      BY <1>4 DEF GiveUp, LeaveLine
    <2>2. CASE pc[c] = "lapsed"
      <3>1. HandOut(c, "over", free[Home[c]], free[Home[c]])
        BY <1>4, <2>2 DEF GiveUp, LeaveLine
      <3> QED
        BY <1>0, <1>1, <2>1, <2>2, <3>1
    <2>3. CASE pc[c] = "woken"
      <3>1. /\ HandOut(c, "over", free[Home[c]] + 1, free[Home[c]] + 1)
            /\ free[Home[c]] + 1 \in Nat
        BY <1>0, <1>4, <2>3 DEF GiveUp, LeaveLine
      <3> QED
        BY <1>0, <1>1, <2>1, <2>3, <3>1
    <2> QED
      BY <1>4, <2>2, <2>3 DEF GiveUp
  <1> QED
    BY <1>2, <1>3, <1>4 DEF Hands

\* So they keep the balance, and wake waiters at most.
LEMMA HandsKeepPermits ==
    ASSUME IngressTypes, PermitInv, NEW c \in Calls, Hands(c)
    PROVE  /\ PermitInv' /\ pc' \in [Calls -> Stages] /\ free' \in [Replicas -> Nat]
           /\ active' \in [Replicas -> Int] /\ pending' \in [Replicas -> Int]
           /\ pc'[c] \in {"over", "forwarding"}
           /\ \A d \in Calls : d # c => \/ pc'[d] = pc[d]
                                        \/ pc[d] = "waiting" /\ pc'[d] = "woken"
  <1>1. PICK stage \in {"over", "forwarding"}, f \in Nat : \E n \in {1, f} :
             /\ HandOut(c, stage, f, n) /\ n <= f
             /\ pc[c] \in {"forwarding", "drained", "broken", "woken", "lapsed"}
             /\ f + In(stage, Holding) = free[Home[c]] + In(pc[c], Holding) + In(pc[c], Woken)
             /\ active'[Home[c]] = active[Home[c]] + In(stage, Holding) - In(pc[c], Holding)
             /\ pending'[Home[c]] = pending[Home[c]] - In(pc[c], Queued)
             /\ active' \in [Replicas -> Int] /\ pending' \in [Replicas -> Int]
             /\ \A p \in Replicas : p # Home[c] => active'[p] = active[p] /\ pending'[p] = pending[p]
    BY HandingOut
  <1>2. PICK n \in {1, f} : HandOut(c, stage, f, n) /\ n <= f
    BY <1>1
  <1>3. pc[c] \in {"forwarding", "drained", "broken", "woken", "lapsed"}
    BY <1>1
  <1>4. Home[c] \in Replicas
    BY IngressAssumption
  <1>5. ASSUME NEW p \in Replicas
        PROVE  /\ Balanced(p, pc', free'[p], active'[p], pending'[p])
               /\ pc' \in [Calls -> Stages] /\ free' \in [Replicas -> Nat]
    <2>1. Balanced(p, pc, free[p], active[p], pending[p])
      BY DEF PermitInv
    <2>2. /\ pc' \in [Calls -> Stages] /\ free' \in [Replicas -> Nat]
          /\ \A S \in Counted : Count(p, pc, S) \in Nat /\ Count(p, pc', S) \in Nat
          /\ Home[c] # p => /\ free'[p] = free[p]
                            /\ \A S \in Counted : Count(p, pc', S) = Count(p, pc, S)
          /\ Home[c] = p =>
               /\ Count(p, pc', Holding)
                    = Count(p, pc, Holding) + In(stage, Holding) - In(pc[c], Holding)
               /\ Count(p, pc', Queued) = Count(p, pc, Queued) - In(pc[c], Queued)
               /\ free'[p] + Count(p, pc', Woken) = f + Count(p, pc, Woken) - In(pc[c], Woken)
               /\ free'[p] > 0 /\ Count(p, pc', Asleep) # 0 => Count(p, pc', Woken) # 0
      BY <1>2, <1>3, HandOutCounts
    <2>3. CASE Home[c] # p
      <3>1. active'[p] = active[p] /\ pending'[p] = pending[p] /\ free'[p] = free[p]
        BY <1>1, <2>2, <2>3
      <3>2. \A S \in Counted : Count(p, pc', S) = Count(p, pc, S)
        BY <2>2, <2>3
      <3>3. Balanced(p, pc', free'[p], active'[p], pending'[p])
        BY <2>1, <3>1, <3>2, FourCounted DEF Balanced
      <3> QED
        BY <2>2, <3>3
    <2>4. CASE Home[c] = p
      <3>1. /\ free[p] \in Nat /\ active[p] \in Int /\ pending[p] \in Int /\ free'[p] \in Nat
            /\ \A x \in {pc[c], stage}, S \in Counted : In(x, S) \in Int
        BY <2>2 DEF IngressTypes, In
      <3>2. /\ f + In(stage, Holding) = free[p] + In(pc[c], Holding) + In(pc[c], Woken)
            /\ active'[p] = active[p] + In(stage, Holding) - In(pc[c], Holding)
            /\ pending'[p] = pending[p] - In(pc[c], Queued)
        BY <1>1, <2>4
      <3>3. /\ active'[p] = Count(p, pc', Holding) /\ pending'[p] = Count(p, pc', Queued)
        BY <2>1, <2>2, <2>4, <3>2 DEF Balanced
      <3>4. free'[p] + active'[p] + Count(p, pc', Woken) = Permits
        <4>1. free[p] + active[p] + Count(p, pc, Woken) = Permits
          BY <2>1 DEF Balanced
        <4>2. free'[p] + Count(p, pc', Woken) = f + Count(p, pc, Woken) - In(pc[c], Woken)
          BY <2>2, <2>4
        <4>3. Count(p, pc, Woken) \in Nat /\ Count(p, pc', Woken) \in Nat
              /\ In(pc[c], Woken) \in Int /\ In(pc[c], Holding) \in Int
              /\ In(stage, Holding) \in Int
          BY <2>2, <3>1, FourCounted
        <4> QED
          BY <3>1, <3>2, <4>1, <4>2, <4>3
      <3> QED
        BY <2>2, <2>4, <3>3, <3>4 DEF Balanced
    <2> QED
      BY <2>3, <2>4
  <1>6. /\ pc'[c] = stage
        /\ \A d \in Calls : d # c => \/ pc'[d] = pc[d]
                                     \/ pc[d] = "waiting" /\ pc'[d] = "woken"
    BY <1>2, <1>3, HandOutMoves
  <1> QED
    BY <1>1, <1>4, <1>5, <1>6 DEF PermitInv

\* A replica that dies loses its calls, waiters and permits; the others notice nothing.
LEMMA CrashKeepsPermits ==
    ASSUME IngressTypes, PermitInv, NEW r \in Replicas, Crash(r)
    PROVE  PermitInv'
  <1> SUFFICES ASSUME NEW p \in Replicas
               PROVE  Balanced(p, pc', free'[p], active'[p], pending'[p])
    BY DEF PermitInv
  <1> DEFINE T(f, S) == {d \in Calls : Home[d] = p /\ f[d] \in S}
  <1>1. Balanced(p, pc, free[p], active[p], pending[p])
    BY DEF PermitInv
  <1>2. CASE p = r
    <2>1. free'[p] = Permits /\ active'[p] = 0 /\ pending'[p] = 0
      BY <1>2 DEF Crash, IngressTypes
    <2>2. \A d \in Calls : Home[d] = p => pc'[d] \in {"dead", "new", "over"}
      BY <1>2 DEF Crash, At, IngressTypes, Stages
    <2>3. /\ T(pc', Holding) = {} /\ T(pc', Queued) = {}
          /\ T(pc', Woken) = {} /\ T(pc', Asleep) = {}
      BY <2>2 DEF Holding, Queued, Woken, Asleep
    <2>4. /\ Count(p, pc', Holding) = 0 /\ Count(p, pc', Queued) = 0
          /\ Count(p, pc', Woken) = 0 /\ Count(p, pc', Asleep) = 0
      BY <2>3, CountType
    <2> QED
      BY <2>1, <2>4, IngressAssumption DEF Balanced
  <1>3. CASE p # r
    <2>1. free'[p] = free[p] /\ active'[p] = active[p] /\ pending'[p] = pending[p]
      BY <1>3 DEF Crash, IngressTypes
    <2>2. \A d \in Calls : Home[d] = p => pc'[d] = pc[d]
      BY <1>3 DEF Crash, At
    <2>3. \A S \in Counted : T(pc', S) = T(pc, S)
      BY <2>2
    <2>4. \A S \in Counted : Count(p, pc', S) = Count(p, pc, S)
      BY <2>3 DEF Count
    <2> QED
      BY <1>1, <2>1, <2>4, FourCounted DEF Balanced
  <1> QED
    BY <1>2, <1>3

(***************************************************************************)
(* What else the steps keep: types and timers.                              *)
(***************************************************************************)
\* The end of a call, in one fact.
LEMMA FinishMoves ==
    ASSUME IngressTypes, PermitInv, NEW c \in Calls, NEW k, NEW bad,
           pc[c] \in {"forwarding", "drained", "broken"}, Finish(c, k, bad)
    PROVE  /\ PermitInv' /\ pc' \in [Calls -> Stages] /\ free' \in [Replicas -> Nat]
           /\ active' \in [Replicas -> Int] /\ pending' = pending
           /\ pc'[c] = "over"
           /\ \A d \in Calls : d # c => \/ pc'[d] = pc[d]
                                        \/ pc[d] = "waiting" /\ pc'[d] = "woken"
  <1>1. /\ Release(c) /\ Hands(c) /\ pending' = pending
    BY DEF Finish, Hands
  <1>2. pc'[c] = "over"
    BY <1>1, HandOutMoves DEF Release
  <1> QED
    BY <1>1, <1>2, HandsKeepPermits

\* Permits, types and timers, step by step.
LEMMA StepKeepsPermits ==
    ASSUME IngressTypes, TimerInv, PermitInv, NEW c \in Calls, Step(c)
    PROVE  IngressTypes' /\ TimerInv' /\ PermitInv'
  <1>0. Home[c] \in Replicas
    BY IngressAssumption
  <1>1. CASE AcquireFree(c) \/ Queue(c) \/ Lapse(c)
    <2>1. PermitInv'
      BY <1>1, AcquireKeepsPermits
    <2>2. IngressTypes'
      BY <1>0, <1>1 DEF AcquireFree, Queue, Lapse, GoTo, Locked, IngressTypes, Stages, Queued,
                        answer, permits
    <2>3. armed' = armed /\ pc[c] \notin {"streaming", "drained", "broken"}
          /\ \A d \in Calls : d # c => pc'[d] = pc[d]
      BY <1>1 DEF AcquireFree, Queue, Lapse, GoTo, answer, IngressTypes
    <2>4. TimerInv'
      BY <2>3 DEF TimerInv
    <2> QED
      BY <2>1, <2>2, <2>4
  <1>2. CASE Resume(c) \/ GiveUp(c)
    <2>1. Hands(c) /\ armed' = armed /\ pc[c] \in {"woken", "lapsed"}
      BY <1>2 DEF Hands, Resume, GiveUp, answer
    <2>2. /\ PermitInv' /\ pc' \in [Calls -> Stages] /\ free' \in [Replicas -> Nat]
          /\ active' \in [Replicas -> Int] /\ pending' \in [Replicas -> Int]
          /\ \A d \in Calls : d # c => \/ pc'[d] = pc[d]
                                       \/ pc[d] = "waiting" /\ pc'[d] = "woken"
      BY <2>1, HandsKeepPermits
    <2>3. IngressTypes'
      BY <2>1, <2>2 DEF IngressTypes
    <2>4. TimerInv'
      BY <2>1, <2>2 DEF TimerInv
    <2> QED
      BY <2>2, <2>3, <2>4
  <1>3. CASE Buffered(c)
    <2>1. PICK k, bad : Finish(c, k, bad)
      BY <1>3 DEF Buffered
    <2>2. pc[c] = "forwarding" /\ armed' = armed
      BY <1>3 DEF Buffered, answer
    <2>3. /\ PermitInv' /\ pc' \in [Calls -> Stages] /\ free' \in [Replicas -> Nat]
          /\ active' \in [Replicas -> Int] /\ pending' = pending
          /\ \A d \in Calls : d # c => \/ pc'[d] = pc[d]
                                       \/ pc[d] = "waiting" /\ pc'[d] = "woken"
      BY <2>1, <2>2, FinishMoves
    <2>4. IngressTypes' /\ TimerInv'
      BY <2>2, <2>3 DEF IngressTypes, TimerInv
    <2> QED
      BY <2>3, <2>4
  <1>4. CASE Closed(c)
    <2>0. PICK k, bad : Finish(c, k, bad)
      BY <1>4 DEF Closed
    <2>1. /\ pc[c] \in {"drained", "broken"}
          /\ armed' = [d \in Calls |-> d \notin {c} /\ armed[d]]
      BY <1>4 DEF Closed, Forget
    <2>2. /\ PermitInv' /\ pc' \in [Calls -> Stages] /\ free' \in [Replicas -> Nat]
          /\ active' \in [Replicas -> Int] /\ pending' = pending
          /\ \A d \in Calls : d # c => \/ pc'[d] = pc[d]
                                       \/ pc[d] = "waiting" /\ pc'[d] = "woken"
      BY <2>0, <2>1, FinishMoves
    <2>3. armed' \in [Calls -> BOOLEAN] /\ ~armed'[c]
          /\ \A d \in Calls : armed'[d] => armed[d]
      BY <2>1
    <2>4. IngressTypes' /\ TimerInv'
      BY <2>2, <2>3 DEF IngressTypes, TimerInv
    <2> QED
      BY <2>2, <2>4
  <1>5. CASE TurnedAway(c) \/ Reserve(c) \/ Shed(c) \/ StartStream(c) \/ StreamEnds(c)
    <2>1. PICK stage \in Stages : GoTo(c, stage) /\
             \A S \in Counted : stage \in S <=> pc[c] \in S
      BY <1>5 DEF TurnedAway, Reserve, Shed, StartStream, StreamEnds, Counted, Holding, Queued,
                  Woken, Asleep, Stages
    <2>2. UNCHANGED permits /\ armed' = armed
      BY <1>5 DEF TurnedAway, Reserve, Shed, StartStream, StreamEnds, answer
    <2>3. PermitInv'
      BY <2>1, <2>2, LevelMove
    <2>4. IngressTypes'
      BY <2>1, <2>2 DEF GoTo, IngressTypes, permits
    <2>5. pc[c] \in {"streaming", "drained", "broken"} => pc'[c] \in {"drained", "broken"}
      BY <1>5 DEF TurnedAway, Reserve, Shed, StartStream, StreamEnds, GoTo, IngressTypes
    <2>6. TimerInv'
      BY <2>1, <2>2, <2>5 DEF GoTo, TimerInv, IngressTypes
    <2> QED
      BY <2>3, <2>4, <2>6
  <1>6. CASE DrainTimeout(c)
    <2>1. armed[c] /\ armed' = [armed EXCEPT ![c] = FALSE] /\ UNCHANGED permits
      BY <1>6 DEF DrainTimeout
    <2>2. PICK stage \in {"broken", "cut"} : GoTo(c, stage)
      BY <1>6 DEF DrainTimeout
    <2>3. pc[c] \in {"streaming", "drained", "broken"}
      BY <2>1 DEF TimerInv
    <2>4. stage \in Stages /\ \A S \in Counted : stage \in S <=> pc[c] \in S
      BY <2>3 DEF Counted, Holding, Queued, Woken, Asleep, Stages
    <2>5. PermitInv'
      BY <2>1, <2>2, <2>4, LevelMove
    <2>6. IngressTypes'
      BY <2>1, <2>2, <2>4 DEF GoTo, IngressTypes, permits
    <2>7. TimerInv'
      BY <2>1, <2>2 DEF GoTo, TimerInv, IngressTypes
    <2> QED
      BY <2>5, <2>6, <2>7
  <1>7. CASE ClientLeft(c)
    <2>1. /\ armed' = [armed EXCEPT ![c] = TRUE] /\ pc' = pc /\ UNCHANGED permits
          /\ pc[c] \in {"streaming", "drained", "broken"}
      BY <1>7 DEF ClientLeft
    <2> QED
      BY <2>1 DEF IngressTypes, TimerInv, PermitInv, permits
  <1>8. CASE UsageChunk(c) \/ SettleStep(c) \/ SettleFails(c)
    <2>1. pc' = pc /\ armed' = armed /\ UNCHANGED permits
      BY <1>8 DEF UsageChunk, SettleStep, SettleFails, answer
    <2> QED
      BY <2>1 DEF IngressTypes, TimerInv, PermitInv, permits
  <1> QED
    BY <1>1, <1>2, <1>3, <1>4, <1>5, <1>6, <1>7, <1>8 DEF Step

\* The same for every step.
LEMMA NextKeepsPermits ==
    ASSUME IngressTypes, TimerInv, PermitInv, [Next]_vars
    PROVE  IngressTypes' /\ TimerInv' /\ PermitInv'
  <1>1. CASE Background \/ UNCHANGED vars
    <2>1. UNCHANGED <<pc, armed, permits>>
      BY <1>1 DEF Background, vars, answer
    <2> QED
      BY <2>1 DEF IngressTypes, TimerInv, PermitInv, permits
  <1>2. ASSUME NEW p \in Replicas, Crash(p)
        PROVE  IngressTypes' /\ TimerInv' /\ PermitInv'
    <2>1. PermitInv'
      BY <1>2, CrashKeepsPermits
    <2>2. /\ pc' \in [Calls -> Stages]
          /\ free' \in [Replicas -> Nat]
          /\ active' \in [Replicas -> Int] /\ pending' \in [Replicas -> Int]
      BY <1>2, IngressAssumption DEF Crash, IngressTypes, Stages
    <2>3. armed' \in [Calls -> BOOLEAN]
      BY <1>2 DEF Crash, Forget
    <2>4. \A d \in Calls : armed'[d] => armed[d] /\ pc'[d] = pc[d]
      BY <1>2 DEF Crash, Forget
    <2> QED
      BY <2>1, <2>2, <2>3, <2>4 DEF IngressTypes, TimerInv
  <1> QED
    BY <1>1, <1>2, StepKeepsPermits DEF Next

(***************************************************************************)
(* Every way out of a call settles its reservation.                        *)
(***************************************************************************)
ExitInv == \A c \in Calls :
    /\ pc[c] = "new" \/ c \notin Budgeted => row[c] = "absent"
    /\ pc[c] = "over" /\ row[c] # "absent" => job[c] # "none" \/ c \in resend

\* What a step of the store keeps for the calls it is not a reservation of.
Keeps(D) == /\ row' \in [Calls -> Rows] /\ job' \in [Calls -> Jobs]
            /\ \A c \in Calls : c \notin D /\ row[c] = "absent" => row'[c] = "absent"
            /\ \A c \in Calls : row[c] # "absent" => row'[c] # "absent"
            /\ \A c \in Calls : job[c] # "none" => job'[c] # "none"

\* Settling leaves rows alone, and the call with a settle if it has a budget.
LEMMA SettlingKeeps ==
    ASSUME StoreTypes, NEW c \in Calls, NEW amount, SettleReservation(c, amount)
    PROVE  Keeps({}) /\ row' = row /\ (c \in Budgeted => job'[c] # "none")
  <1>1. CASE c \in Budgeted
    BY <1>1 DEF SettleReservation, Store!Submit, Store!Jobs, Jobs, Keeps, StoreTypes
  <1>2. CASE c \notin Budgeted
    BY <1>2 DEF SettleReservation, budget, Keeps, StoreTypes
  <1> QED
    BY <1>1, <1>2

\* So do the steps of the store on its own, and the death of a replica.
LEMMA StoreKeeps ==
    ASSUME StoreTypes,
           \/ UNCHANGED budget
           \/ Store!Tick \/ Store!Prune
           \/ \E c \in Calls : Store!Settle(c) \/ Store!SettleFails(c)
           \/ \E S : Store!LoseJobs(S) /\ UNCHANGED row
    PROVE  Keeps({})
  <1> USE DEF StoreTypes, Keeps, Rows, Jobs, Store!Rows, Store!Jobs
  <1>1. CASE UNCHANGED budget
    BY <1>1 DEF budget
  <1>2. CASE Store!Tick
    BY <1>2 DEF Store!Tick
  <1>3. CASE Store!Prune
    BY <1>3 DEF Store!Prune
  <1>4. ASSUME NEW c \in Calls, Store!Settle(c) PROVE Keeps({})
    BY <1>4 DEF Store!Settle, Store!Consume
  <1>5. ASSUME NEW c \in Calls, Store!SettleFails(c) PROVE Keeps({})
    BY <1>5 DEF Store!SettleFails, Store!Consume
  <1>6. ASSUME NEW S, Store!LoseJobs(S), UNCHANGED row PROVE Keeps({})
    BY <1>6 DEF Store!LoseJobs
  <1> QED
    BY <1>1, <1>2, <1>3, <1>4, <1>5, <1>6

\* A reservation makes one row at most, and only of its call.
LEMMA ReservingKeeps ==
    ASSUME StoreTypes, NEW c \in Calls, Store!Reserve(c)
    PROVE  /\ Keeps({c}) /\ row[c] = "absent"
           /\ ~Store!Admits => row'[c] = "absent"
  <1>1. /\ Store!Swept \in [Calls -> Rows]
        /\ \A d \in Calls : Store!Swept[d] = "absent" <=> row[d] = "absent"
    BY DEF Store!Swept, StoreTypes, Rows, Store!Rows
  <1>2. row[c] = "absent" /\ UNCHANGED job
    BY DEF Store!Reserve
  <1>3. CASE Store!Admits
    <2>1. row' = [Store!Swept EXCEPT ![c] = "live"]
      BY <1>3 DEF Store!Reserve
    <2> QED
      BY <1>1, <1>2, <1>3, <2>1 DEF Keeps, StoreTypes, Rows, Store!Rows
  <1>4. CASE ~Store!Admits
    <2>1. row' = Store!Swept
      BY <1>4 DEF Store!Reserve
    <2> QED
      BY <1>1, <1>2, <2>1 DEF Keeps, StoreTypes
  <1> QED
    BY <1>3, <1>4

\* A call that ends is settled, has no budget, or has no reservation.
LEMMA ExitsKept ==
    ASSUME StoreTypes, ExitInv, Keeps({}), resend \subseteq resend',
           \A d \in Calls : pc'[d] = "new" => pc[d] = "new",
           \A d \in Calls : pc'[d] = "over" =>
              pc[d] = "over" \/ d \notin Budgeted \/ job'[d] # "none"
    PROVE  StoreTypes' /\ ExitInv'
  <1>1. StoreTypes'
    BY DEF Keeps, StoreTypes
  <1>2. ASSUME NEW d \in Calls, pc'[d] = "new" \/ d \notin Budgeted
        PROVE  row'[d] = "absent"
    BY <1>2 DEF ExitInv, Keeps
  <1>3. ASSUME NEW d \in Calls, pc'[d] = "over", row'[d] # "absent"
        PROVE  job'[d] # "none" \/ d \in resend'
    <2>1. d \in Budgeted /\ row[d] # "absent"
      BY <1>2, <1>3 DEF Keeps
    <2> QED
      BY <1>3, <2>1 DEF ExitInv, Keeps
  <1> QED
    BY <1>1, <1>2, <1>3 DEF ExitInv

\* The reservation, whose answer may be lost.
LEMMA ReserveKeepsExits ==
    ASSUME IngressTypes, StoreTypes, ExitInv, NEW c \in Calls, Reserve(c)
    PROVE  StoreTypes' /\ ExitInv'
  <1>1. /\ \A d \in Calls : d # c => pc'[d] = pc[d]
        /\ pc'[c] \in {"admitted", "over"} /\ resend \subseteq resend'
    BY DEF Reserve, GoTo, IngressTypes
  <1>2. CASE c \notin Budgeted
    <2>1. Keeps({})
      BY <1>2, StoreKeeps DEF Reserve
    <2>2. pc'[c] = "admitted"
      BY <1>2 DEF Reserve, GoTo, IngressTypes
    <2> QED
      BY <1>1, <2>1, <2>2, ExitsKept
  <1>3. CASE c \in Budgeted
    <2>1. /\ Store!Reserve(c)
          /\ pc'[c] = "over" => ~Store!Admits \/ c \in resend'
      BY <1>3 DEF Reserve, GoTo, IngressTypes
    <2>2. Keeps({c}) /\ (~Store!Admits => row'[c] = "absent")
      BY <2>1, ReservingKeeps
    <2>3. StoreTypes'
      BY <2>2 DEF Keeps, StoreTypes
    <2>4. ASSUME NEW d \in Calls
          PROVE  /\ pc'[d] = "new" \/ d \notin Budgeted => row'[d] = "absent"
                 /\ pc'[d] = "over" /\ row'[d] # "absent" =>
                      job'[d] # "none" \/ d \in resend'
      <3>1. CASE d = c
        BY <1>1, <1>3, <2>1, <2>2, <3>1
      <3>2. CASE d # c
        <4>1. /\ pc'[d] = pc[d] /\ (row'[d] = "absent" <=> row[d] = "absent")
              /\ (job[d] # "none" => job'[d] # "none")
          BY <1>1, <2>2, <3>2 DEF Keeps
        <4> QED
          BY <1>1, <4>1 DEF ExitInv
      <3> QED
        BY <3>1, <3>2
    <2> QED
      BY <2>3, <2>4 DEF ExitInv
  <1> QED
    BY <1>2, <1>3

\* The steps of one call.
LEMMA StepKeepsExits ==
    ASSUME IngressTypes, PermitInv, TimerInv, StoreTypes, ExitInv,
           NEW c \in Calls, Step(c)
    PROVE  StoreTypes' /\ ExitInv'
  <1>1. CASE Reserve(c)
    BY <1>1, ReserveKeepsExits
  <1>2. CASE \/ AcquireFree(c) \/ Queue(c) \/ Lapse(c) \/ Resume(c) \/ StartStream(c)
             \/ StreamEnds(c) \/ UsageChunk(c) \/ ClientLeft(c) \/ DrainTimeout(c)
    <2>1. UNCHANGED budget /\ UNCHANGED resend
      BY <1>2 DEF AcquireFree, Queue, Lapse, Resume, StartStream, StreamEnds, UsageChunk,
                  ClientLeft, DrainTimeout
    <2>2. \A d \in Calls : pc'[d] = pc[d] \/ pc'[d] \notin {"over", "new"}
      <3>1. CASE Resume(c)
        <4>1. /\ HandOut(c, "forwarding", free[Home[c]], free[Home[c]]) /\ pc[c] # "waiting"
          BY <3>1 DEF Resume, LeaveLine
        <4>2. /\ pc'[c] = "forwarding"
              /\ \A d \in Calls : d # c => pc'[d] = pc[d] \/ pc'[d] = "woken"
          BY <4>1, HandOutMoves
        <4> QED
          BY <4>2
      <3>2. CASE ~Resume(c)
        BY <1>2, <3>2 DEF AcquireFree, Queue, Lapse, StartStream, StreamEnds, UsageChunk,
                          ClientLeft, DrainTimeout, GoTo, IngressTypes
      <3> QED
        BY <3>1, <3>2
    <2>3. Keeps({})
      BY <2>1, StoreKeeps
    <2> QED
      BY <2>1, <2>2, <2>3, ExitsKept
  <1>3. CASE Shed(c) \/ GiveUp(c)
    <2>1. SettleReservation(c, 0) /\ UNCHANGED resend
      BY <1>3 DEF Shed, GiveUp
    <2>2. Keeps({}) /\ (c \in Budgeted => job'[c] # "none")
      BY <2>1, SettlingKeeps
    <2>3. /\ pc'[c] # "new"
          /\ \A d \in Calls : d # c => pc'[d] = pc[d] \/ pc'[d] = "woken"
      <3>1. CASE Shed(c)
        BY <3>1 DEF Shed, GoTo, IngressTypes
      <3>2. CASE GiveUp(c)
        BY <3>2, HandsKeepPermits DEF Hands
      <3> QED
        BY <1>3, <3>1, <3>2
    <2>5. \A d \in Calls : pc'[d] = "new" => pc[d] = "new"
      BY <2>3
    <2>6. \A d \in Calls : pc'[d] = "over" =>
             pc[d] = "over" \/ d \notin Budgeted \/ job'[d] # "none"
      BY <2>2, <2>3
    <2> QED
      BY <2>1, <2>2, <2>5, <2>6, ExitsKept
  <1>4. CASE Buffered(c) \/ Closed(c)
    <2>1. PICK k, bad : Finish(c, k, bad)
      BY <1>4 DEF Buffered, Closed
    <2>2. pc[c] \in {"forwarding", "drained", "broken"}
      BY <1>4 DEF Buffered, Closed
    <2>3. PICK amount : SettleReservation(c, amount) /\ UNCHANGED resend
      BY <2>1 DEF Finish
    <2>4. Keeps({}) /\ (c \in Budgeted => job'[c] # "none")
      BY <2>3, SettlingKeeps
    <2>5. /\ pc'[c] = "over"
          /\ \A d \in Calls : d # c => pc'[d] = pc[d] \/ pc'[d] = "woken"
      BY <2>1, <2>2, FinishMoves
    <2>6. \A d \in Calls : pc'[d] = "new" => pc[d] = "new"
      BY <2>5
    <2>7. \A d \in Calls : pc'[d] = "over" =>
             pc[d] = "over" \/ d \notin Budgeted \/ job'[d] # "none"
      BY <2>4, <2>5
    <2> QED
      BY <2>3, <2>4, <2>6, <2>7, ExitsKept
  <1>5. CASE SettleStep(c) \/ SettleFails(c)
    <2>1. Keeps({})
      BY <1>5, StoreKeeps DEF SettleStep, SettleFails
    <2>2. UNCHANGED <<pc, resend>>
      BY <1>5 DEF SettleStep, SettleFails
    <2> QED
      BY <2>1, <2>2, ExitsKept
  <1>6. CASE TurnedAway(c)
    <2>1. /\ UNCHANGED budget /\ UNCHANGED resend /\ pc[c] = "new"
          /\ pc'[c] = "over" /\ \A d \in Calls : d # c => pc'[d] = pc[d]
      BY <1>6 DEF TurnedAway, GoTo, IngressTypes
    <2>2. Keeps({})
      BY <2>1, StoreKeeps
    <2>3. row[c] = "absent" /\ row' = row /\ job' = job
      BY <2>1 DEF ExitInv, budget
    <2> QED
      BY <2>1, <2>2, <2>3 DEF ExitInv, Keeps, StoreTypes
  <1> QED
    BY <1>1, <1>2, <1>3, <1>4, <1>5, <1>6 DEF Step

\* The same for every step.
LEMMA NextKeepsExits ==
    ASSUME IngressTypes, PermitInv, TimerInv, StoreTypes, ExitInv, [Next]_vars
    PROVE  StoreTypes' /\ ExitInv'
  <1>1. CASE Background \/ UNCHANGED vars
    <2>1. Keeps({})
      BY <1>1, StoreKeeps DEF Background, vars
    <2>2. UNCHANGED <<pc, resend>>
      BY <1>1 DEF Background, vars
    <2> QED
      BY <2>1, <2>2, ExitsKept
  <1>2. ASSUME NEW p \in Replicas, Crash(p)
        PROVE  StoreTypes' /\ ExitInv'
    <2>1. Keeps({})
      <3>1. Store!LoseJobs({d \in Calls : Home[d] = p}) /\ UNCHANGED row
        BY <1>2 DEF Crash
      <3> QED
        BY <3>1, StoreKeeps
    <2>2. UNCHANGED resend
      BY <1>2 DEF Crash
    <2>3. \A d \in Calls : pc'[d] = pc[d] \/ pc'[d] \notin {"over", "new"}
      BY <1>2 DEF Crash
    <2> QED
      BY <2>1, <2>2, <2>3, ExitsKept
  <1> QED
    BY <1>1, <1>2, StepKeepsExits DEF Next

(***************************************************************************)
(* The invariant and what it says.                                         *)
(***************************************************************************)
IngressInv == IngressTypes /\ TimerInv /\ PermitInv /\ StoreTypes /\ ExitInv

\* It holds before the first call.
LEMMA IngressInit == Init => IngressInv
  <1> SUFFICES ASSUME Init PROVE IngressInv
    OBVIOUS
  <1>1. IngressTypes /\ TimerInv
    BY IngressAssumption DEF Init, IngressTypes, TimerInv, Stages
  <1>2. StoreTypes /\ ExitInv
    BY DEF Init, Store!Init, StoreTypes, ExitInv, Rows, Jobs, Store!Rows, Store!Jobs
  <1>3. ASSUME NEW p \in Replicas
        PROVE  Balanced(p, pc, free[p], active[p], pending[p])
    <2>1. \A S \in Counted : {d \in Calls : Home[d] = p /\ pc[d] \in S} = {}
      BY DEF Init, Counted, Holding, Queued, Woken, Asleep
    <2>2. \A S \in Counted : Count(p, pc, S) = 0
      BY <2>1, CountType
    <2>3. free[p] = Permits /\ active[p] = 0 /\ pending[p] = 0
      BY DEF Init
    <2> QED
      BY <2>2, <2>3, FourCounted, IngressAssumption DEF Balanced
  <1> QED
    BY <1>1, <1>2, <1>3 DEF IngressInv, PermitInv

\* What the invariant says of calls that are over is what the property says.
LEMMA ExitsSettle == IngressTypes /\ ExitInv => ExitsSettleUnlessCut
  BY DEF IngressTypes, ExitInv, ExitsSettleUnlessCut

(* Permits, counters and waiters agree with where the calls really are, and *)
(* every way out of a call settles its reservation, for every number of     *)
(* calls, replicas and permits and any length of the queue, through every   *)
(* timeout, disconnect, failed store call and crash (auth_proxy.py, proxy). *)
THEOREM IngressIsSafe == Spec => []IngressHolds
  <1>1. Init => IngressInv
    BY IngressInit
  <1>2. IngressInv /\ [Next]_vars => IngressInv'
    BY NextKeepsPermits, NextKeepsExits DEF IngressInv
  <1>3. IngressInv => IngressHolds
    BY BalanceIsAgreement, ExitsSettle DEF IngressInv, IngressHolds
  <1> QED
    BY <1>1, <1>2, <1>3, PTL DEF Spec

(***************************************************************************)
(* What is booked                                                          *)
(***************************************************************************)
\* Only a settle that was submitted consumes a reservation, so what it books is
\* no longer changed.
BookedInv ==
    /\ spent \in Int /\ cost \in [Calls -> Nat]
    /\ row \in [Calls -> Store!Rows] /\ job \in [Calls -> Store!Jobs]
    /\ \A c \in Calls : row[c] = "consumed" => job[c] # "none"
    /\ BookedOnce

Booked == {c \in Calls : row[c] = "consumed"}

\* As long as the same settles have consumed a reservation, at the same cost, as
\* much is booked.
LEMMA NothingBooked ==
  ASSUME BookedInv, Booked' = Booked, spent' = spent, \A c \in Booked : cost'[c] = cost[c]
  PROVE  BookedOnce'
<1>1. IsFiniteSet(Booked) /\ \A c \in Booked : cost[c] \in Int
  BY BudgetAssumption, FS_Subset DEF Booked, BookedInv
<1>2. SumFunctionOnSet(cost', Booked) = SumFunctionOnSet(cost, Booked)
  BY <1>1, SumSame
<1> QED
  BY <1>2 DEF BookedInv, BookedOnce, Booked

\* A settle books its cost with the row it consumes, or neither.
LEMMA ConsumeBooks ==
  ASSUME BookedInv, NEW c \in Calls, job[c] = "queued", cost' = cost,
         Store!Consume(c) \/ UNCHANGED <<row, spent, over>>
  PROVE  /\ BookedOnce' /\ spent' \in Int /\ row' \in [Calls -> Store!Rows]
         /\ \A d \in Calls : row'[d] = "consumed" => row[d] = "consumed" \/ d = c
<1>1. CASE UNCHANGED <<row, spent, over>>
  <2>1. Booked' = Booked
    BY <1>1 DEF Booked
  <2> QED
    BY <1>1, <2>1, NothingBooked DEF BookedInv
<1>2. CASE Store!Consume(c) /\ row[c] \in {"live", "swept"}
  <2>1. row' = [row EXCEPT ![c] = "consumed"] /\ spent' = spent + cost[c]
    BY <1>2 DEF Store!Consume
  <2>2. Booked' = Booked \cup {c} /\ c \notin Booked
    BY <1>2, <2>1 DEF Booked, BookedInv
  <2>3. IsFiniteSet(Booked') /\ \A d \in Booked' : cost[d] \in Int
    BY BudgetAssumption, FS_Subset DEF Booked, BookedInv
  <2>4. Booked = Booked' \ {c} /\ c \in Booked'
    BY <2>2
  <2>5. PICK B : B = Booked'
    OBVIOUS
  <2>6. SumFunctionOnSet(cost, B) = cost[c] + SumFunctionOnSet(cost, B \ {c})
    BY <2>3, <2>4, <2>5, SumAdds
  <2>7. SumFunctionOnSet(cost, Booked) = spent
    BY DEF BookedInv, BookedOnce, Booked
  <2>8. cost[c] \in Int /\ spent \in Int
    BY DEF BookedInv
  <2>9. spent' = SumFunctionOnSet(cost, B)
    BY <2>1, <2>4, <2>5, <2>6, <2>7, <2>8
  <2>10. BookedOnce'
    BY <2>5, <2>9 DEF BookedOnce, Booked
  <2> QED
    BY <2>1, <2>8, <2>10 DEF BookedInv, Store!Rows
<1>3. CASE Store!Consume(c) /\ row[c] \notin {"live", "swept"}
  BY <1>1, <1>3 DEF Store!Consume
<1> QED
  BY <1>1, <1>2, <1>3

LEMMA BookedStep == BookedInv /\ [Store!Next]_(Store!vars) => BookedInv'
<1> SUFFICES ASSUME BookedInv, [Store!Next]_(Store!vars) PROVE BookedInv'
  OBVIOUS
<1> USE BudgetAssumption
<1>0. /\ spent \in Int /\ cost \in [Calls -> Nat]
      /\ row \in [Calls -> Store!Rows] /\ job \in [Calls -> Store!Jobs]
      /\ \A c \in Calls : row[c] = "consumed" => job[c] # "none"
  BY DEF BookedInv
\* The rows and jobs as they are; the money as it was.
<1>1. ASSUME UNCHANGED <<spent, cost>>, row' \in [Calls -> Store!Rows], job' \in [Calls -> Store!Jobs],
             \A c \in Calls : row'[c] = "consumed" <=> row[c] = "consumed",
             \A c \in Calls : job[c] # "none" => job'[c] # "none"
      PROVE  BookedInv'
  <2>1. Booked' = Booked
    BY <1>1 DEF Booked
  <2>2. BookedOnce'
    BY <1>1, <2>1, NothingBooked
  <2> QED
    BY <1>0, <1>1, <2>2 DEF BookedInv
<1>2. CASE Store!Tick \/ UNCHANGED Store!vars
  BY <1>0, <1>1, <1>2 DEF Store!Tick, Store!vars
<1>3. CASE Store!Prune
  BY <1>0, <1>1, <1>3 DEF Store!Prune, Store!Rows
<1>4. ASSUME NEW c \in Calls, Store!Reserve(c) PROVE BookedInv'
  BY <1>0, <1>1, <1>4 DEF Store!Reserve, Store!Swept, Store!Rows
<1>5. ASSUME NEW c \in Calls, NEW amount \in Owed \cup {0, Amount}, Store!Submit(c, amount)
      PROVE  BookedInv'
  <2>1. /\ job[c] = "none" /\ UNCHANGED <<spent, row>> /\ amount \in Nat
        /\ job' = [job EXCEPT ![c] = "queued"] /\ cost' = [cost EXCEPT ![c] = amount]
    BY <1>5 DEF Store!Submit
  <2>2. Booked' = Booked /\ c \notin Booked
    BY <1>0, <2>1 DEF Booked
  <2>3. BookedOnce'
    BY <1>0, <2>1, <2>2, NothingBooked DEF Booked
  <2> QED
    BY <1>0, <2>1, <2>3 DEF BookedInv, Store!Jobs
<1>6. ASSUME NEW c \in Calls, Store!Settle(c) \/ Store!SettleFails(c) PROVE BookedInv'
  <2>1. /\ job[c] = "queued" /\ cost' = cost
        /\ (Store!Consume(c) \/ UNCHANGED <<row, spent, over>>)
        /\ \E to \in Store!Jobs \ {"none"} : job' = [job EXCEPT ![c] = to]
    BY <1>6 DEF Store!Settle, Store!SettleFails, Store!Jobs
  <2>2. /\ BookedOnce' /\ spent' \in Int /\ row' \in [Calls -> Store!Rows]
        /\ \A d \in Calls : row'[d] = "consumed" => row[d] = "consumed" \/ d = c
    BY <2>1, ConsumeBooks
  <2> QED
    BY <1>0, <2>1, <2>2 DEF BookedInv
<1>7. ASSUME NEW S \in SUBSET Calls, Store!LoseJobs(S), UNCHANGED <<spent, row, cost>> PROVE BookedInv'
  <2>1. job' \in [Calls -> Store!Jobs] /\ \A c \in Calls : job[c] # "none" => job'[c] # "none"
    BY <1>0, <1>7 DEF Store!LoseJobs, Store!Jobs
  <2> QED
    BY <1>0, <1>1, <1>7, <2>1
<1> QED
  BY <1>2, <1>3, <1>4, <1>5, <1>6, <1>7 DEF Store!Next

\* Every settled call is booked once, whatever is retried, late, or given up
\* (host_store.py, settle_subject_budget).
THEOREM IngressBooksOnce == Spec => []BookedOnce
<1>1. Store!Init => BookedInv
  <2> SUFFICES ASSUME Store!Init PROVE BookedInv
    OBVIOUS
  <2>1. Booked = {}
    BY DEF Booked, Store!Init
  <2>2. SumFunctionOnSet(cost, {}) = 0
    BY SumAdds, FS_EmptySet
  <2> QED
    BY <2>1, <2>2 DEF Booked, BookedInv, BookedOnce, Store!Init, Store!Rows, Store!Jobs
<1>2. BookedInv => BookedOnce
  BY DEF BookedInv
<1>3. Store!Spec => []BookedOnce
  BY <1>1, <1>2, BookedStep, PTL DEF Store!Spec
<1> QED
  BY <1>3, IngressImplementsStore, PTL
=============================================================================
