------------------------ MODULE SubjectBudget_proofs ------------------------
(***************************************************************************)
(* The budget of a subject: type correctness, and that what is spent and    *)
(* reserved stays within the limit, for every number of calls, limit,       *)
(* amount, price and time to live, whatever settles late, twice or never.   *)
(***************************************************************************)
EXTENDS SubjectBudget, FiniteSetTheorems, TLAPS

\* A settle that is queued or still to come has attempts left.
RetryInv == \A c \in Calls : job[c] \in {"none", "queued"} => tries[c] < Attempts

BudgetInv == TypeOK /\ RetryInv /\ BudgetHeld

(***************************************************************************)
(* Live reservations.                                                      *)
(***************************************************************************)
\* The calls that hold a reservation are finitely many, and their number never
\* grows as the set shrinks: what the limit is checked against can be compared.
LEMMA LiveCount ==
    ASSUME NEW rows, NEW others, Live(rows) \subseteq Live(others)
    PROVE  /\ IsFiniteSet(Live(rows)) /\ Cardinality(Live(rows)) \in Nat
           /\ Cardinality(Live(others)) \in Nat
           /\ Cardinality(Live(rows)) <= Cardinality(Live(others))
  <1>1. Live(others) \subseteq Calls
    BY DEF Live
  <1>2. IsFiniteSet(Live(others))
    BY <1>1, FS_Subset, BudgetAssumption
  <1> QED
    BY <1>2, FS_Subset, FS_CardinalityType

\* Fewer reservations hold no more money.
LEMMA Holding ==
    ASSUME NEW m \in Nat, NEW n \in Nat, m <= n
    PROVE  /\ Amount * m \in Nat /\ Amount * n \in Nat
           /\ Amount * m <= Amount * n
           /\ Amount * (m + 1) = Amount * m + Amount
  <1>1. Amount \in Nat
    BY BudgetAssumption
  <1> QED
    BY <1>1, SMT

\* A sweep makes no reservation live, and rows stay rows.
LEMMA Sweeping ==
    ASSUME TypeOK
    PROVE  /\ Swept \in [Calls -> Rows]
           /\ Live(Swept) \subseteq Live(row)
           /\ \A c \in Calls : row[c] # "live" => Swept[c] = row[c]
  BY DEF TypeOK, Swept, Live, Rows

(***************************************************************************)
(* Types and retries.                                                      *)
(***************************************************************************)
\* The store starts well typed and within the limit.
THEOREM BudgetInit == Init => BudgetInv
  <1> SUFFICES ASSUME Init PROVE BudgetInv
    OBVIOUS
  <1>1. TypeOK /\ RetryInv
    BY BudgetAssumption DEF Init, TypeOK, Rows, Jobs, RetryInv
  <1>2. Live(row) = {}
    BY DEF Init, Live
  <1>3. Cardinality(Live(row)) = 0
    BY <1>2, FS_EmptySet
  <1>4. BudgetHeld
    BY <1>3, BudgetAssumption, SMT DEF Init, BudgetHeld
  <1> QED
    BY <1>1, <1>4 DEF BudgetInv

\* A reservation keeps the types, whether it is granted or not.
LEMMA ReserveType ==
    ASSUME TypeOK, NEW c \in Calls, Reserve(c), faults' \in {faults, faults - 1}, faults' >= 0
    PROVE  TypeOK'
  <1>1. row' \in [Calls -> Rows]
    BY Sweeping DEF Reserve, Rows
  <1>2. expires' \in [Calls -> Nat]
    BY BudgetAssumption DEF Reserve, TypeOK
  <1> QED
    BY <1>1, <1>2, BudgetAssumption DEF Reserve, TypeOK

\* What a settle consumes keeps the types of rows and money.
LEMMA ConsumeType ==
    ASSUME TypeOK, NEW c \in Calls, Consume(c) \/ UNCHANGED <<row, spent, over>>
    PROVE  row' \in [Calls -> Rows] /\ spent' \in Nat /\ over' \in Nat
  BY BudgetAssumption DEF Consume, TypeOK, Rows

\* Every step keeps the types.
THEOREM BudgetTypes == TypeOK /\ RetryInv /\ [Next]_vars => TypeOK' /\ RetryInv'
  <1> SUFFICES ASSUME TypeOK, RetryInv, [Next]_vars
               PROVE  TypeOK' /\ RetryInv'
    OBVIOUS
  <1> USE BudgetAssumption
  <1>1. CASE Tick
    BY <1>1 DEF Tick, TypeOK, RetryInv
  <1>2. CASE Prune
    <2>1. row' \in [Calls -> Rows]
      BY <1>2 DEF Prune, TypeOK, Rows
    <2> QED
      BY <1>2, <2>1 DEF Prune, TypeOK, RetryInv
  <1>3. ASSUME NEW c \in Calls, Reserve(c), faults' \in {faults, faults - 1}, faults' >= 0
        PROVE  TypeOK' /\ RetryInv'
    <2>1. TypeOK'
      BY <1>3, ReserveType
    <2> QED
      BY <1>3, <2>1 DEF Reserve, RetryInv
  <1>4. ASSUME NEW c \in Calls, NEW amount \in Owed \cup {0, Amount}, Submit(c, amount)
        PROVE  TypeOK' /\ RetryInv'
    <2>1. amount \in Nat
      OBVIOUS
    <2>2. TypeOK'
      BY <1>4, <2>1 DEF Submit, TypeOK, Jobs
    <2>3. RetryInv'
      BY <1>4 DEF Submit, RetryInv, TypeOK
    <2> QED
      BY <2>2, <2>3
  <1>5. ASSUME NEW c \in Calls, Settle(c)
        PROVE  TypeOK' /\ RetryInv'
    <2>1. row' \in [Calls -> Rows] /\ spent' \in Nat /\ over' \in Nat
      BY <1>5, ConsumeType DEF Settle
    <2>2. TypeOK'
      BY <1>5, <2>1 DEF Settle, TypeOK, Jobs
    <2> QED
      BY <1>5, <2>2 DEF Settle, RetryInv, TypeOK
  <1>6. ASSUME NEW c \in Calls, SettleFails(c)
        PROVE  TypeOK' /\ RetryInv'
    <2>1. row' \in [Calls -> Rows] /\ spent' \in Nat /\ over' \in Nat
      BY <1>6, ConsumeType DEF SettleFails
    <2>2. tries[c] < Attempts
      BY <1>6 DEF SettleFails, RetryInv
    <2>3. tries' = [tries EXCEPT ![c] = tries[c] + 1] /\ tries'[c] = tries[c] + 1
      BY <1>6 DEF SettleFails, TypeOK
    <2>4. tries' \in [Calls -> 0..Attempts]
      BY <2>2, <2>3 DEF TypeOK
    <2>5. job' \in [Calls -> Jobs]
      BY <1>6 DEF SettleFails, TypeOK, Jobs
    <2>6. faults' \in 0..MaxFaults
      BY <1>6 DEF SettleFails, TypeOK
    <2>7. TypeOK'
      BY <1>6, <2>1, <2>4, <2>5, <2>6 DEF SettleFails, TypeOK
    <2>8. RetryInv'
      <3> SUFFICES ASSUME NEW d \in Calls, job'[d] \in {"none", "queued"}
                   PROVE  tries'[d] < Attempts
        BY DEF RetryInv
      <3>1. CASE d = c
        BY <1>6, <2>2, <2>3, <3>1 DEF SettleFails, TypeOK
      <3>2. CASE d # c
        BY <1>6, <2>3, <3>2 DEF SettleFails, TypeOK, RetryInv
      <3> QED
        BY <3>1, <3>2
    <2> QED
      BY <2>7, <2>8
  <1>7. ASSUME NEW S \in SUBSET Calls, faults > 0, faults' = faults - 1, LoseJobs(S),
               UNCHANGED <<now, spent, row, expires, cost, tries, over>>
        PROVE  TypeOK' /\ RetryInv'
    <2>1. job' \in [Calls -> Jobs]
      BY <1>7 DEF LoseJobs, TypeOK, Jobs
    <2>2. TypeOK'
      BY <1>7, <2>1 DEF TypeOK
    <2> QED
      BY <1>7, <2>2 DEF LoseJobs, RetryInv
  <1>8. CASE UNCHANGED vars
    BY <1>8 DEF vars, TypeOK, RetryInv
  <1> QED
    BY <1>1, <1>2, <1>3, <1>4, <1>5, <1>6, <1>7, <1>8 DEF Next

(***************************************************************************)
(* The limit.                                                              *)
(***************************************************************************)
\* No step but a grant, a settle and the passing of time touches what counts
\* against the limit, and fewer reservations hold less.
LEMMA Shrinks ==
    ASSUME BudgetInv, spent' = spent, over' = over, Live(row') \subseteq Live(row)
    PROVE  BudgetHeld'
  <1> DEFINE m == Cardinality(Live(row'))
             n == Cardinality(Live(row))
  <1>1. m \in Nat /\ n \in Nat /\ m <= n
    BY LiveCount
  <1>2. Amount * m \in Nat /\ Amount * n \in Nat /\ Amount * m <= Amount * n
    BY <1>1, Holding
  <1>3. spent + Amount * n <= Limit + over /\ spent \in Nat /\ over \in Nat /\ Limit \in Nat
    BY BudgetAssumption DEF BudgetInv, BudgetHeld, TypeOK
  <1>4. BudgetHeld' <=> spent' + Amount * m <= Limit + over'
    BY DEF BudgetHeld
  <1> HIDE DEF m, n
  <1> QED
    BY <1>2, <1>3, <1>4, SMT

\* A grant fits under the limit with every reservation that is still live; a
\* refusal only sweeps.
LEMMA ReserveHeld ==
    ASSUME BudgetInv, NEW c \in Calls, Reserve(c)
    PROVE  BudgetHeld'
  <1>1. TypeOK /\ spent' = spent /\ over' = over
    BY DEF BudgetInv, Reserve
  <1>2. CASE ~Admits
    <2>1. Live(row') \subseteq Live(row)
      BY <1>1, <1>2, Sweeping DEF Reserve
    <2> QED
      BY <1>1, <2>1, Shrinks
  <1>3. CASE Admits
    <2> DEFINE old == Live(Swept)
               n == Cardinality(old)
    <2>1. IsFiniteSet(old) /\ n \in Nat
      BY LiveCount
    <2>2. c \notin old
      BY <1>1, Sweeping DEF Live, Reserve
    <2>3. Live(row') = old \cup {c}
      BY <1>1, <1>3, Sweeping DEF Live, Reserve
    <2>4. Cardinality(Live(row')) = n + 1
      BY <2>1, <2>2, <2>3, FS_AddElement
    <2>5. Amount * (n + 1) = Amount * n + Amount /\ Amount * n \in Nat
      BY <2>1, Holding
    <2>6. spent + Amount * n + Amount <= Limit
      BY <1>3 DEF Admits
    <2>7. spent \in Nat /\ over \in Nat /\ Limit \in Nat /\ Amount \in Nat
      BY <1>1, BudgetAssumption DEF TypeOK
    <2>8. BudgetHeld' <=> spent + Amount * (n + 1) <= Limit + over
      BY <1>1, <2>4 DEF BudgetHeld
    <2> HIDE DEF n
    <2> QED
      BY <2>5, <2>6, <2>7, <2>8, SMT
  <1> QED
    BY <1>2, <1>3

\* A settle frees the amount of a live reservation and books the cost; what the
\* cost exceeds it by, or was swept before, is known as booked beyond.
LEMMA ConsumeHeld ==
    ASSUME BudgetInv, NEW c \in Calls, Consume(c)
    PROVE  BudgetHeld'
  <1>1. TypeOK /\ cost[c] \in Nat /\ spent \in Nat /\ over \in Nat
    BY DEF BudgetInv, TypeOK
  <1>2. CASE row[c] \notin {"live", "swept"}
    <2>1. spent' = spent /\ over' = over /\ row' = row
      BY <1>2 DEF Consume
    <2> QED
      BY <2>1, Shrinks
  <1>3. CASE row[c] = "swept"
    <2>1. spent' = spent + cost[c] /\ over' = over + cost[c]
      BY <1>3 DEF Consume
    <2>2. Live(row') = Live(row)
      BY <1>1, <1>3 DEF Consume, Live, TypeOK
    <2>3. Cardinality(Live(row)) \in Nat
      BY LiveCount
    <2> DEFINE held == Amount * Cardinality(Live(row))
    <2>4. held \in Nat /\ spent + held <= Limit + over /\ Limit \in Nat
      BY <2>3, Holding, BudgetAssumption DEF BudgetInv, BudgetHeld
    <2>5. BudgetHeld' <=> spent' + held <= Limit + over'
      BY <2>2 DEF BudgetHeld
    <2> HIDE DEF held
    <2> QED
      BY <1>1, <2>1, <2>4, <2>5, SMT
  <1>4. CASE row[c] = "live"
    <2> DEFINE n == Cardinality(Live(row))
               m == Cardinality(Live(row'))
               beyond == IF cost[c] > Amount THEN cost[c] - Amount ELSE 0
    <2>1. spent' = spent + cost[c] /\ over' = over + beyond
      BY <1>4 DEF Consume
    <2>2. c \in Live(row) /\ Live(row') = Live(row) \ {c}
      BY <1>1, <1>4 DEF Consume, Live, TypeOK
    <2>3. IsFiniteSet(Live(row)) /\ n \in Nat
      BY LiveCount
    <2>4. m \in Nat /\ n = m + 1
      <3>1. m = n - 1
        BY <2>2, <2>3, FS_RemoveElement
      <3>2. m \in Nat
        BY <2>2, LiveCount
      <3> QED
        BY <2>3, <3>1, <3>2
    <2>5. Amount * n = Amount * m + Amount /\ Amount * m \in Nat
      BY <2>4, Holding
    <2>6. spent + Amount * n <= Limit + over /\ Limit \in Nat /\ Amount \in Nat
      BY BudgetAssumption DEF BudgetInv, BudgetHeld
    <2>7. BudgetHeld' <=> spent' + Amount * m <= Limit + over'
      BY DEF BudgetHeld
    <2>8. beyond \in Nat /\ beyond + Amount >= cost[c]
      BY <1>1, BudgetAssumption
    <2> HIDE DEF n, m, beyond
    <2> QED
      BY <1>1, <2>1, <2>5, <2>6, <2>7, <2>8, SMT
  <1> QED
    BY <1>2, <1>3, <1>4

\* Every step keeps the limit.
THEOREM BudgetStep == BudgetInv /\ [Next]_vars => BudgetHeld'
  <1> SUFFICES ASSUME BudgetInv, [Next]_vars PROVE BudgetHeld'
    OBVIOUS
  <1>1. CASE Tick
    BY <1>1, Shrinks DEF Tick
  <1>2. CASE Prune
    <2>1. spent' = spent /\ over' = over /\ Live(row') \subseteq Live(row)
      BY <1>2 DEF Prune, Live
    <2> QED
      BY <2>1, Shrinks
  <1>3. ASSUME NEW c \in Calls, Reserve(c) PROVE BudgetHeld'
    BY <1>3, ReserveHeld
  <1>4. ASSUME NEW c \in Calls, NEW amount, Submit(c, amount) PROVE BudgetHeld'
    BY <1>4, Shrinks DEF Submit
  <1>5. ASSUME NEW c \in Calls, Settle(c) PROVE BudgetHeld'
    BY <1>5, ConsumeHeld DEF Settle
  <1>6. ASSUME NEW c \in Calls, SettleFails(c) PROVE BudgetHeld'
    <2>1. CASE Consume(c)
      BY <2>1, ConsumeHeld
    <2>2. CASE UNCHANGED <<row, spent, over>>
      BY <2>2, Shrinks
    <2> QED
      BY <1>6, <2>1, <2>2 DEF SettleFails
  <1>7. CASE UNCHANGED <<row, spent, over>>
    BY <1>7, Shrinks
  <1> QED
    BY <1>1, <1>2, <1>3, <1>4, <1>5, <1>6, <1>7 DEF Next, vars

\* The inductive invariant: types, attempts left, and the limit.
THEOREM BudgetInvariant == Spec => []BudgetInv
  <1>1. BudgetInv /\ [Next]_vars => BudgetInv'
    BY BudgetTypes, BudgetStep DEF BudgetInv
  <1> QED
    BY BudgetInit, <1>1, PTL DEF Spec

\* However many replicas reserve, settle late or fail, what is spent and held
\* stays within the limit, but for what calls cost beyond their reservation.
THEOREM BudgetIsHeld == Spec => []BudgetHeld
  <1>1. BudgetInv => BudgetHeld
    BY DEF BudgetInv
  <1> QED
    BY BudgetInvariant, <1>1, PTL

\* The store and its settling pool stay well typed.
THEOREM BudgetTyped == Spec => []TypeOK
  <1>1. BudgetInv => TypeOK
    BY DEF BudgetInv
  <1> QED
    BY BudgetInvariant, <1>1, PTL
=============================================================================
