-------------------------- MODULE Routing_proofs --------------------------
(***************************************************************************)
(* What answers an admitted call, for every value of the constants: each   *)
(* component of MCRouting with the inductive invariant of its own          *)
(* specification and the property the run checks of it.                    *)
(***************************************************************************)
EXTENDS MCRouting, FoldTheorems, FiniteSetTheorems, SequenceTheorems, TLAPS

(***************************************************************************)
(* The choice of a policy (AutoPolicy)                                     *)
(***************************************************************************)
\* Where a request with an automatic policy is at.
Stages == {"start", "asking", "sending", "pausing", "proposed", "chosen", "refused"}
\* The stages after its decision.
Decided == {"proposed", "chosen", "refused"}

\* What the result tells of the decision's cost at each stage: nothing is charged
\* before it is sent, and after the decision a told cost is what was charged.
CostBacked ==
    /\ stage = "start" => cost = 0 /\ choice = General
    /\ stage \in {"start", "asking"} => charged = 0 /\ ~unmetered
    /\ stage \in {"asking", "sending", "pausing"} => cost = -1
    /\ stage = "sending" /\ ~unmetered => charged = 0
    /\ stage = "pausing" => unmetered
    /\ stage \in Decided /\ cost # -1 => cost = charged

\* Another policy than the general one was advised, surely, of those shown.
ChoiceBacked ==
    /\ choice # General =>
           mode = "active" /\ choice \in shown /\ advice = [choice |-> choice, sure |-> TRUE]
    /\ stage = "chosen" => choice \in legal

\* All of it.
PolicyInv ==
    /\ stage \in Stages /\ unmetered \in BOOLEAN /\ charged \in Nat
    /\ CostBacked /\ ChoiceBacked

\* A request begins with the general policy and nothing charged.
LEMMA PolicyStart == Policy!Init => PolicyInv
<1> SUFFICES ASSUME Policy!Init PROVE PolicyInv
  OBVIOUS
<1> USE DEF Policy!Init
<1>1. stage \in Stages /\ unmetered \in BOOLEAN /\ charged \in Nat
  BY DEF Stages
<1>2. CostBacked
  BY Zenon DEF CostBacked, Decided
<1>3. ChoiceBacked
  BY Zenon DEF ChoiceBacked
<1> QED
  BY <1>1, <1>2, <1>3 DEF PolicyInv

\* Asking, sending, pausing and choosing keep cost and choice backed.
LEMMA PolicyStep == PolicyInv /\ [Policy!Next]_(Policy!vars) => PolicyInv'
<1> SUFFICES ASSUME PolicyInv, [Policy!Next]_(Policy!vars) PROVE PolicyInv'
  OBVIOUS
<1> USE DEF PolicyInv, CostBacked, ChoiceBacked, Stages, Decided
<1>1. CASE Policy!Shift
  BY <1>1 DEF Policy!Shift, Policy!Over
<1>2. CASE Policy!Start
  BY <1>2 DEF Policy!Start, Policy!Unknown
<1>3. CASE Policy!Unsent
  BY <1>3 DEF Policy!Unsent
<1>4. CASE Policy!Send
  BY <1>4 DEF Policy!Send
<1>5. CASE Policy!AttemptFails
  <2>1. charged' \in Nat
    BY <1>5 DEF Policy!AttemptFails, Policy!Prices
  <2>2. stage = "sending" /\ cost' = cost /\ cost = -1
    BY <1>5 DEF Policy!AttemptFails
  <2>3. CASE stage' = "pausing" /\ unmetered' = TRUE
    BY <1>5, <2>1, <2>2, <2>3, Zenon DEF Policy!AttemptFails
  <2>4. CASE stage' = "proposed" /\ unmetered' = unmetered
    BY <1>5, <2>1, <2>2, <2>4, Zenon DEF Policy!AttemptFails
  <2> QED
    BY <1>5, <2>3, <2>4, Zenon DEF Policy!AttemptFails
<1>6. CASE Policy!Answered
  BY <1>6 DEF Policy!Answered, Policy!Prices, Policy!CostOf, Policy!Unknown
<1>7. CASE Policy!TimedOut
  BY <1>7 DEF Policy!TimedOut, Policy!Prices
<1>8. CASE Policy!Choose
  BY <1>8 DEF Policy!Choose
<1>9. CASE Policy!Tick
  BY <1>9 DEF Policy!Tick
<1>10. CASE UNCHANGED Policy!vars
  BY <1>10 DEF Policy!vars
<1> QED
  BY <1>1, <1>2, <1>3, <1>4, <1>5, <1>6, <1>7, <1>8, <1>9, <1>10 DEF Policy!Next

\* The policy that runs is legal when it is chosen, and what choosing it cost is
\* told in full or not at all, with retries, a deadline and policies that become
\* illegal between the question and its answer (policy_selection.py, select_policy;
\* decision_providers/jev.py).
THEOREM PolicyHeld == Policy!Spec => []PolicyHolds
<1>1. PolicyInv => PolicyHolds
  BY DEF PolicyInv, CostBacked, ChoiceBacked, Decided, PolicyHolds, Policy!PolicyHolds,
         Policy!CostTold, Policy!ChosenRuns, Policy!Over, Policy!Unknown
<1> QED
  BY <1>1, PolicyStart, PolicyStep, PTL DEF Policy!Spec

(***************************************************************************)
(* The money behind the offers (FundingGate)                               *)
(***************************************************************************)
\* What the variables may hold.
MoneyTyped ==
    /\ clock \in Nat /\ written \in Int /\ written <= clock /\ since \in Nat /\ since <= clock
    /\ row \in [at : Nat, available : {0, 1, -1}] /\ credits \in {0, 1} /\ balance \in {0, 1}
    /\ refresh \in {"down", "asleep", "refreshing"} /\ escrow \in {0, 1}

\* The task that refreshes the balances sleeps no longer than its poll, and no
\* refresh takes longer than its calls may.
TaskOnTime ==
    /\ refresh = "asleep" => clock - since <= PollPeriod
    /\ refresh = "refreshing" => clock - since <= RefreshTime

\* A row that says money is available was written when it was, no longer before
\* its own time stamp than the clocks of the two machines differ.
RowProves == row.available = 1 /\ ~doubted => written >= 0 /\ row.at - written <= Skew /\ written <= row.at

\* What the router was told of money is backed by a row that old: at each stage
\* of the task the age a row may have is one term larger.
CreditsProven ==
  ~doubted =>
    /\ refresh = "down" => credits = 0
    /\ refresh = "asleep" /\ credits = 1 =>
          written >= 0 /\ since - written <= StaleAfter + Skew + RefreshTime
    /\ refresh = "refreshing" /\ balance = 1 => written >= 0 /\ since - written <= StaleAfter + Skew
    /\ refresh = "refreshing" /\ credits = 1 => 
          written >= 0 /\ since - written <= StaleAfter + Skew + RefreshTime + PollPeriod

\* All of it.
MoneyInv == MoneyTyped /\ TaskOnTime /\ RowProves /\ CreditsProven

\* A stopped router has no credits and no row.
LEMMA MoneyStart == Money!Init => MoneyInv
<1> SUFFICES ASSUME Money!Init PROVE MoneyInv
  OBVIOUS
<1>1. MoneyTyped
  BY DEF Money!Init, MoneyTyped, Money!Balance, Money!NoRow
<1>2. TaskOnTime /\ RowProves /\ CreditsProven
  BY DEF Money!Init, TaskOnTime, RowProves, CreditsProven, Money!NoRow
<1> QED
  BY <1>1, <1>2 DEF MoneyInv

\* A fresh row that says money is available was written within both limits.
LEMMA ProvableIsWritten ==
  ASSUME MoneyInv
  PROVE  /\ Money!Provable \in {0, 1}
         /\ Money!Provable = 1 /\ ~doubted => written >= 0 /\ clock - written <= StaleAfter + Skew
  BY MoneyAssumption DEF MoneyInv, MoneyTyped, RowProves, Money!Provable, Money!IsFresh

\* The escrow, the status writer and the refreshing task keep the ages.
LEMMA MoneyStep == MoneyInv /\ [Money!Next]_(Money!vars) => MoneyInv'
<1> SUFFICES ASSUME MoneyInv, [Money!Next]_(Money!vars) PROVE MoneyInv'
  OBVIOUS
<1> USE MoneyAssumption DEF MoneyInv, MoneyTyped, TaskOnTime, RowProves, CreditsProven
<1>1. CASE Money!Settle
  BY <1>1 DEF Money!Settle
<1>2. CASE Money!WriteRow
  <2>1. PICK ahead \in 0..(Skew + 1), amount \in {escrow, -1} :
             /\ row' = [at |-> clock + ahead, available |-> amount]
             /\ written' = IF amount = 1 THEN clock ELSE written
             /\ doubted' = (doubted \/ ahead > Skew)
    BY <1>2, Zenon DEF Money!WriteRow, Money!Unread
  <2>2. ~doubted' => ~doubted /\ ~(ahead > Skew)
    BY <2>1, Zenon
  <2>3. UNCHANGED <<clock, escrow, credits, refresh, balance, since>>
    BY <1>2 DEF Money!WriteRow
  <2>4. MoneyTyped' /\ TaskOnTime'
    BY <2>1, <2>2, <2>3
  <2>5. row'.at = clock + ahead /\ row'.available = amount
    BY <2>1
  <2>6. RowProves' /\ CreditsProven'
    <3>1. written' = IF amount = 1 THEN clock ELSE written
      BY <2>1
    <3> QED
      BY <3>1, <2>2, <2>3, <2>5
  <2> QED
    BY <2>4, <2>6
<1>3. CASE Money!Start
  BY <1>3, ProvableIsWritten DEF Money!Start
<1>4. CASE Money!Stop
  BY <1>4 DEF Money!Stop
<1>5. CASE Money!Read
  BY <1>5, ProvableIsWritten DEF Money!Read
<1>6. CASE Money!Push
  BY <1>6 DEF Money!Push
<1>7. CASE Money!TickFails
  BY <1>7 DEF Money!TickFails
<1>8. CASE Money!Tick
  BY <1>8 DEF Money!Tick, Money!Due
<1>9. CASE UNCHANGED Money!vars
  BY <1>9 DEF Money!vars
<1> QED
  BY <1>1, <1>2, <1>3, <1>4, <1>5, <1>6, <1>7, <1>8, <1>9 DEF Money!Next

\* Paid offers are routable only on money lately seen: the row behind the credits
\* is no older than its own limit, the clocks' difference, one poll and two
\* refreshes, unless a refresh failed (sources/__init__.py, refresh_once and
\* push_credits; sources/antseed.py, balances).
THEOREM MoneyProven == Money!Spec => []MoneyProvenUnlessExcused
<1>1. MoneyInv => MoneyProvenUnlessExcused
  BY MoneyAssumption DEF MoneyInv, MoneyTyped, CreditsProven, TaskOnTime, MoneyProvenUnlessExcused, Money!MoneyProvenUnlessExcused,
         Money!Eligible
<1> QED
  BY <1>1, MoneyStart, MoneyStep, PTL DEF Money!Spec

(***************************************************************************)
(* The cap on the calls to a peer (PeerLeases)                             *)
(***************************************************************************)
USE DEF Leases!rows, Leases!local

\* What the variables may hold.
LeaseTyped ==
    /\ clock \in Nat /\ shared \in BOOLEAN
    /\ call \in [PeerCalls -> Leases!Stages] /\ over \in [PeerCalls -> Nat]
    /\ lease \in [PeerCalls -> Nat \cup {-1}]
    /\ beat \in [PeerCalls -> Nat \cup {-1}]
    /\ gate \in Nat /\ gates \in Nat /\ stamp \in Nat
    /\ mine \in [PeerCalls -> Nat] /\ looked \in [PeerCalls -> Nat]

\* A row expires a full time to live after the last beat that renewed it, and no
\* beat is overdue.
LeasesFresh == \A c \in PeerCalls :
    /\ over[c] <= clock /\ lease[c] <= clock + LeaseTTL
    /\ beat[c] # -1 => /\ clock <= beat[c] /\ beat[c] <= clock + Beat
                       /\ lease[c] = beat[c] + (LeaseTTL - Beat)

\* What each stage of a call says of its row: a call that runs renews it, or has
\* lapsed; one that ended leaves it for at most a time to live.
LeasesOwned == \A c \in PeerCalls :
    /\ call[c] \in {"asking", "cancelled", "releasing"} => shared
    /\ call[c] \in {"idle", "asking", "polling", "cancelled"} => lease[c] = -1 /\ beat[c] = -1
    /\ call[c] = "releasing" => beat[c] = -1
    /\ call[c] = "done" => beat[c] = -1 /\ lease[c] <= over[c] + LeaseTTL
    /\ shared /\ call[c] \in {"running", "closing"} => beat[c] # -1 \/ c \in lapsed
    /\ ~shared => lease[c] = -1 /\ beat[c] = -1

\* A call of the process-local gate uses the present gate, unless it looked so
\* long ago that the gate may have been replaced.
GatesKept ==
  ~shared =>
    /\ gate <= gates
    /\ \A c \in PeerCalls :
        /\ mine[c] <= gates
        /\ call[c] # "idle" => looked[c] <= stamp /\ looked[c] <= clock
        /\ call[c] \in {"polling", "running", "closing"} =>
              (mine[c] = gate /\ gate # 0) \/ clock - looked[c] > GateTTL

\* The cap, of rows in the store.
RowsCapped == Cardinality(Leases!Unexpired) <= PeerCap
\* The cap, of every gate the process has made.
GatesCapped == ~shared => \A g \in Nat : Cardinality(Leases!Users(g)) <= PeerCap

\* All of it.
LeaseInv == LeaseTyped /\ LeasesFresh /\ LeasesOwned /\ GatesKept /\ RowsCapped /\ GatesCapped

\* Cardinality inside the instance is the one the library's theorems are about.
LEMMA LeaseCount == \A S : Leases!Cardinality(S) = Cardinality(S)
  BY DEF Leases!Cardinality, Cardinality

\* Sets of calls are finite and count as one expects.
LEMMA SomeCalls ==
    ASSUME NEW S \in SUBSET PeerCalls
    PROVE  /\ IsFiniteSet(S) /\ Cardinality(S) \in Nat
           /\ \A T \in SUBSET S : Cardinality(T) <= Cardinality(S)
  <1>1. IsFiniteSet(S)
    BY LeaseAssumption, FS_Subset
  <1> QED
    BY <1>1, FS_Subset, FS_CardinalityType

\* One call more than a set below the cap does not exceed the cap.
LEMMA OneCallMore ==
    ASSUME NEW S \in SUBSET PeerCalls, NEW T \in SUBSET PeerCalls, NEW c \in PeerCalls,
           T \subseteq S \cup {c}, Cardinality(S) < PeerCap
    PROVE  Cardinality(T) <= PeerCap
  <1>1. IsFiniteSet(S) /\ Cardinality(S) \in Nat
    BY SomeCalls
  <1>2. Cardinality(S \cup {c}) <= Cardinality(S) + 1
    <2>1. CASE c \in S
      <3>1. Cardinality(S \cup {c}) = Cardinality(S)
        <4>1. S \cup {c} = S
          BY <2>1
        <4> QED
          BY <4>1, Zenon
      <3> QED
        BY <1>1, <3>1
    <2>2. CASE c \notin S
      <3>1. Cardinality(S \cup {c}) = Cardinality(S) + 1
        BY <1>1, <2>2, FS_AddElement
      <3> QED
        BY <1>1, <3>1
    <2> QED
      BY <2>1, <2>2
  <1>3. Cardinality(T) <= Cardinality(S \cup {c}) /\ Cardinality(T) \in Nat
    BY SomeCalls
  <1>4. Cardinality(S \cup {c}) \in Nat
    BY SomeCalls
  <1> QED
    BY <1>1, <1>2, <1>3, <1>4, LeaseAssumption

\* No call holds a slot at first.
LEMMA LeaseStart == Leases!Init => LeaseInv
<1> SUFFICES ASSUME Leases!Init PROVE LeaseInv
  OBVIOUS
<1> USE LeaseAssumption DEF Leases!Init, Leases!NoRow, Leases!Off
<1>1. LeaseTyped
  BY DEF LeaseTyped, Leases!Stages
<1>2. LeasesFresh
  BY DEF LeasesFresh
<1>3. LeasesOwned
  BY DEF LeasesOwned
<1>4. GatesKept
  BY DEF GatesKept
<1>5. Cardinality({}) = 0
  BY FS_EmptySet
<1>6. Leases!Unexpired = {}
  BY DEF Leases!Unexpired
<1>7. \A g \in Nat : Leases!Users(g) = {}
  BY DEF Leases!Users
<1>8. RowsCapped /\ GatesCapped
  BY <1>5, <1>6, <1>7 DEF RowsCapped, GatesCapped
<1> QED
  BY <1>1, <1>2, <1>3, <1>4, <1>8 DEF LeaseInv

\* The cap on rows survives a step that adds none.
LEMMA LeaseRowsKept ==
    ASSUME LeaseInv, Leases!Unexpired' \subseteq Leases!Unexpired
    PROVE  RowsCapped'
  <1>1. Leases!Unexpired \in SUBSET PeerCalls
    BY DEF Leases!Unexpired
  <1>2. Cardinality(Leases!Unexpired') <= Cardinality(Leases!Unexpired)
        /\ Cardinality(Leases!Unexpired) \in Nat
    BY <1>1, SomeCalls
  <1>3. Cardinality(Leases!Unexpired') \in Nat
    BY <1>1, SomeCalls
  <1> QED
    BY <1>2, <1>3, LeaseAssumption DEF RowsCapped, LeaseInv

\* The cap on gates survives a step that gives none of them a user.
LEMMA LeaseUsersKept ==
    ASSUME LeaseInv, shared' = shared,
           \A g \in Nat : Leases!Users(g)' \subseteq Leases!Users(g)
    PROVE  GatesCapped'
  <1> SUFFICES ASSUME ~shared, NEW g \in Nat
               PROVE  Cardinality(Leases!Users(g)') <= PeerCap
    BY DEF GatesCapped
  <1>1. Leases!Users(g) \in SUBSET PeerCalls
    BY DEF Leases!Users
  <1>2. Cardinality(Leases!Users(g)') <= Cardinality(Leases!Users(g))
        /\ Cardinality(Leases!Users(g)) \in Nat
    BY <1>1, SomeCalls
  <1>3. Cardinality(Leases!Users(g)') \in Nat
    BY <1>1, SomeCalls
  <1> QED
    BY <1>2, <1>3, LeaseAssumption DEF GatesCapped, LeaseInv

\* Asking, polling, beating, releasing, cancelling and the clock keep the cap.
LEMMA LeaseStep == LeaseInv /\ [Leases!Next]_(Leases!vars) => LeaseInv'
<1> SUFFICES ASSUME LeaseInv, [Leases!Next]_(Leases!vars) PROVE LeaseInv'
  OBVIOUS
<1> USE LeaseAssumption DEF Leases!NoRow, Leases!Off, Leases!GoTo, Leases!End
<1>a. LeaseTyped /\ LeasesFresh /\ LeasesOwned /\ GatesKept
  BY DEF LeaseInv
<1>1. CASE Leases!Tick
  <2> USE DEF Leases!Tick
  <2>1. LeaseTyped'
    BY <1>1, <1>a DEF LeaseTyped
  <2>2. LeasesFresh'
    BY <1>1, <1>a DEF LeaseTyped, LeasesFresh
  <2>3. LeasesOwned'
    BY <1>1, <1>a DEF LeaseTyped, LeasesOwned
  <2>4. GatesKept'
    BY <1>1, <1>a DEF LeaseTyped, GatesKept
  <2>5. RowsCapped'
    <3>1. Leases!Unexpired' \subseteq Leases!Unexpired
      BY <1>1, <1>a DEF Leases!Unexpired, LeaseTyped
    <3> QED
      BY <3>1, LeaseRowsKept
  <2>6. GatesCapped'
    <3>1. \A g \in Nat : Leases!Users(g)' \subseteq Leases!Users(g)
      BY <1>1 DEF Leases!Users
    <3> QED
      BY <1>1, <3>1, LeaseUsersKept
  <2> QED
    BY <2>1, <2>2, <2>3, <2>4, <2>5, <2>6 DEF LeaseInv
<1>2. ASSUME NEW c \in PeerCalls, Leases!Ask(c) PROVE LeaseInv'
  <2> USE <1>2 DEF Leases!Ask
  <2>1. LeaseTyped'
    BY <1>a DEF LeaseTyped, Leases!Stages
  <2>2. LeasesFresh'
    BY <1>a DEF LeaseTyped, LeasesFresh
  <2>3. LeasesOwned'
    BY <1>a DEF LeaseTyped, LeasesFresh, LeasesOwned
  <2>4. GatesKept'
    BY <1>a DEF LeaseTyped, LeasesOwned, GatesKept
  <2>5. RowsCapped'
    <3>1. Leases!Unexpired' \subseteq Leases!Unexpired
      BY <1>a DEF Leases!Unexpired, LeaseTyped, LeasesFresh
    <3> QED
      BY <3>1, LeaseRowsKept
  <2>6. GatesCapped'
    <3>1. \A g \in Nat : Leases!Users(g)' \subseteq Leases!Users(g)
      BY <1>a DEF Leases!Users, LeaseTyped
    <3> QED
      BY <3>1, LeaseUsersKept
  <2> QED
    BY <2>1, <2>2, <2>3, <2>4, <2>5, <2>6 DEF LeaseInv
<1>3. ASSUME NEW c \in PeerCalls, Leases!StoreFails(c) PROVE LeaseInv'
  <2> USE <1>3 DEF Leases!StoreFails
  <2>1. LeaseTyped'
    BY <1>a DEF LeaseTyped, Leases!Stages
  <2>2. LeasesFresh'
    BY <1>a DEF LeaseTyped, LeasesFresh
  <2>3. LeasesOwned'
    BY <1>a DEF LeaseTyped, LeasesFresh, LeasesOwned
  <2>4. GatesKept'
    BY <1>a DEF LeaseTyped, LeasesOwned, GatesKept
  <2>5. RowsCapped'
    <3>1. Leases!Unexpired' \subseteq Leases!Unexpired
      BY <1>a DEF Leases!Unexpired, LeaseTyped, LeasesFresh
    <3> QED
      BY <3>1, LeaseRowsKept
  <2>6. GatesCapped'
    <3>1. \A g \in Nat : Leases!Users(g)' \subseteq Leases!Users(g)
      BY <1>a DEF Leases!Users, LeaseTyped
    <3> QED
      BY <3>1, LeaseUsersKept
  <2> QED
    BY <2>1, <2>2, <2>3, <2>4, <2>5, <2>6 DEF LeaseInv
<1>4. ASSUME NEW c \in PeerCalls, Leases!Cancel(c) PROVE LeaseInv'
  <2> USE <1>4 DEF Leases!Cancel
  <2>1. LeaseTyped'
    BY <1>a DEF LeaseTyped, Leases!Stages
  <2>2. LeasesFresh'
    BY <1>a DEF LeaseTyped, LeasesFresh
  <2>3. LeasesOwned'
    BY <1>a DEF LeaseTyped, LeasesFresh, LeasesOwned
  <2>4. GatesKept'
    BY <1>a DEF LeaseTyped, LeasesOwned, GatesKept
  <2>5. RowsCapped'
    <3>1. Leases!Unexpired' \subseteq Leases!Unexpired
      BY <1>a DEF Leases!Unexpired, LeaseTyped, LeasesFresh
    <3> QED
      BY <3>1, LeaseRowsKept
  <2>6. GatesCapped'
    <3>1. \A g \in Nat : Leases!Users(g)' \subseteq Leases!Users(g)
      BY <1>a DEF Leases!Users, LeaseTyped
    <3> QED
      BY <3>1, LeaseUsersKept
  <2> QED
    BY <2>1, <2>2, <2>3, <2>4, <2>5, <2>6 DEF LeaseInv
<1>5. ASSUME NEW c \in PeerCalls, Leases!RenewFails(c) PROVE LeaseInv'
  <2> USE <1>5 DEF Leases!RenewFails
  <2>1. LeaseTyped'
    BY <1>a DEF LeaseTyped, Leases!Stages
  <2>2. LeasesFresh'
    BY <1>a DEF LeaseTyped, LeasesFresh
  <2>3. LeasesOwned'
    BY <1>a DEF LeaseTyped, LeasesFresh, LeasesOwned
  <2>4. GatesKept'
    BY <1>a DEF LeaseTyped, LeasesOwned, GatesKept
  <2>5. RowsCapped'
    <3>1. Leases!Unexpired' \subseteq Leases!Unexpired
      BY <1>a DEF Leases!Unexpired, LeaseTyped, LeasesFresh
    <3> QED
      BY <3>1, LeaseRowsKept
  <2>6. GatesCapped'
    <3>1. \A g \in Nat : Leases!Users(g)' \subseteq Leases!Users(g)
      BY <1>a DEF Leases!Users, LeaseTyped
    <3> QED
      BY <3>1, LeaseUsersKept
  <2> QED
    BY <2>1, <2>2, <2>3, <2>4, <2>5, <2>6 DEF LeaseInv
<1>6. ASSUME NEW c \in PeerCalls, Leases!Saturated(c) PROVE LeaseInv'
  <2> USE <1>6 DEF Leases!Saturated
  <2>1. LeaseTyped'
    BY <1>a DEF LeaseTyped, Leases!Stages
  <2>2. LeasesFresh'
    BY <1>a DEF LeaseTyped, LeasesFresh
  <2>3. LeasesOwned'
    BY <1>a DEF LeaseTyped, LeasesFresh, LeasesOwned
  <2>4. GatesKept'
    BY <1>a DEF LeaseTyped, LeasesOwned, GatesKept
  <2>5. RowsCapped'
    <3>1. Leases!Unexpired' \subseteq Leases!Unexpired
      BY <1>a DEF Leases!Unexpired, LeaseTyped, LeasesFresh
    <3> QED
      BY <3>1, LeaseRowsKept
  <2>6. GatesCapped'
    <3>1. \A g \in Nat : Leases!Users(g)' \subseteq Leases!Users(g)
      BY <1>a DEF Leases!Users, LeaseTyped
    <3> QED
      BY <3>1, LeaseUsersKept
  <2> QED
    BY <2>1, <2>2, <2>3, <2>4, <2>5, <2>6 DEF LeaseInv
<1>7. ASSUME NEW c \in PeerCalls, Leases!Finish(c) PROVE LeaseInv'
  <2> USE <1>7 DEF Leases!Finish
  <2>1. LeaseTyped'
    BY <1>a DEF LeaseTyped, Leases!Stages
  <2>2. LeasesFresh'
    BY <1>a DEF LeaseTyped, LeasesFresh
  <2>3. LeasesOwned'
    BY <1>a DEF LeaseTyped, LeasesFresh, LeasesOwned
  <2>4. GatesKept'
    BY <1>a DEF LeaseTyped, LeasesOwned, GatesKept
  <2>5. RowsCapped'
    <3>1. Leases!Unexpired' \subseteq Leases!Unexpired
      BY <1>a DEF Leases!Unexpired, LeaseTyped, LeasesFresh
    <3> QED
      BY <3>1, LeaseRowsKept
  <2>6. GatesCapped'
    <3>1. \A g \in Nat : Leases!Users(g)' \subseteq Leases!Users(g)
      BY <1>a DEF Leases!Users, LeaseTyped
    <3> QED
      BY <3>1, LeaseUsersKept
  <2> QED
    BY <2>1, <2>2, <2>3, <2>4, <2>5, <2>6 DEF LeaseInv
<1>8. ASSUME NEW c \in PeerCalls, Leases!Release(c) PROVE LeaseInv'
  <2> USE <1>8 DEF Leases!Release, Leases!StopBeat
  <2>1. LeaseTyped'
    BY <1>a DEF LeaseTyped, Leases!Stages
  <2>2. LeasesFresh'
    BY <1>a DEF LeaseTyped, LeasesFresh
  <2>3. LeasesOwned'
    BY <1>a DEF LeaseTyped, LeasesFresh, LeasesOwned
  <2>4. GatesKept'
    BY <1>a DEF LeaseTyped, LeasesOwned, GatesKept
  <2>5. RowsCapped'
    <3>1. Leases!Unexpired' \subseteq Leases!Unexpired
      BY <1>a DEF Leases!Unexpired, LeaseTyped, LeasesFresh
    <3> QED
      BY <3>1, LeaseRowsKept
  <2>6. GatesCapped'
    <3>1. \A g \in Nat : Leases!Users(g)' \subseteq Leases!Users(g)
      BY <1>a DEF Leases!Users, LeaseTyped
    <3> QED
      BY <3>1, LeaseUsersKept
  <2> QED
    BY <2>1, <2>2, <2>3, <2>4, <2>5, <2>6 DEF LeaseInv
<1>9. ASSUME NEW c \in PeerCalls, Leases!Deleted(c) PROVE LeaseInv'
  <2> USE <1>9 DEF Leases!Deleted
  <2>1. LeaseTyped'
    BY <1>a DEF LeaseTyped, Leases!Stages
  <2>2. LeasesFresh'
    BY <1>a DEF LeaseTyped, LeasesFresh, LeasesOwned
  <2>3. LeasesOwned'
    BY <1>a DEF LeaseTyped, LeasesFresh, LeasesOwned
  <2>4. GatesKept'
    BY <1>a DEF LeaseTyped, LeasesOwned, GatesKept
  <2>5. RowsCapped'
    <3>1. Leases!Unexpired' \subseteq Leases!Unexpired
      BY <1>a DEF Leases!Unexpired, LeaseTyped, LeasesFresh
    <3> QED
      BY <3>1, LeaseRowsKept
  <2>6. GatesCapped'
    <3>1. \A g \in Nat : Leases!Users(g)' \subseteq Leases!Users(g)
      BY <1>a DEF Leases!Users, LeaseTyped
    <3> QED
      BY <3>1, LeaseUsersKept
  <2> QED
    BY <2>1, <2>2, <2>3, <2>4, <2>5, <2>6 DEF LeaseInv
<1>10. ASSUME NEW c \in PeerCalls, Leases!Cut(c) PROVE LeaseInv'
  <2> USE <1>10 DEF Leases!Cut
  <2>1. LeaseTyped'
    BY <1>a DEF LeaseTyped, Leases!Stages
  <2>2. LeasesFresh'
    BY <1>a DEF LeaseTyped, LeasesFresh
  <2>3. LeasesOwned'
    BY <1>a DEF LeaseTyped, LeasesFresh, LeasesOwned
  <2>4. GatesKept'
    BY <1>a DEF LeaseTyped, LeasesOwned, GatesKept
  <2>5. RowsCapped'
    <3>1. Leases!Unexpired' \subseteq Leases!Unexpired
      BY <1>a DEF Leases!Unexpired, LeaseTyped, LeasesFresh
    <3> QED
      BY <3>1, LeaseRowsKept
  <2>6. GatesCapped'
    <3>1. \A g \in Nat : Leases!Users(g)' \subseteq Leases!Users(g)
      BY <1>a DEF Leases!Users, LeaseTyped
    <3> QED
      BY <3>1, LeaseUsersKept
  <2> QED
    BY <2>1, <2>2, <2>3, <2>4, <2>5, <2>6 DEF LeaseInv
<1>11. ASSUME NEW c \in PeerCalls, Leases!Crash(c) PROVE LeaseInv'
  <2> USE <1>11 DEF Leases!Crash
  <2>1. LeaseTyped'
    BY <1>a DEF LeaseTyped, Leases!Stages
  <2>2. LeasesFresh'
    BY <1>a DEF LeaseTyped, LeasesFresh
  <2>3. LeasesOwned'
    BY <1>a DEF LeaseTyped, LeasesFresh, LeasesOwned
  <2>4. GatesKept'
    BY <1>a DEF LeaseTyped, LeasesOwned, GatesKept
  <2>5. RowsCapped'
    <3>1. Leases!Unexpired' \subseteq Leases!Unexpired
      BY <1>a DEF Leases!Unexpired, LeaseTyped, LeasesFresh
    <3> QED
      BY <3>1, LeaseRowsKept
  <2>6. GatesCapped'
    <3>1. \A g \in Nat : Leases!Users(g)' \subseteq Leases!Users(g)
      BY <1>a DEF Leases!Users, LeaseTyped
    <3> QED
      BY <3>1, LeaseUsersKept
  <2> QED
    BY <2>1, <2>2, <2>3, <2>4, <2>5, <2>6 DEF LeaseInv
<1>12. ASSUME NEW c \in PeerCalls, Leases!Refused(c) PROVE LeaseInv'
  <2> USE <1>12 DEF Leases!Refused, Leases!Purge, Leases!Unexpired
  <2>1. LeaseTyped'
    BY <1>a DEF LeaseTyped, Leases!Stages
  <2>2. LeasesFresh'
    BY <1>a DEF LeaseTyped, LeasesFresh
  <2>3. LeasesOwned'
    BY <1>a DEF LeaseTyped, LeasesFresh, LeasesOwned
  <2>4. GatesKept'
    BY <1>a DEF LeaseTyped, LeasesOwned, GatesKept
  <2>5. RowsCapped'
    <3>1. Leases!Unexpired' \subseteq Leases!Unexpired
      BY <1>a DEF Leases!Unexpired, LeaseTyped, LeasesFresh
    <3> QED
      BY <3>1, LeaseRowsKept
  <2>6. GatesCapped'
    <3>1. \A g \in Nat : Leases!Users(g)' \subseteq Leases!Users(g)
      BY <1>a DEF Leases!Users, LeaseTyped
    <3> QED
      BY <3>1, LeaseUsersKept
  <2> QED
    BY <2>1, <2>2, <2>3, <2>4, <2>5, <2>6 DEF LeaseInv
<1>13. ASSUME NEW c \in PeerCalls, Leases!Renew(c) PROVE LeaseInv'
  <2> USE <1>13 DEF Leases!Renew
  <2>1. LeaseTyped'
    BY <1>a DEF LeaseTyped, Leases!Stages
  <2>2. LeasesFresh'
    BY <1>a DEF LeaseTyped, LeasesFresh
  <2>3. LeasesOwned'
    BY <1>a DEF LeaseTyped, LeasesFresh, LeasesOwned
  <2>4. GatesKept'
    BY <1>a DEF LeaseTyped, LeasesOwned, GatesKept
  <2>5. RowsCapped'
    <3>1. Leases!Unexpired' \subseteq Leases!Unexpired
      BY <1>a DEF Leases!Unexpired, LeaseTyped, LeasesFresh
    <3> QED
      BY <3>1, LeaseRowsKept
  <2>6. GatesCapped'
    <3>1. \A g \in Nat : Leases!Users(g)' \subseteq Leases!Users(g)
      BY <1>a DEF Leases!Users, LeaseTyped
    <3> QED
      BY <3>1, LeaseUsersKept
  <2> QED
    BY <2>1, <2>2, <2>3, <2>4, <2>5, <2>6 DEF LeaseInv
<1>14. ASSUME NEW c \in PeerCalls, Leases!Granted(c) PROVE LeaseInv'
  <2> USE <1>14 DEF Leases!Granted, Leases!Insert, Leases!Unexpired
  <2>1. LeaseTyped'
    BY <1>a DEF LeaseTyped, Leases!Stages
  <2>2. LeasesFresh'
    BY <1>a DEF LeaseTyped, LeasesFresh
  <2>3. LeasesOwned'
    BY <1>a DEF LeaseTyped, LeasesFresh, LeasesOwned
  <2>4. GatesKept'
    BY <1>a DEF LeaseTyped, LeasesOwned, GatesKept
  <2>5. RowsCapped'
    <3>1. Leases!Unexpired' \subseteq Leases!Unexpired \cup {c}
      BY <1>a DEF Leases!Unexpired, LeaseTyped
    <3>2. Leases!Unexpired \in SUBSET PeerCalls /\ Leases!Unexpired' \in SUBSET PeerCalls
      BY DEF Leases!Unexpired
    <3>3. Cardinality(Leases!Unexpired) < PeerCap
      BY LeaseCount
    <3> QED
      BY <3>1, <3>2, <3>3, OneCallMore DEF RowsCapped
  <2>6. GatesCapped'
    BY <1>a DEF GatesCapped, LeasesOwned
  <2> QED
    BY <2>1, <2>2, <2>3, <2>4, <2>5, <2>6 DEF LeaseInv
<1>15. ASSUME NEW c \in PeerCalls, Leases!Orphan(c) PROVE LeaseInv'
  <2> USE <1>15 DEF Leases!Orphan, Leases!Insert, Leases!Purge, Leases!Unexpired
  <2>1. LeaseTyped'
    BY <1>a DEF LeaseTyped, Leases!Stages
  <2>2. LeasesFresh'
    BY <1>a DEF LeaseTyped, LeasesFresh, LeasesOwned
  <2>3. LeasesOwned'
    BY <1>a DEF LeaseTyped, LeasesFresh, LeasesOwned
  <2>4. GatesKept'
    BY <1>a DEF LeaseTyped, LeasesOwned, GatesKept
  <2>5. RowsCapped'
    <3>1. CASE Cardinality(Leases!Unexpired) < PeerCap
      <4>1. Leases!Unexpired' \subseteq Leases!Unexpired \cup {c}
        BY <1>a, <3>1, LeaseCount DEF Leases!Unexpired, LeaseTyped
      <4>2. Leases!Unexpired \in SUBSET PeerCalls /\ Leases!Unexpired' \in SUBSET PeerCalls
        BY DEF Leases!Unexpired
      <4> QED
        BY <3>1, <4>1, <4>2, OneCallMore DEF RowsCapped
    <3>2. CASE ~(Cardinality(Leases!Unexpired) < PeerCap)
      <4>1. Leases!Unexpired' \subseteq Leases!Unexpired
        BY <1>a, <3>2, LeaseCount DEF Leases!Unexpired, LeaseTyped
      <4> QED
        BY <4>1, LeaseRowsKept
    <3> QED
      BY <3>1, <3>2
  <2>6. GatesCapped'
    <3>1. \A g \in Nat : Leases!Users(g)' \subseteq Leases!Users(g)
      BY <1>a DEF Leases!Users, LeaseTyped
    <3> QED
      BY <3>1, LeaseUsersKept
  <2> QED
    BY <2>1, <2>2, <2>3, <2>4, <2>5, <2>6 DEF LeaseInv
<1>16. CASE Leases!Evict
  <2> USE <1>16 DEF Leases!Evict, Leases!Stale
  <2>1. LeaseTyped'
    BY <1>a DEF LeaseTyped, Leases!Stages
  <2>2. LeasesFresh'
    BY <1>a DEF LeaseTyped, LeasesFresh, LeasesOwned
  <2>3. LeasesOwned'
    BY <1>a DEF LeaseTyped, LeasesFresh, LeasesOwned
  <2>4. GatesKept'
    BY <1>a DEF LeaseTyped, LeasesOwned, GatesKept
  <2>5. RowsCapped'
    <3>1. Leases!Unexpired' \subseteq Leases!Unexpired
      BY <1>a DEF Leases!Unexpired, LeaseTyped, LeasesFresh
    <3> QED
      BY <3>1, LeaseRowsKept
  <2>6. GatesCapped'
    <3>1. \A g \in Nat : Leases!Users(g)' \subseteq Leases!Users(g)
      BY <1>a DEF Leases!Users, LeaseTyped
    <3> QED
      BY <3>1, LeaseUsersKept
  <2> QED
    BY <2>1, <2>2, <2>3, <2>4, <2>5, <2>6 DEF LeaseInv
<1>17. ASSUME NEW c \in PeerCalls, Leases!Look(c) PROVE LeaseInv'
  <2> USE <1>17 DEF Leases!Look
  <2>1. LeaseTyped'
    BY <1>a DEF LeaseTyped, Leases!Stages
  <2>2. LeasesFresh'
    BY <1>a DEF LeaseTyped, LeasesFresh, LeasesOwned
  <2>3. LeasesOwned'
    BY <1>a DEF LeaseTyped, LeasesFresh, LeasesOwned
  <2>4. GatesKept'
    BY <1>a DEF LeaseTyped, LeasesOwned, GatesKept
  <2>5. RowsCapped'
    <3>1. Leases!Unexpired' \subseteq Leases!Unexpired
      BY <1>a DEF Leases!Unexpired, LeaseTyped, LeasesFresh
    <3> QED
      BY <3>1, LeaseRowsKept
  <2>6. GatesCapped'
    <3>1. \A g \in Nat : Leases!Users(g)' \subseteq Leases!Users(g)
      BY <1>a DEF Leases!Users, LeaseTyped
    <3> QED
      BY <3>1, LeaseUsersKept
  <2> QED
    BY <2>1, <2>2, <2>3, <2>4, <2>5, <2>6 DEF LeaseInv
<1>18. ASSUME NEW c \in PeerCalls, Leases!Enter(c) PROVE LeaseInv'
  <2> USE <1>18 DEF Leases!Enter
  <2>1. LeaseTyped'
    BY <1>a DEF LeaseTyped, Leases!Stages
  <2>2. LeasesFresh'
    BY <1>a DEF LeaseTyped, LeasesFresh, LeasesOwned
  <2>3. LeasesOwned'
    BY <1>a DEF LeaseTyped, LeasesFresh, LeasesOwned
  <2>4. GatesKept'
    BY <1>a DEF LeaseTyped, LeasesOwned, GatesKept
  <2>5. RowsCapped'
    <3>1. Leases!Unexpired' \subseteq Leases!Unexpired
      BY <1>a DEF Leases!Unexpired, LeaseTyped, LeasesFresh
    <3> QED
      BY <3>1, LeaseRowsKept
  <2>6. GatesCapped'
    <3> SUFFICES ASSUME ~shared, NEW g \in Nat
                 PROVE  Cardinality(Leases!Users(g)') <= PeerCap
      BY DEF GatesCapped
    <3>1. Leases!Users(g) \in SUBSET PeerCalls /\ Leases!Users(g)' \in SUBSET PeerCalls
      BY DEF Leases!Users
    <3>2. CASE g = mine[c]
      <4>1. Leases!Users(g)' \subseteq Leases!Users(g) \cup {c}
        BY <1>a DEF LeaseTyped, Leases!Users
      <4>2. Cardinality(Leases!Users(g)) < PeerCap
        BY <3>2, LeaseCount
      <4> QED
        BY <3>1, <4>1, <4>2, OneCallMore
    <3>3. CASE g # mine[c]
      <4>1. Leases!Users(g)' = Leases!Users(g)
        BY <1>a, <3>3 DEF LeaseTyped, Leases!Users
      <4> QED
        BY <4>1 DEF LeaseInv, GatesCapped
    <3> QED
      BY <3>2, <3>3
  <2> QED
    BY <2>1, <2>2, <2>3, <2>4, <2>5, <2>6 DEF LeaseInv
<1>19. CASE UNCHANGED Leases!vars
  <2> USE <1>19 DEF Leases!vars
  <2>1. LeaseTyped'
    BY <1>a DEF LeaseTyped, Leases!Stages
  <2>2. LeasesFresh'
    BY <1>a DEF LeaseTyped, LeasesFresh, LeasesOwned
  <2>3. LeasesOwned'
    BY <1>a DEF LeaseTyped, LeasesFresh, LeasesOwned
  <2>4. GatesKept'
    BY <1>a DEF LeaseTyped, LeasesOwned, GatesKept
  <2>5. RowsCapped'
    <3>1. Leases!Unexpired' \subseteq Leases!Unexpired
      BY <1>a DEF Leases!Unexpired, LeaseTyped, LeasesFresh
    <3> QED
      BY <3>1, LeaseRowsKept
  <2>6. GatesCapped'
    <3>1. \A g \in Nat : Leases!Users(g)' \subseteq Leases!Users(g)
      BY <1>a DEF Leases!Users, LeaseTyped
    <3> QED
      BY <3>1, LeaseUsersKept
  <2> QED
    BY <2>1, <2>2, <2>3, <2>4, <2>5, <2>6 DEF LeaseInv
<1> QED
  BY <1>1, <1>2, <1>3, <1>4, <1>5, <1>6, <1>7, <1>8, <1>9, <1>10, <1>11, <1>12, <1>13,
     <1>14, <1>15, <1>16, <1>17, <1>18, <1>19
  DEF Leases!Next

\* A call under way that has not lapsed has an unexpired row.
LEMMA CallsAreLeased ==
    ASSUME LeaseInv, shared
    PROVE  Leases!InFlight \ (lapsed \cup Leases!Outlived) \subseteq Leases!Unexpired
  BY LeaseAssumption
  DEF LeaseInv, LeaseTyped, LeasesFresh, LeasesOwned, Leases!InFlight, Leases!Unexpired, Leases!NoRow

\* A call under way that has not outlived its gate uses the present one.
LEMMA CallsShareTheGate ==
    ASSUME LeaseInv, ~shared
    PROVE  Leases!InFlight \ (lapsed \cup Leases!Outlived) \subseteq Leases!Users(gate)
  BY LeaseAssumption
  DEF LeaseInv, LeaseTyped, GatesKept, Leases!InFlight, Leases!Outlived, Leases!Users

\* The calls under way to one peer never exceed its cap, with leases in the shared
\* store or the gate of one process, and a slot is not held for longer than a time
\* to live after its call ended; excused are calls whose renewal failed
\* (provider_adapters/openai_compatible.py, _acquire_peer_capacity and
\* _PeerCapacitySlot; host_store.py, try_acquire_peer_lease).
THEOREM PeerCapHeld == Leases!Spec => []PeersHold
<1>1. LeaseInv => PeersHold
  <2> SUFFICES ASSUME LeaseInv PROVE PeersHold
    OBVIOUS
  <2> DEFINE taken == Leases!InFlight \ (lapsed \cup Leases!Outlived)
  <2>1. taken \in SUBSET PeerCalls /\ Cardinality(taken) \in Nat
    BY SomeCalls DEF Leases!InFlight
  <2>2. \E S \in SUBSET PeerCalls : taken \subseteq S /\ Cardinality(S) <= PeerCap
    <3>1. CASE shared
      <4>1. Leases!Unexpired \in SUBSET PeerCalls
        BY DEF Leases!Unexpired
      <4> QED
        BY <3>1, <4>1, CallsAreLeased DEF LeaseInv, RowsCapped
    <3>2. CASE ~shared
      <4>1. Leases!Users(gate) \in SUBSET PeerCalls /\ gate \in Nat
        BY DEF Leases!Users, LeaseInv, LeaseTyped
      <4> QED
        BY <3>2, <4>1, CallsShareTheGate DEF LeaseInv, GatesCapped
    <3> QED
      BY <3>1, <3>2
  <2>3. Cardinality(taken) <= PeerCap
    <3>1. PICK S \in SUBSET PeerCalls : taken \subseteq S /\ Cardinality(S) <= PeerCap
      BY <2>2
    <3>2. Cardinality(S) \in Nat /\ Cardinality(taken) <= Cardinality(S)
      BY <3>1, SomeCalls
    <3> QED
      BY <2>1, <3>1, <3>2, LeaseAssumption
  <2>4. Leases!CapHeldUnlessLapsed
    BY <2>3, LeaseCount DEF Leases!CapHeldUnlessLapsed
  <2>5. Leases!LeaseEndsUnlessCut
    BY DEF LeaseInv, LeasesOwned, Leases!LeaseEndsUnlessCut, Leases!Off
  <2> QED
    BY <2>4, <2>5 DEF PeersHold
<1> QED
  BY <1>1, LeaseStart, LeaseStep, PTL DEF Leases!Spec

HIDE DEF Leases!rows, Leases!local

(***************************************************************************)
(* One streamed answer (ChatStream)                                        *)
(***************************************************************************)
USE DEF run, out

\* A delta, or the one message of a result: the attempt and its number.
Deltas == Nat \X Nat

\* What the variables may hold.
ChatTyped ==
    /\ handler \in {"waiting", "streaming"} \cup Over
    /\ attempt \in Nat /\ said \in Nat
    /\ backend \in {"none", "opening", "silent", "talking"}
    /\ queue \in Seq(Deltas) /\ wire \in Seq(Deltas) /\ spoken \in Seq(Deltas)

\* All that was spoken is of the present attempt, which still speaks while the
\* run goes on.
OneSpoke == ~again /\ spoken # <<>> =>
    /\ \A i \in DOMAIN spoken : spoken[i][1] = attempt
    /\ Running => backend = "talking" /\ said > 0

\* The run is committed to an attempt as soon as something was spoken.
Committed == commit <=> spoken # <<>>

\* A provider that has not begun to talk has said nothing.
Silent == Running /\ backend \in {"opening", "silent"} => said = 0

\* What was spoken is on the wire or still in the queue, in order; a handler that
\* ended has written all of it, or the one result of a run that spoke nothing.
Delivered ==
    /\ handler = "waiting" => wire = <<>>
    /\ handler \in {"waiting", "streaming", "left"} => wire \o queue = spoken
    /\ handler \in {"answered", "ended"} => queue = <<>> /\ ~Running
    /\ handler = "ended" => wire = IF spoken = <<>> /\ task = "ok" THEN <<Result>> ELSE spoken
    /\ handler = "answered" => spoken = <<>> /\ wire = IF task = "ok" THEN <<Result>> ELSE <<>>

\* All of it.
ChatInv == ChatTyped /\ OneSpoke /\ Committed /\ Silent /\ Delivered

\* Nothing is spoken at first.
LEMMA ChatStart == Init => ChatInv
<1> SUFFICES ASSUME Init PROVE ChatInv
  OBVIOUS
<1>1. ChatTyped
  BY DEF Init, ChatTyped
<1>2. OneSpoke /\ Committed /\ Silent
  BY DEF Init, OneSpoke, Committed, Silent, Running
<1>3. Delivered
  BY DEF Init, Delivered
<1> QED
  BY <1>1, <1>2, <1>3 DEF ChatInv

\* A step of the run or of a backend that emits nothing.
Mute == UNCHANGED <<kind, handler, queue, wire, spoken, commit>>

\* Such a step keeps the invariant when the attempt's own part does.
LEMMA MuteStep ==
    ASSUME ChatInv, Mute, ~Running => UNCHANGED <<task, attempt, again>>,
           ChatTyped', OneSpoke', Silent',
           handler \in {"answered", "ended"} => UNCHANGED <<attempt, task>>
    PROVE  ChatInv'
  BY DEF ChatInv, Committed, Delivered, Mute, Running, Result

\* Every step of the client, the handler, the run and its providers.
LEMMA ChatStep == ChatInv /\ [Next]_vars => ChatInv'
<1> SUFFICES ASSUME ChatInv, [Next]_vars PROVE ChatInv'
  OBVIOUS
<1> USE ChatAssumption
<1>a. ChatTyped /\ OneSpoke /\ Committed /\ Silent /\ Delivered
  BY DEF ChatInv
<1>b. Running => handler \notin {"answered", "ended"}
  BY <1>a DEF Delivered
<1>1. CASE Call
  <2> USE <1>1 DEF Call
  <2>1. ChatTyped'
    BY <1>a DEF ChatTyped
  <2>2. OneSpoke' /\ Silent'
    BY <1>a DEF ChatTyped, OneSpoke, Silent, Running
  <2>3. Running /\ Mute
    BY DEF Mute, Running
  <2> QED
    BY <1>b, <2>1, <2>2, <2>3, MuteStep
<1>2. CASE Exhausted
  <2> USE <1>2 DEF Exhausted
  <2>1. ChatTyped'
    BY <1>a DEF ChatTyped
  <2>2. OneSpoke' /\ Silent'
    BY <1>a DEF ChatTyped, OneSpoke, Silent, Running
  <2>3. Running /\ Mute
    BY DEF Mute, Running
  <2> QED
    BY <1>b, <2>1, <2>2, <2>3, MuteStep
<1>3. CASE Deadline
  <2> USE <1>3 DEF Deadline
  <2>1. ChatTyped'
    BY <1>a DEF ChatTyped
  <2>2. OneSpoke' /\ Silent'
    BY <1>a DEF ChatTyped, OneSpoke, Silent, Running
  <2>3. Running /\ Mute
    BY DEF Mute, Running
  <2> QED
    BY <1>b, <2>1, <2>2, <2>3, MuteStep
<1>4. CASE Connected
  <2> USE <1>4 DEF Connected
  <2>1. ChatTyped'
    BY <1>a DEF ChatTyped
  <2>2. OneSpoke' /\ Silent'
    BY <1>a DEF ChatTyped, OneSpoke, Silent, Running
  <2>3. Running /\ Mute
    BY DEF Mute, Running
  <2> QED
    BY <1>b, <2>1, <2>2, <2>3, MuteStep
<1>5. CASE NoOutput
  <2> USE <1>5 DEF NoOutput, Recoverable
  <2>1. ChatTyped'
    BY <1>a DEF ChatTyped
  <2>2. OneSpoke' /\ Silent'
    BY <1>a DEF ChatTyped, OneSpoke, Silent, Running
  <2>3. Running /\ Mute
    BY DEF Mute, Running
  <2> QED
    BY <1>b, <2>1, <2>2, <2>3, MuteStep
<1>6. CASE Thinks
  <2> USE <1>6 DEF Thinks
  <2>1. ChatTyped'
    BY <1>a DEF ChatTyped
  <2>2. OneSpoke' /\ Silent'
    BY <1>a DEF ChatTyped, OneSpoke, Silent, Running
  <2>3. Running /\ Mute
    BY DEF Mute, Running
  <2> QED
    BY <1>b, <2>1, <2>2, <2>3, MuteStep
<1>7. CASE Dies
  <2> USE <1>7 DEF Dies, Broken, Abort, Recoverable, Talking
  <2>1. ChatTyped'
    BY <1>a DEF ChatTyped
  <2>2. OneSpoke' /\ Silent'
    BY <1>a DEF ChatTyped, OneSpoke, Silent, Running
  <2>3. Running /\ Mute
    BY DEF Mute, Running
  <2> QED
    BY <1>b, <2>1, <2>2, <2>3, MuteStep
<1>8. CASE ErrorEvent
  <2> USE <1>8 DEF ErrorEvent, Recoverable, Talking
  <2>1. ChatTyped'
    BY <1>a DEF ChatTyped
  <2>2. OneSpoke' /\ Silent'
    BY <1>a DEF ChatTyped, OneSpoke, Silent, Running
  <2>3. Running /\ Mute
    BY DEF Mute, Running
  <2> QED
    BY <1>b, <2>1, <2>2, <2>3, MuteStep
<1>9. CASE Ends
  <2> USE <1>9 DEF Ends, Recoverable, Talking
  <2>1. ChatTyped'
    BY <1>a DEF ChatTyped
  <2>2. OneSpoke' /\ Silent'
    BY <1>a DEF ChatTyped, OneSpoke, Silent, Running
  <2>3. Running /\ Mute
    BY DEF Mute, Running
  <2> QED
    BY <1>b, <2>1, <2>2, <2>3, MuteStep
<1>10. CASE Emit
  <2> USE <1>10 DEF Emit
  <2> DEFINE delta == <<attempt, said'>>
  <2>1. delta \in Deltas /\ said' = said + 1 /\ said' \in Nat
    BY <1>a DEF ChatTyped, Deltas
  <2>2. queue' = Append(queue, delta) /\ spoken' = Append(spoken, delta)
    OBVIOUS
  <2>3. delta[1] = attempt
    OBVIOUS
  <2> HIDE DEF delta
  <2>4. queue' \in Seq(Deltas) /\ spoken' \in Seq(Deltas) /\ spoken' # <<>>
    <3>1. queue \in Seq(Deltas) /\ spoken \in Seq(Deltas)
      BY <1>a DEF ChatTyped
    <3>2. Append(queue, delta) \in Seq(Deltas)
      BY <2>1, <3>1, AppendProperties
    <3>3. Append(spoken, delta) \in Seq(Deltas) /\ Append(spoken, delta) # <<>>
      BY <2>1, <3>1, AppendProperties
    <3> QED
      BY <2>2, <3>2, <3>3, Zenon
  <2>5. ChatTyped'
    BY <1>a, <2>1, <2>4 DEF ChatTyped
  <2>6. OneSpoke'
    <3> SUFFICES ASSUME ~again' PROVE \A i \in DOMAIN spoken' : spoken'[i][1] = attempt'
      BY <1>a, <2>1 DEF OneSpoke, ChatTyped
    <3>1. spoken # <<>> => \A i \in DOMAIN spoken : spoken[i][1] = attempt
      BY <1>a DEF OneSpoke
    <3>2. \A i \in DOMAIN spoken : spoken[i][1] = attempt
      BY <3>1
    <3> QED
      BY <1>a, <2>1, <2>2, <2>3, <3>2, AppendProperties DEF ChatTyped
  <2>7. Committed' /\ Silent'
    BY <2>4 DEF Committed, Silent
  <2>8. wire \o Append(queue, delta) = Append(wire \o queue, delta)
    <3>1. wire \in Seq(Deltas) /\ queue \in Seq(Deltas) /\ <<delta>> \in Seq(Deltas)
      BY <1>a, <2>1 DEF ChatTyped
    <3>2. wire \o queue \in Seq(Deltas)
      BY <3>1, ConcatProperties
    <3>3. Append(queue, delta) = queue \o <<delta>>
      BY <2>1, <3>1, AppendIsConcat
    <3>4. Append(wire \o queue, delta) = (wire \o queue) \o <<delta>>
      BY <2>1, <3>2, AppendIsConcat
    <3>5. (wire \o queue) \o <<delta>> = wire \o (queue \o <<delta>>)
      BY <3>1, ConcatAssociative, SMTT(20)
    <3> QED
      BY <3>3, <3>4, <3>5, Zenon
  <2>9. Delivered'
    BY <1>a, <1>b, <2>2, <2>8 DEF Delivered, Running
  <2> QED
    BY <2>5, <2>6, <2>7, <2>9 DEF ChatInv
<1>11. CASE StartStream
  <2> USE <1>11 DEF StartStream
  <2>1. ChatTyped' /\ OneSpoke' /\ Committed' /\ Silent'
    BY <1>a DEF ChatTyped, OneSpoke, Committed, Silent, Running
  <2>2. Delivered'
    BY <1>a DEF Delivered
  <2> QED
    BY <2>1, <2>2 DEF ChatInv
<1>12. CASE Answer
  <2> USE <1>12 DEF Answer
  <2>1. spoken = <<>> /\ wire = <<>> /\ wire \o queue = spoken
    BY <1>a DEF Committed, Delivered
  <2>2. queue = <<>>
    BY <1>a, <2>1, ConcatSimplifications DEF ChatTyped
  <2>3. <<Result>> \in Seq(Deltas)
    BY <1>a DEF Result, ChatTyped, Deltas
  <2>4. ChatTyped'
    BY <1>a, <2>3 DEF ChatTyped, Over
  <2>5. OneSpoke' /\ Committed' /\ Silent'
    BY <1>a DEF OneSpoke, Committed, Silent, Running
  <2>6. Delivered'
    BY <1>a, <2>1, <2>2 DEF Delivered, Running, Result
  <2> QED
    BY <2>4, <2>5, <2>6 DEF ChatInv
<1>13. CASE Relay
  <2> USE <1>13 DEF Relay
  <2>1. Head(queue) \in Deltas /\ Tail(queue) \in Seq(Deltas)
    BY <1>a, HeadTailProperties DEF ChatTyped
  <2>2. wire' \o queue' = wire \o queue
    BY <1>a DEF ChatTyped
  <2>3. ChatTyped'
    BY <1>a, <2>1, AppendProperties DEF ChatTyped
  <2>4. OneSpoke' /\ Committed' /\ Silent'
    BY <1>a DEF OneSpoke, Committed, Silent, Running
  <2>5. Delivered'
    BY <1>a, <2>2 DEF Delivered
  <2> QED
    BY <2>3, <2>4, <2>5 DEF ChatInv
<1>14. CASE Finish
  <2> USE <1>14 DEF Finish
  <2>1. wire \o queue = spoken
    BY <1>a DEF Delivered
  <2>2. <<Result>> \in Seq(Deltas) /\ <<>> \in Seq(Deltas)
    BY <1>a DEF Result, ChatTyped, Deltas
  <2>3. wire' = IF spoken = <<>> /\ task = "ok" THEN <<Result>> ELSE spoken
    BY <2>1 DEF LastWords
  <2>4. ChatTyped'
    BY <1>a, <2>2, <2>3 DEF ChatTyped, Over
  <2>5. OneSpoke' /\ Committed' /\ Silent'
    BY <1>a DEF OneSpoke, Committed, Silent, Running
  <2>6. Delivered'
    BY <2>3 DEF Delivered, Running, Result
  <2> QED
    BY <2>4, <2>5, <2>6 DEF ChatInv
<1>15. CASE Leave
  <2> USE <1>15 DEF Leave, OnLeave
  <2>1. ChatTyped'
    BY <1>a DEF ChatTyped, Over
  <2>2. OneSpoke' /\ Committed' /\ Silent'
    BY <1>a DEF OneSpoke, Committed, Silent, Running
  <2>3. Delivered'
    BY <1>a DEF Delivered
  <2> QED
    BY <2>1, <2>2, <2>3 DEF ChatInv
<1>16. CASE UNCHANGED vars
  BY <1>16 DEF vars, ChatInv, ChatTyped, OneSpoke, Committed, Silent, Delivered, Running, Result
<1> QED
  BY <1>1, <1>2, <1>3, <1>4, <1>5, <1>6, <1>7, <1>8, <1>9, <1>10, <1>11, <1>12, <1>13,
     <1>14, <1>15, <1>16
  DEF Next

\* What the client reads in the end is what was spoken, or the one result.
LEMMA ReadIsSpoken ==
    ASSUME ChatInv
    PROVE  wire \o queue \in {spoken, <<Result>>} /\ (spoken # <<>> => wire \o queue = spoken)
  <1>1. CASE handler \in {"waiting", "streaming", "left"}
    BY <1>1 DEF ChatInv, Delivered
  <1>2. CASE handler \in {"answered", "ended"}
    <2>1. wire \o queue = wire
      BY <1>2, ConcatEmptySeq DEF ChatInv, ChatTyped, Delivered
    <2> QED
      BY <1>2, <2>1 DEF ChatInv, Delivered
  <1> QED
    BY <1>1, <1>2 DEF ChatInv, ChatTyped, Over

\* The client of a stream hears one provider, and every delta that was spoken is
\* written, in order and once, whatever attempts failed before, whenever the client
\* leaves and whatever the deadline cuts (shim.py, _handle_stream and
\* _await_delta_or_beat; llm_router_host.py, execute_async).
THEOREM ChatHeld == Spec => []ChatHolds
<1>1. ChatInv => ChatHolds
  <2> SUFFICES ASSUME ChatInv PROVE ChatHolds
    OBVIOUS
  <2>1. EveryDeltaWritten
    BY DEF ChatInv, Delivered, EveryDeltaWritten
  <2>2. OneSpeakerUnlessInBand
    <3> SUFFICES ASSUME ~again
                 PROVE  \A a, b \in Speakers(wire \o queue) : a = b
      BY DEF OneSpeakerUnlessInBand
    <3>1. CASE wire \o queue = spoken
      BY <3>1 DEF ChatInv, OneSpoke, Speakers
    <3>2. CASE wire \o queue = <<Result>>
      BY <3>2 DEF Speakers
    <3> QED
      BY <3>1, <3>2, ReadIsSpoken
  <2> QED
    BY <2>1, <2>2 DEF ChatHolds
<1> QED
  BY <1>1, ChatStart, ChatStep, PTL DEF Spec

HIDE DEF run, out

(***************************************************************************)
(* The accounts of the Codex subscription (CodexAccounts)                  *)
(***************************************************************************)
\* Cardinality inside the instance is the one the library's theorems are about.
LEMMA AccountCount == \A S : Accounts!Cardinality(S) = Cardinality(S)
BY DEF Accounts!Cardinality, Cardinality

(* A token pair as it is kept in a file or an object.                       *)
Pairs == [id : Nat, login : Nat, gen : Nat]

\* An account is read and written in its own file, or "default" in the old one.
ItsFile(n, p) == p = n \/ (n = Default /\ p = 0)

\* What the variables may hold.
AccountsTyped ==
    /\ logins \in 0..MaxLogins /\ cursor \in Nat /\ applied \subseteq AccountNames
    /\ last \in [AccountNames -> 0..MaxLogins] /\ current \in [Accounts!Logins -> Nat]
    /\ file \in [AccountNames \cup {0} -> Pairs]
    /\ \A p \in AccountNames \cup {0} : file[p].login = 0 => file[p] = Accounts!NoFile
    /\ path \in [AccountNames -> AccountNames \cup {0}]
    /\ \A n \in AccountNames : ItsFile(n, path[n])
    /\ held \in [AccountNames -> Pairs \cup {Accounts!Absent, Accounts!Unloaded}]
    /\ \A n \in AccountNames : Accounts!Loaded(held[n]) /\ held[n].login = 0 => held[n] = Accounts!NoFile
    /\ flight = Accounts!NoFlight
       \/ flight \in [name : AccountNames, path : AccountNames \cup {0}, object : Pairs, good : BOOLEAN]
    /\ flight # Accounts!NoFlight => flight.object.login # 0 /\ ItsFile(flight.name, flight.path)

\* A refresh of the account is under way.
Busy(n) == flight # Accounts!NoFlight /\ flight.name = n

\* The account's last sign-in, and those whose tokens its files, its object and a
\* refresh under way carry.
HasLogin(n, l) ==
    \/ l = last[n] \/ l = file[n].login \/ (n = Default /\ l = file[0].login)
    \/ Accounts!Loaded(held[n]) /\ l = held[n].login
    \/ Busy(n) /\ l = flight.object.login

\* A sign-in belongs to one account.
LoginsOwned ==
    \A n \in AccountNames : \A l \in Nat : HasLogin(n, l) =>
        /\ l <= logins \/ l = MaxLogins + 1
        /\ \A m \in AccountNames \ {n} : HasLogin(m, l) => l = 0

\* The account is used from the file that stands for it, with the tokens of the login
\* it should have, and a refresh of it carries that file's tokens.
Sound(n) ==
    /\ path[n] = Accounts!PathOf(n)
    /\ (Accounts!Backed(n) = Accounts!NoFile) <=> (Accounts!Wanted(n) = 0)
    /\ Accounts!Backed(n).id = Accounts!Wanted(n) /\ Accounts!Backed(n).login = Accounts!Wanted(n)
    /\ Accounts!Wanted(n) # 0 /\ ~Busy(n) => Accounts!Backed(n).gen = current[Accounts!Wanted(n)]
    /\ Accounts!Loaded(held[n]) => held[n] = Accounts!Backed(n)
    /\ Busy(n) => /\ flight.good /\ flight.path = path[n] /\ Accounts!Wanted(n) # 0
                  /\ flight.object = Accounts!Backed(n) /\ held[n] = Accounts!Backed(n)
                  /\ current[Accounts!Wanted(n)] = Accounts!Backed(n).gen + 1

\* All of it.
AccountsInv == AccountsTyped /\ LoginsOwned /\ \A n \in applied : Sound(n)

\* The account a call is given is one of those that are there.
LEMMA CurrentPresent ==
  ASSUME AccountsTyped, Accounts!Present # {}
  PROVE  Accounts!Current \in Accounts!Present
<1> DEFINE S == Accounts!Present
<1>1. S \subseteq AccountNames /\ S \subseteq Nat /\ IsFiniteSet(S)
  BY AccountAssumption, FS_Subset DEF Accounts!Present
<1>2. Cardinality(S) \in Nat \ {0}
  BY <1>1, FS_CardinalityType, FS_EmptySet
<1> DEFINE k == IF selected = Accounts!Balanced THEN cursor % Cardinality(S) ELSE 0
<1>3. k \in 0..(Cardinality(S) - 1)
  BY <1>2 DEF AccountsTyped
<1>4. \E n \in S : Cardinality({m \in S : m < n}) = k
  BY <1>1, <1>3, PlaceTaken
<1>5. \E n \in S : Accounts!Place(n) =
           IF selected = Accounts!Balanced THEN cursor % Accounts!Cardinality(S) ELSE 0
  BY <1>4, AccountCount DEF Accounts!Place
<1> QED
  BY <1>5 DEF Accounts!Current

\* What stands for an account changes only with its files and its last sign-in.
LEMMA SameAccount ==
  ASSUME NEW n \in AccountNames, file'[n] = file[n], n = Default => file'[0] = file[0],
         last'[n] = last[n]
  PROVE  /\ Accounts!PathOf(n)' = Accounts!PathOf(n) /\ Accounts!Backed(n)' = Accounts!Backed(n)
         /\ Accounts!Wanted(n)' = Accounts!Wanted(n)
<1>1. Accounts!PathOf(n)' = Accounts!PathOf(n)
  BY DEF Accounts!PathOf
<1>2. Accounts!PathOf(n) = n \/ (n = Default /\ Accounts!PathOf(n) = 0)
  BY DEF Accounts!PathOf, Accounts!Legacy
<1>3. Accounts!Backed(n)' = Accounts!Backed(n)
  BY <1>1, <1>2 DEF Accounts!Backed
<1>4. Accounts!Wanted(n)' = Accounts!Wanted(n)
  BY DEF Accounts!Wanted, Accounts!Legacy
<1> QED
  BY <1>1, <1>3, <1>4

\* An account stands in one of its files.
LEMMA FileStands ==
  ASSUME AccountsTyped, NEW n \in AccountNames
  PROVE  /\ ItsFile(n, Accounts!PathOf(n)) /\ Accounts!PathOf(n) \in AccountNames \cup {0}
         /\ Accounts!Backed(n) = file[Accounts!PathOf(n)] /\ Accounts!Backed(n) \in Pairs
         /\ Accounts!Backed(n).login = 0 => Accounts!Backed(n) = Accounts!NoFile
         /\ Accounts!Paths[n] = Accounts!PathOf(n)
<1>1. ItsFile(n, Accounts!PathOf(n)) /\ Accounts!PathOf(n) \in AccountNames \cup {0}
  BY DEF ItsFile, Accounts!PathOf, Accounts!Legacy
<1>2. Accounts!Backed(n) = file[Accounts!PathOf(n)] /\ Accounts!Paths[n] = Accounts!PathOf(n)
  BY DEF Accounts!Backed, Accounts!Paths
<1> QED
  BY <1>1, <1>2 DEF AccountsTyped

\* An account that a step leaves alone stays sound.
LEMMA StaysSound ==
  ASSUME NEW n \in AccountNames, Sound(n),
         file'[n] = file[n], n = Default => file'[0] = file[0], last'[n] = last[n],
         path'[n] = path[n], held'[n] = held[n], Busy(n)' <=> Busy(n), Busy(n) => flight' = flight,
         Accounts!Wanted(n) # 0 => current'[Accounts!Wanted(n)] = current[Accounts!Wanted(n)]
  PROVE  Sound(n)'
<1>1. /\ Accounts!PathOf(n)' = Accounts!PathOf(n) /\ Accounts!Backed(n)' = Accounts!Backed(n)
      /\ Accounts!Wanted(n)' = Accounts!Wanted(n)
  BY SameAccount
<1> QED
  BY <1>1, Zenon DEF Sound

\* An account that is as the operator left it is sound once its object was replaced.
LEMMA ReloadedSound ==
  ASSUME AccountsTyped, NEW n \in AccountNames, Accounts!Settled(n), ~Busy(n)',
         UNCHANGED <<file, last, current>>, held' = Accounts!Rescanned, path' = Accounts!Paths
  PROVE  Sound(n)'
<1>1. /\ Accounts!PathOf(n)' = Accounts!PathOf(n) /\ Accounts!Backed(n)' = Accounts!Backed(n)
      /\ Accounts!Wanted(n)' = Accounts!Wanted(n)
  BY SameAccount
<1>2. path'[n] = Accounts!PathOf(n) /\ ~Accounts!Loaded(held'[n])
  BY FileStands DEF Accounts!Rescanned, Accounts!Loaded
<1>3. (Accounts!Backed(n) = Accounts!NoFile) <=> (Accounts!Wanted(n) = 0)
  BY FileStands DEF Accounts!Settled, Accounts!NoFile
<1> QED
  BY <1>1, <1>2, <1>3 DEF Sound, Accounts!Settled, Accounts!Loaded

\* A sound account whose refresh is not under way is as the operator left it.
LEMMA SoundSettled == ASSUME NEW n \in AccountNames, Sound(n), ~Busy(n) PROVE Accounts!Settled(n)
BY DEF Sound, Accounts!Settled

\* No account is there at first, but the one an older release left.
LEMMA AccountsStart == Accounts!Init => AccountsInv
<1> SUFFICES ASSUME Accounts!Init PROVE AccountsInv
  OBVIOUS
<1>1. PICK old \in {Accounts!NoFile, Accounts!Saved(MaxLogins + 1)} :
        file = [p \in AccountNames \cup {0} |-> IF p = 0 THEN old ELSE Accounts!NoFile]
  BY DEF Accounts!Init, Accounts!Legacy, Accounts!OldLogin
<1>2. /\ logins = 0 /\ last = [n \in AccountNames |-> 0] /\ cursor = 0
      /\ held = [n \in AccountNames |-> IF Accounts!Backed(n) = Accounts!NoFile
                                        THEN Accounts!Absent ELSE Accounts!Unloaded]
      /\ path = Accounts!Paths /\ flight = Accounts!NoFlight
      /\ current = [l \in Accounts!Logins |-> 0] /\ applied = AccountNames
  BY DEF Accounts!Init
<1>3. /\ old \in Pairs /\ (old = Accounts!NoFile \/ (old.login = MaxLogins + 1 /\ old.id = MaxLogins + 1))
      /\ old.gen = 0 /\ (old.login = 0 => old = Accounts!NoFile) /\ old.id = old.login
  BY AccountAssumption DEF Pairs, Accounts!NoFile, Accounts!Saved
<1>4. \A n \in AccountNames : n \in Nat \ {0} /\ file[n] = Accounts!NoFile /\ file[0] = old
  BY <1>1, AccountAssumption
<1>5. Accounts!NoFile \in Pairs /\ Accounts!NoFile.login = 0 /\ Accounts!NoFile.id = 0
  BY DEF Accounts!NoFile, Pairs
<1>6. \A n \in AccountNames : /\ ItsFile(n, Accounts!PathOf(n)) /\ path[n] = Accounts!PathOf(n)
                              /\ Accounts!PathOf(n) \in AccountNames \cup {0}
                              /\ ~Accounts!Loaded(held[n])
  BY <1>2 DEF Accounts!Paths, Accounts!PathOf, Accounts!Legacy, ItsFile, Accounts!Loaded
<1>7. AccountsTyped
  <2>1. file \in [AccountNames \cup {0} -> Pairs]
    BY <1>1, <1>3, <1>5
  <2>2. \A p \in AccountNames \cup {0} : file[p].login = 0 => file[p] = Accounts!NoFile
    BY <1>1, <1>3, <1>5
  <2>3. path \in [AccountNames -> AccountNames \cup {0}]
    BY <1>2, <1>6 DEF Accounts!Paths
  <2>4. held \in [AccountNames -> Pairs \cup {Accounts!Absent, Accounts!Unloaded}]
    BY <1>2
  <2>5. /\ logins \in 0..MaxLogins /\ last \in [AccountNames -> 0..MaxLogins] /\ cursor \in Nat
        /\ current \in [Accounts!Logins -> Nat] /\ applied \subseteq AccountNames
    BY <1>2, AccountAssumption
  <2> QED
    BY <1>2, <1>6, <2>1, <2>2, <2>3, <2>4, <2>5 DEF AccountsTyped
<1>8. LoginsOwned
  BY <1>2, <1>3, <1>4, <1>5, <1>6, AccountAssumption DEF LoginsOwned, HasLogin, Busy
<1>9. ASSUME NEW n \in AccountNames PROVE Sound(n)
  <2>1. CASE n = Default
    <3>1. Accounts!Backed(n) = old /\ Accounts!PathOf(n) = 0
      BY <1>4, <2>1 DEF Accounts!Backed, Accounts!PathOf, Accounts!Legacy
    <3>2. Accounts!Wanted(n) = old.login
      BY <1>2, <1>3, <1>4, <1>5, <2>1 DEF Accounts!Wanted, Accounts!Legacy, Accounts!OldLogin
    <3>3. old.login # 0 => current[old.login] = 0
      BY <1>2, <1>3, <1>5, AccountAssumption DEF Accounts!Logins, Accounts!OldLogin
    <3> QED
      BY <1>2, <1>3, <1>5, <1>6, <3>1, <3>2, <3>3 DEF Sound, Busy
  <2>2. CASE n # Default
    <3>1. Accounts!Backed(n) = Accounts!NoFile /\ Accounts!Wanted(n) = 0
      BY <1>2, <1>4, <2>2 DEF Accounts!Backed, Accounts!PathOf, Accounts!Wanted
    <3> QED
      BY <1>2, <1>5, <1>6, <3>1 DEF Sound, Busy
  <2> QED
    BY <2>1, <2>2
<1> QED
  BY <1>2, <1>7, <1>8, <1>9 DEF AccountsInv

\* No account gets the login of another when a step gives none away.
LEMMA OwnedKept ==
  ASSUME AccountsTyped, LoginsOwned, logins' = logins,
         \A n \in AccountNames : \A l \in Nat : HasLogin(n, l)' => HasLogin(n, l) \/ l = 0
  PROVE  LoginsOwned'
<1> SUFFICES ASSUME NEW n \in AccountNames, NEW l \in Nat, HasLogin(n, l)'
             PROVE  /\ l <= logins \/ l = MaxLogins + 1
                    /\ \A m \in AccountNames \ {n} : HasLogin(m, l)' => l = 0
  BY DEF LoginsOwned
<1>1. CASE l = 0
  BY <1>1 DEF AccountsTyped
<1>2. CASE l # 0
  <2>1. HasLogin(n, l) /\ \A m \in AccountNames : HasLogin(m, l)' => HasLogin(m, l)
    BY <1>2
  <2> QED
    BY <2>1 DEF LoginsOwned
<1> QED
  BY <1>1, <1>2

\* The login a sound account should have is one of its own.
LEMMA WantedOwned ==
  ASSUME AccountsTyped, NEW n \in AccountNames, Sound(n)
  PROVE  HasLogin(n, Accounts!Wanted(n)) /\ Accounts!Wanted(n) \in Nat
<1>1. /\ Accounts!Backed(n) = file[Accounts!PathOf(n)] /\ Accounts!Backed(n) \in Pairs
      /\ Accounts!PathOf(n) = n \/ (n = Default /\ Accounts!PathOf(n) = 0)
  BY FileStands DEF ItsFile
<1>2. Accounts!Backed(n).login = Accounts!Wanted(n)
  BY DEF Sound
<1> QED
  BY <1>1, <1>2 DEF HasLogin, Pairs

\* The place of the balanced account stays a number.
LEMMA AdvanceTyped ==
  ASSUME AccountsTyped, Accounts!Present # {}, Accounts!Advance
  PROVE  cursor' \in Nat
<1>1. AccountNames # {}
  BY DEF Accounts!Present
<1>2. Accounts!Cardinality(AccountNames) \in Nat \ {0}
  BY <1>1, AccountAssumption, AccountCount, FS_CardinalityType, FS_EmptySet
<1> QED
  BY <1>2 DEF Accounts!Advance, AccountsTyped

\* A sign-in that is stored: the login is new, and the other accounts stay as they are.
LEMMA AccountAdded ==
  ASSUME AccountsInv, NEW n \in AccountNames, Accounts!Add(n)
  PROVE  AccountsInv'
<1> DEFINE l == logins + 1
           s == Accounts!Saved(l)
<1>1. AccountsTyped /\ LoginsOwned /\ (\A m \in applied : Sound(m)) /\ n # 0
  BY AccountAssumption DEF AccountsInv
<1>2. /\ logins' = l /\ file' = [file EXCEPT ![n] = s] /\ last' = [last EXCEPT ![n] = l]
      /\ applied' = applied \ {n} /\ UNCHANGED <<cursor, held, path, flight, current>>
      /\ l \in 1..MaxLogins
  BY <1>1, AccountAssumption DEF Accounts!Add, AccountsTyped
<1>3. s \in Pairs /\ s.login = l
  BY <1>2 DEF Accounts!Saved, Pairs
<1> HIDE DEF l, s
<1>4. AccountsTyped'
  <2>1. /\ logins' \in 0..MaxLogins /\ last' \in [AccountNames -> 0..MaxLogins]
        /\ file' \in [AccountNames \cup {0} -> Pairs] /\ applied' \subseteq AccountNames
    BY <1>1, <1>2, <1>3 DEF AccountsTyped
  <2>2. \A p \in AccountNames \cup {0} : file'[p].login = 0 => file'[p] = Accounts!NoFile
    BY <1>1, <1>2, <1>3 DEF AccountsTyped
  <2> QED
    BY <1>1, <1>2, <2>1, <2>2 DEF AccountsTyped
<1>5. \A m \in AccountNames : \A k \in Nat : HasLogin(m, k)' =>
         HasLogin(m, k) \/ (m = n /\ k = l)
  <2>1. \A m \in AccountNames : /\ m # n => file'[m] = file[m] /\ last'[m] = last[m]
                                /\ file'[n].login = l /\ last'[n] = l /\ file'[0] = file[0]
    BY <1>1, <1>2, <1>3 DEF AccountsTyped
  <2> QED
    BY <1>2, <2>1 DEF HasLogin, Busy
<1>6. \A m \in AccountNames : ~HasLogin(m, l)
  BY <1>1, <1>2, AccountAssumption DEF LoginsOwned, AccountsTyped, l
<1>7. LoginsOwned'
  <2> SUFFICES ASSUME NEW m \in AccountNames, NEW k \in Nat, HasLogin(m, k)'
               PROVE  /\ k <= l \/ k = MaxLogins + 1
                      /\ \A i \in AccountNames \ {m} : HasLogin(i, k)' => k = 0
    BY <1>2 DEF LoginsOwned
  <2>1. CASE k = l
    BY <1>2, <1>5, <1>6, <2>1
  <2>2. CASE k # l
    <3>1. HasLogin(m, k) /\ \A i \in AccountNames : HasLogin(i, k)' => HasLogin(i, k)
      BY <1>5, <2>2
    <3>2. k <= logins => k <= l
      BY <1>1 DEF l, AccountsTyped
    <3> QED
      BY <1>1, <3>1, <3>2 DEF LoginsOwned
  <2> QED
    BY <2>1, <2>2
<1>8. ASSUME NEW m \in applied' PROVE Sound(m)'
  <2>1. m \in AccountNames /\ m # n /\ Sound(m)
    BY <1>1, <1>2 DEF AccountsTyped
  <2>2. /\ file'[m] = file[m] /\ file'[0] = file[0] /\ last'[m] = last[m]
        /\ path' = path /\ held' = held /\ flight' = flight /\ current' = current
    BY <1>1, <1>2, <2>1 DEF AccountsTyped
  <2> QED
    BY <2>1, <2>2, StaysSound, Zenon DEF Busy
<1> QED
  BY <1>4, <1>7, <1>8 DEF AccountsInv

\* An account that is deleted, or whose file is still there: the others stay as they are.
LEMMA AccountDeleted ==
  ASSUME AccountsInv, NEW n \in AccountNames, Accounts!Delete(n)
  PROVE  AccountsInv'
<1>1. AccountsTyped /\ LoginsOwned /\ (\A m \in applied : Sound(m)) /\ n # 0
  BY AccountAssumption DEF AccountsInv
<1>2. /\ file' = [file EXCEPT ![n] = Accounts!NoFile] \/ file' = file
      /\ last' = [last EXCEPT ![n] = 0]
      /\ applied' = applied \ {n} /\ UNCHANGED <<logins, cursor, held, path, flight, current>>
  BY DEF Accounts!Delete
<1>3. Accounts!NoFile \in Pairs /\ Accounts!NoFile.login = 0
  BY DEF Accounts!NoFile, Pairs
<1>4. AccountsTyped'
  <2>1. /\ last' \in [AccountNames -> 0..MaxLogins]
        /\ file' \in [AccountNames \cup {0} -> Pairs] /\ applied' \subseteq AccountNames
    BY <1>1, <1>2, <1>3, AccountAssumption DEF AccountsTyped
  <2>2. \A p \in AccountNames \cup {0} : file'[p].login = 0 => file'[p] = Accounts!NoFile
    BY <1>1, <1>2, <1>3 DEF AccountsTyped
  <2> QED
    BY <1>1, <1>2, <2>1, <2>2 DEF AccountsTyped
<1>5. LoginsOwned'
  <2>1. \A m \in AccountNames : /\ file'[m].login \in {file[m].login, 0}
                                /\ last'[m] \in {last[m], 0} /\ file'[0] = file[0]
    BY <1>1, <1>2, <1>3 DEF AccountsTyped
  <2>2. \A m \in AccountNames : \A k \in Nat : HasLogin(m, k)' => HasLogin(m, k) \/ k = 0
    BY <1>2, <2>1 DEF HasLogin, Busy
  <2> QED
    BY <1>1, <1>2, <2>2, OwnedKept
<1>6. ASSUME NEW m \in applied' PROVE Sound(m)'
  <2>1. m \in AccountNames /\ m # n /\ Sound(m)
    BY <1>1, <1>2 DEF AccountsTyped
  <2>2. /\ file'[m] = file[m] /\ file'[0] = file[0] /\ last'[m] = last[m]
        /\ path' = path /\ held' = held /\ flight' = flight /\ current' = current
    BY <1>1, <1>2, <2>1 DEF AccountsTyped
  <2> QED
    BY <2>1, <2>2, StaysSound, Zenon DEF Busy
<1> QED
  BY <1>4, <1>5, <1>6 DEF AccountsInv

\* The objects are made anew from the files, by a reload or by a restart.
LEMMA AccountsReloaded ==
  ASSUME AccountsInv, Accounts!Reload \/ Accounts!Restart
  PROVE  AccountsInv'
<1>1. AccountsTyped /\ LoginsOwned /\ \A m \in applied : Sound(m)
  BY DEF AccountsInv
<1>2. /\ held' = Accounts!Rescanned /\ path' = Accounts!Paths
      /\ UNCHANGED <<file, logins, last, current>>
      /\ flight' = flight \/ flight' = Accounts!NoFlight
      /\ cursor' = cursor \/ cursor' = 0
  BY DEF Accounts!Reload, Accounts!Restart
<1>3. \A m \in AccountNames : held'[m] \in {Accounts!Absent, Accounts!Unloaded}
  BY <1>2 DEF Accounts!Rescanned
<1>4. ASSUME NEW m \in applied' PROVE m \in AccountNames /\ Accounts!Settled(m) /\ ~Busy(m)'
  <2>1. \/ m \in AccountNames /\ Accounts!Settled(m) /\ flight' = Accounts!NoFlight
        \/ m \in applied /\ ~Busy(m) /\ (flight' = flight \/ flight' = Accounts!NoFlight)
        \/ m \in applied /\ flight = Accounts!NoFlight /\ flight' = Accounts!NoFlight
    BY DEF Accounts!Reload, Accounts!Restart, Accounts!Apply, Busy
  <2>2. applied \subseteq AccountNames
    BY <1>1 DEF AccountsTyped
  <2>3. ~Busy(m)'
    BY <2>1 DEF Busy
  <2>4. m \in applied /\ ~Busy(m) => Accounts!Settled(m)
    BY <1>1, <2>2, SoundSettled
  <2>5. flight = Accounts!NoFlight => ~Busy(m)
    BY DEF Busy
  <2> QED
    BY <2>1, <2>2, <2>3, <2>4, <2>5
<1>5. AccountsTyped'
  <2>1. held' \in [AccountNames -> Pairs \cup {Accounts!Absent, Accounts!Unloaded}]
    BY <1>2 DEF Accounts!Rescanned
  <2>2. path' \in [AccountNames -> AccountNames \cup {0}] /\ \A n \in AccountNames : ItsFile(n, path'[n])
    BY <1>1, <1>2, FileStands DEF Accounts!Paths
  <2>3. applied' \subseteq AccountNames /\ cursor' \in Nat
    BY <1>1, <1>2, <1>4 DEF AccountsTyped
  <2> QED
    BY <1>1, <1>2, <1>3, <2>1, <2>2, <2>3 DEF AccountsTyped, Accounts!Loaded
<1>6. LoginsOwned'
  <2>1. \A m \in AccountNames : \A k \in Nat : HasLogin(m, k)' => HasLogin(m, k)
    BY <1>2, <1>3 DEF HasLogin, Busy, Accounts!Loaded
  <2> QED
    BY <1>1, <1>2, <2>1, OwnedKept
<1>7. ASSUME NEW m \in applied' PROVE Sound(m)'
  BY <1>1, <1>2, <1>4, ReloadedSound
<1> QED
  BY <1>5, <1>6, <1>7 DEF AccountsInv

\* The object a call loads carries a login of its account, and its file's tokens where
\* the account is sound.
LEMMA LoadedObject ==
  ASSUME AccountsTyped, NEW n \in AccountNames,
         NEW o, o = IF Accounts!Loaded(held[n]) THEN held[n] ELSE file[path[n]]
  PROVE  /\ o \in Pairs /\ (o.login = 0 => o = Accounts!NoFile) /\ HasLogin(n, o.login)
         /\ Sound(n) => o = Accounts!Backed(n)
<1>1. /\ path[n] \in AccountNames \cup {0} /\ (path[n] = n \/ (n = Default /\ path[n] = 0))
      /\ Accounts!Loaded(held[n]) => held[n] \in Pairs
      /\ file[path[n]] \in Pairs
  BY DEF AccountsTyped, ItsFile, Accounts!Loaded
<1>2. o \in Pairs
  BY <1>1
<1>3. o.login = 0 => o = Accounts!NoFile
  BY <1>1 DEF AccountsTyped
<1>4. HasLogin(n, o.login)
  BY <1>1 DEF HasLogin
<1>5. Sound(n) => o = Accounts!Backed(n)
  <2>1. Sound(n) => path[n] = Accounts!PathOf(n) /\ (Accounts!Loaded(held[n]) => held[n] = Accounts!Backed(n))
    BY DEF Sound
  <2> QED
    BY <2>1 DEF Accounts!Backed
<1> QED
  BY <1>2, <1>3, <1>4, <1>5

\* A call whose token is still good loads its account's object.
LEMMA CallServed ==
  ASSUME AccountsInv, Accounts!Serve
  PROVE  AccountsInv'
<1> DEFINE n == Accounts!Current
           o == IF Accounts!Loaded(held[n]) THEN held[n] ELSE file[path[n]]
<1>1. AccountsTyped /\ LoginsOwned /\ \A m \in applied : Sound(m)
  BY DEF AccountsInv
<1>2. n \in AccountNames
  BY <1>1, CurrentPresent DEF Accounts!Serve, Accounts!Present
<1>3. cursor' \in Nat
  BY <1>1, AdvanceTyped DEF Accounts!Serve
<1>4. held' = [held EXCEPT ![n] = IF Accounts!Loaded(held[n]) THEN held[n] ELSE file[path[n]]]
  BY DEF Accounts!Serve
<1>5. /\ UNCHANGED <<file, logins, last, path, flight, current, applied>>
      /\ flight = Accounts!NoFlight
  BY DEF Accounts!Serve
<1> HIDE DEF n
<1>6. /\ o \in Pairs /\ (o.login = 0 => o = Accounts!NoFile) /\ HasLogin(n, o.login)
      /\ Sound(n) => o = Accounts!Backed(n)
  BY <1>1, <1>2, LoadedObject
<1>7. held' = [held EXCEPT ![n] = o]
  BY <1>4
<1> HIDE DEF o
<1>8. AccountsTyped'
  <2>1. held' \in [AccountNames -> Pairs \cup {Accounts!Absent, Accounts!Unloaded}]
    BY <1>1, <1>6, <1>7 DEF AccountsTyped
  <2>2. \A m \in AccountNames : Accounts!Loaded(held'[m]) /\ held'[m].login = 0 => held'[m] = Accounts!NoFile
    BY <1>1, <1>6, <1>7 DEF AccountsTyped
  <2> QED
    BY <1>1, <1>3, <1>5, <2>1, <2>2 DEF AccountsTyped
<1>9. \A m \in AccountNames : held'[m] = IF m = n THEN o ELSE held[m]
  BY <1>1, <1>7 DEF AccountsTyped
<1>10. LoginsOwned'
  <2>1. \A m \in AccountNames : \A k \in Nat : HasLogin(m, k)' => HasLogin(m, k)
    <3> SUFFICES ASSUME NEW m \in AccountNames, NEW k \in Nat, HasLogin(m, k)' PROVE HasLogin(m, k)
      OBVIOUS
    <3>1. CASE m = n /\ k = o.login
      BY <1>6, <3>1
    <3>2. CASE ~(m = n /\ k = o.login)
      BY <1>5, <1>9, <3>2 DEF HasLogin, Busy
    <3> QED
      BY <3>1, <3>2
  <2> QED
    BY <1>1, <1>5, <2>1, OwnedKept
<1>11. ASSUME NEW m \in applied' PROVE Sound(m)'
  <2>1. m \in AccountNames /\ Sound(m) /\ ~Busy(m) /\ ~Busy(m)'
    BY <1>1, <1>5 DEF AccountsTyped, Busy
  <2>2. CASE m = n
    <3>1. /\ Accounts!PathOf(m)' = Accounts!PathOf(m) /\ Accounts!Backed(m)' = Accounts!Backed(m)
          /\ Accounts!Wanted(m)' = Accounts!Wanted(m)
      BY <1>5, <2>1, SameAccount
    <3>2. held'[m] = Accounts!Backed(m)
      BY <1>6, <1>9, <2>1, <2>2
    <3> QED
      BY <1>5, <2>1, <3>1, <3>2, Zenon DEF Sound
  <2>3. CASE m # n
    <3>1. held'[m] = held[m]
      BY <1>9, <2>1, <2>3
    <3> QED
      BY <1>5, <2>1, <3>1, StaysSound
  <2> QED
    BY <2>2, <2>3
<1> QED
  BY <1>8, <1>10, <1>11 DEF AccountsInv

\* A refresh is sent: the account's object is loaded, and the provider may have
\* replaced its token; no other account has the login.
LEMMA RefreshSent ==
  ASSUME AccountsInv, Accounts!Refresh
  PROVE  AccountsInv'
<1> DEFINE n == Accounts!Current
           o == IF Accounts!Loaded(held[n]) THEN held[n] ELSE file[path[n]]
<1>1. AccountsTyped /\ LoginsOwned /\ \A m \in applied : Sound(m)
  BY DEF AccountsInv
<1>2. n \in AccountNames
  BY <1>1, CurrentPresent DEF Accounts!Refresh, Accounts!Present
<1>3. cursor' \in Nat
  BY <1>1, AdvanceTyped DEF Accounts!Refresh
<1>4. /\ o # Accounts!NoFile /\ held' = [held EXCEPT ![n] = o]
      /\ flight' = [name |-> n, path |-> path[n], object |-> o, good |-> o.gen = current[o.login]]
      /\ current' = IF o.gen = current[o.login]
                    THEN [current EXCEPT ![o.login] = @ + 1] ELSE current
      /\ UNCHANGED <<file, logins, last, path, applied>> /\ flight = Accounts!NoFlight
  BY DEF Accounts!Refresh
<1> HIDE DEF n
<1>5. /\ o \in Pairs /\ (o.login = 0 => o = Accounts!NoFile) /\ HasLogin(n, o.login)
      /\ Sound(n) => o = Accounts!Backed(n)
  BY <1>1, <1>2, LoadedObject
<1> HIDE DEF o
<1>6. o.login \in Nat /\ o.gen \in Nat /\ o.login # 0
  BY <1>4, <1>5 DEF Pairs
<1>7. o.login \in Accounts!Logins
  <2>1. o.login <= logins \/ o.login = MaxLogins + 1
    BY <1>1, <1>2, <1>5, <1>6 DEF LoginsOwned
  <2> QED
    BY <1>1, <1>6, <2>1, AccountAssumption DEF AccountsTyped, Accounts!Logins, Accounts!OldLogin
<1>8. \A m \in AccountNames \ {n} : ~HasLogin(m, o.login)
  BY <1>1, <1>2, <1>5, <1>6 DEF LoginsOwned
<1>9. \A m \in AccountNames : held'[m] = IF m = n THEN o ELSE held[m]
  BY <1>1, <1>4 DEF AccountsTyped
<1>10. \A m \in AccountNames : Busy(m)' <=> m = n
  BY <1>2, <1>4 DEF Busy, Accounts!NoFlight
<1>11. /\ flight'.path = path[n] /\ flight'.object = o /\ flight'.name = n
       /\ flight'.good = (o.gen = current[o.login]) /\ flight' # Accounts!NoFlight
  BY <1>4, Zenon DEF Accounts!NoFlight
<1>12. current \in [Accounts!Logins -> Nat] /\ current' \in [Accounts!Logins -> Nat]
       /\ \A l \in Accounts!Logins \ {o.login} : current'[l] = current[l]
  BY <1>1, <1>4, <1>7 DEF AccountsTyped
<1>13. AccountsTyped'
  <2>1. held' \in [AccountNames -> Pairs \cup {Accounts!Absent, Accounts!Unloaded}]
    BY <1>1, <1>4, <1>5 DEF AccountsTyped
  <2>2. \A m \in AccountNames : Accounts!Loaded(held'[m]) /\ held'[m].login = 0 => held'[m] = Accounts!NoFile
    BY <1>1, <1>5, <1>9 DEF AccountsTyped
  <2>3. path[n] \in AccountNames \cup {0} /\ ItsFile(n, path[n])
    BY <1>1, <1>2 DEF AccountsTyped
  <2>4. flight' \in [name : AccountNames, path : AccountNames \cup {0}, object : Pairs, good : BOOLEAN]
    <3>1. (o.gen = current[o.login]) \in BOOLEAN
      OBVIOUS
    <3> QED
      BY <1>2, <1>4, <1>5, <2>3, <3>1
  <2>5. flight'.object.login # 0 /\ ItsFile(flight'.name, flight'.path)
    BY <1>6, <1>11, <2>3
  <2> QED
    BY <1>1, <1>3, <1>4, <1>12, <2>1, <2>2, <2>4, <2>5 DEF AccountsTyped
<1>14. LoginsOwned'
  <2>1. \A m \in AccountNames : \A k \in Nat : HasLogin(m, k)' => HasLogin(m, k)
    <3> SUFFICES ASSUME NEW m \in AccountNames, NEW k \in Nat, HasLogin(m, k)' PROVE HasLogin(m, k)
      OBVIOUS
    <3>1. CASE m = n /\ k = o.login
      BY <1>5, <3>1
    <3>2. CASE ~(m = n /\ k = o.login)
      <4>1. ~(Busy(m)' /\ k = flight'.object.login)
        BY <1>10, <1>11, <3>2
      <4> QED
        BY <1>4, <1>9, <3>2, <4>1 DEF HasLogin
    <3> QED
      BY <3>1, <3>2
  <2> QED
    BY <1>1, <1>4, <2>1, OwnedKept
<1>15. ASSUME NEW m \in applied' PROVE Sound(m)'
  <2>1. m \in AccountNames /\ Sound(m) /\ ~Busy(m)
    BY <1>1, <1>4 DEF AccountsTyped, Busy
  <2>2. CASE m = n
    <3>1. /\ Accounts!PathOf(m)' = Accounts!PathOf(m) /\ Accounts!Backed(m)' = Accounts!Backed(m)
          /\ Accounts!Wanted(m)' = Accounts!Wanted(m)
      BY <1>4, <2>1, SameAccount
    <3>2. /\ o = Accounts!Backed(m) /\ held'[m] = o
      BY <1>5, <1>9, <2>1, <2>2
    <3>3. /\ path[m] = Accounts!PathOf(m)
          /\ (Accounts!Backed(m) = Accounts!NoFile) <=> (Accounts!Wanted(m) = 0)
          /\ Accounts!Backed(m).id = Accounts!Wanted(m) /\ Accounts!Backed(m).login = Accounts!Wanted(m)
          /\ Accounts!Wanted(m) # 0 => Accounts!Backed(m).gen = current[Accounts!Wanted(m)]
      BY <2>1 DEF Sound
    <3>4. o.gen = current[o.login] /\ Accounts!Wanted(m) = o.login /\ o.login # 0
      BY <1>6, <3>2, <3>3
    <3>5. current'[o.login] = o.gen + 1
      <4>1. current' = [current EXCEPT ![o.login] = @ + 1]
        BY <1>4, <3>4
      <4> QED
        BY <1>7, <1>12, <3>4, <4>1
    <3>6. Busy(m)' /\ flight'.good /\ flight'.path = path'[m] /\ path'[m] = path[m]
          /\ flight'.object = o
      BY <1>4, <1>10, <1>11, <2>1, <2>2, <3>4
    <3> QED
      BY <3>1, <3>2, <3>3, <3>4, <3>5, <3>6, Zenon DEF Sound
  <2>3. CASE m # n
    <3>1. held'[m] = held[m] /\ ~Busy(m)'
      BY <1>9, <1>10, <2>1, <2>3
    <3>2. Accounts!Wanted(m) # o.login /\ HasLogin(m, Accounts!Wanted(m)) /\ Accounts!Wanted(m) \in Nat
      BY <1>1, <1>8, <2>1, <2>3, WantedOwned
    <3>3. Accounts!Wanted(m) # 0 => Accounts!Wanted(m) \in Accounts!Logins
      <4>1. Accounts!Wanted(m) <= logins \/ Accounts!Wanted(m) = MaxLogins + 1
        BY <1>1, <2>1, <3>2 DEF LoginsOwned
      <4> QED
        BY <1>1, <3>2, <4>1, AccountAssumption DEF AccountsTyped, Accounts!Logins, Accounts!OldLogin
    <3>4. Accounts!Wanted(m) # 0 => current'[Accounts!Wanted(m)] = current[Accounts!Wanted(m)]
      BY <1>12, <3>2, <3>3
    <3> QED
      BY <1>4, <2>1, <3>1, <3>4, StaysSound
  <2> QED
    BY <2>2, <2>3
<1> QED
  BY <1>13, <1>14, <1>15 DEF AccountsInv

\* The refresh of a sound account is answered and written back: its file and its object
\* carry the token the provider accepts now.
LEMMA WrittenSound ==
  ASSUME AccountsTyped, NEW n \in AccountNames, Sound(n), Busy(n), ~Busy(n)',
         NEW o \in Pairs, o.id = flight.object.id, o.login = flight.object.login,
         o.gen = flight.object.gen + 1,
         file' = [file EXCEPT ![flight.path] = Accounts!WrittenBack(@, o)],
         held' = [held EXCEPT ![n] = o], UNCHANGED <<last, path, current>>
  PROVE  Sound(n)'
<1> DEFINE p == Accounts!PathOf(n)
           x == Accounts!Wanted(n)
<1>1. /\ path[n] = p /\ flight.path = p /\ flight.object = Accounts!Backed(n) /\ x # 0
      /\ Accounts!Backed(n).id = x /\ Accounts!Backed(n).login = x
      /\ current[x] = Accounts!Backed(n).gen + 1
  BY DEF Sound
<1>2. /\ p \in AccountNames \cup {0} /\ (p = n \/ (n = Default /\ p = 0))
      /\ Accounts!Backed(n) = file[p] /\ Accounts!Backed(n) \in Pairs
  BY FileStands DEF ItsFile
<1>3. file[p] # Accounts!NoFile
  BY <1>1, <1>2 DEF Accounts!NoFile
<1>4. file' = [file EXCEPT ![p] = Accounts!WrittenBack(file[p], o)]
  BY <1>1
<1>5. Accounts!WrittenBack(file[p], o) = o
  BY <1>1, <1>2 DEF Accounts!WrittenBack, Pairs
<1>6. p = n \/ file[n] = Accounts!NoFile
  BY DEF Accounts!PathOf
<1>7. n # 0
  BY AccountAssumption
<1> HIDE DEF p
<1>8. \A q \in AccountNames \cup {0} : file'[q] = IF q = p THEN o ELSE file[q]
  BY <1>4, <1>5 DEF AccountsTyped
<1>9. o # Accounts!NoFile
  BY <1>1 DEF Accounts!NoFile
<1>10. \A q \in AccountNames \cup {0} : (file'[q] = Accounts!NoFile) <=> (file[q] = Accounts!NoFile)
  BY <1>3, <1>8, <1>9
<1>11. Accounts!PathOf(n)' = p
  BY <1>10 DEF Accounts!PathOf, p
<1>12. Accounts!Wanted(n)' = x
  BY <1>10 DEF Accounts!Wanted, Accounts!Legacy
<1>13. Accounts!Backed(n)' = o
  BY <1>2, <1>8, <1>11 DEF Accounts!Backed
<1>14. held'[n] = o
  BY DEF AccountsTyped
<1>15. o.id = x /\ o.login = x /\ o.gen = current[x]
  BY <1>1
<1> HIDE DEF x
<1> QED
  BY <1>1, <1>9, <1>11, <1>12, <1>13, <1>14, <1>15, Zenon DEF Sound

\* A refresh is answered: the file and the object may get its tokens.
LEMMA RefreshAnswered ==
  ASSUME AccountsInv, Accounts!Answered
  PROVE  AccountsInv'
<1> DEFINE n == flight.name
           p == flight.path
           o == [flight.object EXCEPT !.gen = @ + 1]
           w == Accounts!WrittenBack(file[p], o)
<1>1. AccountsTyped /\ LoginsOwned /\ \A m \in applied : Sound(m)
  BY DEF AccountsInv
<1>2. /\ flight # Accounts!NoFlight /\ flight' = Accounts!NoFlight
      /\ UNCHANGED <<logins, last, cursor, path, current>>
  BY DEF Accounts!Answered
<1>3. /\ n \in AccountNames /\ p \in AccountNames \cup {0} /\ ItsFile(n, p)
      /\ flight.object \in Pairs /\ flight.object.login # 0
  BY <1>1, <1>2 DEF AccountsTyped
<1>4. /\ o \in Pairs /\ o.id = flight.object.id /\ o.login = flight.object.login
      /\ o.gen = flight.object.gen + 1
  BY <1>3 DEF Pairs
<1>5. /\ held' = held \/ held' = [held EXCEPT ![n] = o]
      /\ file' = file \/ file' = [file EXCEPT ![p] = w]
      /\ applied' = applied \/ applied' = applied \ {n}
  BY DEF Accounts!Answered
<1>6. n \in applied' /\ flight.good /\ held[n] = flight.object =>
        /\ held' = [held EXCEPT ![n] = o]
        /\ file' = [file EXCEPT ![flight.path] = Accounts!WrittenBack(@, o)]
  BY DEF Accounts!Answered
<1> HIDE DEF n, p, o
<1>7. w \in Pairs /\ w.login = flight.object.login
  BY <1>1, <1>3, <1>4 DEF Accounts!WrittenBack, AccountsTyped, Pairs
<1> HIDE DEF w
<1>8. \A m \in AccountNames : held'[m] = held[m] \/ (m = n /\ held'[m] = o)
  BY <1>1, <1>3, <1>5 DEF AccountsTyped
<1>9. \A q \in AccountNames \cup {0} : file'[q] = file[q] \/ (q = p /\ file'[q] = w)
  BY <1>1, <1>3, <1>5 DEF AccountsTyped
<1>10. AccountsTyped'
  <2>1. /\ file' \in [AccountNames \cup {0} -> Pairs] /\ applied' \subseteq AccountNames
    BY <1>1, <1>3, <1>5, <1>7 DEF AccountsTyped
  <2>2. held' \in [AccountNames -> Pairs \cup {Accounts!Absent, Accounts!Unloaded}]
    BY <1>1, <1>3, <1>4, <1>5 DEF AccountsTyped
  <2>3. \A q \in AccountNames \cup {0} : file'[q].login = 0 => file'[q] = Accounts!NoFile
    BY <1>1, <1>3, <1>7, <1>9 DEF AccountsTyped
  <2>4. \A m \in AccountNames : Accounts!Loaded(held'[m]) /\ held'[m].login = 0 => held'[m] = Accounts!NoFile
    BY <1>1, <1>3, <1>4, <1>8 DEF AccountsTyped
  <2> QED
    BY <1>1, <1>2, <2>1, <2>2, <2>3, <2>4 DEF AccountsTyped
<1>11. LoginsOwned'
  <2>1. HasLogin(n, flight.object.login)
    BY <1>2 DEF HasLogin, Busy, n
  <2>2. \A m \in AccountNames : \A k \in Nat : HasLogin(m, k)' => HasLogin(m, k)
    <3> SUFFICES ASSUME NEW m \in AccountNames, NEW k \in Nat, HasLogin(m, k)' PROVE HasLogin(m, k)
      OBVIOUS
    <3>1. CASE m = n /\ k = flight.object.login
      BY <2>1, <3>1
    <3>2. CASE ~(m = n /\ k = flight.object.login)
      <4>1. ~Busy(m)' /\ last' = last
        BY <1>2 DEF Busy
      <4>2. m # 0 /\ n # 0 /\ (p = n \/ (n = Default /\ p = 0))
        BY <1>3, AccountAssumption DEF ItsFile
      <4>3. k = file'[m].login => k = file[m].login
        BY <1>7, <1>9, <3>2, <4>2
      <4>4. m = Default /\ k = file'[0].login => k = file[0].login
        BY <1>7, <1>9, <3>2, <4>2
      <4>5. Accounts!Loaded(held'[m]) /\ k = held'[m].login => held'[m] = held[m]
        BY <1>4, <1>8, <3>2
      <4> QED
        BY <4>1, <4>3, <4>4, <4>5 DEF HasLogin
    <3> QED
      BY <3>1, <3>2
  <2> QED
    BY <1>1, <1>2, <2>2, OwnedKept
<1>12. ASSUME NEW m \in applied' PROVE Sound(m)'
  <2>1. m \in AccountNames /\ Sound(m) /\ ~Busy(m)'
    BY <1>1, <1>2, <1>5 DEF AccountsTyped, Busy
  <2>2. CASE m = n
    <3>1. Busy(n)
      BY <1>2 DEF Busy, n
    <3>2. flight.good /\ held[n] = flight.object
      BY <2>1, <2>2, <3>1 DEF Sound
    <3>3. /\ held' = [held EXCEPT ![n] = o]
          /\ file' = [file EXCEPT ![flight.path] = Accounts!WrittenBack(@, o)]
      BY <1>6, <2>2, <3>2
    <3> QED
      BY <1>1, <1>2, <1>4, <2>1, <2>2, <3>1, <3>3, WrittenSound
  <2>3. CASE m # n
    <3>1. ~Busy(m)
      BY <2>3 DEF Busy, n
    <3>2. m # 0 /\ (p = n \/ (n = Default /\ p = 0))
      BY <1>3, <2>1, AccountAssumption DEF ItsFile
    <3>3. held'[m] = held[m] /\ file'[m] = file[m] /\ (m = Default => file'[0] = file[0])
      <4>1. held'[m] = held[m]
        BY <1>8, <2>1, <2>3
      <4>2. m # p /\ (m = Default => p # 0)
        BY <1>3, <2>3, <3>2, AccountAssumption
      <4> QED
        BY <1>9, <2>1, <4>1, <4>2
    <3> QED
      BY <1>2, <2>1, <3>1, <3>3, StaysSound
  <2> QED
    BY <2>2, <2>3
<1> QED
  BY <1>10, <1>11, <1>12 DEF AccountsInv

\* The answer to a refresh is lost: its account is no longer one whose change was applied.
LEMMA RefreshLost ==
  ASSUME AccountsInv, Accounts!Unanswered
  PROVE  AccountsInv'
<1>1. AccountsTyped /\ LoginsOwned /\ \A m \in applied : Sound(m)
  BY DEF AccountsInv
<1>2. /\ flight # Accounts!NoFlight /\ flight' = Accounts!NoFlight /\ applied' = applied \ {flight.name}
      /\ UNCHANGED <<file, logins, last, cursor, held, path, current>>
  BY DEF Accounts!Unanswered
<1>3. AccountsTyped'
  BY <1>1, <1>2 DEF AccountsTyped
<1>4. LoginsOwned'
  <2>1. \A m \in AccountNames : \A k \in Nat : HasLogin(m, k)' => HasLogin(m, k)
    BY <1>2 DEF HasLogin, Busy
  <2> QED
    BY <1>1, <1>2, <2>1, OwnedKept
<1>5. ASSUME NEW m \in applied' PROVE Sound(m)'
  <2>1. m \in AccountNames /\ Sound(m) /\ ~Busy(m) /\ ~Busy(m)'
    BY <1>1, <1>2 DEF AccountsTyped, Busy
  <2> QED
    BY <1>2, <2>1, StaysSound
<1> QED
  BY <1>3, <1>4, <1>5 DEF AccountsInv

\* Sign-ins, reloads, refreshes with their write-back, and selections.
LEMMA AccountsStep == AccountsInv /\ [Accounts!Next]_Accounts!vars => AccountsInv'
<1> SUFFICES ASSUME AccountsInv, [Accounts!Next]_Accounts!vars PROVE AccountsInv'
  OBVIOUS
<1>1. ASSUME UNCHANGED <<file, logins, last, cursor, held, path, flight, current, applied>>
      PROVE  AccountsInv'
  <2>1. AccountsTyped'
    BY <1>1 DEF AccountsInv, AccountsTyped
  <2>2. LoginsOwned'
    BY <1>1 DEF AccountsInv, LoginsOwned, HasLogin, Busy
  <2>3. ASSUME NEW m \in applied' PROVE Sound(m)'
    <3>1. m \in AccountNames /\ Sound(m) /\ (Busy(m)' <=> Busy(m))
      BY <1>1 DEF AccountsInv, AccountsTyped, Busy
    <3> QED
      BY <1>1, <3>1, StaysSound
  <2> QED
    BY <2>1, <2>2, <2>3 DEF AccountsInv
<1>2. CASE \E n \in AccountNames : Accounts!Add(n) \/ Accounts!Delete(n)
  BY <1>2, AccountAdded, AccountDeleted
<1>3. CASE \E m \in {Accounts!Auto, Accounts!Balanced} \cup AccountNames : Accounts!Select(m)
  BY <1>1, <1>3 DEF Accounts!Select
<1>4. CASE UNCHANGED Accounts!vars
  BY <1>1, <1>4 DEF Accounts!vars
<1> QED
  BY <1>2, <1>3, <1>4, AccountsReloaded, CallServed, RefreshSent, RefreshAnswered, RefreshLost
     DEF Accounts!Next

\* What the operator changed of an account and the router reloaded stays: no
\* refresh that was under way puts an older token pair back (codex_auth.py,
\* CodexAuth._refresh and _write_back, CodexAuthStore.reload).  Where an older
\* release left its file, what a deletion of "default" leaves is that login
\* (_account_path); a file that could not be removed is never counted as deleted.
THEOREM AccountChangesStick == Accounts!Spec => []Accounts!AppliedSticks
<1>1. AccountsInv => Accounts!AppliedSticks
  <2> SUFFICES ASSUME AccountsInv, NEW n \in applied
               PROVE  /\ (Accounts!Backed(n) = Accounts!NoFile) <=> (Accounts!Wanted(n) = 0)
                      /\ Accounts!Backed(n).id = Accounts!Wanted(n)
                      /\ Accounts!Backed(n).login = Accounts!Wanted(n)
                      /\ Accounts!Wanted(n) # 0 /\ ~Busy(n) =>
                           Accounts!Backed(n).gen = current[Accounts!Wanted(n)]
                      /\ Accounts!Loaded(held[n]) => held[n] = Accounts!Backed(n)
    BY DEF Accounts!AppliedSticks, Busy
  <2> QED
    BY DEF AccountsInv, Sound
<1> QED
  BY <1>1, AccountsStart, AccountsStep, PTL DEF Accounts!Spec

(***************************************************************************)
(* The links to sign in with (CodexInvites)                                *)
(***************************************************************************)
\* What the store keeps of a link.
InviteRecords == [code : Int, started : Int, polled : Int, used : BOOLEAN, expires : Int]
\* What a request of the sign-in page is at.
Sessions == {Invites!Idle} \cup [at : {"starting"}, link : Links]
              \cup [at : {"polling", "marking"}, link : Links, code : Int, since : Nat]

\* What the variables may hold.
InvitesTyped ==
    /\ clock \in Nat /\ codes \in Nat
    /\ invite \in [Links -> InviteRecords] /\ visit \in [Visits -> Sessions]
    /\ stored \in [Links -> [first : Int, last : Int]]
    /\ \A l \in Links : stored[l] # Invites!NotStored =>
                          0 <= stored[l].first /\ stored[l].first <= clock

\* The request may store an account for the link.
Granting(v, l) == visit[v].at \in {"polling", "marking"} /\ visit[v].link = l
\* The link is there and not marked as used.
Open(l) == invite[l] # Invites!NoInvite /\ ~invite[l].used

\* No request outlives its call to the vendor.
GrantsShort == \A v \in Visits : visit[v].at \in {"polling", "marking"} =>
                   visit[v].since <= clock /\ clock <= visit[v].since + GrantTime

\* Once an account was stored for a link, the request that marks the link is at
\* work, and every other that may store one began before its call ended.
MarkedSoon == \A l \in Links \ faulted : stored[l] # Invites!NotStored =>
    /\ Open(l) => \E v \in Visits : /\ visit[v].at = "marking" /\ visit[v].link = l
                                    /\ visit[v].since <= stored[l].first
    /\ \A v \in Visits : Granting(v, l) => visit[v].since <= stored[l].first + GrantTime
    /\ stored[l].last <= stored[l].first + 2 * GrantTime

\* All of it.
InvitesInv == InvitesTyped /\ GrantsShort /\ MarkedSoon

\* A record with another device code.
WithCode(r, c, s, p) == [r EXCEPT !.code = c, !.started = s, !.polled = p]

\* A new device code leaves the mark of use as it was.
LEMMA CodeReplaced ==
  ASSUME NEW r \in InviteRecords, NEW c \in Int, NEW s \in Int, NEW p \in Int
  PROVE  WithCode(r, c, s, p) \in InviteRecords /\ WithCode(r, c, s, p).used = r.used
<1> DEFINE a == [r EXCEPT !.code = c]
           b == [a EXCEPT !.started = s]
           d == [b EXCEPT !.polled = p]
<1>1. a \in InviteRecords /\ a.used = r.used
  BY DEF InviteRecords
<1>2. b \in InviteRecords /\ b.used = r.used
  <2> HIDE DEF a
  <2> QED
    BY <1>1 DEF InviteRecords
<1>3. d \in InviteRecords /\ d.used = r.used
  <2> HIDE DEF b
  <2> QED
    BY <1>2 DEF InviteRecords
<1> QED
  BY <1>3 DEF WithCode

\* No link is there at first.
LEMMA InvitesStart == Invites!Init => InvitesInv
BY InviteAssumption DEF Invites!Init, InvitesInv, InvitesTyped, GrantsShort, MarkedSoon, InviteRecords,
   Sessions, Invites!Idle, Invites!NoInvite, Invites!NotStored, Granting, Open

(* What leaves the clock and the stored accounts alone, marks no link as      *)
(* open, and takes no visit out of marking.                                  *)
LEMMA InvitesKept ==
  ASSUME InvitesInv, InvitesTyped', UNCHANGED <<clock, stored, faulted>>,
         \A l \in Links : stored[l] # Invites!NotStored /\ Open(l)' => Open(l),
         \A v \in Visits : visit'[v] = visit[v] \/ visit[v].at # "marking",
         \A v \in Visits : visit'[v] = visit[v] \/ visit'[v].at \notin {"polling", "marking"}
  PROVE  InvitesInv'
<1>1. GrantsShort'
  BY DEF InvitesInv, GrantsShort
<1>2. MarkedSoon'
  <2> SUFFICES ASSUME NEW l \in Links \ faulted, stored[l] # Invites!NotStored
               PROVE  /\ Open(l)' => \E v \in Visits : /\ visit'[v].at = "marking" /\ visit'[v].link = l
                                                       /\ visit'[v].since <= stored[l].first
                      /\ \A v \in Visits : Granting(v, l)' => visit'[v].since <= stored[l].first + GrantTime
                      /\ stored[l].last <= stored[l].first + 2 * GrantTime
    BY DEF MarkedSoon
  <2>1. /\ Open(l) => \E v \in Visits : /\ visit[v].at = "marking" /\ visit[v].link = l
                                        /\ visit[v].since <= stored[l].first
        /\ \A v \in Visits : Granting(v, l) => visit[v].since <= stored[l].first + GrantTime
        /\ stored[l].last <= stored[l].first + 2 * GrantTime
    BY DEF InvitesInv, MarkedSoon
  <2>2. Open(l)' => Open(l)
    OBVIOUS
  <2>3. \A v \in Visits : Granting(v, l)' => visit'[v] = visit[v] /\ Granting(v, l)
    BY DEF Granting
  <2>4. \A v \in Visits : visit[v].at = "marking" => visit'[v] = visit[v]
    OBVIOUS
  <2> QED
    BY <2>1, <2>2, <2>3, <2>4
<1> QED
  BY <1>1, <1>2 DEF InvitesInv

\* Creating, opening, polling, storing, marking, revoking and the clock.
LEMMA InvitesStep == InvitesInv /\ [Invites!Next]_(Invites!vars) => InvitesInv'
<1> SUFFICES ASSUME InvitesInv, [Invites!Next]_(Invites!vars) PROVE InvitesInv'
  OBVIOUS
<1>0. InvitesTyped /\ GrantsShort /\ MarkedSoon
  BY DEF InvitesInv
<1> USE InviteAssumption
<1> DEFINE Same == UNCHANGED <<clock, stored, faulted>>
           Opens == \A l \in Links : stored[l] # Invites!NotStored /\ Open(l)' => Open(l)
           Marks == \A v \in Visits : visit'[v] = visit[v] \/ visit[v].at # "marking"
           Grants == \A v \in Visits : visit'[v] = visit[v] \/ visit'[v].at \notin {"polling", "marking"}
<1>a. ASSUME Same, InvitesTyped', Opens, Marks, Grants PROVE InvitesInv'
  BY <1>a, InvitesKept
<1> HIDE DEF Same, Opens, Marks, Grants
<1> USE DEF Invites!ghosts
<1>1. CASE Invites!Tick
  <2>1. InvitesTyped'
    BY <1>0, <1>1 DEF Invites!Tick, InvitesTyped
  <2>2. GrantsShort'
    BY <1>0, <1>1 DEF Invites!Tick, InvitesTyped, GrantsShort, Sessions, Invites!Idle
  <2>3. MarkedSoon'
    BY <1>0, <1>1 DEF Invites!Tick, MarkedSoon, Granting, Open
  <2> QED
    BY <2>1, <2>2, <2>3 DEF InvitesInv
<1>2. CASE Invites!Crash
  <2>1. InvitesTyped'
    BY <1>0, <1>2 DEF Invites!Crash, InvitesTyped, Sessions
  <2>2. GrantsShort'
    BY <1>0, <1>2 DEF Invites!Crash, GrantsShort, Invites!Idle
  <2>3. MarkedSoon'
    BY <1>0, <1>2 DEF Invites!Crash, Invites!Marking, MarkedSoon, Granting, Open, Invites!Idle
  <2> QED
    BY <2>1, <2>2, <2>3 DEF InvitesInv
<1>3. ASSUME NEW l \in Links, Invites!Create(l) PROVE InvitesInv'
  <2>0. /\ Invites!NoInvite \in InviteRecords
        /\ [Invites!NoInvite EXCEPT !.expires = clock + LinkTTL] \in InviteRecords
    <3>1. clock + LinkTTL \in Int /\ 0 \in Int /\ -1 \in Int
      BY <1>0 DEF InvitesTyped
    <3>2. Invites!NoInvite \in InviteRecords
      BY <3>1, Zenon DEF InviteRecords, Invites!NoInvite
    <3>3. [Invites!NoInvite EXCEPT !.expires = clock + LinkTTL] \in InviteRecords
      BY <3>1, <3>2 DEF InviteRecords
    <3> QED
      BY <3>2, <3>3
  <2>1. InvitesTyped'
    BY <1>0, <1>3, <2>0 DEF Invites!Create, InvitesTyped
  <2>2. Opens
    BY <1>0, <1>3 DEF Opens, Invites!Create, InvitesTyped, Open
  <2> QED
    BY <2>1, <2>2, <1>3, <1>a DEF Invites!Create, Same, Marks, Grants
<1>4. ASSUME NEW l \in Links, Invites!Revoke(l) PROVE InvitesInv'
  <2>1. InvitesTyped'
    BY <1>0, <1>4 DEF Invites!Revoke, InvitesTyped, InviteRecords, Invites!NoInvite
  <2>2. Opens
    BY <1>0, <1>4 DEF Opens, Invites!Revoke, InvitesTyped, Open
  <2> QED
    BY <2>1, <2>2, <1>4, <1>a DEF Invites!Revoke, Same, Marks, Grants
<1>b. ASSUME NEW l \in Links, NEW new \in InviteRecords, Invites!Mutated(l, new), new.used = invite[l].used \/ new.used
      PROVE  invite' \in [Links -> InviteRecords] /\ (UNCHANGED stored => Opens)
  BY <1>0, <1>b DEF Invites!Mutated, Invites!Known, InvitesTyped, Opens, Open, InviteRecords
<1>5. ASSUME NEW l \in Links, Invites!Timed(l) PROVE InvitesInv'
  <2>1. Invites!Cleared(l) \in InviteRecords /\ Invites!Cleared(l).used = invite[l].used
    <3>1. Invites!Cleared(l) = WithCode(invite[l], 0, -1, -1) /\ invite[l] \in InviteRecords
      BY <1>0 DEF Invites!Cleared, InvitesTyped, WithCode
    <3> QED
      BY <3>1, CodeReplaced
  <2>2. invite' \in [Links -> InviteRecords] /\ Opens
    BY <2>1, <1>b, <1>5 DEF Invites!Timed
  <2>3. InvitesTyped'
    BY <1>0, <1>5, <2>2 DEF Invites!Timed, InvitesTyped
  <2> QED
    BY <2>2, <2>3, <1>5, <1>a DEF Invites!Timed, Same, Marks, Grants
<1>6. ASSUME NEW v \in Visits, NEW l \in Links, Invites!Start(v, l) PROVE InvitesInv'
  <2>1. InvitesTyped'
    BY <1>0, <1>6 DEF Invites!Start, Invites!Go, InvitesTyped, Sessions
  <2>2. Opens
    BY <1>6 DEF Opens, Invites!Start, Open
  <2>3. Marks /\ Grants
    BY <1>0, <1>6 DEF Invites!Start, Invites!Go, InvitesTyped, Marks, Grants, Invites!Idle
  <2> QED
    BY <2>1, <2>2, <2>3, <1>6, <1>a DEF Invites!Start, Same
<1>7. ASSUME NEW v \in Visits, Invites!Started(v) PROVE InvitesInv'
  <2> DEFINE l == visit[v].link
             new == [invite[l] EXCEPT !.code = codes', !.started = clock, !.polled = -1]
  <2>1. l \in Links
    BY <1>0, <1>7 DEF Invites!Started, InvitesTyped, Sessions, Invites!Idle
  <2>2. new \in InviteRecords /\ new.used = invite[l].used
    <3>1. invite[l] \in InviteRecords /\ codes' \in Int /\ clock \in Int
      BY <1>0, <1>7, <2>1 DEF Invites!Started, InvitesTyped
    <3>2. new = WithCode(invite[l], codes', clock, -1)
      BY DEF WithCode
    <3> HIDE DEF new, l
    <3> QED
      BY <3>1, <3>2, CodeReplaced
  <2>3. Invites!Mutated(l, new) /\ UNCHANGED stored
    BY <1>7 DEF Invites!Started
  <2> HIDE DEF l, new
  <2>4. invite' \in [Links -> InviteRecords] /\ Opens
    BY <2>1, <2>2, <2>3, <1>b
  <2>5. InvitesTyped'
    BY <1>0, <1>7, <2>4 DEF Invites!Started, Invites!Go, InvitesTyped, Sessions
  <2>6. Marks /\ Grants
    BY <1>0, <1>7 DEF Invites!Started, Invites!Go, InvitesTyped, Marks, Grants, Invites!Idle
  <2> QED
    BY <2>4, <2>5, <2>6, <1>7, <1>a DEF Invites!Started, Same
<1>8. ASSUME NEW v \in Visits, NEW l \in Links, Invites!Poll(v, l) PROVE InvitesInv'
  <2> DEFINE new == [invite[l] EXCEPT !.polled = clock]
  <2>1. new \in InviteRecords /\ new.used = invite[l].used
    BY <1>0 DEF InvitesTyped, InviteRecords
  <2>2. Invites!Mutated(l, new) /\ Same
    BY <1>8 DEF Invites!Poll, Same
  <2> HIDE DEF new
  <2>3. invite' \in [Links -> InviteRecords] /\ Opens
    BY <2>1, <2>2, <1>b DEF Same
  <2>4. Open(l)
    BY <1>8 DEF Invites!Poll, Invites!Good, Invites!Known, Invites!Status, Open
  <2>5. visit' = [visit EXCEPT ![v] = [at |-> "polling", link |-> l, code |-> invite[l].code, since |-> clock]]
    BY <1>8 DEF Invites!Poll, Invites!Go
  <2>6. visit[v].at = "idle"
    BY <1>8 DEF Invites!Poll, Invites!Idle
  <2>7. InvitesTyped'
    BY <1>0, <1>8, <2>3, <2>5 DEF Invites!Poll, InvitesTyped, Sessions, InviteRecords
  <2>8. GrantsShort'
    BY <1>0, <2>2, <2>5 DEF InvitesTyped, GrantsShort, Same
  <2>9. MarkedSoon'
    <3> SUFFICES ASSUME NEW m \in Links \ faulted, stored[m] # Invites!NotStored
                 PROVE  /\ Open(m)' => \E w \in Visits : /\ visit'[w].at = "marking" /\ visit'[w].link = m
                                                         /\ visit'[w].since <= stored[m].first
                        /\ \A w \in Visits : Granting(w, m)' => visit'[w].since <= stored[m].first + GrantTime
                        /\ stored[m].last <= stored[m].first + 2 * GrantTime
      BY <2>2 DEF MarkedSoon, Same
    <3>1. /\ Open(m) => \E w \in Visits : /\ visit[w].at = "marking" /\ visit[w].link = m
                                          /\ visit[w].since <= stored[m].first
          /\ \A w \in Visits : Granting(w, m) => visit[w].since <= stored[m].first + GrantTime
          /\ stored[m].last <= stored[m].first + 2 * GrantTime
      BY <1>0 DEF MarkedSoon
    <3>2. Open(m)' => Open(m)
      BY <2>3 DEF Opens
    <3>3. \A w \in Visits : w # v => visit'[w] = visit[w]
      BY <1>0, <2>5 DEF InvitesTyped
    <3>4. Open(m)' => \E w \in Visits : /\ visit'[w].at = "marking" /\ visit'[w].link = m
                                        /\ visit'[w].since <= stored[m].first
      BY <3>1, <3>2, <3>3, <2>6
    <3>5. ASSUME NEW w \in Visits, Granting(w, m)' PROVE visit'[w].since <= stored[m].first + GrantTime
      <4>1. CASE w # v
        BY <3>1, <3>3, <3>5, <4>1 DEF Granting
      <4>2. CASE w = v
        <5>1. m = l /\ visit'[w].since = clock
          BY <4>2, <3>5, <2>5, <1>0 DEF Granting, InvitesTyped
        <5>2. PICK u \in Visits : /\ visit[u].at = "marking" /\ visit[u].link = m
                                  /\ visit[u].since <= stored[m].first
          BY <5>1, <2>4, <3>1
        <5>3. clock <= visit[u].since + GrantTime /\ visit[u].since \in Nat /\ stored[m].first \in Int
          BY <1>0, <5>2 DEF GrantsShort, InvitesTyped, Sessions, Invites!Idle
        <5> QED
          BY <5>1, <5>2, <5>3, <1>0 DEF InvitesTyped
      <4> QED
        BY <4>1, <4>2
    <3> QED
      BY <3>1, <3>4, <3>5
  <2> QED
    BY <2>7, <2>8, <2>9 DEF InvitesInv
<1>9. ASSUME NEW v \in Visits, Invites!NotApproved(v) PROVE InvitesInv'
  <2>1. InvitesTyped'
    BY <1>0, <1>9 DEF Invites!NotApproved, Invites!Go, InvitesTyped, Sessions
  <2>2. Opens
    BY <1>9 DEF Opens, Invites!NotApproved, Open
  <2>3. Marks /\ Grants
    BY <1>0, <1>9 DEF Invites!NotApproved, Invites!Go, InvitesTyped, Marks, Grants, Invites!Idle
  <2> QED
    BY <2>1, <2>2, <2>3, <1>9, <1>a DEF Invites!NotApproved, Same
<1>10. ASSUME NEW v \in Visits, Invites!PollFails(v) PROVE InvitesInv'
  <2> DEFINE l == visit[v].link
  <2>1. l \in Links
    BY <1>0, <1>10 DEF Invites!PollFails, InvitesTyped, Sessions, Invites!Idle
  <2>2. Invites!Cleared(l) \in InviteRecords /\ Invites!Cleared(l).used = invite[l].used
    <3>1. Invites!Cleared(l) = WithCode(invite[l], 0, -1, -1) /\ invite[l] \in InviteRecords
      BY <1>0, <2>1 DEF Invites!Cleared, InvitesTyped, WithCode
    <3> QED
      BY <3>1, CodeReplaced
  <2>3. Invites!Mutated(l, Invites!Cleared(l)) /\ UNCHANGED stored
    BY <1>10 DEF Invites!PollFails
  <2> HIDE DEF l
  <2>4. invite' \in [Links -> InviteRecords] /\ Opens
    BY <2>1, <2>2, <2>3, <1>b
  <2>5. InvitesTyped'
    BY <1>0, <1>10, <2>4 DEF Invites!PollFails, Invites!Go, InvitesTyped, Sessions
  <2>6. Marks /\ Grants
    BY <1>0, <1>10 DEF Invites!PollFails, Invites!Go, InvitesTyped, Marks, Grants, Invites!Idle
  <2> QED
    BY <2>4, <2>5, <2>6, <1>10, <1>a DEF Invites!PollFails, Same
<1>11. ASSUME NEW v \in Visits, Invites!Connected(v) PROVE InvitesInv'
  <2>0. PICK l \in Links : l = visit[v].link
    BY <1>0, <1>11 DEF Invites!Connected, InvitesTyped, Sessions, Invites!Idle
  <2> DEFINE s == [first |-> IF stored[l] = Invites!NotStored THEN clock ELSE stored[l].first, last |-> clock]
  <2>1. visit[v].link = l /\ visit[v].since \in Nat /\ visit[v].at = "polling"
    BY <1>0, <1>11, <2>0 DEF Invites!Connected, InvitesTyped, Sessions, Invites!Idle
  <2>2. /\ stored' = [stored EXCEPT ![l] = s] /\ visit' = [visit EXCEPT ![v] = [visit[v] EXCEPT !.at = "marking"]]
        /\ UNCHANGED <<clock, invite, codes, faulted>>
    BY <1>11, <2>0 DEF Invites!Connected, Invites!Go
  <2>3. visit'[v].at = "marking" /\ visit'[v].link = l /\ visit'[v].since = visit[v].since
    BY <1>0, <1>11, <2>1, <2>2 DEF Invites!Connected, InvitesTyped, Sessions, Invites!Idle
  <2>4. \A w \in Visits : w # v => visit'[w] = visit[w]
    BY <1>0, <2>2 DEF InvitesTyped
  <2>5. clock \in Nat /\ s \in [first : Int, last : Int]
    BY <1>0, <2>1 DEF InvitesTyped
  <2>6. \A m \in Links : m # l => stored'[m] = stored[m]
    BY <1>0, <2>2 DEF InvitesTyped
  <2>7. stored'[l] = s
    BY <1>0, <2>1, <2>2 DEF InvitesTyped
  <2>8. visit' \in [Visits -> Sessions]
    <3>1. visit[v] \in [at : {"polling", "marking"}, link : Links, code : Int, since : Nat]
      BY <1>0, <2>1 DEF InvitesTyped, Sessions, Invites!Idle
    <3>2. [visit[v] EXCEPT !.at = "marking"] \in Sessions
      BY <3>1 DEF Sessions
    <3> QED
      BY <1>0, <2>2, <3>2 DEF InvitesTyped
  <2>9. visit[v].since <= clock /\ clock <= visit[v].since + GrantTime
    BY <1>0, <2>1 DEF GrantsShort
  <2>a. \A m \in Links : m # l => \A w \in Visits : Granting(w, m)' => visit'[w] = visit[w] /\ Granting(w, m)
    BY <2>3, <2>4 DEF Granting
  <2>b. \/ stored[l] = Invites!NotStored /\ stored'[l] = [first |-> clock, last |-> clock]
        \/ stored[l] # Invites!NotStored /\ stored'[l] = [first |-> stored[l].first, last |-> clock]
    <3>1. CASE stored[l] = Invites!NotStored
      BY <2>7, <3>1
    <3>2. CASE stored[l] # Invites!NotStored
      BY <2>7, <3>2
    <3> QED
      BY <3>1, <3>2
  <2>c. stored'[l] # Invites!NotStored =>
            0 <= stored'[l].first /\ stored'[l].first <= clock
    <3>1. CASE stored[l] = Invites!NotStored
      BY <2>b, <2>5, <3>1
    <3>2. CASE stored[l] # Invites!NotStored
      BY <1>0, <2>1, <2>b, <2>5, <3>2 DEF InvitesTyped
    <3> QED
      BY <3>1, <3>2
  <2> HIDE DEF s
  <2>10. InvitesTyped'
    BY <1>0, <2>2, <2>5, <2>6, <2>c, <2>8 DEF InvitesTyped
  <2>11. GrantsShort'
    BY <1>0, <2>2, <2>3, <2>4, <2>9 DEF GrantsShort
  <2>12. MarkedSoon'
    <3> SUFFICES ASSUME NEW m \in Links \ faulted, stored'[m] # Invites!NotStored
                 PROVE  /\ Open(m)' => \E w \in Visits : /\ visit'[w].at = "marking" /\ visit'[w].link = m
                                                         /\ visit'[w].since <= stored'[m].first
                        /\ \A w \in Visits : Granting(w, m)' => visit'[w].since <= stored'[m].first + GrantTime
                        /\ stored'[m].last <= stored'[m].first + 2 * GrantTime
      BY <2>2 DEF MarkedSoon
    <3>1. stored[m] # Invites!NotStored =>
          /\ Open(m) => \E w \in Visits : /\ visit[w].at = "marking" /\ visit[w].link = m
                                          /\ visit[w].since <= stored[m].first
          /\ \A w \in Visits : Granting(w, m) => visit[w].since <= stored[m].first + GrantTime
          /\ stored[m].last <= stored[m].first + 2 * GrantTime
      BY <1>0 DEF MarkedSoon
    <3>2. Open(m)' = Open(m)
      BY <2>2 DEF Open
    <3>3. CASE m # l
      BY <3>1, <3>2, <3>3, <2>1, <2>4, <2>6, <2>a
    <3>4. CASE m = l /\ stored[l] = Invites!NotStored
      <4>1. stored'[l].first = clock /\ stored'[l].last = clock
        BY <2>b, <3>4
      <4>2. \A w \in Visits : Granting(w, l)' => visit'[w].since <= clock
        BY <2>11, <2>2 DEF GrantsShort, Granting
      <4>3. \A w \in Visits : Granting(w, l)' => visit'[w].since \in Nat
        BY <2>10 DEF InvitesTyped, Sessions, Granting, Invites!Idle
      <4>4. \E w \in Visits : visit'[w].at = "marking" /\ visit'[w].link = l /\ visit'[w].since <= clock
        BY <2>3, <2>9
      <4>5. \A w \in Visits : Granting(w, l)' => visit'[w].since <= clock + GrantTime
        BY <4>2, <4>3, <2>5
      <4>6. clock <= clock + 2 * GrantTime
        BY <2>5
      <4> QED
        BY <3>4, <4>1, <4>4, <4>5, <4>6
    <3>5. CASE m = l /\ stored[l] # Invites!NotStored
      <4>1. stored'[l].first = stored[l].first /\ stored'[l].last = clock
        BY <2>b, <3>5
      <4>2. visit[v].since <= stored[l].first + GrantTime /\ stored[l].first \in Int
        BY <1>0, <2>1, <3>1, <3>5 DEF Granting, InvitesTyped
      <4>3. \A w \in Visits : Granting(w, l)' => visit'[w].since = visit[w].since /\ Granting(w, l)
        BY <2>1, <2>3, <2>4 DEF Granting
      <4>4. Open(m)' => \E w \in Visits : /\ visit'[w].at = "marking" /\ visit'[w].link = m
                                          /\ visit'[w].since <= stored'[m].first
        BY <3>1, <3>2, <3>5, <4>1, <2>1, <2>4
      <4>5. clock <= stored[l].first + 2 * GrantTime
        BY <4>2, <2>1, <2>5, <2>9
      <4>6. \A w \in Visits : Granting(w, m)' => visit'[w].since <= stored'[m].first + GrantTime
        BY <3>1, <3>5, <4>1, <4>3
      <4>7. stored'[m].last <= stored'[m].first + 2 * GrantTime
        BY <3>5, <4>1, <4>5
      <4> QED
        BY <4>4, <4>6, <4>7
    <3> QED
      BY <3>3, <3>4, <3>5
  <2> QED
    BY <2>10, <2>11, <2>12 DEF InvitesInv
<1>12. ASSUME NEW v \in Visits, Invites!MarkUsed(v) PROVE InvitesInv'
  <2>1. PICK l \in Links : l = visit[v].link
    BY <1>0, <1>12 DEF Invites!MarkUsed, InvitesTyped, Sessions, Invites!Idle
  <2>2. Invites!Mark(l) \in InviteRecords /\ Invites!Mark(l).used
    BY <1>0, <2>1 DEF Invites!Mark, InvitesTyped, InviteRecords
  <2>3. Invites!Mutated(l, Invites!Mark(l)) /\ UNCHANGED <<clock, stored, faulted, codes>>
        /\ visit' = [visit EXCEPT ![v] = Invites!Idle]
    BY <1>12, <2>1 DEF Invites!MarkUsed, Invites!Go
  <2>4. invite' \in [Links -> InviteRecords] /\ Opens
    BY <2>1, <2>2, <2>3, <1>b
  <2>5. ~Open(l)'
    <3>1. CASE Invites!Known(l)
      <4>1. invite'[l] = Invites!Mark(l)
        BY <1>0, <2>1, <2>3, <3>1 DEF Invites!Mutated, InvitesTyped
      <4> QED
        BY <2>2, <4>1 DEF Open
    <3>2. CASE ~Invites!Known(l)
      BY <2>3, <3>2 DEF Invites!Mutated, Invites!Known, Open
    <3> QED
      BY <3>1, <3>2
  <2>6. InvitesTyped'
    BY <1>0, <2>3, <2>4 DEF InvitesTyped, Sessions
  <2>7. visit'[v].at = "idle" /\ \A w \in Visits : w # v => visit'[w] = visit[w]
    BY <1>0, <2>3 DEF InvitesTyped, Invites!Idle
  <2>8. GrantsShort'
    BY <1>0, <2>3, <2>7 DEF GrantsShort
  <2>9. MarkedSoon'
    <3> SUFFICES ASSUME NEW m \in Links \ faulted, stored[m] # Invites!NotStored
                 PROVE  /\ Open(m)' => \E w \in Visits : /\ visit'[w].at = "marking" /\ visit'[w].link = m
                                                         /\ visit'[w].since <= stored[m].first
                        /\ \A w \in Visits : Granting(w, m)' => visit'[w].since <= stored[m].first + GrantTime
                        /\ stored[m].last <= stored[m].first + 2 * GrantTime
      BY <2>3 DEF MarkedSoon
    <3>1. /\ Open(m) => \E w \in Visits : /\ visit[w].at = "marking" /\ visit[w].link = m
                                          /\ visit[w].since <= stored[m].first
          /\ \A w \in Visits : Granting(w, m) => visit[w].since <= stored[m].first + GrantTime
          /\ stored[m].last <= stored[m].first + 2 * GrantTime
      BY <1>0 DEF MarkedSoon
    <3>2. Open(m)' => Open(m) /\ m # l
      <4>1. Open(m)' => Open(m)
        BY <2>4 DEF Opens
      <4>2. Open(m)' => m # l
        BY <2>5 DEF Open
      <4> QED
        BY <4>1, <4>2
    <3>3. m # l => \A w \in Visits : visit[w].link = m => w # v
      BY <2>1
    <3> QED
      BY <3>1, <3>2, <3>3, <2>7 DEF Granting
  <2> QED
    BY <2>6, <2>8, <2>9 DEF InvitesInv
<1>13. CASE UNCHANGED Invites!vars
  BY <1>0, <1>13 DEF Invites!vars, InvitesInv, InvitesTyped, GrantsShort, MarkedSoon, Granting, Open
<1> QED
  BY <1>1, <1>2, <1>3, <1>4, <1>5, <1>6, <1>7, <1>8, <1>9, <1>10, <1>11, <1>12, <1>13 DEF Invites!Next

\* All accounts that one sign-in link stores are stored within two calls of the
\* vendor after the first, however many pages poll it, unless the store could not
\* mark it (auth_proxy.py, codex_onboard_status; codex_invites.py, mark_used).
THEOREM LinkUsedOnce == Invites!Spec => []Invites!UsedOnceUnlessOverlapping
<1>1. InvitesInv => Invites!UsedOnceUnlessOverlapping
  BY InviteAssumption DEF InvitesInv, InvitesTyped, MarkedSoon, Invites!UsedOnceUnlessOverlapping, Invites!NotStored
<1> QED
  BY <1>1, InvitesStart, InvitesStep, PTL DEF Invites!Spec

\* A change of a Codex account that was reloaded is never undone, and the accounts
\* of one sign-in link are all stored within two calls of each other, unless two
\* requests for it overlapped (codex_auth.py, codex_broker.py).
THEOREM AccountsHeld == Accounts!Spec /\ Invites!Spec => []AccountsHold
BY AccountChangesStick, LinkUsedOnce, PTL DEF AccountsHold

(***************************************************************************)
(* The stream of a provider (CodexStream)                                  *)
(***************************************************************************)
\* What is folded, field by field.
StreamTyped ==
    /\ pieces \in Seq(Stream!Speakers) /\ saw \in BOOLEAN
    /\ fold.text \in Seq(Nat) /\ fold.summary \in Seq(Nat)
    /\ DOMAIN fold.args \subseteq CodexItems /\ fold.args \in [DOMAIN fold.args -> Seq(Nat)]
    /\ fold.order \in Seq(CodexItems)
    /\ fold = [text |-> fold.text, args |-> fold.args, order |-> fold.order, done |-> fold.done,
               summary |-> fold.summary, reasoned |-> fold.reasoned, finish |-> fold.finish,
               failed |-> fold.failed]

\* The listing of one speaker's pieces in any sequence of pieces.
ListsIn(p, q, s) == /\ {q[n] : n \in DOMAIN q} = {n \in DOMAIN p : p[n] = s}
                    /\ \A m, n \in DOMAIN q : m < n => q[m] < q[n]

\* What is folded so far is what was said so far, of each speaker.
Faithful ==
    /\ ListsIn(pieces, fold.text, "text") /\ ListsIn(pieces, fold.summary, "summary")
    /\ \A i \in DOMAIN fold.args : ListsIn(pieces, fold.args[i], i)
    /\ \A n \in DOMAIN pieces : pieces[n] \in CodexItems => pieces[n] \in DOMAIN fold.args
    /\ {fold.order[n] : n \in DOMAIN fold.order} = DOMAIN fold.args

\* Which output was seen, and which end.
Marked ==
    /\ ~saw => \A n \in DOMAIN pieces : ~Stream!Visible(pieces[n])
    /\ final = "failed" => fold.failed

\* The result, once it is given.
Given ==
    /\ result.kind # "none" => reading = "answered"
    /\ result.kind = "ok" => result = Stream!Aggregate /\ ~fold.failed
    /\ result.kind = "first_token" => clock >= FirstToken /\ ~saw
    /\ result.kind = "timeout" => clock - heard >= ReadTime

\* All of it.
StreamInv == StreamTyped /\ Faithful /\ Marked /\ Given

\* A piece more is listed after those before it, for its speaker only.
LEMMA OneMore ==
  ASSUME NEW T, NEW p \in Seq(T), NEW t \in T, NEW s, NEW q \in Seq(Nat), ListsIn(p, q, s)
  PROVE  /\ s # t => ListsIn(Append(p, t), q, s)
         /\ s = t => ListsIn(Append(p, t), Append(q, Len(p) + 1), s)
<1> DEFINE k == Len(p) + 1
           P == Append(p, t)
           Q == Append(q, k)
<1>1. /\ Len(p) \in Nat /\ DOMAIN p = 1..Len(p) /\ DOMAIN P = 1..k /\ P[k] = t
      /\ \A n \in DOMAIN p : P[n] = p[n]
  OBVIOUS
<1>2. {q[n] : n \in DOMAIN q} = {n \in DOMAIN p : p[n] = s}
      /\ \A m, n \in DOMAIN q : m < n => q[m] < q[n]
  BY DEF ListsIn
<1>3. \A n \in DOMAIN q : q[n] \in 1..Len(p)
  BY <1>1, <1>2
<1>4. /\ Len(q) \in Nat /\ DOMAIN q = 1..Len(q) /\ DOMAIN Q = 1..(Len(q) + 1) /\ Q[Len(q) + 1] = k
      /\ \A n \in DOMAIN q : Q[n] = q[n]
  BY <1>1
<1> HIDE DEF P, Q
<1>5. CASE s # t
  <2>1. {n \in DOMAIN P : P[n] = s} = {n \in DOMAIN p : p[n] = s}
    BY <1>1, <1>5
  <2> QED
    BY <1>2, <1>5, <2>1 DEF ListsIn, P
<1>6. CASE s = t
  <2>1. {n \in DOMAIN P : P[n] = s} = {n \in DOMAIN p : p[n] = s} \cup {k}
    BY <1>1, <1>6
  <2>2. {Q[n] : n \in DOMAIN Q} = {q[n] : n \in DOMAIN q} \cup {k}
    <3>1. \A n \in DOMAIN Q : n = Len(q) + 1 \/ n \in DOMAIN q
      BY <1>4
    <3>2. \A n \in DOMAIN q : n \in DOMAIN Q
      BY <1>4
    <3>3. Len(q) + 1 \in DOMAIN Q
      BY <1>4
    <3> HIDE DEF k
    <3> QED
      BY <1>4, <3>1, <3>2, <3>3, Zenon
  <2>3. ASSUME NEW m \in DOMAIN Q, NEW n \in DOMAIN Q, m < n PROVE Q[m] < Q[n]
    <3>1. m \in DOMAIN q
      BY <1>4, <2>3
    <3>2. CASE n \in DOMAIN q
      BY <1>2, <1>4, <2>3, <3>1, <3>2
    <3>3. CASE n = Len(q) + 1
      BY <1>1, <1>3, <1>4, <3>1, <3>3
    <3> QED
      BY <1>4, <3>2, <3>3
  <2> QED
    BY <1>2, <1>6, <2>1, <2>2, <2>3 DEF ListsIn, P, Q
<1> QED
  BY <1>5, <1>6

\* Nothing was said when the stream begins, and nothing is folded.
LEMMA StreamStart == Stream!Init => StreamInv
<1> SUFFICES ASSUME Stream!Init PROVE StreamInv
  OBVIOUS
<1> USE DEF Stream!Init, Stream!NoFold, Stream!NoAnswer
<1>1. DOMAIN fold.args = {} /\ fold.text = <<>> /\ fold.summary = <<>> /\ fold.order = <<>>
  OBVIOUS
<1>2. StreamTyped
  <2>1. pieces \in Seq(Stream!Speakers) /\ fold.order \in Seq(CodexItems) /\ saw \in BOOLEAN
        /\ fold.text \in Seq(Nat) /\ fold.summary \in Seq(Nat)
    <3>1. \A S : <<>> \in Seq(S)
      OBVIOUS
    <3>2. pieces = <<>> /\ saw = FALSE
      OBVIOUS
    <3> QED
      BY <1>1, <3>1, <3>2 DEF Stream!Speakers
  <2>2. fold.args = [i \in {} |-> <<>>]
    OBVIOUS
  <2>3. fold.args \in [{} -> Seq(Nat)]
    BY <2>2
  <2>4. fold = [text |-> fold.text, args |-> fold.args, order |-> fold.order, done |-> fold.done,
                summary |-> fold.summary, reasoned |-> fold.reasoned, finish |-> fold.finish,
                failed |-> fold.failed]
    OBVIOUS
  <2> QED
    BY <1>1, <2>1, <2>3, <2>4 DEF StreamTyped
<1>3. Faithful
  BY <1>1 DEF Faithful, ListsIn
<1>4. Marked /\ Given
  BY DEF Marked, Given
<1> QED
  BY <1>2, <1>3, <1>4 DEF StreamInv

\* What is said in full is listed, by numbers.
LEMMA FullListing ==
  ASSUME NEW full \in Stream!Listings, NEW s, Stream!Lists(full, s), StreamTyped
  PROVE  full \in Seq(Nat) /\ ListsIn(pieces, full, s)
<1>1. PICK n \in 0..Len(pieces) : full \in [1..n -> DOMAIN pieces]
  BY DEF Stream!Listings
<1>2. Len(pieces) \in Nat /\ DOMAIN pieces \subseteq Nat
  BY DEF StreamTyped
<1>3. n \in Nat /\ full \in [1..n -> Nat]
  BY <1>1, <1>2
<1> QED
  BY <1>3 DEF Stream!Lists, ListsIn

\* A step that gives no result and folds something.
LEMMA StreamFolds ==
  ASSUME StreamInv, reading # "answered", UNCHANGED result, StreamTyped', Faithful', Marked'
  PROVE  StreamInv'
BY DEF StreamInv, Given, Stream!Aggregate

\* The result of a call that is answered.
LEMMA StreamGives ==
  ASSUME StreamInv, UNCHANGED <<pieces, saw, fold, final, clock>>, reading' = "answered",
         \/ result' = Stream!Aggregate
         \/ result'.kind \notin {"ok", "first_token", "timeout"}
         \/ result'.kind = "first_token" /\ Stream!FirstTokenDue
         \/ result'.kind = "timeout" /\ Stream!ReadDue /\ heard' = heard
  PROVE  StreamInv'
<1>1. StreamTyped' /\ Faithful' /\ Marked'
  BY DEF StreamInv, StreamTyped, Faithful, Marked
<1>2. Given'
  BY DEF Given, Stream!Aggregate, Stream!Error, Stream!FirstTokenDue, Stream!ReadDue
<1> QED
  BY <1>1, <1>2 DEF StreamInv

\* Every event keeps what is folded in line with what was said.
LEMMA StreamStep == StreamInv /\ [Stream!Next]_(Stream!vars) => StreamInv'
<1> SUFFICES ASSUME StreamInv, [Stream!Next]_(Stream!vars) PROVE StreamInv'
  OBVIOUS
<1> USE StreamAssumption
<1>0. StreamTyped /\ Faithful /\ Marked /\ Given
  BY DEF StreamInv
<1>1. CASE Stream!Respond
  <2>1. CASE reading' = "reading" /\ UNCHANGED result
    BY <1>0, <1>1, <2>1, StreamFolds DEF Stream!Respond, StreamTyped, Faithful, Marked
  <2>2. CASE \E e \in {"auth_error", "rate_limit", "server_error"} : Stream!Give(Stream!Error(e))
    BY <1>1, <2>2, StreamGives DEF Stream!Respond, Stream!Give, Stream!Error
  <2> QED
    BY <1>1, <2>1, <2>2 DEF Stream!Respond
<1>2. ASSUME NEW s \in Stream!Speakers, Stream!Piece(s) PROVE StreamInv'
  <2>1. /\ reading # "answered" /\ UNCHANGED <<clock, reading, final, result>>
        /\ pieces' = Append(pieces, s) /\ fold' = Stream!Folded(s, Len(pieces'))
        /\ saw' = (saw \/ Stream!Visible(s)) /\ (s \in CodexItems => s \in DOMAIN fold.args)
    BY <1>2 DEF Stream!Piece, Stream!Reading, Stream!Known
  <2>2. pieces \in Seq(Stream!Speakers) /\ pieces' \in Seq(Stream!Speakers)
        /\ Len(pieces') = Len(pieces) + 1 /\ Len(pieces') \in Nat
        /\ \A n \in DOMAIN pieces' : (n \in DOMAIN pieces /\ pieces'[n] = pieces[n]) \/ pieces'[n] = s
    BY <1>0, <2>1 DEF StreamTyped
  <2> DEFINE k == Len(pieces) + 1
  <2>3. saw' \in BOOLEAN
    BY <1>0, <2>1 DEF StreamTyped
  <2>4. ASSUME NEW r, r # s, NEW q \in Seq(Nat), ListsIn(pieces, q, r) PROVE ListsIn(pieces', q, r)
    BY <2>1, <2>2, <2>4, OneMore
  <2>5. ASSUME NEW q \in Seq(Nat), ListsIn(pieces, q, s)
        PROVE  ListsIn(pieces', Append(q, k), s)
    BY <2>1, <2>2, <2>5, OneMore
  <2> HIDE DEF k
  <2>k. Len(pieces') = k /\ k \in Nat
    BY <1>0, <2>2 DEF k
  <2>6. /\ fold'.order = fold.order /\ fold'.failed = fold.failed
        /\ DOMAIN fold'.args = DOMAIN fold.args
        /\ fold' = [text |-> fold'.text, args |-> fold'.args, order |-> fold'.order,
                    done |-> fold'.done, summary |-> fold'.summary, reasoned |-> fold'.reasoned,
                    finish |-> fold'.finish, failed |-> fold'.failed]
    <3>1. CASE fold' = [fold EXCEPT !.text = Append(@, k)]
      BY <1>0, <3>1 DEF StreamTyped
    <3>2. CASE fold' = [fold EXCEPT !.summary = Append(@, k)]
      BY <1>0, <3>2 DEF StreamTyped
    <3>3. CASE fold' = [fold EXCEPT !.args[s] = Append(@, k)]
      BY <1>0, <3>3 DEF StreamTyped
    <3> QED
      BY <2>1, <2>k, <3>1, <3>2, <3>3 DEF Stream!Folded, Stream!Arguments, Stream!Speakers
  <2>7. Marked'
    BY <1>0, <2>1, <2>2, <2>6 DEF Marked
  <2>8. \A n \in DOMAIN pieces' : pieces'[n] \in CodexItems => pieces'[n] \in DOMAIN fold'.args
    BY <1>0, <2>1, <2>2, <2>6 DEF Faithful
  <2>9. CASE s = "text"
    <3>1. fold' = [fold EXCEPT !.text = Append(@, k)]
      BY <2>1, <2>k, <2>9 DEF Stream!Folded
    <3>a. fold'.text = Append(fold.text, k) /\ fold'.summary = fold.summary /\ fold'.args = fold.args
      BY <1>0, <3>1 DEF StreamTyped
    <3>2. StreamTyped' /\ fold'.text = Append(fold.text, k) /\ fold'.summary = fold.summary
          /\ fold'.args = fold.args
      BY <1>0, <2>2, <2>3, <2>6, <2>k, <3>a DEF StreamTyped
    <3>3. ListsIn(pieces', fold'.text, "text")
      BY <1>0, <2>5, <2>9, <3>2 DEF Faithful, StreamTyped
    <3>4. ListsIn(pieces', fold'.summary, "summary")
      BY <1>0, <2>4, <2>9, <3>2 DEF Faithful, StreamTyped
    <3>5. \A i \in DOMAIN fold'.args : ListsIn(pieces', fold'.args[i], i)
      BY <1>0, <2>4, <2>9, <3>2 DEF Faithful, StreamTyped
    <3>6. Faithful'
      BY <1>0, <2>6, <2>8, <3>3, <3>4, <3>5 DEF Faithful
    <3> QED
      BY <2>1, <2>7, <3>2, <3>6, StreamFolds
  <2>10. CASE s = "summary"
    <3>1. fold' = [fold EXCEPT !.summary = Append(@, k)]
      BY <2>1, <2>k, <2>10 DEF Stream!Folded
    <3>a. fold'.text = fold.text /\ fold'.summary = Append(fold.summary, k) /\ fold'.args = fold.args
      BY <1>0, <3>1 DEF StreamTyped
    <3>2. StreamTyped' /\ fold'.text = fold.text /\ fold'.summary = Append(fold.summary, k)
          /\ fold'.args = fold.args
      BY <1>0, <2>2, <2>3, <2>6, <2>k, <3>a DEF StreamTyped
    <3>3. ListsIn(pieces', fold'.text, "text")
      BY <1>0, <2>4, <2>10, <3>2 DEF Faithful, StreamTyped
    <3>4. ListsIn(pieces', fold'.summary, "summary")
      BY <1>0, <2>5, <2>10, <3>2 DEF Faithful, StreamTyped
    <3>5. \A i \in DOMAIN fold'.args : ListsIn(pieces', fold'.args[i], i)
      BY <1>0, <2>4, <2>10, <3>2 DEF Faithful, StreamTyped
    <3>6. Faithful'
      BY <1>0, <2>6, <2>8, <3>3, <3>4, <3>5 DEF Faithful
    <3> QED
      BY <2>1, <2>7, <3>2, <3>6, StreamFolds
  <2>11. CASE s \in CodexItems
    <3>1. fold' = [fold EXCEPT !.args[s] = Append(@, k)]
      BY <2>1, <2>k, <2>11 DEF Stream!Folded, Stream!Arguments
    <3>2. /\ fold'.text = fold.text /\ fold'.summary = fold.summary
          /\ fold'.args = [fold.args EXCEPT ![s] = Append(@, k)]
      BY <1>0, <3>1 DEF StreamTyped
    <3>3. /\ s \in DOMAIN fold.args /\ fold.args[s] \in Seq(Nat)
          /\ fold'.args[s] = Append(fold.args[s], k)
          /\ \A i \in DOMAIN fold.args : i # s => fold'.args[i] = fold.args[i]
          /\ fold'.args \in [DOMAIN fold.args -> Seq(Nat)]
      <4>1. s \in DOMAIN fold.args /\ fold.args[s] \in Seq(Nat) /\ k \in Nat
        BY <1>0, <2>1, <2>k, <2>11 DEF StreamTyped
      <4>2. Append(fold.args[s], k) \in Seq(Nat)
        BY <4>1
      <4> QED
        BY <1>0, <3>2, <4>1, <4>2 DEF StreamTyped
    <3>4. StreamTyped'
      BY <1>0, <2>2, <2>3, <2>6, <3>1, <3>2, <3>3 DEF StreamTyped
    <3>5. ListsIn(pieces', fold'.text, "text") /\ ListsIn(pieces', fold'.summary, "summary")
      BY <1>0, <2>4, <2>11, <3>2 DEF Faithful, StreamTyped
    <3>6. \A i \in DOMAIN fold'.args : ListsIn(pieces', fold'.args[i], i)
      BY <1>0, <2>4, <2>5, <2>6, <3>3 DEF Faithful, StreamTyped
    <3>7. Faithful'
      BY <1>0, <2>6, <2>8, <3>5, <3>6 DEF Faithful
    <3> QED
      BY <2>1, <2>7, <3>4, <3>7, StreamFolds
  <2> QED
    BY <2>9, <2>10, <2>11 DEF Stream!Speakers
<1>3. ASSUME NEW i \in CodexItems, Stream!AddCall(i) PROVE StreamInv'
  <2>1. /\ reading # "answered" /\ UNCHANGED <<clock, reading, saw, final, result, pieces>>
        /\ i \notin DOMAIN fold.args
        /\ fold' = [fold EXCEPT !.order = Append(@, i),
                      !.args = [j \in DOMAIN @ \cup {i} |-> IF j = i THEN <<>> ELSE @[j]]]
    BY <1>3 DEF Stream!AddCall, Stream!Reading, Stream!Known
  <2> DEFINE a == [j \in DOMAIN fold.args \cup {i} |-> IF j = i THEN <<>> ELSE fold.args[j]]
  <2>2. a \in [DOMAIN fold.args \cup {i} -> Seq(Nat)]
    BY <1>0 DEF StreamTyped
  <2> HIDE DEF a
  <2>3. /\ fold'.text = fold.text /\ fold'.summary = fold.summary /\ fold'.args = a
        /\ fold'.order = Append(fold.order, i) /\ fold'.failed = fold.failed
        /\ fold' = [text |-> fold'.text, args |-> fold'.args, order |-> fold'.order,
                    done |-> fold'.done, summary |-> fold'.summary, reasoned |-> fold'.reasoned,
                    finish |-> fold'.finish, failed |-> fold'.failed]
    BY <1>0, <2>1 DEF StreamTyped, a
  <2>4. StreamTyped'
    BY <1>0, <1>3, <2>1, <2>2, <2>3 DEF StreamTyped
  <2>5. \A j \in DOMAIN fold'.args : ListsIn(pieces, fold'.args[j], j)
    <3>1. ListsIn(pieces, <<>>, i)
      BY <1>0, <1>3, <2>1 DEF ListsIn, Faithful
    <3>2. ASSUME NEW j \in DOMAIN fold.args PROVE fold'.args[j] = fold.args[j]
      BY <2>1, <2>3 DEF a
    <3> QED
      BY <1>0, <2>2, <2>3, <3>1, <3>2 DEF Faithful, a
  <2>6. {fold'.order[n] : n \in DOMAIN fold'.order} = {fold.order[n] : n \in DOMAIN fold.order} \cup {i}
    <3> DEFINE o == fold.order
               p == Append(o, i)
    <3>1. o \in Seq(CodexItems)
      BY <1>0 DEF StreamTyped
    <3>2. /\ DOMAIN o = 1..Len(o) /\ Len(o) \in Nat /\ DOMAIN p = 1..(Len(o) + 1)
          /\ p[Len(o) + 1] = i /\ \A n \in DOMAIN o : p[n] = o[n]
      BY <1>3, <3>1
    <3> HIDE DEF o, p
    <3>3. {p[n] : n \in DOMAIN p} = {o[n] : n \in DOMAIN o} \cup {i}
      BY <3>2
    <3> QED
      BY <2>3, <3>3 DEF o, p
  <2>7. DOMAIN fold'.args = DOMAIN fold.args \cup {i}
    BY <2>2, <2>3
  <2>8. Faithful'
    BY <1>0, <2>1, <2>3, <2>5, <2>6, <2>7 DEF Faithful
  <2>9. Marked'
    BY <1>0, <2>1, <2>3 DEF Marked
  <2> QED
    BY <2>1, <2>4, <2>8, <2>9, StreamFolds
<1>4. ASSUME NEW i \in CodexItems, Stream!CallDone(i) PROVE StreamInv'
  <2>1. /\ reading # "answered" /\ UNCHANGED <<clock, reading, saw, final, result, pieces>>
        /\ i \in DOMAIN fold.args
    BY <1>4 DEF Stream!CallDone, Stream!Reading, Stream!Known
  <2>2. PICK full \in Stream!Listings :
             /\ Stream!Lists(full, i)
             /\ fold' = [fold EXCEPT !.args[i] = full, !.done = @ \cup {i}]
    BY <1>4 DEF Stream!CallDone
  <2>3. full \in Seq(Nat) /\ ListsIn(pieces, full, i)
    BY <1>0, <2>2, FullListing
  <2>4. /\ fold'.text = fold.text /\ fold'.summary = fold.summary
        /\ fold'.args = [fold.args EXCEPT ![i] = full]
        /\ fold'.order = fold.order /\ fold'.failed = fold.failed
        /\ fold' = [text |-> fold'.text, args |-> fold'.args, order |-> fold'.order,
                    done |-> fold'.done, summary |-> fold'.summary, reasoned |-> fold'.reasoned,
                    finish |-> fold'.finish, failed |-> fold'.failed]
    BY <1>0, <2>2 DEF StreamTyped
  <2>5. DOMAIN fold'.args = DOMAIN fold.args /\ fold'.args \in [DOMAIN fold.args -> Seq(Nat)]
        /\ \A j \in DOMAIN fold.args : fold'.args[j] = IF j = i THEN full ELSE fold.args[j]
    BY <1>0, <2>3, <2>4 DEF StreamTyped
  <2>6. StreamTyped'
    BY <1>0, <2>1, <2>4, <2>5 DEF StreamTyped
  <2>7. Faithful'
    BY <1>0, <2>1, <2>3, <2>4, <2>5 DEF Faithful
  <2>8. Marked'
    BY <1>0, <2>1, <2>4 DEF Marked
  <2> QED
    BY <2>1, <2>6, <2>7, <2>8, StreamFolds
<1>5. CASE Stream!ReasoningDone
  <2>1. reading # "answered" /\ UNCHANGED <<clock, reading, saw, final, result, pieces>>
    BY <1>5 DEF Stream!ReasoningDone, Stream!Reading
  <2>2. PICK full \in Stream!Listings :
             /\ Stream!Lists(full, "summary")
             /\ fold' = [fold EXCEPT !.summary = full, !.reasoned = TRUE]
    BY <1>5 DEF Stream!ReasoningDone
  <2>3. full \in Seq(Nat) /\ ListsIn(pieces, full, "summary")
    BY <1>0, <2>2, FullListing
  <2>4. /\ fold'.text = fold.text /\ fold'.summary = full /\ fold'.args = fold.args
        /\ fold'.order = fold.order /\ fold'.failed = fold.failed
        /\ fold' = [text |-> fold'.text, args |-> fold'.args, order |-> fold'.order,
                    done |-> fold'.done, summary |-> fold'.summary, reasoned |-> fold'.reasoned,
                    finish |-> fold'.finish, failed |-> fold'.failed]
    BY <1>0, <2>2 DEF StreamTyped
  <2>5. StreamTyped'
    BY <1>0, <2>1, <2>3, <2>4 DEF StreamTyped
  <2>6. Faithful' /\ Marked'
    BY <1>0, <2>1, <2>3, <2>4 DEF Faithful, Marked
  <2> QED
    BY <2>1, <2>5, <2>6, StreamFolds
<1>6. ASSUME NEW end \in {"completed", "incomplete", "failed"}, Stream!Final(end) PROVE StreamInv'
  <2>1. /\ reading # "answered" /\ UNCHANGED <<clock, reading, saw, result, pieces>> /\ final' = end
        /\ fold' = [fold EXCEPT !.failed = (end = "failed"),
                                !.finish = IF end = "incomplete" THEN "length" ELSE @]
    BY <1>6 DEF Stream!Final, Stream!Reading
  <2>2. /\ fold'.text = fold.text /\ fold'.summary = fold.summary /\ fold'.args = fold.args
        /\ fold'.order = fold.order /\ fold'.failed = (end = "failed")
        /\ fold' = [text |-> fold'.text, args |-> fold'.args, order |-> fold'.order,
                    done |-> fold'.done, summary |-> fold'.summary, reasoned |-> fold'.reasoned,
                    finish |-> fold'.finish, failed |-> fold'.failed]
    BY <1>0, <2>1 DEF StreamTyped
  <2>3. StreamTyped'
    BY <1>0, <2>1, <2>2 DEF StreamTyped
  <2>4. Faithful'
    BY <1>0, <2>1, <2>2 DEF Faithful
  <2>5. Marked'
    BY <1>0, <2>1, <2>2, Zenon DEF Marked
  <2> QED
    BY <2>1, <2>3, <2>4, <2>5, StreamFolds
<1>7. CASE Stream!EndOfStream
  BY <1>7, StreamGives DEF Stream!EndOfStream, Stream!Give
<1>8. CASE Stream!NetworkError
  BY <1>8, StreamGives DEF Stream!NetworkError, Stream!Give, Stream!Error
<1>9. CASE Stream!TimedOut
  BY <1>9, StreamGives DEF Stream!TimedOut, Stream!Give, Stream!Error
<1>10. CASE Stream!Tick
  BY <1>0, <1>10, StreamFolds DEF Stream!Tick, StreamTyped, Faithful, Marked
<1>11. CASE UNCHANGED Stream!vars
  BY <1>0, <1>11 DEF Stream!vars, StreamInv, StreamTyped, Faithful, Marked, Given, Stream!Aggregate
<1> QED
  BY <1>1, <1>2, <1>3, <1>4, <1>5, <1>6, <1>7, <1>8, <1>9, <1>10, <1>11 DEF Stream!Next

\* A finished answer is all that the backend said, each piece once, in order and
\* under the call it belongs to, however text, reasoning and several calls were
\* interleaved; and no deadline ends a call that keeps to it (codex_backend.py,
\* aggregate_codex_sse and make_codex_async_call_provider).
THEOREM CodexStreamHeld == Stream!Spec => []CodexStreamHolds
<1>1. StreamInv => CodexStreamHolds
  <2> SUFFICES ASSUME StreamInv PROVE CodexStreamHolds
    OBVIOUS
  <2>0. StreamTyped /\ Faithful /\ Marked /\ Given
    BY DEF StreamInv
  <2>1. ASSUME result.kind = "ok"
        PROVE  /\ result.text = fold.text /\ result.summary = fold.summary
               /\ result.calls = [n \in DOMAIN fold.order |->
                                    [id |-> fold.order[n], args |-> fold.args[fold.order[n]]]]
    BY <2>0, <2>1 DEF Given, Stream!Aggregate
  <2>2. Stream!WholeUnlessCut
    <3> SUFFICES ASSUME result.kind = "ok"
                 PROVE  /\ Stream!Lists(result.text, "text") /\ Stream!Lists(result.summary, "summary")
                        /\ {c.id : c \in {result.calls[n] : n \in DOMAIN result.calls}} = DOMAIN fold.args
                        /\ \A n \in DOMAIN result.calls :
                              Stream!Lists(result.calls[n].args, result.calls[n].id)
      BY DEF Stream!WholeUnlessCut
    <3>1. Stream!Lists(result.text, "text") /\ Stream!Lists(result.summary, "summary")
      BY <2>0, <2>1 DEF Faithful, ListsIn, Stream!Lists
    <3>2. /\ DOMAIN result.calls = DOMAIN fold.order
          /\ \A n \in DOMAIN fold.order : result.calls[n].id = fold.order[n]
                                          /\ result.calls[n].args = fold.args[fold.order[n]]
      BY <2>1
    <3>3. {c.id : c \in {result.calls[n] : n \in DOMAIN result.calls}}
            = {fold.order[n] : n \in DOMAIN fold.order}
      BY <3>2
    <3>4. ASSUME NEW n \in DOMAIN fold.order PROVE ListsIn(pieces, fold.args[fold.order[n]], fold.order[n])
      BY <2>0 DEF Faithful
    <3> QED
      BY <2>0, <3>1, <3>2, <3>3, <3>4 DEF Faithful, ListsIn, Stream!Lists
  <2>3. Stream!PatientWithSpeech
    BY <2>0 DEF Marked, Given, Stream!PatientWithSpeech
  <2> QED
    BY <2>2, <2>3 DEF CodexStreamHolds, Stream!CodexStreamHolds
<1> QED
  BY <1>1, StreamStart, StreamStep, PTL DEF Stream!Spec

(***************************************************************************)
(* The families that names resolve to (ServiceNames)                       *)
(***************************************************************************)
\* What a name is.
IsName(s) == s \in Seq({s[i] : i \in DOMAIN s}) \ {<<>>}

\* What leads a name when its first segments are tokens of vendors.
Tokened(s, i) == \A j \in 1..(i - 1) : s[j] \in DOMAIN VendorOfToken
\* The words begin at the first segment that is none, or at the last.
WordsAt(s, i) == Tokened(s, i) /\ (i = Len(s) \/ s[i] \notin DOMAIN VendorOfToken)

\* What resolving has found is what the name that is advertised resolves to.
NamesInv ==
    /\ families \in FamilySets
    /\ \/ service = Nothing /\ bound = Binding!NotBound
       \/ IsName(service) /\ bound = Binding!Resolve(service)

\* Cardinality inside the instance is the one the library's theorems are about.
LEMMA NameCount == \A S : Binding!Cardinality(S) = Cardinality(S)
BY DEF Binding!Cardinality, Cardinality

\* A nonempty sequence of whatever is a name.
LEMMA SegmentsName ==
  ASSUME NEW n \in Nat \ {0}, NEW q, q = [i \in 1..n |-> q[i]]
  PROVE  IsName(q) /\ Len(q) = n /\ DOMAIN q = 1..n
<1> DEFINE S == {q[i] : i \in 1..n}
<1>1. DOMAIN q = 1..n
  OBVIOUS
<1>2. q \in [1..n -> S]
  OBVIOUS
<1> HIDE DEF S
<1>3. q \in Seq(S)
  BY <1>2, SeqDef
<1>4. Len(q) = n
  BY <1>1, <1>3, LenProperties
<1>5. q # <<>>
  BY <1>4, EmptySeq
<1> QED
  BY <1>1, <1>3, <1>4, <1>5 DEF IsName, S

\* What the prefixes and the rest of a name are.
LEMMA SequenceNames ==
  ASSUME NEW S, NEW q \in Seq(S), q # <<>>
  PROVE  IsName(q)
<1>1. Len(q) \in Nat \ {0} /\ DOMAIN q = 1..Len(q)
  BY EmptySeq, LenProperties
<1>2. q = [i \in 1..Len(q) |-> q[i]]
  BY <1>1, LenProperties
<1> QED
  BY <1>1, <1>2, SegmentsName

\* The words of a name begin at one place.
LEMMA WordsBegin ==
  ASSUME NEW s, IsName(s)
  PROVE  /\ \E i \in DOMAIN s : WordsAt(s, i)
         /\ \A i, j \in DOMAIN s : WordsAt(s, i) /\ WordsAt(s, j) => i = j
<1>1. Len(s) \in Nat \ {0} /\ DOMAIN s = 1..Len(s)
  BY EmptySeq, LenProperties DEF IsName
<1>2. ASSUME NEW i \in DOMAIN s, NEW j \in DOMAIN s, WordsAt(s, i), WordsAt(s, j), i < j
      PROVE  FALSE
  <2>1. i \in 1..(j - 1) /\ i # Len(s)
    BY <1>1, <1>2
  <2> QED
    BY <1>2, <2>1 DEF WordsAt, Tokened
<1>3. \A i, j \in DOMAIN s : WordsAt(s, i) /\ WordsAt(s, j) => i = j
  BY <1>1, <1>2
<1> DEFINE S == {i \in DOMAIN s : i = Len(s) \/ s[i] \notin DOMAIN VendorOfToken}
<1>4. S \subseteq Nat /\ IsFiniteSet(S) /\ Len(s) \in S
  <2>0. PICK n : n = Len(s)
    OBVIOUS
  <2>1. IsFiniteSet(1..n)
    BY <1>1, <2>0, FS_Interval
  <2>2. S \subseteq 1..n
    BY <1>1, <2>0
  <2> HIDE DEF S
  <2>3. IsFiniteSet(S)
    BY <2>1, <2>2, FS_Subset
  <2>4. S \subseteq Nat
    BY <1>1, <2>0, <2>2
  <2> QED
    BY <1>1, <2>3, <2>4 DEF S
<1> HIDE DEF S
<1>5. Cardinality(S) \in Nat /\ Cardinality(S) # 0
  BY <1>4, FS_CardinalityType, FS_EmptySet
<1>6. PICK i \in S : Cardinality({m \in S : m < i}) = 0
  <2>1. 0 \in 0..(Cardinality(S) - 1)
    BY <1>5
  <2> QED
    BY <1>4, <2>1, PlaceTaken
<1> USE DEF S
<1>7. {m \in S : m < i} = {}
  <2>1. IsFiniteSet({m \in S : m < i})
    BY <1>4, FS_Subset
  <2> QED
    BY <1>6, <2>1, FS_EmptySet
<1>8. \A j \in 1..(i - 1) : j \in DOMAIN s /\ j < i
  BY <1>1
<1>9. WordsAt(s, i) /\ i \in DOMAIN s
  BY <1>7, <1>8 DEF WordsAt, Tokened
<1> QED
  BY <1>3, <1>9

\* Where the words of a name begin: after its leading tokens of vendors.
LEMMA WordsAre ==
  ASSUME NEW s, IsName(s), NEW i \in DOMAIN s, WordsAt(s, i)
  PROVE  Binding!Words(s) = SubSeq(s, i, Len(s))
<1> DEFINE start == CHOOSE k \in DOMAIN s :
                        /\ \A j \in 1..(k - 1) : s[j] \in DOMAIN VendorOfToken
                        /\ k = Len(s) \/ s[k] \notin DOMAIN VendorOfToken
<1>1. start \in DOMAIN s /\ WordsAt(s, start)
  BY WordsBegin DEF WordsAt, Tokened
<1>2. start = i
  BY <1>1, WordsBegin
<1> QED
  BY <1>2 DEF Binding!Words

\* A token of a vendor in front is no word.
LEMMA TokenDropped ==
  ASSUME NEW s, IsName(s), Len(s) > 1, Head(s) \in DOMAIN VendorOfToken
  PROVE  IsName(Tail(s)) /\ Binding!Words(s) = Binding!Words(Tail(s))
<1> DEFINE t == Tail(s)
           n == Len(s)
           S == {s[k] : k \in DOMAIN s}
<1>1. n \in Nat /\ n > 1 /\ DOMAIN s = 1..n /\ Head(s) = s[1] /\ s \in Seq(S)
  BY EmptySeq, LenProperties DEF IsName
<1>2. t \in Seq(S) /\ Len(t) = n - 1 /\ \A k \in 1..(n - 1) : t[k] = s[k + 1]
  <2> HIDE DEF S, n
  <2>1. s # <<>>
    BY <1>1, EmptySeq DEF n
  <2>2. Len(t) = Len(s) - 1 /\ \A k \in 1..Len(t) : t[k] = s[k + 1]
    BY <1>1, <2>1, HeadTailProperties
  <2> QED
    BY <1>1, <2>1, <2>2, HeadTailProperties DEF n
<1> HIDE DEF t
<1>3. /\ IsName(t) /\ Len(t) = n - 1 /\ DOMAIN t = 1..(n - 1)
      /\ \A k \in 1..(n - 1) : t[k] = s[k + 1]
  <2>1. t # <<>> /\ DOMAIN t = 1..(n - 1)
    BY <1>1, <1>2, EmptySeq, LenProperties
  <2> QED
    BY <1>2, <2>1, SequenceNames
<1>4. PICK i \in DOMAIN t : WordsAt(t, i)
  BY <1>3, WordsBegin
<1>5. i \in 1..(n - 1) /\ i + 1 \in DOMAIN s /\ (i = Len(t) <=> i + 1 = n) /\ t[i] = s[i + 1]
  BY <1>1, <1>3
<1>6. Tokened(s, i + 1)
  <2> SUFFICES ASSUME NEW j \in 1..i PROVE s[j] \in DOMAIN VendorOfToken
    BY <1>5 DEF Tokened
  <2>1. CASE j = 1
    BY <1>1, <2>1
  <2>2. CASE j # 1
    <3>1. j - 1 \in 1..(i - 1) /\ j - 1 \in 1..(n - 1) /\ (j - 1) + 1 = j
      BY <1>1, <1>5, <2>2
    <3>2. t[j - 1] \in DOMAIN VendorOfToken
      BY <1>4, <3>1 DEF WordsAt, Tokened
    <3>3. t[j - 1] = s[(j - 1) + 1]
      BY <1>3, <3>1
    <3> QED
      BY <3>1, <3>2, <3>3
  <2> QED
    BY <2>1, <2>2
<1>7. WordsAt(s, i + 1)
  BY <1>4, <1>5, <1>6 DEF WordsAt
<1>8. Binding!Words(s) = SubSeq(s, i + 1, n) /\ Binding!Words(t) = SubSeq(t, i, n - 1)
  BY <1>3, <1>4, <1>5, <1>7, WordsAre
<1>9. SubSeq(s, i + 1, n) = SubSeq(t, i, n - 1)
  <2> HIDE DEF n, S
  <2>1. \A k \in (i + 1)..n : s[k] \in S
    BY <1>1, <1>5 DEF S
  <2>2. \A k \in i..(n - 1) : t[k] \in S
    <3> SUFFICES ASSUME NEW k \in i..(n - 1) PROVE t[k] \in S
      OBVIOUS
    <3>1. k \in 1..(n - 1) /\ k + 1 \in 1..n
      BY <1>1, <1>5
    <3> QED
      BY <1>1, <1>3, <3>1 DEF S
  <2>3. i \in Int /\ i + 1 \in Int /\ n \in Int /\ n - 1 \in Int
    BY <1>1, <1>5
  <2>4. /\ SubSeq(s, i + 1, n) \in Seq(S) /\ Len(SubSeq(s, i + 1, n)) = n - i
        /\ \A k \in 1..(n - i) : SubSeq(s, i + 1, n)[k] = s[k + i]
    <3>1. n - (i + 1) + 1 = n - i /\ i + 1 <= n
      BY <1>1, <1>5
    <3>2. \A k \in 1..(n - i) : i + 1 + k - 1 = k + i
      BY <1>1, <1>5
    <3>3. PICK m \in Int : m = i + 1
      BY <2>3
    <3>4. /\ SubSeq(s, m, n) \in Seq(S)
          /\ Len(SubSeq(s, m, n)) = IF m <= n THEN n - m + 1 ELSE 0
          /\ \A k \in 1..(n - m + 1) : SubSeq(s, m, n)[k] = s[m + k - 1]
      BY <2>1, <2>3, <3>3, SubSeqProperties, SMTT(20)
    <3>5. n - m + 1 = n - i /\ m <= n
      BY <2>3, <3>1, <3>3
    <3>6. Len(SubSeq(s, m, n)) = n - i
      BY <3>4, <3>5, Zenon
    <3>7. \A k \in 1..(n - i) : SubSeq(s, m, n)[k] = s[k + i]
      BY <3>2, <3>3, <3>4, <3>5, Zenon
    <3> QED
      BY <3>3, <3>4, <3>6, <3>7, Zenon
  <2>5. /\ SubSeq(t, i, n - 1) \in Seq(S) /\ Len(SubSeq(t, i, n - 1)) = n - i
        /\ \A k \in 1..(n - i) : SubSeq(t, i, n - 1)[k] = t[k + i - 1]
    <3>1. n - 1 - i + 1 = n - i /\ i <= n - 1
      BY <1>1, <1>5
    <3>2. \A k \in 1..(n - i) : i + k - 1 = k + i - 1
      BY <1>1, <1>5
    <3>3. PICK m \in Int : m = n - 1
      BY <2>3
    <3>4. /\ SubSeq(t, i, m) \in Seq(S)
          /\ Len(SubSeq(t, i, m)) = IF i <= m THEN m - i + 1 ELSE 0
          /\ \A k \in 1..(m - i + 1) : SubSeq(t, i, m)[k] = t[i + k - 1]
      <4>1. \A k \in i..m : t[k] \in S
        BY <2>2, <3>3, Zenon
      <4> QED
        BY <2>3, <3>3, <4>1, SubSeqProperties, SMTT(20)
    <3>5. m - i + 1 = n - i /\ i <= m
      BY <3>1, <3>3
    <3>6. Len(SubSeq(t, i, m)) = n - i
      BY <3>4, <3>5, Zenon
    <3>7. \A k \in 1..(n - i) : SubSeq(t, i, m)[k] = t[k + i - 1]
      BY <3>2, <3>4, <3>5, Zenon
    <3> QED
      BY <3>3, <3>4, <3>6, <3>7, Zenon
  <2>6. \A k \in 1..(n - i) : t[k + i - 1] = s[k + i]
    <3> SUFFICES ASSUME NEW k \in 1..(n - i) PROVE t[k + i - 1] = s[k + i]
      OBVIOUS
    <3>1. k + i - 1 \in 1..(n - 1) /\ (k + i - 1) + 1 = k + i
      BY <1>1, <1>5
    <3> QED
      BY <1>3, <3>1
  <2>7. PICK a, b : a = SubSeq(s, i + 1, n) /\ b = SubSeq(t, i, n - 1)
    OBVIOUS
  <2>8. a \in Seq(S) /\ b \in Seq(S) /\ Len(a) = Len(b) /\ \A k \in 1..Len(a) : a[k] = b[k]
    BY <2>4, <2>5, <2>6, <2>7
  <2> QED
    BY <2>7, <2>8, SeqEqual
<1> QED
  BY <1>3, <1>8, <1>9 DEF t

\* The family a name is matched with, but for an alias and the family of that
\* very name, has its words and its vendor.
LEMMA MatchedIsMeant ==
  ASSUME NEW s, IsName(s), families \in FamilySets, s # alias[1],
         NEW f, f = Binding!MatchCurated(s), f # Nothing, f # s
  PROVE  /\ Binding!Words(f) = Binding!Words(s)
         /\ Binding!Claims(s) # Nothing => Binding!FamilyVendor(f) = Binding!Claims(s)
                                           \/ Binding!Claims(f) = Binding!Claims(s)
         /\ Binding!Claims(s) = Nothing => Binding!Claimants(s) = {f}
<1>1. \A g \in families : IsName(g)
  BY NameAssumption DEF IsName
<1>2. Binding!Exact(s) = Nothing
  BY DEF Binding!MatchCurated, Binding!Exact
<1>3. ASSUME NEW g, IsName(g), Binding!Claims(g) # Nothing
      PROVE  Len(g) > 1 /\ Head(g) \in DOMAIN VendorOfToken /\ Binding!Residue(g) = Tail(g)
  BY <1>3 DEF Binding!Claims, Binding!Residue
<1>4. ASSUME NEW rest, Binding!Bare(rest) # Nothing
      PROVE  Binding!Claimants(rest) = {Binding!Bare(rest)}
  <2>1. IsFiniteSet(Binding!Claimants(rest))
    BY NameAssumption, FS_Subset DEF Binding!Claimants
  <2>2. Cardinality(Binding!Claimants(rest)) = 1
    BY <1>4, NameCount DEF Binding!Bare
  <2>3. PICK x : Binding!Claimants(rest) = {x}
    BY <2>1, <2>2, FS_Singleton
  <2>4. Binding!Bare(rest) \in Binding!Claimants(rest)
    BY <2>2, <2>3, NameCount DEF Binding!Bare
  <2> QED
    BY <2>3, <2>4
<1>5. ASSUME NEW rest, Binding!Bare(rest) # Nothing, IsName(rest)
      PROVE  /\ Binding!Words(Binding!Bare(rest)) = Binding!Words(rest)
             /\ Binding!Bare(rest) \in families
  <2>1. PICK g : g = Binding!Bare(rest)
    OBVIOUS
  <2>2. g \in families /\ Binding!Claims(g) # Nothing /\ Binding!Residue(g) = rest
    BY <1>4, <1>5, <2>1 DEF Binding!Claimants
  <2>3. Binding!Words(g) = Binding!Words(Tail(g)) /\ Tail(g) = rest
    BY <1>1, <1>3, <2>2, TokenDropped
  <2> QED
    BY <2>1, <2>2, <2>3
<1>6. CASE Binding!Claims(s) = Nothing
  <2>1. f = Binding!Bare(s)
    BY <1>2, <1>6 DEF Binding!MatchCurated
  <2> QED
    BY <1>4, <1>5, <1>6, <2>1
<1>7. CASE Binding!Claims(s) # Nothing
  <2> DEFINE rest == Binding!Residue(s)
  <2>1. rest = Tail(s) /\ IsName(rest) /\ Binding!Words(s) = Binding!Words(rest)
    BY <1>3, <1>7, TokenDropped
  <2>2. CASE Binding!Exact(rest) # Nothing
    <3>1. f = rest /\ Binding!FamilyVendor(f) = Binding!Claims(s)
      BY <1>2, <1>7, <2>2 DEF Binding!MatchCurated, Binding!Exact, Binding!Confirmed
    <3> QED
      BY <1>7, <2>1, <3>1
  <2>3. CASE Binding!Exact(rest) = Nothing
    <3>1. f = Binding!Bare(rest) /\ Binding!Claims(f) = Binding!Claims(s)
      BY <1>2, <1>7, <2>3 DEF Binding!MatchCurated
    <3> QED
      BY <1>5, <1>7, <2>1, <3>1
  <2> QED
    BY <2>2, <2>3
<1> QED
  BY <1>6, <1>7

\* Without its marker a name is a name.
LEMMA BaseIsName ==
  ASSUME NEW s, IsName(s) PROVE IsName(Binding!Base(s))
<1>1. CASE Binding!Mode(s) = Nothing
  BY <1>1 DEF Binding!Base
<1>2. CASE Binding!Mode(s) # Nothing
  <2> DEFINE b == SubSeq(s, 1, Len(s) - 1)
  <2>1. Len(s) > 1 /\ Len(s) \in Nat
    BY <1>2, LenProperties DEF Binding!Mode, IsName
  <2>2. PICK m \in Int : m = Len(s) - 1 /\ m >= 1 /\ m <= Len(s)
    <3>1. \A l \in Nat : l > 1 => l - 1 \in Int /\ l - 1 >= 1 /\ l - 1 <= l
      OBVIOUS
    <3> QED
      BY <2>1, <3>1
  <2>3. \A i \in 1..m : s[i] \in {s[k] : k \in DOMAIN s}
    BY <2>1, <2>2, LenProperties DEF IsName
  <2>4. b \in Seq({s[k] : k \in DOMAIN s}) /\ Len(b) = m - 1 + 1
    BY <2>2, <2>3, SubSeqProperties
  <2> HIDE DEF b
  <2>5. b # <<>>
    BY <2>2, <2>4, EmptySeq
  <2>6. IsName(b)
    BY <2>4, <2>5, SequenceNames
  <2> QED
    BY <1>2, <2>6 DEF Binding!Base, b
<1> QED
  BY <1>1, <1>2

\* What resolving finds is never another model.
LEMMA NamesHeld == NamesInv => NeverAnotherModel
<1> SUFFICES ASSUME NamesInv, bound # Binding!NotBound, Binding!Meant # alias[1],
                    bound.family # Binding!Meant
             PROVE  /\ Binding!Words(bound.family) = Binding!Words(Binding!Meant)
                    /\ Binding!Claims(Binding!Meant) # Nothing =>
                          Binding!FamilyVendor(bound.family) = Binding!Claims(Binding!Meant)
                          \/ Binding!Claims(bound.family) = Binding!Claims(Binding!Meant)
                    /\ Binding!Claims(Binding!Meant) = Nothing =>
                          Binding!Claimants(Binding!Meant) = {bound.family}
  BY DEF NeverAnotherModel, Binding!NeverAnotherModel
<1>1. IsName(service) /\ bound = Binding!Resolve(service) /\ families \in FamilySets
  BY DEF NamesInv
<1>2. CASE Binding!MatchCurated(service) # Nothing
  <2>1. bound.family = Binding!MatchCurated(service) /\ Binding!Meant = service
    BY <1>1, <1>2 DEF Binding!Resolve, Binding!Meant
  <2> QED
    BY <1>1, <1>2, <2>1, MatchedIsMeant
<1>3. CASE Binding!MatchCurated(service) = Nothing
  <2>1. /\ Binding!Mode(service) # Nothing /\ Binding!MatchCurated(Binding!Base(service)) # Nothing
        /\ bound.family = Binding!MatchCurated(Binding!Base(service))
        /\ bound.mode = Binding!Mode(service)
    BY <1>1, <1>3 DEF Binding!Resolve
  <2>2. Binding!Meant = Binding!Base(service)
    BY <2>1 DEF Binding!Meant
  <2> QED
    BY <1>1, <2>1, <2>2, BaseIsName, MatchedIsMeant
<1> QED
  BY <1>2, <1>3

\* A name is never bound to another model than it names: but for an alias and
\* for the family of that very name, the words are the family's, a vendor that is
\* claimed is the family's, and a name without a vendor leaves no choice between
\* families (sources/antseed.py, _match_curated and _bind).
THEOREM NamesBound == Binding!Spec => []NeverAnotherModel
<1>1. Binding!Init => NamesInv
  BY DEF Binding!Init, NamesInv
<1>2. NamesInv /\ [Binding!Next]_(Binding!vars) => NamesInv'
  <2> SUFFICES ASSUME NamesInv, [Binding!Next]_(Binding!vars) PROVE NamesInv'
    OBVIOUS
  <2>1. CASE Binding!Advertise
    <3>1. IsName(service')
      BY <2>1, NameAssumption, SMTT(20) DEF Binding!Advertise, IsName
    <3>2. bound' = Binding!Resolve(service')
      BY <2>1 DEF Binding!Advertise
    <3>3. Binding!Resolve(service)' = Binding!Resolve(service')
      BY <2>1 DEF Binding!Advertise, Binding!Resolve, Binding!MatchCurated, Binding!Exact, Binding!Bare,
         Binding!Claimants, Binding!Confirmed, Binding!FamilyVendor
    <3> QED
      BY <2>1, <3>1, <3>2, <3>3 DEF Binding!Advertise, NamesInv
  <2>2. CASE UNCHANGED Binding!vars
    BY <2>2 DEF Binding!vars, NamesInv, Binding!Resolve, Binding!MatchCurated, Binding!Exact, Binding!Bare,
       Binding!Claimants, Binding!Confirmed, Binding!FamilyVendor
  <2> QED
    BY <2>1, <2>2 DEF Binding!Next
<1> QED
  BY <1>1, <1>2, NamesHeld, PTL DEF Binding!Spec

(***************************************************************************)
(* A flow of calls (FlowRun)                                               *)
(***************************************************************************)
\* What is told of a node that ran.
Entries == [node : Nat, cost : {-1, 0, 1}, route : {-2, -1, 0, 1}]

\* What the variables may hold.
FlowTyped ==
    /\ flow \in AdmittedFlows /\ done \subseteq flow.nodes
    /\ phase \in {"idle", "routing", "calling"} /\ route \in {-2, -1, 0, 1}
    /\ trace \in Seq(Entries) /\ status \in {"running", "ok", "failed"}
    /\ billed \in Nat /\ unseen \in Nat

\* A node runs while the flow does, and its turn has come.
NodeRuns ==
    /\ phase # "idle" => status = "running" /\ Runner!Ready # {}
    /\ phase # "calling" => route = -2

\* Every node that ended has a value, but for the one that failed.
ValuesGiven ==
    /\ DOMAIN values \subseteq done
    /\ status # "failed" => DOMAIN values = done
    /\ \A n \in done : Runner!InputsOf(n) \subseteq DOMAIN values
    /\ status = "ok" => done = flow.nodes

\* What is known of the costs of a field, added up.
SumOf(t, field) ==
    SumFunctionOnSet([i \in DOMAIN t |-> t[i][field]], {i \in DOMAIN t : t[i][field] >= 0})
\* Of the trace so far.
Sum(field) == SumOf(trace, field)

\* As long as all is known, it adds up to what was billed where a trace can tell it.
CostsAddUp ==
    (\A i \in DOMAIN trace : trace[i].cost # -1 /\ trace[i].route # -1) /\ route # -1
    => billed - unseen = Sum("cost") + Sum("route") + IF route = -2 THEN 0 ELSE route

\* All of it.
FlowInv == FlowTyped /\ NodeRuns /\ ValuesGiven /\ CostsAddUp

\* The runner adds up as the community modules do.
LEMMA RunnerSums == \A f, S : Runner!SumFunctionOnSet(f, S) = SumFunctionOnSet(f, S)
BY DEF Runner!SumFunctionOnSet, Runner!FoldFunctionOnSet, Runner!MapThenFoldSet,
   SumFunctionOnSet, FoldFunctionOnSet, MapThenFoldSet

\* One more number adds what it is, or nothing when it stands for none.
LEMMA OneMoreAdds ==
  ASSUME NEW n \in Nat, NEW v, NEW w, DOMAIN v = 1..n, DOMAIN w = 1..(n + 1),
         \A i \in 1..(n + 1) : w[i] \in Int, \A i \in 1..n : w[i] = v[i]
  PROVE  SumFunctionOnSet(w, {i \in DOMAIN w : w[i] >= 0})
           = SumFunctionOnSet(v, {i \in DOMAIN v : v[i] >= 0}) + (IF w[n + 1] >= 0 THEN w[n + 1] ELSE 0)
<1> DEFINE A == {i \in DOMAIN v : v[i] >= 0}
           B == {i \in DOMAIN w : w[i] >= 0}
<1>1. IsFiniteSet(1..n) /\ IsFiniteSet(1..(n + 1))
  BY FS_Interval
<1>2. A \subseteq 1..n /\ B \subseteq 1..(n + 1) /\ n + 1 \notin A
  OBVIOUS
<1>3. B = IF w[n + 1] >= 0 THEN A \cup {n + 1} ELSE A
  OBVIOUS
<1>4. \A i \in A : v[i] \in Int /\ w[i] = v[i]
  OBVIOUS
<1>5. \A i \in B : w[i] \in Int
  OBVIOUS
<1> HIDE DEF A, B
<1>6. IsFiniteSet(A) /\ IsFiniteSet(B)
  BY <1>1, <1>2, FS_Subset
<1>7. SumFunctionOnSet(w, A) = SumFunctionOnSet(v, A) /\ SumFunctionOnSet(v, A) \in Int
  BY <1>4, <1>6, SumSame, SumAdds
<1>8. CASE w[n + 1] >= 0
  <2>1. n + 1 \in B /\ B \ {n + 1} = A
    BY <1>2, <1>3, <1>8
  <2>2. SumFunctionOnSet(w, B) = w[n + 1] + SumFunctionOnSet(w, A)
    BY <1>5, <1>6, <2>1, SumAdds
  <2>3. w[n + 1] \in Int
    OBVIOUS
  <2> QED
    BY <1>7, <1>8, <2>2, <2>3 DEF A, B
<1>9. CASE ~(w[n + 1] >= 0)
  <2>1. B = A
    BY <1>3, <1>9
  <2>2. SumFunctionOnSet(w, B) = SumFunctionOnSet(v, A) /\ SumFunctionOnSet(v, A) \in Int
    BY <1>7, <2>1
  <2>3. SumFunctionOnSet(v, A) + 0 = SumFunctionOnSet(v, A)
    BY <2>2
  <2> QED
    BY <1>9, <2>2, <2>3 DEF A, B
<1> QED
  BY <1>8, <1>9

\* The sums are numbers.
LEMMA SumsAreNumbers ==
  ASSUME NEW t \in Seq(Entries), NEW field \in {"cost", "route"}
  PROVE  SumOf(t, field) \in Int
<1>1. DOMAIN t = 1..Len(t) /\ Len(t) \in Nat /\ \A i \in DOMAIN t : t[i] \in Entries
  BY LenProperties, ElementOfSeq
<1>2. PICK S : S = {i \in DOMAIN t : t[i][field] >= 0}
  OBVIOUS
<1>3. PICK v : v = [i \in DOMAIN t |-> t[i][field]]
  OBVIOUS
<1>4. IsFiniteSet(DOMAIN t)
  BY <1>1, FS_Interval
<1>5. IsFiniteSet(S)
  BY <1>2, <1>4, FS_Subset
<1>6. \A i \in S : v[i] \in Int
  BY <1>1, <1>2, <1>3 DEF Entries
<1> QED
  BY <1>2, <1>3, <1>5, <1>6, SumAdds DEF SumOf

\* What a run reports more when one more node ends.
LEMMA EntryAdds ==
  ASSUME trace \in Seq(Entries), NEW e \in Entries, trace' = Append(trace, e)
  PROVE  /\ trace' \in Seq(Entries) /\ DOMAIN trace' = DOMAIN trace \cup {Len(trace) + 1}
         /\ \A i \in DOMAIN trace : trace'[i] = trace[i]
         /\ trace'[Len(trace) + 1] = e
         /\ Sum("cost")' = Sum("cost") + (IF e.cost >= 0 THEN e.cost ELSE 0)
         /\ Sum("route")' = Sum("route") + (IF e.route >= 0 THEN e.route ELSE 0)
<1>1. PICK n \in Nat : n = Len(trace) /\ DOMAIN trace = 1..n
  BY LenProperties
<1>2. /\ trace' \in Seq(Entries) /\ DOMAIN trace' = 1..(n + 1)
      /\ \A i \in 1..n : trace'[i] = trace[i]
      /\ trace'[n + 1] = e
  BY <1>1, AppendProperties, LenProperties
<1>3. \A i \in 1..n : trace[i] \in Entries
  BY <1>1, LenProperties
<1>4. \A i \in 1..(n + 1) : trace'[i] \in Entries
  BY <1>2, LenProperties
<1>5. ASSUME NEW field \in {"cost", "route"}
      PROVE  Sum(field)' = Sum(field) + (IF e[field] >= 0 THEN e[field] ELSE 0)
  <2> DEFINE v == [i \in DOMAIN trace |-> trace[i][field]]
             w == [i \in DOMAIN trace' |-> trace'[i][field]]
  <2>1. DOMAIN v = 1..n /\ DOMAIN w = 1..(n + 1) /\ w[n + 1] = e[field]
    BY <1>1, <1>2
  <2>2. \A x \in Entries : x[field] \in Int
    BY DEF Entries
  <2>3. (\A i \in 1..(n + 1) : w[i] \in Int) /\ \A i \in 1..n : w[i] = v[i]
    BY <1>1, <1>2, <1>4, <2>2
  <2>4. /\ {i \in DOMAIN trace : trace[i][field] >= 0} = {i \in DOMAIN v : v[i] >= 0}
        /\ {i \in DOMAIN trace' : trace'[i][field] >= 0} = {i \in DOMAIN w : w[i] >= 0}
    OBVIOUS
  <2>5. /\ Sum(field) = SumFunctionOnSet(v, {i \in DOMAIN v : v[i] >= 0})
        /\ Sum(field)' = SumFunctionOnSet(w, {i \in DOMAIN w : w[i] >= 0})
    BY <2>4 DEF Sum, SumOf
  <2> HIDE DEF v, w
  <2> QED
    <3>1. SumFunctionOnSet(w, {i \in DOMAIN w : w[i] >= 0})
            = SumFunctionOnSet(v, {i \in DOMAIN v : v[i] >= 0}) + (IF w[n + 1] >= 0 THEN w[n + 1] ELSE 0)
      BY <2>1, <2>3, OneMoreAdds, Zenon
    <3> QED
      BY <2>1, <2>5, <3>1, Zenon
<1> QED
  BY <1>1, <1>2, <1>5

\* Of the nodes whose inputs have ended, one is first.
LEMMA FirstIsReady ==
  ASSUME FlowTyped, Runner!Ready # {}
  PROVE  /\ Runner!Due \in flow.nodes /\ Runner!Due \notin done /\ Runner!Due \in Nat
         /\ Runner!InputsOf(Runner!Due) \subseteq done
<1>1. Runner!Ready \subseteq Nat
  BY FlowAssumption DEF FlowTyped, Runner!Ready
<1>2. \E n \in Runner!Ready : \A other \in Runner!Ready : n <= other
  BY <1>1, LeastNumber
<1>3. Runner!Due \in Runner!Ready
  BY <1>2 DEF Runner!Due
<1> QED
  BY <1>1, <1>3 DEF Runner!Ready

\* Without a cycle, a node is ready as long as one has not run.
LEMMA AllHaveRun ==
  ASSUME FlowTyped, Runner!Ready = {}
  PROVE  done = flow.nodes
<1> SUFFICES ASSUME flow.nodes \ done # {} PROVE FALSE
  BY DEF FlowTyped
<1>1. PICK n \in flow.nodes \ done : \A i \in DOMAIN flow.inputs[n] : flow.inputs[n][i] \notin flow.nodes \ done
  BY FlowAssumption DEF FlowTyped
<1>2. \A i \in DOMAIN flow.inputs[n] : flow.inputs[n][i] \in flow.nodes
  <2>1. flow.inputs[n] \in Seq(flow.nodes)
    BY FlowAssumption DEF FlowTyped
  <2> QED
    BY <2>1, LenProperties, ElementOfSeq
<1>3. n \in Runner!Ready
  BY <1>1, <1>2 DEF Runner!Ready, Runner!InputsOf
<1> QED
  BY <1>3

\* What is known of the last try and what stays unseen of it are what it was billed.
LEMMA BillTells ==
  ASSUME billed \in Nat, unseen \in Nat, NEW b \in Runner!Bills, Runner!Bill(b)
  PROVE  /\ b.known \in {-1, 0, 1} /\ billed' \in Nat /\ unseen' \in Nat
         /\ b.known # -1 => billed' - unseen' = billed - unseen + b.known
<1>1. PICK paid \in {0, 1}, known \in {-1, 0, 1} :
            paid = b.paid /\ known = b.known /\ known <= paid
  BY DEF Runner!Bills, Runner!Unknown
<1>2. billed' = billed + paid /\ unseen' = IF known = -1 THEN unseen ELSE unseen + (paid - known)
  BY <1>1 DEF Runner!Bill, Runner!Unknown
<1> QED
  BY <1>1, <1>2

\* A node that ends: its value is given or the flow has failed, and its cost adds
\* up with what was billed for it.
LEMMA NodeEnds ==
  ASSUME FlowInv, status = "running", Runner!Ready # {}, flow' = flow, billed' \in Nat,
         unseen' \in Nat, NEW ok, NEW value, NEW cs \in {-1, 0, 1}, NEW decision \in {-2, -1, 0, 1},
         Runner!End(Runner!Due, ok, value, cs, decision),
         cs # -1 => billed' - unseen' = billed - unseen + cs /\ decision = route
  PROVE  FlowInv'
<1>1. FlowTyped /\ NodeRuns /\ ValuesGiven /\ CostsAddUp
  BY DEF FlowInv
<1>2. PICK n \in flow.nodes : /\ n = Runner!Due /\ n \notin done /\ n \in Nat
                              /\ Runner!InputsOf(n) \subseteq done
  BY <1>1, FirstIsReady
<1>3. PICK e \in Entries : e = [node |-> n, cost |-> cs, route |-> decision]
  BY <1>2 DEF Entries
<1>4. /\ trace' = Append(trace, e) /\ done' = done \cup {n} /\ phase' = "idle" /\ route' = -2
      /\ \/ DOMAIN values' = DOMAIN values \cup {n} /\ status' = "running"
         \/ values' = values /\ status' = "failed"
  BY <1>2, <1>3 DEF Runner!End, Runner!With, Runner!NoRoute
<1>5. FlowTyped'
  BY <1>1, <1>2, <1>4, EntryAdds DEF FlowTyped
<1>6. NodeRuns'
  BY <1>4 DEF NodeRuns
<1>7. ValuesGiven'
  <2>1. DOMAIN values = done /\ \A m \in done : Runner!InputsOf(m) \subseteq DOMAIN values
    BY <1>1 DEF ValuesGiven
  <2>2. \A m : Runner!InputsOf(m)' = Runner!InputsOf(m)
    BY DEF Runner!InputsOf
  <2> QED
    BY <1>2, <1>4, <2>1, <2>2 DEF ValuesGiven
<1>8. CostsAddUp'
  <2> SUFFICES ASSUME \A i \in DOMAIN trace' : trace'[i].cost # -1 /\ trace'[i].route # -1
               PROVE  billed' - unseen' = Sum("cost")' + Sum("route")'
    <3>1. \A a, b \in Int : a + b + 0 = a + b
      OBVIOUS
    <3>2. Sum("cost")' \in Int /\ Sum("route")' \in Int
      BY <1>5, SumsAreNumbers DEF FlowTyped, Sum
    <3> QED
      BY <1>4, <3>1, <3>2 DEF CostsAddUp
  <2>1. /\ \A i \in DOMAIN trace : trace'[i] = trace[i] /\ i \in DOMAIN trace'
        /\ trace'[Len(trace) + 1] = e /\ Len(trace) + 1 \in DOMAIN trace'
        /\ Sum("cost")' = Sum("cost") + (IF e.cost >= 0 THEN e.cost ELSE 0)
        /\ Sum("route")' = Sum("route") + (IF e.route >= 0 THEN e.route ELSE 0)
    BY <1>1, <1>4, EntryAdds DEF FlowTyped
  <2>2. cs # -1 /\ decision # -1 /\ decision = route
        /\ billed' - unseen' = billed - unseen + cs
    BY <1>3, <2>1
  <2>3. billed - unseen = Sum("cost") + Sum("route") + IF route = -2 THEN 0 ELSE route
    BY <1>1, <2>1, <2>2 DEF CostsAddUp
  <2>4. PICK c, r \in Int : c = Sum("cost") /\ r = Sum("route")
    BY <1>1, SumsAreNumbers DEF FlowTyped, Sum
  <2>5. /\ e.cost = cs /\ e.route = decision /\ cs \in {0, 1} /\ decision \in {-2, 0, 1}
    BY <1>3, <2>2
  <2>6. billed - unseen = c + r + (IF decision = -2 THEN 0 ELSE decision)
    BY <1>1, <2>2, <2>3, <2>4 DEF FlowTyped
  <2>7. Sum("cost")' = c + cs /\ Sum("route")' = r + (IF decision >= 0 THEN decision ELSE 0)
    BY <2>1, <2>4, <2>5
  <2> QED
    BY <2>2, <2>5, <2>6, <2>7
<1> QED
  BY <1>5, <1>6, <1>7, <1>8 DEF FlowInv

\* One that has only been given a value.
LEMMA NodeGiven ==
  ASSUME FlowInv, status = "running", phase = "idle", Runner!Ready # {}, NEW value,
         done' = done \cup {Runner!Due}, values' = Runner!With(Runner!Due, value),
         UNCHANGED <<flow, phase, route, trace, status, billed, unseen>>
  PROVE  FlowInv'
<1>1. FlowTyped /\ NodeRuns /\ ValuesGiven /\ CostsAddUp
  BY DEF FlowInv
<1>2. PICK n \in flow.nodes : n = Runner!Due /\ Runner!InputsOf(n) \subseteq done
  BY <1>1, FirstIsReady
<1>3. DOMAIN values' = DOMAIN values \cup {n} /\ done' = done \cup {n}
  BY <1>2 DEF Runner!With
<1>4. \A m : Runner!InputsOf(m)' = Runner!InputsOf(m)
  BY DEF Runner!InputsOf
<1>5. FlowTyped' /\ NodeRuns'
  BY <1>1, <1>2, <1>3 DEF FlowTyped, NodeRuns
<1>6. ValuesGiven'
  BY <1>1, <1>2, <1>3, <1>4 DEF ValuesGiven
<1>7. CostsAddUp'
  BY <1>1 DEF CostsAddUp, Sum
<1> QED
  BY <1>5, <1>6, <1>7 DEF FlowInv

\* A step leaves the invariant true, whatever the node at its turn does.
LEMMA FlowStep == FlowInv /\ [Runner!Next]_(Runner!vars) => FlowInv'
<1> SUFFICES ASSUME FlowInv, [Runner!Next]_(Runner!vars) PROVE FlowInv'
  OBVIOUS
<1>1. FlowTyped /\ NodeRuns /\ ValuesGiven /\ CostsAddUp
  BY DEF FlowInv
<1>2. phase = "idle" => route = -2
  BY <1>1 DEF NodeRuns
<1>3. CASE Runner!Input
  BY <1>3, NodeGiven DEF Runner!Input, Runner!At
<1>4. CASE Runner!Output
  BY <1>4, NodeGiven DEF Runner!Output, Runner!At
<1>5. ASSUME status = "running", phase = "idle", Runner!Ready # {}, UNCHANGED <<flow, billed, unseen>>,
             NEW ok, NEW value, Runner!End(Runner!Due, ok, value, 0, Runner!NoRoute)
      PROVE  FlowInv'
  <2>1. Runner!End(Runner!Due, ok, value, 0, -2) /\ route = -2
    BY <1>2, <1>5 DEF Runner!NoRoute
  <2>2. /\ flow' = flow /\ billed' \in Nat /\ unseen' \in Nat
        /\ billed' - unseen' = billed - unseen + 0
    BY <1>1, <1>5 DEF FlowTyped
  <2> QED
    BY <1>5, <2>1, <2>2, NodeEnds
<1>6. CASE Runner!Skip
  BY <1>5, <1>6 DEF Runner!Skip, Runner!At
<1>7. CASE Runner!Compute
  BY <1>5, <1>7 DEF Runner!Compute, Runner!At
<1>8. CASE Runner!Overdue
  BY <1>5, <1>8 DEF Runner!Overdue, Runner!At
<1>9. CASE Runner!Begin
  <2>1. /\ status = "running" /\ Runner!Ready # {} /\ phase' \in {"routing", "calling"}
        /\ UNCHANGED <<flow, done, values, route, trace, status, billed, unseen>>
    BY <1>9 DEF Runner!Begin, Runner!At
  <2>2. Runner!Ready' = Runner!Ready /\ \A m : Runner!InputsOf(m)' = Runner!InputsOf(m)
    BY <2>1 DEF Runner!Ready, Runner!InputsOf
  <2>3. route = -2
    BY <1>2, <1>9 DEF Runner!Begin, Runner!At
  <2>4. FlowTyped'
    BY <1>1, <2>1 DEF FlowTyped
  <2>5. NodeRuns'
    BY <2>1, <2>2, <2>3 DEF NodeRuns
  <2>6. ValuesGiven'
    BY <1>1, <2>1, <2>2 DEF ValuesGiven
  <2>7. CostsAddUp'
    BY <1>1, <2>1 DEF CostsAddUp, Sum
  <2> QED
    BY <2>4, <2>5, <2>6, <2>7 DEF FlowInv
<1>10. CASE Runner!Routed
  <2>1. PICK b \in Runner!Bills : Runner!Bill(b) /\ route' = b.known
    BY <1>10 DEF Runner!Routed
  <2>2. /\ route' \in {-1, 0, 1} /\ billed' \in Nat /\ unseen' \in Nat
        /\ route' # -1 => billed' - unseen' = billed - unseen + route'
    BY <1>1, <2>1, BillTells DEF FlowTyped
  <2>3. /\ phase = "routing" /\ phase' = "calling"
        /\ UNCHANGED <<flow, done, values, trace, status>>
    BY <1>10 DEF Runner!Routed
  <2>4. Runner!Ready' = Runner!Ready /\ \A m : Runner!InputsOf(m)' = Runner!InputsOf(m)
    BY <2>3 DEF Runner!Ready, Runner!InputsOf
  <2>5. FlowTyped'
    BY <1>1, <2>2, <2>3 DEF FlowTyped
  <2>6. NodeRuns'
    BY <1>1, <2>3, <2>4 DEF NodeRuns
  <2>7. ValuesGiven'
    BY <1>1, <2>3, <2>4 DEF ValuesGiven
  <2>8. CostsAddUp'
    <3> SUFFICES ASSUME \A i \in DOMAIN trace : trace[i].cost # -1 /\ trace[i].route # -1,
                        route' # -1
                 PROVE  billed' - unseen' = Sum("cost") + Sum("route") + route'
      BY <2>2, <2>3 DEF CostsAddUp, Sum
    <3>1. route = -2
      BY <1>1, <2>3 DEF NodeRuns
    <3>2. PICK c, r \in Int : c = Sum("cost") /\ r = Sum("route")
      BY <1>1, SumsAreNumbers DEF FlowTyped, Sum
    <3>3. billed - unseen = c + r + 0
      BY <1>1, <3>1, <3>2 DEF CostsAddUp
    <3> QED
      BY <1>1, <2>2, <3>2, <3>3 DEF FlowTyped
  <2> QED
    BY <2>5, <2>6, <2>7, <2>8 DEF FlowInv
<1>11. CASE Runner!Answered
  <2>1. PICK b \in Runner!Bills, ok \in BOOLEAN, v \in {"empty", "some"} :
            Runner!Bill(b) /\ Runner!End(Runner!Due, ok, v, b.known, route)
    BY <1>11 DEF Runner!Answered
  <2>2. PICK cs \in {-1, 0, 1} : cs = b.known
    BY <2>1, BillTells, <1>1 DEF FlowTyped
  <2>3. /\ billed' \in Nat /\ unseen' \in Nat
        /\ cs # -1 => billed' - unseen' = billed - unseen + cs
    BY <1>1, <2>1, <2>2, BillTells DEF FlowTyped
  <2>4. phase # "idle" /\ flow' = flow
    BY <1>11 DEF Runner!Answered
  <2>5. route \in {-2, -1, 0, 1}
    BY <1>1 DEF FlowTyped
  <2>6. Runner!End(Runner!Due, ok, v, cs, route)
    BY <2>1, <2>2
  <2> QED
    BY <1>1, <2>3, <2>4, <2>5, <2>6, NodeEnds DEF NodeRuns
<1>12. ASSUME phase # "idle", billed' \in {billed, billed + 1}, UNCHANGED <<flow, unseen>>,
              Runner!End(Runner!Due, FALSE, "empty", Runner!Unknown, Runner!NoRoute)
       PROVE  FlowInv'
  <2>1. Runner!End(Runner!Due, FALSE, "empty", -1, -2)
    BY <1>12 DEF Runner!Unknown, Runner!NoRoute
  <2>2. billed' \in Nat /\ unseen' \in Nat
    BY <1>1, <1>12 DEF FlowTyped
  <2> QED
    BY <1>1, <1>12, <2>1, <2>2, NodeEnds DEF NodeRuns
<1>13. CASE Runner!Raised
  BY <1>12, <1>13 DEF Runner!Raised
<1>14. CASE Runner!Cut
  BY <1>12, <1>14 DEF Runner!Cut
<1>15. ASSUME UNCHANGED <<flow, done, values, phase, route, trace>>,
              billed' \in Nat, unseen' \in Nat, billed' - unseen' = billed - unseen,
              status' = status \/ (phase = "idle" /\ status = "running" /\ status' = "ok" /\ done = flow.nodes)
       PROVE  FlowInv'
  <2>1. Runner!Ready' = Runner!Ready /\ \A m : Runner!InputsOf(m)' = Runner!InputsOf(m)
    BY <1>15 DEF Runner!Ready, Runner!InputsOf
  <2>2. FlowTyped'
    BY <1>1, <1>15 DEF FlowTyped
  <2>3. NodeRuns'
    BY <1>1, <1>15, <2>1 DEF NodeRuns
  <2>4. ValuesGiven'
    BY <1>1, <1>15, <2>1 DEF ValuesGiven
  <2>5. CostsAddUp'
    BY <1>1, <1>15 DEF CostsAddUp, Sum
  <2> QED
    BY <2>2, <2>3, <2>4, <2>5 DEF FlowInv
<1>16. CASE Runner!DeadlinePasses
  BY <1>1, <1>15, <1>16 DEF Runner!DeadlinePasses, FlowTyped
<1>17. CASE Runner!Finish
  BY <1>1, <1>15, <1>17, AllHaveRun DEF Runner!Finish, FlowTyped
<1>18. CASE Runner!TryAnother
  <2>1. PICK paid \in {0, 1} : billed' = billed + paid /\ unseen' = unseen + paid
    BY <1>18 DEF Runner!TryAnother
  <2>2. billed' \in Nat /\ unseen' \in Nat /\ billed' - unseen' = billed - unseen
    BY <1>1, <2>1 DEF FlowTyped
  <2> QED
    BY <1>15, <1>18, <2>2 DEF Runner!TryAnother
<1>19. CASE UNCHANGED Runner!vars
  BY <1>1, <1>15, <1>19 DEF Runner!vars, FlowTyped
<1> QED
  BY <1>3, <1>4, <1>6, <1>7, <1>8, <1>9, <1>10, <1>11, <1>13, <1>14, <1>16, <1>17, <1>18, <1>19
     DEF Runner!Next

\* When it begins nothing has run and nothing was billed.
LEMMA FlowInit == Runner!Init => FlowInv
<1> SUFFICES ASSUME Runner!Init PROVE FlowInv
  OBVIOUS
<1>1. /\ flow \in AdmittedFlows /\ done = {} /\ values = <<>> /\ phase = "idle" /\ route = -2
      /\ trace = <<>> /\ status = "running" /\ billed = 0 /\ unseen = 0
  BY DEF Runner!Init, Runner!NoRoute
<1>2. FlowTyped /\ NodeRuns /\ ValuesGiven
  BY <1>1 DEF FlowTyped, NodeRuns, ValuesGiven
<1>3. \A field \in {"cost", "route"} : Sum(field) = 0
  <2> TAKE field \in {"cost", "route"}
  <2>1. {i \in DOMAIN trace : trace[i][field] >= 0} = {} /\ IsFiniteSet({})
    BY <1>1, FS_EmptySet
  <2> QED
    BY <2>1, SumAdds DEF Sum, SumOf
<1>4. CostsAddUp
  BY <1>1, <1>3 DEF CostsAddUp
<1> QED
  BY <1>2, <1>4 DEF FlowInv

\* What the invariant says of a flow that has ended.
LEMMA FlowTold == FlowInv => FlowsHold
<1> SUFFICES ASSUME FlowInv PROVE FlowsHold
  OBVIOUS
<1>1. FlowTyped /\ NodeRuns /\ ValuesGiven /\ CostsAddUp
  BY DEF FlowInv
<1>2. \A i \in DOMAIN trace : trace[i] \in Entries
  BY <1>1, LenProperties, ElementOfSeq DEF FlowTyped
<1>3. Runner!Total("cost") = Sum("cost") /\ Runner!Total("route") = Sum("route")
  BY RunnerSums DEF Runner!Total, Runner!Known, Sum, SumOf
<1>4. Runner!CostKnownIsSpent
  <2> SUFFICES ASSUME status # "running", Runner!CostKnown
               PROVE  billed - unseen = Sum("cost") + Sum("route")
    BY <1>3 DEF Runner!CostKnownIsSpent, Runner!FlowCost
  <2>1. \A i \in DOMAIN trace : trace[i].cost # -1 /\ trace[i].route # -1
    <3>1. /\ {i \in DOMAIN trace : trace[i].cost >= 0} = DOMAIN trace
          /\ {i \in DOMAIN trace : trace[i].route >= 0} = {i \in DOMAIN trace : trace[i].route # -2}
      BY DEF Runner!CostKnown, Runner!Known, Runner!Decided, Runner!NoRoute
    <3>2. \A i \in DOMAIN trace : trace[i].cost >= 0 /\ (trace[i].route # -2 => trace[i].route >= 0)
      BY <3>1
    <3> QED
      BY <1>2, <3>2 DEF Entries
  <2>2. route = -2
    BY <1>1 DEF NodeRuns
  <2>3. PICK c, r \in Int : c = Sum("cost") /\ r = Sum("route")
    BY <1>1, SumsAreNumbers DEF FlowTyped, Sum
  <2>4. billed - unseen = c + r + 0
    BY <1>1, <2>1, <2>2, <2>3 DEF CostsAddUp
  <2> QED
    BY <2>3, <2>4
<1>5. Runner!NothingRunsEarly
  <2>1. \E n \in flow.nodes : flow.kind[n] = "output"
    BY <1>1, FlowAssumption DEF FlowTyped
  <2>2. Runner!Sink(flow) \in flow.nodes
    BY <2>1 DEF Runner!Sink
  <2> QED
    BY <1>1, <2>2 DEF Runner!NothingRunsEarly, ValuesGiven
<1> QED
  BY <1>4, <1>5 DEF FlowsHold

\* The cost a flow reports is all that was billed for it, however it ended, but for
\* tries that were replaced and prices that are not listed, and no node runs before
\* its inputs (llm_router_host.py, flow_runner.py).
THEOREM FlowsHeld == Runner!Spec => []FlowsHold
<1>1. FlowInv => FlowsHold
  BY FlowTold
<1> QED
  BY <1>1, FlowInit, FlowStep, PTL DEF Runner!Spec
(***************************************************************************)
(* The sellers the market offers (MarketOffers)                            *)
(***************************************************************************)
\* What the variables may hold; observations are in the order of their time.
OffersTyped ==
    /\ clock \in Nat /\ flights \in [Offers!Routes -> 0 .. SellerCalls]
    /\ blind \in [Offers!Routes -> Nat]
    /\ seen \in Seq([route : Offers!Routes, kind : Offers!Kinds, at : Nat])
    /\ \A i \in DOMAIN seen : seen[i].at <= clock
    /\ \A i, j \in DOMAIN seen : i < j => seen[i].at <= seen[j].at

\* The observations of the same route after the i-th.
After(i) == {j \in DOMAIN seen : j > i /\ seen[j].route = seen[i].route}

\* A failure whose cooldown is not over, after which no answer came and no rank
\* whose read failed chose the route.
Unlifted(i) ==
    /\ seen[i].kind \in {"model", "rate", "fault"}
    /\ clock < seen[i].at + RouteBase[seen[i].kind]
    /\ \A j \in After(i) : seen[j].kind # "ok"
    /\ blind[seen[i].route] < i

\* Only calls that were under way when a route failed land after the failure, so
\* what landed since and what is still to land are fewer than the calls there
\* could be: the failure stays among the observations that are read.
FewLand ==
    \A i \in DOMAIN seen :
        Unlifted(i) => Cardinality(After(i)) + flights[seen[i].route] < SellerCalls

\* All of it.
OffersInv == OffersTyped /\ FewLand

\* The instance counts as this module does.
LEMMA OfferCount == \A T : Offers!Cardinality(T) = Cardinality(T)
BY DEF Offers!Cardinality, Cardinality

\* What typed observations are.
LEMMA Observations ==
  ASSUME OffersTyped
  PROVE  /\ Len(seen) \in Nat /\ DOMAIN seen = 1 .. Len(seen)
         /\ \A i \in DOMAIN seen : /\ seen[i].route \in Offers!Routes /\ seen[i].at \in Nat
                                   /\ seen[i].kind \in Offers!Kinds
                                   /\ IsFiniteSet(After(i)) /\ Cardinality(After(i)) \in Nat
<1>1. /\ Len(seen) \in Nat /\ DOMAIN seen = 1 .. Len(seen)
      /\ \A i \in DOMAIN seen : seen[i] \in [route : Offers!Routes, kind : Offers!Kinds, at : Nat]
  BY LenProperties, ElementOfSeq DEF OffersTyped
<1>2. IsFiniteSet(DOMAIN seen)
  BY <1>1, FS_Interval
<1>3. \A i : After(i) \subseteq DOMAIN seen
  BY DEF After
<1>4. \A i : IsFiniteSet(After(i)) /\ Cardinality(After(i)) \in Nat
  BY <1>2, <1>3, FS_Subset, FS_CardinalityType
<1> QED
  BY <1>1, <1>4

\* A streak is of observations in its window, no longer than what is read, and
\* the newest of it is its own.
LEMMA Streaks ==
  ASSUME OffersTyped, NEW obs, obs \subseteq DOMAIN seen, NEW faults, NEW S,
         S = Offers!Streak(obs, faults), S # {}
  PROVE  /\ S \subseteq obs /\ \A i \in S : seen[i].kind \in faults
         /\ Offers!Newest(S) \in S /\ \A i \in S : i <= Offers!Newest(S)
         /\ IsFiniteSet(S) /\ Cardinality(S) \in 1 .. HealthSample
<1> DEFINE R == Offers!Recent(obs)
<1>1. S \subseteq R /\ R \subseteq obs /\ \A i \in S : seen[i].kind \in faults
  BY DEF Offers!Streak, Offers!Recent
<1>2. Len(seen) \in Nat /\ obs \subseteq 1 .. Len(seen)
  BY Observations
<1>3. \A i \in R : Cardinality({j \in obs : j > i}) < HealthSample
  BY OfferCount, Zenon DEF Offers!Recent
<1> HIDE DEF R
<1>4. IsFiniteSet(R) /\ Cardinality(R) \in Nat /\ Cardinality(R) <= HealthSample
  BY <1>1, <1>2, <1>3, GreatestFew, OfferAssumption
<1>5. IsFiniteSet(S) /\ Cardinality(S) <= Cardinality(R) /\ Cardinality(S) \in Nat
  BY <1>1, <1>4, FS_Subset, FS_CardinalityType
<1>6. Cardinality(S) # 0
  BY <1>5, FS_EmptySet
<1>7. Cardinality(S) \in 1 .. HealthSample
  BY <1>4, <1>5, <1>6, OfferAssumption
<1>8. \E m \in S : \A i \in S : i <= m
  <2>1. S \subseteq 1 .. Len(seen)
    BY <1>1, <1>2
  <2> QED
    BY <1>2, <2>1, GreatestNumber
<1>9. Offers!Newest(S) \in S /\ \A i \in S : i <= Offers!Newest(S)
  BY <1>8 DEF Offers!Newest
<1> QED
  BY <1>1, <1>5, <1>7, <1>9

\* The streak of a route and the cooldown it makes.
LEMMA RouteStreaks ==
  ASSUME OffersTyped, NEW r, NEW S, S = Offers!RouteStreak(r), S # {}
  PROVE  /\ Offers!Newest(S) \in S /\ \A i \in S : i <= Offers!Newest(S)
         /\ \A i \in S : /\ i \in DOMAIN seen /\ seen[i].route = r
                         /\ seen[i].at >= clock - HealthWindow
                         /\ seen[i].kind \in {"model", "rate", "fault"}
         /\ IsFiniteSet(S) /\ Cardinality(S) \in 1 .. HealthSample
<1>1. /\ Offers!Of(r) \subseteq DOMAIN seen
      /\ \A i \in Offers!Of(r) : seen[i].route = r /\ seen[i].at >= clock - HealthWindow
  BY DEF Offers!Of
<1>2. S = Offers!Streak(Offers!Of(r), Offers!RouteFault)
  BY DEF Offers!RouteStreak
<1>3. Offers!RouteFault = {"model", "rate", "fault"}
  BY DEF Offers!RouteFault
<1>4. /\ S \subseteq Offers!Of(r) /\ \A i \in S : seen[i].kind \in Offers!RouteFault
      /\ Offers!Newest(S) \in S /\ \A i \in S : i <= Offers!Newest(S)
      /\ IsFiniteSet(S) /\ Cardinality(S) \in 1 .. HealthSample
  BY <1>1, <1>2, Streaks
<1> QED
  BY <1>1, <1>3, <1>4

\* A factor of one or more keeps a number, one of two or more doubles it at least.
LEMMA Times ==
  ASSUME NEW a \in Nat, NEW p \in Nat, p >= 1
  PROVE  a * p \in Nat /\ a * p >= a /\ (p >= 2 => a * p >= 2 * a)
OBVIOUS

\* The lesser of two cooldowns that both last as long as one that began before it.
LEMMA Longer ==
  ASSUME NEW c \in Nat, NEW a \in Nat, NEW b \in Nat, c < a + b,
         NEW d \in Nat, a <= d, NEW m \in Nat, b <= m, NEW x \in Nat, b <= x
  PROVE  c < d + Offers!Lesser(m, x)
BY DEF Offers!Lesser

\* A failure whose cooldown is not over is in the streak of its route, for fewer
\* came after it than are read, and the streak cools the route down for as long:
\* a newer failure of it that cools down for less counts double.
LEMMA UnliftedCools ==
  ASSUME OffersInv, NEW i \in DOMAIN seen, Unlifted(i)
  PROVE  Offers!Cooling(seen[i].route)
<1> DEFINE r == seen[i].route
           S == Offers!RouteStreak(r)
           k == seen[i].kind
<1>1. OffersTyped /\ FewLand
  BY DEF OffersInv
<1>2. /\ DOMAIN seen = 1 .. Len(seen) /\ Len(seen) \in Nat /\ seen[i].at \in Nat /\ clock \in Nat
      /\ IsFiniteSet(After(i)) /\ Cardinality(After(i)) \in Nat
      /\ r \in Offers!Routes /\ flights[r] \in Nat
  BY <1>1, Observations DEF OffersTyped
<1>3. /\ k \in {"model", "rate", "fault"} /\ clock < seen[i].at + RouteBase[k]
      /\ \A j \in After(i) : seen[j].kind # "ok"
  BY DEF Unlifted
<1>4. /\ RouteBase[k] \in Nat /\ RouteBase[k] <= HealthWindow /\ HealthWindow \in Nat
      /\ HealthSample \in Nat /\ SellerCalls \in Nat /\ SellerCalls <= HealthSample
  BY <1>3, OfferAssumption
<1>5. i \in Offers!Of(r) /\ Offers!Of(r) \subseteq DOMAIN seen
  BY <1>2, <1>3, <1>4 DEF Offers!Of
<1>6. i \in Offers!Recent(Offers!Of(r))
  <2> DEFINE A == {j \in Offers!Of(r) : j > i}
  <2>1. A \subseteq After(i)
    BY DEF After, Offers!Of
  <2>2. Cardinality(After(i)) < HealthSample
    BY <1>1, <1>2, <1>4 DEF FewLand
  <2> HIDE DEF A
  <2>3. Cardinality(A) <= Cardinality(After(i)) /\ Cardinality(A) \in Nat
    BY <1>2, <2>1, FS_Subset, FS_CardinalityType
  <2>4. Cardinality(A) < HealthSample
    BY <1>2, <1>4, <2>2, <2>3
  <2> QED
    BY <1>5, <2>4, OfferCount, Zenon DEF A, Offers!Recent
<1>7. i \in S
  <2>1. ASSUME NEW j \in Offers!Recent(Offers!Of(r)), j > i PROVE seen[j].kind # "ok"
    <3>1. j \in After(i)
      BY <2>1 DEF Offers!Recent, Offers!Of, After
    <3> QED
      BY <1>3, <3>1
  <2> QED
    BY <1>3, <1>6, <2>1
       DEF Offers!RouteStreak, Offers!Streak, Offers!RouteFault, Offers!Enders
<1> DEFINE n == Offers!Newest(S)
           c == Cardinality(S)
           p == 2 ^ (c - 1)
<1>8. /\ n \in S /\ i <= n /\ n \in DOMAIN seen
      /\ seen[n].kind \in {"model", "rate", "fault"} /\ IsFiniteSet(S)
      /\ c \in 1 .. HealthSample
  <2> HIDE DEF S
  <2>1. S = Offers!RouteStreak(r) /\ S # {}
    BY <1>7 DEF S
  <2> QED
    BY <1>1, <1>7, <2>1, RouteStreaks
<1> DEFINE q == seen[n].kind
           b == RouteBase[q]
<1>9. S # {} /\ Offers!Until(S, RouteBase, RouteMost) = seen[n].at + Offers!Lesser(RouteMost[q], b * p)
  BY <1>7, OfferCount, Zenon DEF Offers!Until
<1> HIDE DEF S, n, c, k, r
<1>10. p \in Nat /\ p >= 1 /\ (c > 1 => p >= 2)
  <2>1. p \in Nat \ {0} /\ (c > 1 => p >= 2)
    <3>1. \A m \in 1 .. HealthSample : 2 ^ (m - 1) \in Nat \ {0} /\ (m > 1 => 2 ^ (m - 1) >= 2)
      BY OfferAssumption
    <3> QED
      BY <1>8, <3>1, Zenon
  <2> QED
    BY <2>1
<1>11. /\ b \in Nat /\ RouteMost[q] \in Nat
       /\ RouteBase[k] <= 2 * b /\ RouteBase[k] <= RouteMost[q]
  BY <1>3, <1>8, OfferAssumption
<1>12. seen[n].at \in Nat /\ seen[i].at <= seen[n].at
  <2>1. n = i \/ i < n
    BY <1>2, <1>8
  <2>2. seen[n].at \in Nat
    BY <1>1, <1>8, Observations
  <2> QED
    BY <1>1, <1>2, <1>8, <2>1, <2>2, SMTT(20) DEF OffersTyped
<1>13. b * p \in Nat /\ RouteBase[k] <= b * p
  <2>1. /\ b * p \in Nat /\ b * p >= b /\ (p >= 2 => b * p >= 2 * b)
    <3> HIDE DEF b, p
    <3> QED
      BY <1>10, <1>11, Times
  <2>2. CASE n = i
    <3>1. RouteBase[k] = b
      BY <2>2 DEF k
    <3> QED
      BY <2>1, <3>1
  <2>3. CASE n # i
    <3>1. c # 1
      <4>1. ASSUME c = 1 PROVE FALSE
        <5>1. PICK x : S = {x}
          BY <1>8, <4>1, FS_Singleton DEF c
        <5> QED
          BY <1>7, <1>8, <2>3, <5>1
      <4> QED
        BY <4>1
    <3>2. p >= 2
      BY <1>8, <1>10, <3>1
    <3> HIDE DEF b, p
    <3> QED
      BY <1>4, <1>11, <2>1, <3>2
  <2> QED
    BY <2>2, <2>3
<1> HIDE DEF b, p, q
<1>14. clock < seen[n].at + Offers!Lesser(RouteMost[q], b * p)
  <2> DEFINE x == b * p
  <2>1. x \in Nat /\ RouteBase[k] <= x
    BY <1>13
  <2> HIDE DEF x
  <2>2. clock < seen[n].at + Offers!Lesser(RouteMost[q], x)
    <3>1. /\ clock \in Nat /\ seen[i].at \in Nat /\ clock < seen[i].at + RouteBase[k]
          /\ RouteBase[k] \in Nat /\ RouteMost[q] \in Nat /\ RouteBase[k] <= RouteMost[q]
      BY <1>2, <1>3, <1>4, <1>11 DEF k
    <3> QED
      BY <1>12, <2>1, <3>1, Longer
  <2> QED
    BY <2>2 DEF x
<1>15. clock < Offers!Until(Offers!RouteStreak(r), RouteBase, RouteMost)
  BY <1>9, <1>14 DEF S, b, p
<1> QED
  BY <1>15 DEF Offers!Cooling, r

\* A cooldown lasts no longer than the most of the newest failure of its streak.
LEMMA UntilMost ==
  ASSUME NEW S, S # {}, NEW first, NEW most,
         clock < Offers!Until(S, first, most), clock \in Nat,
         seen[Offers!Newest(S)].at \in Nat, most[seen[Offers!Newest(S)].kind] \in Nat,
         first[seen[Offers!Newest(S)].kind] * 2 ^ (Cardinality(S) - 1) \in Nat
  PROVE  clock < seen[Offers!Newest(S)].at + most[seen[Offers!Newest(S)].kind]
<1> DEFINE n == Offers!Newest(S)
           x == first[seen[n].kind] * 2 ^ (Cardinality(S) - 1)
           m == most[seen[n].kind]
<1>1. clock < seen[n].at + Offers!Lesser(m, x)
  BY OfferCount, Zenon DEF Offers!Until
<1>2. seen[n].at \in Nat /\ m \in Nat /\ x \in Nat
  OBVIOUS
<1> HIDE DEF n, x, m
<1>3. Offers!Lesser(m, x) \in Nat /\ Offers!Lesser(m, x) <= m
  BY <1>2 DEF Offers!Lesser
<1>4. clock < seen[n].at + m
  BY <1>1, <1>2, <1>3
<1> QED
  BY <1>4 DEF n, m

\* Whatever cools a route down, a failure of its seller is behind it that is no
\* older than the longest cooldown of its kind.
LEMMA ExileEnds == OffersInv => Offers!NeverExiled
<1> SUFFICES ASSUME OffersInv, NEW r \in Offers!Routes, Offers!Cooling(r)
             PROVE  \E i \in Offers!OfSeller(r[1]) :
                       /\ seen[i].kind \in Offers!RouteFault
                       /\ clock < seen[i].at + RouteMost[seen[i].kind]
  BY DEF Offers!NeverExiled
<1>1. OffersTyped /\ clock \in Nat
  BY DEF OffersInv, OffersTyped
<1>2. Offers!RouteFault = {"model", "rate", "fault"} /\ Offers!SellerFault = {"rate", "fault"}
  BY DEF Offers!RouteFault, Offers!SellerFault
<1>3. \A m \in 1 .. HealthSample : 2 ^ (m - 1) \in Nat /\ 2 ^ (m - 1) >= 1
  <2>1. \A m \in 1 .. HealthSample : 2 ^ (m - 1) \in Nat \ {0}
    BY OfferAssumption
  <2> QED
    BY <2>1
<1>4. CASE clock < Offers!Until(Offers!RouteStreak(r), RouteBase, RouteMost)
  <2> DEFINE S == Offers!RouteStreak(r)
             n == Offers!Newest(S)
             k == seen[n].kind
  <2>1. S # {}
    BY <1>1, <1>4 DEF Offers!Until
  <2>2. /\ n \in S /\ n \in DOMAIN seen /\ seen[n].route = r /\ seen[n].at >= clock - HealthWindow
        /\ k \in {"model", "rate", "fault"} /\ Cardinality(S) \in 1 .. HealthSample
    <3> HIDE DEF S
    <3>1. S = Offers!RouteStreak(r)
      BY DEF S
    <3> QED
      BY <1>1, <2>1, <3>1, RouteStreaks
  <2> HIDE DEF S, n
  <2>3. seen[n].at \in Nat /\ HealthWindow \in Nat
    BY <1>1, <2>2, Observations, OfferAssumption
  <2>4. RouteBase[k] \in Nat /\ RouteMost[k] \in Nat
    BY <2>2, OfferAssumption
  <2>5. RouteBase[k] * 2 ^ (Cardinality(S) - 1) \in Nat
    BY <1>3, <2>2, <2>4, Times
  <2>6. clock < seen[n].at + RouteMost[k]
    BY <1>1, <1>4, <2>1, <2>3, <2>4, <2>5, UntilMost DEF S, n
  <2>7. n \in Offers!OfSeller(r[1])
    BY <2>2 DEF Offers!OfSeller
  <2> QED
    BY <1>2, <2>2, <2>6, <2>7
<1>5. CASE clock < Offers!Until(Offers!SellerStreak(r[1]), PeerBase, PeerMost)
  <2> DEFINE S == Offers!SellerStreak(r[1])
             n == Offers!Newest(S)
             k == seen[n].kind
  <2>1. S # {}
    BY <1>1, <1>5 DEF Offers!Until
  <2>2. n \in Offers!OfSeller(r[1]) /\ k \in {"rate", "fault"} /\ Cardinality(S) \in 1 .. HealthSample
    <3>1. Offers!OfSeller(r[1]) \subseteq DOMAIN seen
      BY DEF Offers!OfSeller
    <3>2. S = Offers!Streak(Offers!OfSeller(r[1]), Offers!SellerFault)
      BY DEF Offers!SellerStreak
    <3> HIDE DEF S
    <3> QED
      BY <1>1, <1>2, <2>1, <3>1, <3>2, Streaks
  <2> HIDE DEF S, n
  <2>3. n \in DOMAIN seen /\ seen[n].at \in Nat
    BY <1>1, <2>2, Observations DEF Offers!OfSeller
  <2>4. PeerBase[k] \in Nat /\ PeerMost[k] \in Nat /\ PeerMost[k] <= RouteMost[k] /\ RouteMost[k] \in Nat
    <3>1. PeerBase[k] \in Nat /\ PeerMost[k] \in 0 .. RouteMost[k] /\ RouteMost[k] \in Nat
      BY <2>2, OfferAssumption
    <3> QED
      BY <3>1
  <2>5. PeerBase[k] * 2 ^ (Cardinality(S) - 1) \in Nat
    BY <1>3, <2>2, <2>4, Times
  <2>6. clock < seen[n].at + PeerMost[k]
    BY <1>1, <1>5, <2>1, <2>3, <2>4, <2>5, UntilMost DEF S, n
  <2>7. clock < seen[n].at + RouteMost[k]
    <3> HIDE DEF k
    <3> QED
      BY <1>1, <2>3, <2>4, <2>6
  <2> QED
    BY <1>2, <2>2, <2>7
<1> QED
  BY <1>4, <1>5, Zenon DEF Offers!Cooling

\* A route that failed and was not answered since is cooling down, and so not kept.
LEMMA CooldownsServed == OffersInv => Offers!CooldownServed
<1> SUFFICES ASSUME OffersInv, NEW i \in DOMAIN seen, NEW f \in MarketFamilies,
                    seen[i].kind \in {"model", "rate", "fault"}, f = seen[i].route[2],
                    clock < seen[i].at + RouteBase[seen[i].kind],
                    \A j \in DOMAIN seen : j > i /\ seen[j].route = seen[i].route => seen[j].kind # "ok",
                    blind[seen[i].route] < i,
                    seen[i].route[1] \in Offers!Kept(f, TRUE)
             PROVE  FALSE
  BY DEF Offers!CooldownServed
<1>1. Unlifted(i)
  BY DEF Unlifted, After
<1>2. Offers!Cooling(seen[i].route)
  BY <1>1, UnliftedCools
<1>3. seen[i].route \in MarketSellers \X MarketFamilies
  BY Observations DEF OffersInv, Offers!Routes
<1>4. seen[i].route = <<seen[i].route[1], f>>
  BY <1>3
<1>5. ~Offers!Cooling(<<seen[i].route[1], f>>)
  BY Zenon DEF Offers!Kept, Offers!Admitted
<1> QED
  BY <1>2, <1>4, <1>5

\* Nothing was observed and no call is under way when the router starts.
LEMMA OffersStart == Offers!Init => OffersInv
<1> SUFFICES ASSUME Offers!Init PROVE OffersInv
  OBVIOUS
<1>1. /\ clock = 0 /\ seen = <<>> /\ flights = [r \in Offers!Routes |-> 0]
      /\ blind = [r \in Offers!Routes |-> 0]
  BY DEF Offers!Init
<1>2. DOMAIN seen = {} /\ seen \in Seq([route : Offers!Routes, kind : Offers!Kinds, at : Nat])
  BY <1>1
<1>3. 0 \in 0 .. SellerCalls
  BY OfferAssumption
<1> QED
  BY <1>1, <1>2, <1>3 DEF OffersInv, OffersTyped, FewLand

\* A call begins: not on a route that failed and is not answered since, unless the
\* rank that chose it read nothing.
LEMMA AttemptStep ==
  ASSUME OffersInv, NEW r \in Offers!Routes, NEW read \in BOOLEAN, Offers!Attempt(r, read)
  PROVE  OffersInv'
<1>1. /\ r[1] \in Offers!Kept(r[2], read) /\ flights[r] < SellerCalls
      /\ flights' = [flights EXCEPT ![r] = @ + 1] /\ clock' = clock /\ seen' = seen
      /\ blind' = IF read THEN blind ELSE [blind EXCEPT ![r] = Len(seen)]
  BY DEF Offers!Attempt
<1>2. OffersTyped /\ FewLand /\ SellerCalls \in Nat /\ flights[r] \in 0 .. SellerCalls
  <2>1. OffersTyped /\ FewLand
    BY Zenon DEF OffersInv
  <2>2. flights \in [Offers!Routes -> 0 .. SellerCalls]
    BY <2>1, Zenon DEF OffersTyped
  <2> QED
    BY <2>1, <2>2, OfferAssumption
<1>3. OffersTyped'
  <2>1. flights[r] + 1 \in 0 .. SellerCalls /\ Len(seen) \in Nat
    BY <1>1, <1>2, Observations
  <2>2. blind' \in [Offers!Routes -> Nat]
    BY <1>1, <1>2, <2>1 DEF OffersTyped
  <2> QED
    BY <1>1, <1>2, <2>1, <2>2 DEF OffersTyped
<1>4. FewLand'
  <2> SUFFICES ASSUME NEW i \in DOMAIN seen, Unlifted(i)'
               PROVE  Cardinality(After(i)) + flights'[seen[i].route] < SellerCalls
    BY <1>1 DEF FewLand, After
  <2>1. seen[i].route \in MarketSellers \X MarketFamilies /\ r \in MarketSellers \X MarketFamilies
    BY <1>2, Observations DEF Offers!Routes
  <2>2. i \in 1 .. Len(seen) /\ Len(seen) \in Nat
    BY <1>2, Observations
  <2>3. blind'[seen[i].route] < i
    BY <1>1 DEF Unlifted
  <2>4. Unlifted(i)
    <3>1. blind[seen[i].route] < i
      <4>1. seen[i].route = r => read
        BY <1>1, <1>2, <2>2, <2>3 DEF OffersTyped
      <4> QED
        BY <1>1, <1>2, <2>3, <4>1 DEF OffersTyped
    <3> QED
      BY <1>1, <3>1 DEF Unlifted, After
  <2>5. seen[i].route # r
    <3> SUFFICES ASSUME seen[i].route = r PROVE FALSE
      OBVIOUS
    <3>1. Offers!Cooling(<<r[1], r[2]>>)
      BY <2>1, <2>4, UnliftedCools
    <3>2. read
      BY <1>1, <1>2, <2>2, <2>3 DEF OffersTyped
    <3>3. ~Offers!Cooling(<<r[1], r[2]>>)
      BY <1>1, <3>2, Zenon DEF Offers!Kept, Offers!Admitted
    <3> QED
      BY <3>1, <3>3
  <2>6. flights'[seen[i].route] = flights[seen[i].route]
    BY <1>1, <1>2, <2>1, <2>5 DEF OffersTyped, Offers!Routes
  <2> QED
    BY <1>2, <2>4, <2>6 DEF FewLand
<1> QED
  BY <1>3, <1>4 DEF OffersInv

\* A call whose observation is lost: one fewer is under way.
LEMMA LoseStep ==
  ASSUME OffersInv, NEW r \in Offers!Routes, Offers!Lose(r)
  PROVE  OffersInv'
<1>1. /\ flights[r] > 0 /\ flights' = [flights EXCEPT ![r] = @ - 1]
      /\ clock' = clock /\ seen' = seen /\ blind' = blind
  BY DEF Offers!Lose
<1>2. OffersTyped /\ FewLand /\ SellerCalls \in Nat /\ flights[r] \in 0 .. SellerCalls
  <2>1. OffersTyped /\ FewLand
    BY Zenon DEF OffersInv
  <2>2. flights \in [Offers!Routes -> 0 .. SellerCalls]
    BY <2>1, Zenon DEF OffersTyped
  <2> QED
    BY <2>1, <2>2, OfferAssumption
<1>3. OffersTyped'
  <2>1. flights[r] - 1 \in 0 .. SellerCalls
    BY <1>1, <1>2
  <2> QED
    BY <1>1, <1>2, <2>1 DEF OffersTyped
<1>4. FewLand'
  <2> SUFFICES ASSUME NEW i \in DOMAIN seen, Unlifted(i)
               PROVE  Cardinality(After(i)) + flights'[seen[i].route] < SellerCalls
    BY <1>1 DEF FewLand, Unlifted, After
  <2>1. /\ seen[i].route \in Offers!Routes /\ Cardinality(After(i)) \in Nat
        /\ Cardinality(After(i)) + flights[seen[i].route] < SellerCalls
    BY <1>2, Observations DEF FewLand
  <2>2. /\ flights[seen[i].route] \in Nat
        /\ flights'[seen[i].route] \in {flights[seen[i].route], flights[seen[i].route] - 1}
    <3> DEFINE q == seen[i].route
    <3>1. q \in Offers!Routes /\ flights \in [Offers!Routes -> 0 .. SellerCalls]
      BY <1>2, <2>1 DEF OffersTyped
    <3> HIDE DEF q
    <3>2. flights[q] \in Nat /\ flights'[q] \in {flights[q], flights[q] - 1}
      BY <1>1, <1>2, <3>1
    <3> QED
      BY <3>2 DEF q
  <2> QED
    BY <1>2, <2>1, <2>2
<1> QED
  BY <1>3, <1>4 DEF OffersInv

\* A call lands: one more landed, one fewer is under way.
LEMMA ObserveStep ==
  ASSUME OffersInv, NEW r \in Offers!Routes, NEW k \in Offers!Kinds, Offers!Observe(r, k)
  PROVE  OffersInv'
<1> DEFINE e == [route |-> r, kind |-> k, at |-> clock]
           n == Len(seen) + 1
           Rows == [route : Offers!Routes, kind : Offers!Kinds, at : Nat]
<1>1. /\ flights[r] > 0 /\ flights' = [flights EXCEPT ![r] = @ - 1]
      /\ seen' = Append(seen, e) /\ clock' = clock /\ blind' = blind
  BY DEF Offers!Observe
<1>2. /\ OffersTyped /\ FewLand /\ SellerCalls \in Nat /\ flights[r] \in 0 .. SellerCalls
      /\ clock \in Nat /\ \A i \in DOMAIN seen : seen[i].at <= clock
      /\ \A i, j \in DOMAIN seen : i < j => seen[i].at <= seen[j].at
  <2>1. OffersTyped /\ FewLand
    BY DEF OffersInv
  <2>2. SellerCalls \in Nat
    BY OfferAssumption
  <2>3. flights[r] \in 0 .. SellerCalls
    BY <2>1, Zenon DEF OffersTyped
  <2> QED
    BY <2>1, <2>2, <2>3, Zenon DEF OffersTyped
<1>3. Len(seen) \in Nat /\ DOMAIN seen = 1 .. Len(seen) /\ seen \in Seq(Rows) /\ e \in Rows
  BY <1>2, Observations DEF OffersTyped
<1>4. /\ DOMAIN seen' = DOMAIN seen \cup {n} /\ n \notin DOMAIN seen /\ seen'[n] = e
      /\ \A i \in DOMAIN seen : seen'[i] = seen[i] /\ i < n
      /\ seen' \in Seq(Rows)
  <2> HIDE DEF e, Rows
  <2>1. /\ seen' \in Seq(Rows) /\ Len(seen') = n /\ seen'[n] = e
        /\ \A i \in 1 .. Len(seen) : seen'[i] = seen[i]
    BY <1>1, <1>3, AppendProperties
  <2>2. DOMAIN seen' = 1 .. n
    BY <2>1, LenProperties
  <2> QED
    BY <1>3, <2>1, <2>2
<1>5. OffersTyped'
  <2>1. flights' \in [Offers!Routes -> 0 .. SellerCalls]
    <3>1. flights[r] - 1 \in 0 .. SellerCalls
      BY <1>1, <1>2
    <3> QED
      BY <1>1, <1>2, <3>1 DEF OffersTyped
  <2>2. \A i \in DOMAIN seen' : seen'[i].at <= clock
    BY <1>2, <1>4
  <2>3. \A i, j \in DOMAIN seen' : i < j => seen'[i].at <= seen'[j].at
    <3> SUFFICES ASSUME NEW i \in DOMAIN seen', NEW j \in DOMAIN seen', i < j
                 PROVE  seen'[i].at <= seen'[j].at
      OBVIOUS
    <3>1. i \in DOMAIN seen
      BY <1>3, <1>4
    <3>2. CASE j = n
      BY <1>2, <1>4, <3>1, <3>2
    <3>3. CASE j # n
      BY <1>2, <1>4, <3>1, <3>3
    <3> QED
      BY <3>2, <3>3
  <2> QED
    BY <1>1, <1>2, <1>4, <2>1, <2>2, <2>3 DEF OffersTyped
<1>6. \A i \in DOMAIN seen :
         After(i)' = IF seen[i].route = r THEN After(i) \cup {n} ELSE After(i)
  BY <1>4 DEF After
<1>7. ASSUME NEW i \in DOMAIN seen, Unlifted(i)' PROVE Unlifted(i)
  <2>1. /\ seen'[i].kind \in {"model", "rate", "fault"}
        /\ clock' < seen'[i].at + RouteBase[seen'[i].kind]
        /\ \A j \in After(i)' : seen'[j].kind # "ok"
        /\ blind'[seen'[i].route] < i
    BY <1>7, Zenon DEF Unlifted
  <2>2. \A j \in After(i) : j \in After(i)' /\ j \in DOMAIN seen /\ seen'[j] = seen[j]
    BY <1>4, <1>6 DEF After
  <2>3. \A j \in After(i) : seen[j].kind # "ok"
    BY <2>1, <2>2
  <2> QED
    BY <1>1, <1>4, <2>1, <2>3 DEF Unlifted
<1>8. FewLand'
  <2> SUFFICES ASSUME NEW i \in DOMAIN seen', Unlifted(i)'
               PROVE  Cardinality(After(i)') + flights'[seen'[i].route] < SellerCalls
    BY DEF FewLand
  <2>1. CASE i = n
    <3>1. After(i)' = {}
      BY <1>3, <1>4, <2>1 DEF After
    <3>2. seen'[i].route = r /\ flights'[r] = flights[r] - 1
      BY <1>1, <1>2, <1>4, <2>1 DEF OffersTyped
    <3>3. Cardinality(After(i)') = 0
      BY <3>1, FS_EmptySet
    <3> QED
      BY <1>2, <3>2, <3>3
  <2>2. CASE i # n
    <3>1. i \in DOMAIN seen /\ seen'[i] = seen[i] /\ Unlifted(i)
      BY <1>4, <1>7, <2>2
    <3>2. Cardinality(After(i)) + flights[seen[i].route] < SellerCalls
      BY <1>2, <3>1 DEF FewLand
    <3>3. IsFiniteSet(After(i)) /\ Cardinality(After(i)) \in Nat /\ seen[i].route \in Offers!Routes
      BY <1>2, <3>1, Observations
    <3>4. CASE seen[i].route = r
      <4>1. n \notin After(i)
        BY <1>4 DEF After
      <4>2. Cardinality(After(i)') = Cardinality(After(i)) + 1
        BY <1>6, <3>1, <3>3, <3>4, <4>1, FS_AddElement
      <4>3. flights'[r] = flights[r] - 1
        BY <1>1, <1>2 DEF OffersTyped
      <4> QED
        BY <1>2, <3>1, <3>2, <3>3, <3>4, <4>2, <4>3
    <3>5. CASE seen[i].route # r
      <4>1. After(i)' = After(i)
        BY <1>6, <3>1, <3>5
      <4>2. flights'[seen[i].route] = flights[seen[i].route]
        BY <1>1, <1>2, <3>3, <3>5 DEF OffersTyped
      <4> QED
        BY <3>1, <3>2, <4>1, <4>2
    <3> QED
      BY <3>4, <3>5
  <2> QED
    BY <2>1, <2>2
<1> QED
  BY <1>5, <1>8 DEF OffersInv

\* Time only ends cooldowns.
LEMMA OffersTick == OffersInv /\ Offers!Tick => OffersInv'
<1> SUFFICES ASSUME OffersInv, Offers!Tick PROVE OffersInv'
  OBVIOUS
<1>1. clock' = clock + 1 /\ seen' = seen /\ flights' = flights /\ blind' = blind
  BY DEF Offers!Tick
<1>2. OffersTyped /\ FewLand
  BY DEF OffersInv
<1>3. OffersTyped'
  <2>1. \A i \in DOMAIN seen : seen[i].at \in Nat /\ seen[i].at <= clock /\ clock \in Nat
    BY <1>2, Observations DEF OffersTyped
  <2>2. /\ clock' \in Nat /\ \A i \in DOMAIN seen' : seen'[i].at <= clock'
    BY <1>1, <2>1, <1>2 DEF OffersTyped
  <2> QED
    BY <1>1, <1>2, <2>2, Zenon DEF OffersTyped
<1>4. ASSUME NEW i \in DOMAIN seen, Unlifted(i)' PROVE Unlifted(i)
  <2>1. /\ seen[i].kind \in {"model", "rate", "fault"}
        /\ clock + 1 < seen[i].at + RouteBase[seen[i].kind]
        /\ \A j \in After(i) : seen[j].kind # "ok"
        /\ blind[seen[i].route] < i
    BY <1>1, <1>4 DEF Unlifted, After
  <2>2. clock \in Nat /\ seen[i].at \in Nat /\ RouteBase[seen[i].kind] \in Nat
    <3>1. clock \in Nat /\ seen[i].at \in Nat
      BY <1>2, Observations DEF OffersTyped
    <3>2. \A k \in {"model", "rate", "fault"} : RouteBase[k] \in Nat
      BY OfferAssumption
    <3> QED
      BY <2>1, <3>1, <3>2
  <2>3. clock < seen[i].at + RouteBase[seen[i].kind]
    BY <2>1, <2>2
  <2> QED
    BY <2>1, <2>3 DEF Unlifted
<1>5. FewLand'
  BY <1>1, <1>2, <1>4 DEF FewLand, After
<1> QED
  BY <1>3, <1>5 DEF OffersInv

\* Every step keeps the invariant.
LEMMA OffersStep == OffersInv /\ [Offers!Next]_(Offers!vars) => OffersInv'
<1> SUFFICES ASSUME OffersInv, [Offers!Next]_(Offers!vars) PROVE OffersInv'
  OBVIOUS
<1>1. CASE \E r \in Offers!Routes : \E read \in BOOLEAN : Offers!Attempt(r, read)
  BY <1>1, AttemptStep
<1>2. CASE \E r \in Offers!Routes : \E k \in Offers!Kinds : Offers!Observe(r, k)
  BY <1>2, ObserveStep
<1>3. CASE Offers!Tick
  BY <1>3, OffersTick
<1>4. CASE \E r \in Offers!Routes : Offers!Lose(r)
  BY <1>4, LoseStep
<1>5. CASE UNCHANGED Offers!vars
  BY <1>5 DEF Offers!vars, OffersInv, OffersTyped, FewLand, Unlifted, After
<1> QED
  BY <1>1, <1>2, <1>3, <1>4, <1>5, Zenon DEF Offers!Next

\* A seller that failed is offered again only after its cooldown or an answer it
\* gave, or by a rank that could not read the failure, however many calls to it were still under way and whatever else they came
\* to, and none is shut out for longer than its worst failure of late allows
\* (host_store.py, marketplace_route_health; sources/antseed.py, offers_sync).
THEOREM OffersServed == Offers!Spec => []OffersHold
<1>1. OffersInv => OffersHold
  BY CooldownsServed, ExileEnds DEF OffersHold
<1> QED
  BY <1>1, OffersStart, OffersStep, PTL DEF Offers!Spec

(***************************************************************************)
(* Sequences: induction, maps and flattened sequences                       *)
(***************************************************************************)
\* A set that holds the empty sequence and every extension of its members holds
\* every sequence.
LEMMA Sequences == 
  ASSUME NEW S, NEW P, <<>> \in P,
         \A s \in Seq(S) : s \in P => \A x \in S : Append(s, x) \in P
  PROVE  Seq(S) \subseteq P
<1> DEFINE N == {Len(s) : s \in Seq(S) \ P}
<1> SUFFICES ASSUME Seq(S) \ P # {} PROVE FALSE
  OBVIOUS
<1>1. N \subseteq Nat /\ N # {}
  <2>1. \A s \in Seq(S) : Len(s) \in Nat
    OBVIOUS
  <2> QED
    BY <2>1
<1>2. PICK n \in N : \A m \in N : n <= m
  BY <1>1, LeastNumber
<1>3. PICK s \in Seq(S) \ P : n = Len(s)
  OBVIOUS
<1>4. s # <<>> /\ Len(s) \in Nat \ {0}
  BY <1>3
<1> DEFINE t == SubSeq(s, 1, Len(s) - 1)
           x == s[Len(s)]
<1>5. t \in Seq(S) /\ x \in S /\ Len(t) = n - 1 /\ s = Append(t, x)
  BY <1>3, <1>4
<1> HIDE DEF t, x
<1>6. t \in P
  <2> SUFFICES ASSUME t \notin P PROVE FALSE
    OBVIOUS
  <2>1. Len(t) \in N
    BY <1>5
  <2> QED
    BY <1>1, <1>2, <1>5, <2>1
<1> QED
  BY <1>3, <1>5, <1>6

\* The sequence of the images under a function.
Image(k, s) == [i \in DOMAIN s |-> k[s[i]]]

\* An image is as long as the sequence and has the mapped element at every place.
LEMMA ImageAt ==
  ASSUME NEW S, NEW s \in Seq(S), NEW k
  PROVE  Len(Image(k, s)) = Len(s) /\ \A i \in 1 .. Len(s) : Image(k, s)[i] = k[s[i]]
<1>1. DOMAIN s = 1 .. Len(s) /\ Len(s) \in Nat
  OBVIOUS
<1> QED
  BY <1>1 DEF Image

\* The image of a sequence over S is a sequence over where k maps S.
LEMMA ImageType ==
  ASSUME NEW S, NEW T, NEW k, \A x \in S : k[x] \in T, NEW s \in Seq(S)
  PROVE  Image(k, s) \in Seq(T)
<1>1. DOMAIN s = 1 .. Len(s) /\ Len(s) \in Nat /\ \A i \in 1 .. Len(s) : k[s[i]] \in T
  OBVIOUS
<1> QED
  BY <1>1 DEF Image

\* Nothing has an empty image.
LEMMA ImageEmpty == \A k : Image(k, <<>>) = <<>>
  BY DEF Image

\* The image of two sequences joined is their images joined.
LEMMA ImageConcat ==
  ASSUME NEW S, NEW k, NEW s \in Seq(S), NEW t \in Seq(S)
  PROVE  Image(k, s \o t) = Image(k, s) \o Image(k, t)
<1> DEFINE T == {k[x] : x \in S}
<1>0. \A x \in S : k[x] \in T
  OBVIOUS
<1> HIDE DEF T
<1>1. s \o t \in Seq(S)
  OBVIOUS
<1>2. /\ Image(k, s) \in Seq(T) /\ Len(Image(k, s)) = Len(s)
      /\ \A i \in 1 .. Len(s) : Image(k, s)[i] = k[s[i]]
  BY <1>0, ImageType, ImageAt
<1>3. /\ Image(k, t) \in Seq(T) /\ Len(Image(k, t)) = Len(t)
      /\ \A i \in 1 .. Len(t) : Image(k, t)[i] = k[t[i]]
  BY <1>0, ImageType, ImageAt
<1>4. /\ Image(k, s \o t) \in Seq(T) /\ Len(Image(k, s \o t)) = Len(s \o t)
      /\ \A i \in 1 .. Len(s \o t) : Image(k, s \o t)[i] = k[(s \o t)[i]]
  BY <1>0, <1>1, ImageType, ImageAt
<1>5. Len(s \o t) = Len(s) + Len(t) /\ Len(s) \in Nat /\ Len(t) \in Nat
  OBVIOUS
<1>6. \A i \in 1 .. Len(s) + Len(t) : (s \o t)[i] = IF i <= Len(s) THEN s[i] ELSE t[i - Len(s)]
  OBVIOUS
<1> DEFINE a == Image(k, s)  b == Image(k, t)  c == Image(k, s \o t)
<1>7. /\ a \in Seq(T) /\ b \in Seq(T) /\ c \in Seq(T)
      /\ Len(c) = Len(a) + Len(b) /\ Len(a) \in Nat /\ Len(b) \in Nat
      /\ \A i \in 1 .. Len(c) : c[i] = IF i <= Len(a) THEN a[i] ELSE b[i - Len(a)]
  <2>1. /\ a \in Seq(T) /\ b \in Seq(T) /\ c \in Seq(T)
        /\ Len(c) = Len(a) + Len(b) /\ Len(a) = Len(s) /\ Len(b) = Len(t)
    BY <1>2, <1>3, <1>4, <1>5, Zenon
  <2>2. ASSUME NEW i \in 1 .. Len(c) PROVE c[i] = IF i <= Len(a) THEN a[i] ELSE b[i - Len(a)]
    <3>1. c[i] = k[(s \o t)[i]] /\ i \in 1 .. Len(s) + Len(t)
      BY <1>4, <1>5, <2>1
    <3>2. CASE i <= Len(s)
      <4>1. i \in 1 .. Len(s)
        BY <1>5, <3>1, <3>2
      <4> QED
        BY <1>2, <1>6, <2>1, <3>1, <3>2, <4>1, Zenon
    <3>3. CASE ~(i <= Len(s))
      <4>1. i - Len(s) \in 1 .. Len(t)
        BY <1>5, <3>1, <3>3
      <4> QED
        BY <1>3, <1>6, <2>1, <3>1, <3>3, <4>1, Zenon
    <3> QED
      BY <3>2, <3>3
  <2> QED
    BY <1>5, <2>1, <2>2
<1> HIDE DEF a, b, c
<1>8. c = a \o b
  <2>1. /\ a \o b \in Seq(T) /\ Len(a \o b) = Len(a) + Len(b)
        /\ \A i \in 1 .. Len(a) + Len(b) :
              (a \o b)[i] = IF i <= Len(a) THEN a[i] ELSE b[i - Len(a)]
    BY <1>7
  <2> QED
    BY <1>7, <2>1, SeqEqual
<1> QED
  BY <1>8 DEF a, b, c

\* The image of a longer sequence is the image, one element longer.
LEMMA ImageAppend ==
  ASSUME NEW S, NEW k, NEW s \in Seq(S), NEW x \in S
  PROVE  Image(k, Append(s, x)) = Append(Image(k, s), k[x])
<1> DEFINE T == {k[y] : y \in S}
<1>0. \A y \in S : k[y] \in T
  OBVIOUS
<1> HIDE DEF T
<1>1. Append(s, x) = s \o <<x>> /\ <<x>> \in Seq(S)
  OBVIOUS
<1>2. Image(k, <<x>>) = <<k[x]>>
  BY DEF Image
<1>3. Image(k, s) \in Seq(T) /\ k[x] \in T
  BY <1>0, ImageType
<1>4. Append(Image(k, s), k[x]) = Image(k, s) \o <<k[x]>>
  BY <1>3, SMTT(20)
<1>5. Image(k, s \o <<x>>) = Image(k, s) \o Image(k, <<x>>)
  <2>1. PICK y \in Seq(S) : y = <<x>>
    BY <1>1
  <2>2. Image(k, s \o y) = Image(k, s) \o Image(k, y)
    BY ImageConcat
  <2> QED
    BY <2>1, <2>2, Zenon
<1> QED
  BY <1>1, <1>2, <1>4, <1>5

\* The sequences of a sequence, one after the other.
Flat(ss) == Talk!FlattenSeq(ss)

\* What the recursion of FlattenSeq computes: f[i] is the first i in a row.
Flattens(f, ss) ==
    f = [i \in 1 .. Len(ss) |-> IF i = 1 THEN ss[i] ELSE f[i - 1] \o ss[i]]

\* FlattenSeq is the last value of any function that satisfies its recursion.
LEMMA FlattenIs ==
  ASSUME NEW S, NEW ss \in Seq(S), ss # <<>>, NEW f, Flattens(f, ss)
  PROVE  Flat(ss) = f[Len(ss)]
<1> DEFINE R(g) == g = [i \in 1 .. Len(ss) |-> IF i = 1 THEN ss[i] ELSE g[i - 1] \o ss[i]]
           h == CHOOSE g : R(g)
<1>0. Len(ss) \in Nat /\ Len(ss) # 0
  OBVIOUS
<1>1. Flat(ss) = h[Len(ss)]
  BY <1>0 DEF Flat, Talk!FlattenSeq
<1>2. R(f)
  BY DEF Flattens
<1>3. R(h)
  BY <1>2
<1> HIDE DEF h
<1> DEFINE D == {i \in 1 .. Len(ss) : h[i] # f[i]}
<1>4. D = {}
  <2> SUFFICES ASSUME D # {} PROVE FALSE
    OBVIOUS
  <2>1. D \subseteq Nat
    BY <1>0
  <2>2. PICK i \in D : \A j \in D : i <= j
    <3> HIDE DEF D
    <3> QED
      BY <2>1, LeastNumber
  <2>3. i \in 1 .. Len(ss) /\ i \in Int /\ h[i] # f[i]
    OBVIOUS
  <2>4. CASE i = 1
    BY <1>2, <1>3, <2>3, <2>4
  <2>5. CASE i # 1
    <3>1. i - 1 \in 1 .. Len(ss) /\ ~(i <= i - 1)
      BY <1>0, <2>3, <2>5, SMTT(20)
    <3>2. h[i - 1] = f[i - 1]
      BY <2>2, <3>1, SMTT(20)
    <3>3. f[i] = f[i - 1] \o ss[i]
      BY <1>2, <2>3, <2>5
    <3>4. h[i] = h[i - 1] \o ss[i]
      BY <1>3, <2>3, <2>5
    <3> QED
      BY <2>3, <3>2, <3>3, <3>4, ZenonT(40)
  <2> QED
    BY <2>4, <2>5
<1>5. Len(ss) \in 1 .. Len(ss)
  BY <1>0
<1> QED
  BY <1>1, <1>4, <1>5

\* Joining no sequences gives the empty one.
LEMMA FlattenEmpty == Flat(<<>>) = <<>>
  BY DEF Flat, Talk!FlattenSeq

\* Every sequence but the empty one has such a function.
LEMMA FlattenExists ==
  ASSUME NEW S
  PROVE  \A ss \in Seq(S) : ss = <<>> \/ \E f : Flattens(f, ss)
<1> DEFINE P == {ss \in Seq(S) : ss = <<>> \/ \E f : Flattens(f, ss)}
<1>1. <<>> \in P
  OBVIOUS
<1>2. ASSUME NEW ss \in Seq(S), ss \in P, NEW x \in S PROVE Append(ss, x) \in P
  <2> DEFINE tt == Append(ss, x)
             n == Len(ss)
  <2>1. /\ n \in Nat /\ tt \in Seq(S) /\ Len(tt) = n + 1 /\ tt[n + 1] = x
        /\ \A i \in 1 .. n : tt[i] = ss[i]
    OBVIOUS
  <2>2. CASE ss = <<>>
    <3> DEFINE g == [i \in 1 .. 1 |-> x]
    <3>1. Len(tt) = 1 /\ tt[1] = x
      BY <2>1, <2>2
    <3> HIDE DEF tt
    <3>2. Flattens(g, tt)
      BY <3>1 DEF Flattens
    <3> QED
      BY <2>1, <3>2 DEF tt
  <2>3. CASE ss # <<>>
    <3>1. PICK f : Flattens(f, ss)
      BY <1>2, <2>3
    <3>2. n # 0
      BY <2>3
    <3> DEFINE g == [i \in 1 .. n + 1 |-> IF i = n + 1 THEN f[n] \o x ELSE f[i]]
    <3> HIDE DEF tt, n
    <3>3. ASSUME NEW i \in 1 .. n + 1
          PROVE  g[i] = IF i = 1 THEN tt[i] ELSE g[i - 1] \o tt[i]
      <4>1. CASE i = n + 1
        <5>1. i # 1 /\ i - 1 = n /\ n \in 1 .. n + 1 /\ n # n + 1
          BY <2>1, <3>2, <4>1
        <5> QED
          BY <2>1, <4>1, <5>1
      <4>2. CASE i # n + 1
        <5>1. i \in 1 .. n /\ tt[i] = ss[i] /\ g[i] = f[i]
          BY <2>1, <4>2
        <5>2. f[i] = IF i = 1 THEN ss[i] ELSE f[i - 1] \o ss[i]
          BY <3>1, <5>1 DEF Flattens, n
        <5>3. i # 1 => g[i - 1] = f[i - 1]
          BY <2>1, <5>1
        <5> QED
          BY <5>1, <5>2, <5>3
      <4> QED
        BY <4>1, <4>2
    <3>4. Flattens(g, tt)
      BY <2>1, <3>3 DEF Flattens
    <3> QED
      BY <2>1, <3>4 DEF tt
  <2> QED
    BY <2>2, <2>3
<1> HIDE DEF P
<1>3. Seq(S) \subseteq P
  BY <1>1, <1>2, Sequences
<1> QED
  BY <1>3 DEF P

\* One sequence more is put at the end.
LEMMA FlattenAppend ==
  ASSUME NEW T, NEW ss \in Seq(Seq(T)), NEW x \in Seq(T)
  PROVE  Flat(Append(ss, x)) = Flat(ss) \o x
<1> DEFINE tt == Append(ss, x)
           n == Len(ss)
<1>1. /\ n \in Nat /\ tt \in Seq(Seq(T)) /\ Len(tt) = n + 1 /\ tt[n + 1] = x /\ tt # <<>>
      /\ \A i \in 1 .. n : tt[i] = ss[i]
  OBVIOUS
<1>2. PICK g : Flattens(g, tt)
  BY <1>1, FlattenExists
<1> HIDE DEF tt, n
<1>3. Flat(tt) = g[n + 1]
  BY <1>1, <1>2, FlattenIs
<1>4. \A i \in 1 .. n + 1 : g[i] = IF i = 1 THEN tt[i] ELSE g[i - 1] \o tt[i]
  BY <1>1, <1>2 DEF Flattens
<1>5. CASE ss = <<>>
  <2>1. n = 0
    BY <1>5 DEF n
  <2>2. g[1] = x
    BY <1>1, <1>4, <2>1
  <2>3. Flat(ss) \o x = x
    BY <1>5, FlattenEmpty
  <2> QED
    BY <1>3, <2>1, <2>2, <2>3 DEF tt
<1>6. CASE ss # <<>>
  <2>1. n # 0
    BY <1>6 DEF n
  <2> DEFINE f == [i \in 1 .. n |-> g[i]]
  <2>2. ASSUME NEW i \in 1 .. n
        PROVE  f[i] = IF i = 1 THEN ss[i] ELSE f[i - 1] \o ss[i]
    <3>1. i \in 1 .. n + 1 /\ tt[i] = ss[i] /\ (i # 1 => i - 1 \in 1 .. n)
      BY <1>1
    <3> QED
      BY <1>4, <3>1
  <2>3. Flattens(f, ss)
    BY <2>2 DEF Flattens, n
  <2>4. Flat(ss) = f[n]
    BY <1>6, <2>3, FlattenIs DEF n
  <2>5. n \in 1 .. n /\ n + 1 \in 1 .. n + 1 /\ n + 1 # 1 /\ (n + 1) - 1 = n
    BY <1>1, <2>1
  <2>6. g[n + 1] = g[n] \o x
    BY <1>1, <1>4, <2>5
  <2> QED
    BY <1>3, <2>4, <2>5, <2>6 DEF tt
<1> QED
  BY <1>5, <1>6

\* Sequences over T join to a sequence over T.
LEMMA FlattenType ==
  ASSUME NEW T
  PROVE  \A ss \in Seq(Seq(T)) : Flat(ss) \in Seq(T)
<1> DEFINE P == {ss \in Seq(Seq(T)) : Flat(ss) \in Seq(T)}
<1>1. <<>> \in P
  <2>1. <<>> \in Seq(Seq(T)) /\ <<>> \in Seq(T)
    OBVIOUS
  <2> QED
    BY <2>1, FlattenEmpty, Zenon
<1>2. ASSUME NEW ss \in Seq(Seq(T)), ss \in P, NEW x \in Seq(T) PROVE Append(ss, x) \in P
  <2>1. Flat(Append(ss, x)) = Flat(ss) \o x
    BY FlattenAppend
  <2>2. Append(ss, x) \in Seq(Seq(T)) /\ Flat(ss) \o x \in Seq(T)
    BY <1>2
  <2> QED
    BY <2>1, <2>2
<1> HIDE DEF P
<1>3. Seq(Seq(T)) \subseteq P
  BY <1>1, <1>2, Sequences
<1> QED
  BY <1>3 DEF P

\* One sequence joined is itself.
LEMMA FlattenOne ==
  ASSUME NEW T, NEW x \in Seq(T)
  PROVE  Flat(<<x>>) = x
<1>1. <<x>> = Append(<<>>, x) /\ <<>> \in Seq(Seq(T))
  OBVIOUS
<1>2. Flat(Append(<<>>, x)) = Flat(<<>>) \o x
  BY <1>1, FlattenAppend
<1> QED
  BY <1>1, <1>2, FlattenEmpty

\* Flattening a concatenation.
LEMMA FlattenConcat ==
  ASSUME NEW T, NEW ss \in Seq(Seq(T))
  PROVE  \A tt \in Seq(Seq(T)) : Flat(ss \o tt) = Flat(ss) \o Flat(tt)
<1> DEFINE P == {tt \in Seq(Seq(T)) : Flat(ss \o tt) = Flat(ss) \o Flat(tt)}
<1>0. Flat(ss) \in Seq(T)
  BY FlattenType
<1>1. <<>> \in P
  <2>1. ss \o <<>> = ss /\ Flat(ss) \o <<>> = Flat(ss)
    BY <1>0
  <2>2. <<>> \in Seq(Seq(T))
    OBVIOUS
  <2> QED
    BY <2>1, <2>2, FlattenEmpty, Zenon
<1>2. ASSUME NEW tt \in Seq(Seq(T)), tt \in P, NEW x \in Seq(T) PROVE Append(tt, x) \in P
  <2>1. Flat(Append(tt, x)) = Flat(tt) \o x /\ Flat(tt) \in Seq(T)
    BY FlattenAppend, FlattenType
  <2>2. /\ Append(tt, x) \in Seq(Seq(T)) /\ ss \o tt \in Seq(Seq(T))
        /\ ss \o Append(tt, x) = Append(ss \o tt, x)
    OBVIOUS
  <2>3. Flat(Append(ss \o tt, x)) = Flat(ss \o tt) \o x
    BY <2>2, FlattenAppend
  <2>4. (Flat(ss) \o Flat(tt)) \o x = Flat(ss) \o (Flat(tt) \o x)
    BY <1>0, <2>1, ConcatAssociative, SMTT(20)
  <2> QED
    BY <1>2, <2>1, <2>2, <2>3, <2>4
<1> HIDE DEF P
<1>3. Seq(Seq(T)) \subseteq P
  BY <1>1, <1>2, Sequences
<1> QED
  BY <1>3 DEF P

\* Two ways to the same images.
LEMMA ImagesSame ==
  ASSUME NEW S, NEW s \in Seq(S), NEW f, NEW g, NEW d, NEW e,
         \A x \in S : g[f[x]] = e[d[x]]
  PROVE  Image(g, Image(f, s)) = Image(e, Image(d, s))
<1>1. DOMAIN s = 1 .. Len(s) /\ \A i \in 1 .. Len(s) : s[i] \in S
  OBVIOUS
<1>2. \A i \in DOMAIN s : g[f[s[i]]] = e[d[s[i]]]
  BY <1>1
<1> QED
  BY <1>2 DEF Image

\* What a sequence is of.
Members(s) == {s[i] : i \in 1 .. Len(s)}

\* What is in a sequence over S is in S.
LEMMA MembersType ==
  ASSUME NEW S, NEW s \in Seq(S)
  PROVE  Members(s) \subseteq S
  BY DEF Members

\* Appending adds exactly the element appended.
LEMMA MembersAppend ==
  ASSUME NEW S, NEW s \in Seq(S), NEW x \in S
  PROVE  Members(Append(s, x)) = Members(s) \cup {x}
<1> DEFINE t == Append(s, x)
           n == Len(s)
<1>1. n \in Nat /\ Len(t) = n + 1 /\ t[n + 1] = x /\ \A i \in 1 .. n : t[i] = s[i]
  OBVIOUS
<1> HIDE DEF t, n
<1>2. 1 .. n + 1 = (1 .. n) \cup {n + 1}
  BY <1>1
<1>3. {t[i] : i \in 1 .. n} = {s[i] : i \in 1 .. n}
  BY <1>1, Zenon
<1>4. {t[i] : i \in (1 .. n) \cup {n + 1}} = {t[i] : i \in 1 .. n} \cup {t[n + 1]}
  OBVIOUS
<1>5. {t[i] : i \in 1 .. n + 1} = {s[i] : i \in 1 .. n} \cup {x}
  BY <1>1, <1>2, <1>3, <1>4, Zenon
<1> QED
  BY <1>1, <1>5 DEF Members, t, n

\* Two sequences joined hold what either holds.
LEMMA MembersConcat ==
  ASSUME NEW S, NEW s \in Seq(S)
  PROVE  \A t \in Seq(S) : Members(s \o t) = Members(s) \cup Members(t)
<1> DEFINE P == {t \in Seq(S) : Members(s \o t) = Members(s) \cup Members(t)}
<1>1. <<>> \in P
  <2>1. s \o <<>> = s /\ <<>> \in Seq(S) /\ Members(<<>>) = {}
    BY DEF Members
  <2>2. Members(s) \cup {} = Members(s)
    OBVIOUS
  <2> QED
    BY <2>1, <2>2, Zenon
<1>2. ASSUME NEW t \in Seq(S), t \in P, NEW x \in S PROVE Append(t, x) \in P
  <2>1. /\ Append(t, x) \in Seq(S) /\ s \o t \in Seq(S)
        /\ s \o Append(t, x) = Append(s \o t, x)
    OBVIOUS
  <2>2. Members(Append(s \o t, x)) = Members(s \o t) \cup {x}
    <3>1. PICK u \in Seq(S) : u = s \o t
      BY <2>1
    <3>2. Members(Append(u, x)) = Members(u) \cup {x}
      BY MembersAppend
    <3> QED
      BY <3>1, <3>2, Zenon
  <2>3. Members(Append(t, x)) = Members(t) \cup {x}
    BY MembersAppend
  <2> QED
    BY <1>2, <2>1, <2>2, <2>3
<1> HIDE DEF P
<1>3. Seq(S) \subseteq P
  BY <1>1, <1>2, Sequences
<1> QED
  BY <1>3 DEF P

\* Flattened sequences have the members of the sequences.
LEMMA FlattenMembers ==
  ASSUME NEW T
  PROVE  \A ss \in Seq(Seq(T)) : Members(Flat(ss)) = UNION {Members(s) : s \in Members(ss)}
<1> DEFINE M(ss) == UNION {Members(s) : s \in Members(ss)}
           P == {ss \in Seq(Seq(T)) : Members(Flat(ss)) = M(ss)}
<1>1. <<>> \in P
  <2>1. <<>> \in Seq(Seq(T)) /\ Members(<<>>) = {}
    BY DEF Members
  <2> QED
    BY <2>1, FlattenEmpty
<1>2. ASSUME NEW ss \in Seq(Seq(T)), ss \in P, NEW x \in Seq(T) PROVE Append(ss, x) \in P
  <2>1. Flat(Append(ss, x)) = Flat(ss) \o x /\ Flat(ss) \in Seq(T)
    BY FlattenAppend, FlattenType
  <2>2. Members(Flat(ss) \o x) = Members(Flat(ss)) \cup Members(x)
    BY <2>1, MembersConcat
  <2>3. Members(Append(ss, x)) = Members(ss) \cup {x}
    BY MembersAppend
  <2>4. M(Append(ss, x)) = M(ss) \cup Members(x)
    BY <2>3
  <2>5. Append(ss, x) \in Seq(Seq(T))
    OBVIOUS
  <2> QED
    BY <1>2, <2>1, <2>2, <2>4, <2>5
<1> HIDE DEF P
<1>3. Seq(Seq(T)) \subseteq P
  BY <1>1, <1>2, Sequences
<1> QED
  BY <1>3 DEF P

\* Flattening sequences of one member gives the members.
LEMMA FlattenSingles ==
  ASSUME NEW T, NEW k, k = [x \in T |-> <<x>>]
  PROVE  \A s \in Seq(T) : Flat(Image(k, s)) = s
<1> DEFINE P == {s \in Seq(T) : Flat(Image(k, s)) = s}
<1>0. k \in [T -> Seq(T)]
  OBVIOUS
<1>1. <<>> \in P
  <2>1. <<>> \in Seq(T)
    OBVIOUS
  <2> QED
    BY <2>1, FlattenEmpty, ImageEmpty, Zenon
<1>2. ASSUME NEW s \in Seq(T), s \in P, NEW x \in T PROVE Append(s, x) \in P
  <2>1. k[x] = <<x>> /\ <<x>> \in Seq(T)
    OBVIOUS
  <2>2. Image(k, Append(s, x)) = Append(Image(k, s), k[x])
    BY ImageAppend
  <2>3. Image(k, s) \in Seq(Seq(T))
    BY <1>0, ImageType
  <2>4. Flat(Append(Image(k, s), k[x])) = Flat(Image(k, s)) \o <<x>>
    BY <2>1, <2>3, FlattenAppend
  <2>5. s \o <<x>> = Append(s, x) /\ Append(s, x) \in Seq(T)
    OBVIOUS
  <2> QED
    BY <1>2, <2>2, <2>4, <2>5
<1> HIDE DEF P
<1>3. Seq(T) \subseteq P
  BY <1>1, <1>2, Sequences
<1> QED
  BY <1>3 DEF P

\* The images of flattened sequences are the flattened images.
LEMMA FlattenImage ==
  ASSUME NEW T, NEW k,
         NEW kk, \A s \in Seq(T) : kk[s] = Image(k, s)
  PROVE  \A ss \in Seq(Seq(T)) : Flat(Image(kk, ss)) = Image(k, Flat(ss))
<1> DEFINE U == {k[x] : x \in T}
           P == {ss \in Seq(Seq(T)) : Flat(Image(kk, ss)) = Image(k, Flat(ss))}
<1>a. \A x \in T : k[x] \in U
  OBVIOUS
<1> HIDE DEF U
<1>0. \A s \in Seq(T) : kk[s] \in Seq(U)
  <2>1. \A s \in Seq(T) : Image(k, s) \in Seq(U)
    BY <1>a, ImageType
  <2> QED
    BY <2>1
<1>1. <<>> \in P
  <2>1. <<>> \in Seq(Seq(T))
    OBVIOUS
  <2> QED
    BY <2>1, FlattenEmpty, ImageEmpty, Zenon
<1>2. ASSUME NEW ss \in Seq(Seq(T)), ss \in P, NEW x \in Seq(T) PROVE Append(ss, x) \in P
  <2>1. kk[x] = Image(k, x) /\ kk[x] \in Seq(U)
    BY <1>0
  <2>2. Image(kk, Append(ss, x)) = Append(Image(kk, ss), kk[x])
    BY ImageAppend
  <2>3. Image(kk, ss) \in Seq(Seq(U))
    BY <1>0, ImageType
  <2>4. Flat(Append(Image(kk, ss), kk[x])) = Flat(Image(kk, ss)) \o kk[x]
    BY <2>1, <2>3, FlattenAppend, Zenon
  <2>5. Flat(Append(ss, x)) = Flat(ss) \o x /\ Flat(ss) \in Seq(T)
    BY FlattenAppend, FlattenType, Zenon
  <2>6. Image(k, Flat(ss) \o x) = Image(k, Flat(ss)) \o Image(k, x)
    BY <2>5, ImageConcat
  <2>7. Append(ss, x) \in Seq(Seq(T)) /\ Flat(Image(kk, ss)) = Image(k, Flat(ss))
    BY <1>2
  <2>8. Flat(Image(kk, Append(ss, x))) = Image(k, Flat(Append(ss, x)))
    BY <2>1, <2>2, <2>4, <2>5, <2>6, <2>7, Zenon
  <2> QED
    BY <2>7, <2>8
<1> HIDE DEF P
<1>3. Seq(Seq(T)) \subseteq P
  BY <1>1, <1>2, Sequences
<1> QED
  BY <1>3 DEF P

(***************************************************************************)
(* Items folded into messages                                              *)
(***************************************************************************)
\* What the fold of ToMessages computes of each set of positions.
Folds(g, items) ==
    g = [U \in SUBSET DOMAIN items |->
           IF U = {} THEN <<>>
           ELSE Talk!Merged(g[U \ {Talk!Max(U)}], items[Talk!Max(U)])]

\* Max picks the greatest place of a set of places, by which the fold takes items in order.
LEMMA MaxIs ==
  ASSUME NEW n \in Nat, NEW U, U \subseteq 1 .. n, U # {}
  PROVE  Talk!Max(U) \in U /\ \A y \in U : y <= Talk!Max(U)
<1>1. PICK m \in U : \A y \in U : y <= m
  BY GreatestNumber
<1>2. \A y \in U : m >= y
  BY <1>1
<1>3. Talk!Max(U) \in U /\ \A y \in U : Talk!Max(U) >= y
  BY <1>2 DEF Talk!Max
<1> QED
  BY <1>3

\* ToMessages is the value, at every place, of any function that satisfies the fold's recursion.
LEMMA FoldIs ==
  ASSUME NEW S, NEW items \in Seq(S), NEW g, Folds(g, items)
  PROVE  Talk!ToMessages(items) = g[1 .. Len(items)]
<1> DEFINE D == DOMAIN items
           R(f) == f = [U \in SUBSET D |->
                          IF U = {} THEN <<>>
                          ELSE Talk!Merged(f[U \ {Talk!Max(U)}], items[Talk!Max(U)])]
           h == CHOOSE f : R(f)
<1>0. D = 1 .. Len(items) /\ Len(items) \in Nat
  OBVIOUS
<1>1. Talk!ToMessages(items) = h[D]
  BY DEF Talk!ToMessages, Talk!FoldLeft, Talk!MapThenFoldSet
<1>2. R(g)
  BY DEF Folds
<1>3. R(h)
  BY <1>2
<1> HIDE DEF h
<1> DEFINE F == {U \in SUBSET D : h[U] # g[U]}
<1>4. F = {}
  <2> SUFFICES ASSUME F # {} PROVE FALSE
    OBVIOUS
  <2>1. PICK U \in F : \A x \in U : U \ {x} \notin F
    <3>1. IsFiniteSet(D)
      BY <1>0, FS_Interval
    <3> QED
      BY <3>1, LeastSet
  <2>2. U \in SUBSET D /\ h[U] # g[U]
    OBVIOUS
  <2>3. CASE U = {}
    BY <1>2, <1>3, <2>2, <2>3
  <2>4. CASE U # {}
    <3> DEFINE m == Talk!Max(U)
    <3>1. m \in U
      BY <1>0, <2>2, <2>4, MaxIs
    <3> HIDE DEF m
    <3>2. h[U \ {m}] = g[U \ {m}]
      BY <2>1, <2>2, <3>1
    <3>3. h[U] = Talk!Merged(h[U \ {m}], items[m])
      BY <1>3, <2>2, <2>4 DEF m
    <3>4. g[U] = Talk!Merged(g[U \ {m}], items[m])
      BY <1>2, <2>2, <2>4 DEF m
    <3> QED
      BY <2>2, <3>2, <3>3, <3>4, Zenon
  <2> QED
    BY <2>3, <2>4
<1>5. h[D] = g[D]
  BY <1>4
<1> QED
  BY <1>0, <1>1, <1>5, Zenon

\* How the positions of an item more are folded.
LEMMA FoldExtends ==
  ASSUME NEW S, NEW items \in Seq(S), NEW x \in S, NEW g, Folds(g, items),
         NEW h, h = [U \in SUBSET DOMAIN Append(items, x) |->
                       IF Len(items) + 1 \in U
                       THEN Talk!Merged(g[U \ {Len(items) + 1}], x) ELSE g[U]]
  PROVE  Folds(h, Append(items, x))
<1> DEFINE n == Len(items)
           more == Append(items, x)
           D == DOMAIN more
           M(U) == Talk!Max(U)
<1>1. /\ n \in Nat /\ DOMAIN items = 1 .. n /\ D = 1 .. n + 1 /\ more[n + 1] = x
      /\ \A i \in 1 .. n : more[i] = items[i]
  OBVIOUS
<1>2. h = [U \in SUBSET D |-> IF n + 1 \in U THEN Talk!Merged(g[U \ {n + 1}], x) ELSE g[U]]
  OBVIOUS
<1>3. g = [U \in SUBSET (1 .. n) |-> IF U = {} THEN <<>>
                                     ELSE Talk!Merged(g[U \ {M(U)}], items[M(U)])]
  BY <1>1 DEF Folds
<1> HIDE DEF n, more, D, M
<1>4. ASSUME NEW U \in SUBSET D
      PROVE  h[U] = IF U = {} THEN <<>> ELSE Talk!Merged(h[U \ {M(U)}], more[M(U)])
  <2>1. CASE n + 1 \in U
    <3>1. M(U) = n + 1
      <4>1. n + 1 \in Nat /\ U \subseteq 1 .. n + 1 /\ U # {}
        BY <1>1, <2>1
      <4>2. M(U) \in U /\ \A y \in U : y <= M(U)
        BY <4>1, MaxIs DEF M
      <4>3. n + 1 <= M(U) /\ M(U) \in 1 .. n + 1
        BY <2>1, <4>1, <4>2
      <4> QED
        BY <1>1, <4>3
    <3>2. h[U] = Talk!Merged(g[U \ {n + 1}], x)
      BY <1>2, <2>1
    <3>3. h[U \ {n + 1}] = g[U \ {n + 1}]
      <4>1. U \ {n + 1} \in SUBSET D /\ n + 1 \notin U \ {n + 1}
        OBVIOUS
      <4> QED
        BY <1>2, <4>1
    <3> QED
      BY <1>1, <2>1, <3>1, <3>2, <3>3, Zenon
  <2>2. CASE n + 1 \notin U
    <3>1. U \in SUBSET (1 .. n)
      BY <1>1, <2>2
    <3>2. h[U] = g[U]
      BY <1>2, <2>2
    <3>3. CASE U = {}
      BY <1>3, <3>1, <3>2, <3>3
    <3>4. CASE U # {}
      <4>1. M(U) \in U /\ M(U) \in 1 .. n
        BY <1>1, <3>1, <3>4, MaxIs DEF M
      <4>2. g[U] = Talk!Merged(g[U \ {M(U)}], items[M(U)])
        BY <1>3, <3>1, <3>4
      <4>3. h[U \ {M(U)}] = g[U \ {M(U)}]
        <5>1. U \ {M(U)} \in SUBSET D /\ n + 1 \notin U \ {M(U)}
          BY <2>2
        <5> QED
          BY <1>2, <5>1
      <4>4. more[M(U)] = items[M(U)]
        BY <1>1, <4>1
      <4> QED
        BY <3>2, <3>4, <4>2, <4>3, <4>4, Zenon
    <3> QED
      BY <3>3, <3>4
  <2> QED
    BY <2>1, <2>2
<1>5. h = [U \in SUBSET D |-> IF U = {} THEN <<>>
                              ELSE Talk!Merged(h[U \ {M(U)}], more[M(U)])]
  BY <1>2, <1>4
<1> QED
  BY <1>5 DEF Folds, D, more, M

\* Such a function exists for every sequence of items.
LEMMA FoldExists ==
  ASSUME NEW S
  PROVE  \A items \in Seq(S) : \E g : Folds(g, items)
<1> DEFINE P == {items \in Seq(S) : \E g : Folds(g, items)}
<1>1. <<>> \in P
  <2> DEFINE none == <<>>
             g == [U \in SUBSET DOMAIN none |-> <<>>]
  <2>1. none \in Seq(S) /\ DOMAIN none = {}
    OBVIOUS
  <2> HIDE DEF none
  <2>2. \A U \in SUBSET DOMAIN none : U = {}
    BY <2>1
  <2>3. Folds(g, none)
    BY <2>2 DEF Folds
  <2> QED
    BY <2>1, <2>3 DEF none
<1>2. ASSUME NEW items \in Seq(S), items \in P, NEW x \in S PROVE Append(items, x) \in P
  <2>1. PICK g : Folds(g, items)
    BY <1>2
  <2> DEFINE h == [U \in SUBSET DOMAIN Append(items, x) |->
                     IF Len(items) + 1 \in U
                     THEN Talk!Merged(g[U \ {Len(items) + 1}], x) ELSE g[U]]
  <2>2. Folds(h, Append(items, x))
    BY <2>1, FoldExtends
  <2>3. Append(items, x) \in Seq(S)
    OBVIOUS
  <2> QED
    BY <2>2, <2>3
<1> HIDE DEF P
<1>3. Seq(S) \subseteq P
  BY <1>1, <1>2, Sequences
<1> QED
  BY <1>3 DEF P

\* No items are no messages; an item more is merged with the messages of the others.
LEMMA ToMessagesEmpty == Talk!ToMessages(<<>>) = <<>>
<1>1. <<>> \in Seq({}) /\ DOMAIN <<>> = {} /\ 1 .. Len(<<>>) = {}
  OBVIOUS
<1>2. PICK g : Folds(g, <<>>)
  BY <1>1, FoldExists
<1>3. Talk!ToMessages(<<>>) = g[1 .. Len(<<>>)]
  BY <1>1, <1>2, FoldIs
<1>4. {} \in SUBSET DOMAIN <<>>
  OBVIOUS
<1>5. g[{}] = <<>>
  BY <1>2, <1>4 DEF Folds
<1> QED
  BY <1>1, <1>3, <1>5

\* One item more is one more step of _resp_input_to_messages.
LEMMA ToMessagesAppend ==
  ASSUME NEW S, NEW items \in Seq(S), NEW x \in S
  PROVE  Talk!ToMessages(Append(items, x)) = Talk!Merged(Talk!ToMessages(items), x)
<1> DEFINE n == Len(items)
<1>1. PICK g : Folds(g, items)
  BY FoldExists
<1> DEFINE h == [U \in SUBSET DOMAIN Append(items, x) |->
                   IF n + 1 \in U THEN Talk!Merged(g[U \ {n + 1}], x) ELSE g[U]]
<1>2. Folds(h, Append(items, x))
  BY <1>1, FoldExtends
<1>3. /\ n \in Nat /\ Append(items, x) \in Seq(S) /\ Len(Append(items, x)) = n + 1
      /\ DOMAIN Append(items, x) = 1 .. n + 1
  OBVIOUS
<1>4. h[1 .. n + 1] = Talk!Merged(g[(1 .. n + 1) \ {n + 1}], x)
  <2>1. 1 .. n + 1 \in SUBSET DOMAIN Append(items, x) /\ n + 1 \in 1 .. n + 1
    BY <1>3
  <2> QED
    BY <2>1
<1> HIDE DEF h
<1>5. Talk!ToMessages(Append(items, x)) = h[1 .. n + 1]
  <2>1. PICK t \in Seq(S) : t = Append(items, x)
    BY <1>3
  <2>2. Talk!ToMessages(t) = h[1 .. Len(t)]
    BY <1>2, <2>1, FoldIs
  <2> QED
    BY <1>3, <2>1, <2>2
<1>6. Talk!ToMessages(items) = g[1 .. n]
  BY <1>1, FoldIs
<1>7. (1 .. n + 1) \ {n + 1} = 1 .. n
  BY <1>3
<1> QED
  BY <1>4, <1>5, <1>6, <1>7

(***************************************************************************)
(* What a conversation says (Conversation)                                 *)
(***************************************************************************)
\* Ids are the ones that were given or, at Google, the functions' own names.
TalkKeys == {TalkIds[i] : i \in DOMAIN TalkIds} \cup TalkNames

TalkCalls == [id : TalkKeys, name : TalkNames]

\* Messages: only the assistant calls.
TalkMessages ==
    {m \in [role : {"system", "user", "assistant", "tool"}, text : BOOLEAN,
            calls : Seq(TalkCalls), answers : TalkKeys \cup {Nothing}] :
       m.role # "assistant" => m.calls = <<>>}

TalkItems ==
    {it \in [type : {"message", "function_call", "function_call_output", "reasoning"},
             role : {"system", "user", "assistant", Nothing}, text : BOOLEAN,
             id : TalkKeys \cup {Nothing}, name : TalkNames \cup {Nothing}] :
       /\ it.type = "function_call" => it.id \in TalkKeys /\ it.name \in TalkNames
       /\ it.type = "message" => it.role \in {"system", "user", "assistant"}}

Utterances == [kind : {"text", "call", "result"}, id : TalkKeys \cup {Nothing},
               name : TalkNames \cup {Nothing, "tool"}]

\* What a message says and what an item says: nobody hears the system's words here,
\* and a result does not tell which function was called.
ofMessage ==
    [m \in TalkMessages |->
       IF m.role = "system" THEN <<>>
       ELSE IF m.role = "tool" THEN <<Talk!ResultOf(m)>>
       ELSE Talk!TextOf(m) \o Talk!CallsOf(m)]

ofItem ==
    [it \in TalkItems |->
       IF it.type = "function_call" THEN <<Talk!Part("call", it.id, it.name)>>
       ELSE IF it.type = "function_call_output" THEN <<Talk!Part("result", it.id, Nothing)>>
       ELSE IF it.type = "message" /\ it.role # "system" /\ it.text THEN <<Talk!Spoke>>
       ELSE <<>>]

MessagesSay(ms) == Flat(Image(ofMessage, ms))
ItemsSay(items) == Flat(Image(ofItem, items))

\* Texts, calls and results are utterances.
LEMMA UttersText ==
  ASSUME NEW m \in TalkMessages
  PROVE  /\ Talk!Spoke \in Utterances /\ Talk!TextOf(m) \in Seq(Utterances)
         /\ Talk!ResultOf(m) \in Utterances /\ <<Talk!ResultOf(m)>> \in Seq(Utterances)
<1>1. Talk!Spoke \in Utterances
  BY DEF Talk!Spoke, Talk!Part, Utterances
<1>2. Talk!ResultOf(m) \in Utterances
  BY DEF Talk!ResultOf, Talk!Part, Utterances, TalkMessages
<1> QED
  BY <1>1, <1>2 DEF Talk!TextOf

\* The calls of a message are told one by one, in order, with their id and name.
LEMMA UttersCalls ==
  ASSUME NEW m, m.calls \in Seq(TalkCalls)
  PROVE  /\ Talk!CallsOf(m) \in Seq(Utterances) /\ Len(Talk!CallsOf(m)) = Len(m.calls)
         /\ \A i \in 1 .. Len(m.calls) :
              Talk!CallsOf(m)[i] = Talk!Part("call", m.calls[i].id, m.calls[i].name)
<1>1. DOMAIN m.calls = 1 .. Len(m.calls) /\ Len(m.calls) \in Nat
  OBVIOUS
<1>2. \A c \in TalkCalls : Talk!Part("call", c.id, c.name) \in Utterances
  BY DEF TalkCalls, Talk!Part, Utterances
<1>3. \A i \in 1 .. Len(m.calls) : m.calls[i] \in TalkCalls
  OBVIOUS
<1>4. \A i \in 1 .. Len(m.calls) :
        Talk!Part("call", m.calls[i].id, m.calls[i].name) \in Utterances
  BY <1>2, <1>3
<1> HIDE DEF Talk!Part
<1> QED
  BY <1>1, <1>4 DEF Talk!CallsOf

\* A message or an item says a sequence of utterances.
LEMMA SayTypes ==
  /\ \A m \in TalkMessages : ofMessage[m] \in Seq(Utterances)
  /\ \A it \in TalkItems : ofItem[it] \in Seq(Utterances)
<1>1. ASSUME NEW m \in TalkMessages PROVE ofMessage[m] \in Seq(Utterances)
  <2>1. m.calls \in Seq(TalkCalls)
    BY DEF TalkMessages
  <2>2. Talk!TextOf(m) \in Seq(Utterances) /\ Talk!CallsOf(m) \in Seq(Utterances)
    BY <2>1, UttersText, UttersCalls
  <2>3. Talk!TextOf(m) \o Talk!CallsOf(m) \in Seq(Utterances) /\ <<>> \in Seq(Utterances)
    BY <2>2
  <2> QED
    BY <2>3, UttersText, Zenon DEF ofMessage
<1>2. ASSUME NEW it \in TalkItems PROVE ofItem[it] \in Seq(Utterances)
  <2>1. it.type = "function_call" => Talk!Part("call", it.id, it.name) \in Utterances
    BY DEF TalkItems, Talk!Part, Utterances
  <2>2. Talk!Part("result", it.id, Nothing) \in Utterances /\ Talk!Spoke \in Utterances
    BY DEF TalkItems, Talk!Part, Talk!Spoke, Utterances
  <2>3. \A x \in Utterances : <<x>> \in Seq(Utterances)
    OBVIOUS
  <2>4. <<>> \in Seq(Utterances)
    OBVIOUS
  <2> QED
    BY <2>1, <2>2, <2>3, <2>4, Zenon DEF ofItem
<1> QED
  BY <1>1, <1>2

\* And so do messages together.
LEMMA MessagesSayTypes ==
  ASSUME NEW ms \in Seq(TalkMessages)
  PROVE  Image(ofMessage, ms) \in Seq(Seq(Utterances)) /\ MessagesSay(ms) \in Seq(Utterances)
<1>1. Image(ofMessage, ms) \in Seq(Seq(Utterances))
  BY SayTypes, ImageType
<1> QED
  BY <1>1, FlattenType, Zenon DEF MessagesSay

\* One message more says what was said, then what it says.
LEMMA MessageMore ==
  ASSUME NEW ms \in Seq(TalkMessages), NEW m \in TalkMessages
  PROVE  MessagesSay(Append(ms, m)) = MessagesSay(ms) \o ofMessage[m]
<1>1. Image(ofMessage, Append(ms, m)) = Append(Image(ofMessage, ms), ofMessage[m])
  BY ImageAppend
<1>2. Image(ofMessage, ms) \in Seq(Seq(Utterances)) /\ ofMessage[m] \in Seq(Utterances)
  BY SayTypes, MessagesSayTypes
<1>3. PICK ss \in Seq(Seq(Utterances)) : ss = Image(ofMessage, ms)
  BY <1>2
<1>4. PICK x \in Seq(Utterances) : x = ofMessage[m]
  BY <1>2
<1>5. Flat(Append(ss, x)) = Flat(ss) \o x
  BY FlattenAppend
<1> QED
  BY <1>1, <1>3, <1>4, <1>5, Zenon DEF MessagesSay

\* One item more says what was said, then what it says.
LEMMA ItemMore ==
  ASSUME NEW items \in Seq(TalkItems), NEW it \in TalkItems
  PROVE  ItemsSay(Append(items, it)) = ItemsSay(items) \o ofItem[it]
<1>1. Image(ofItem, Append(items, it)) = Append(Image(ofItem, items), ofItem[it])
  BY ImageAppend
<1>2. Image(ofItem, items) \in Seq(Seq(Utterances)) /\ ofItem[it] \in Seq(Utterances)
  BY SayTypes, ImageType
<1>3. PICK ss \in Seq(Seq(Utterances)) : ss = Image(ofItem, items)
  BY <1>2
<1>4. PICK x \in Seq(Utterances) : x = ofItem[it]
  BY <1>2
<1>5. Flat(Append(ss, x)) = Flat(ss) \o x
  BY FlattenAppend
<1> QED
  BY <1>1, <1>3, <1>4, <1>5, Zenon DEF ItemsSay

\* A call that joins the assistant's last message is said after it.
LEMMA CallJoins ==
  ASSUME NEW m \in TalkMessages, m.role = "assistant", NEW c \in TalkCalls,
         NEW n, n = [m EXCEPT !.calls = Append(@, c)]
  PROVE  n \in TalkMessages /\ ofMessage[n] = ofMessage[m] \o <<Talk!Part("call", c.id, c.name)>>
<1> DEFINE part == Talk!Part("call", c.id, c.name)
<1>1. /\ m.calls \in Seq(TalkCalls) /\ n.role = "assistant" /\ n.text = m.text
      /\ n.calls = Append(m.calls, c) /\ n \in TalkMessages
  <2>1. m \in [role : {"system", "user", "assistant", "tool"}, text : BOOLEAN,
               calls : Seq(TalkCalls), answers : TalkKeys \cup {Nothing}]
    BY DEF TalkMessages
  <2>2. m.calls \in Seq(TalkCalls) /\ Append(m.calls, c) \in Seq(TalkCalls)
    BY <2>1
  <2>3. n = [m EXCEPT !.calls = Append(m.calls, c)]
    OBVIOUS
  <2>4. /\ n.role = "assistant" /\ n.text = m.text /\ n.calls = Append(m.calls, c)
        /\ n \in [role : {"system", "user", "assistant", "tool"}, text : BOOLEAN,
                  calls : Seq(TalkCalls), answers : TalkKeys \cup {Nothing}]
    <3> DEFINE cs == Append(m.calls, c)
    <3>1. cs \in Seq(TalkCalls) /\ n = [m EXCEPT !.calls = cs]
      BY <2>2, <2>3
    <3> HIDE DEF cs
    <3>2. /\ n.role = "assistant" /\ n.text = m.text /\ n.calls = cs
          /\ n \in [role : {"system", "user", "assistant", "tool"}, text : BOOLEAN,
                    calls : Seq(TalkCalls), answers : TalkKeys \cup {Nothing}]
      BY <2>1, <3>1
    <3> QED
      BY <3>2 DEF cs
  <2> QED
    BY <2>2, <2>4 DEF TalkMessages
<1>2. part \in Utterances
  BY DEF Talk!Part, TalkCalls, Utterances
<1> HIDE DEF part
<1>3. Talk!CallsOf(n) = Append(Talk!CallsOf(m), part)
  <2> DEFINE k == Len(m.calls)
  <2>1. /\ k \in Nat /\ n.calls \in Seq(TalkCalls) /\ Len(n.calls) = k + 1
        /\ n.calls[k + 1] = c /\ \A i \in 1 .. k : n.calls[i] = m.calls[i]
    BY <1>1
  <2>2. /\ Talk!CallsOf(m) \in Seq(Utterances) /\ Len(Talk!CallsOf(m)) = k
        /\ \A i \in 1 .. k :
             Talk!CallsOf(m)[i] = Talk!Part("call", m.calls[i].id, m.calls[i].name)
    BY <1>1, UttersCalls
  <2>3. /\ Talk!CallsOf(n) \in Seq(Utterances) /\ Len(Talk!CallsOf(n)) = k + 1
        /\ \A i \in 1 .. k + 1 :
             Talk!CallsOf(n)[i] = Talk!Part("call", n.calls[i].id, n.calls[i].name)
    BY <2>1, UttersCalls
  <2> DEFINE a == Talk!CallsOf(n)
             b == Talk!CallsOf(m)
  <2> HIDE DEF k
  <2>4. a \in Seq(Utterances) /\ b \in Seq(Utterances) /\ Len(a) = k + 1 /\ Len(b) = k
    BY <2>2, <2>3
  <2>5. a[k + 1] = part
    <3>1. k + 1 \in 1 .. k + 1
      BY <2>1
    <3> QED
      BY <2>1, <2>3, <3>1, Zenon DEF part
  <2>6. \A i \in 1 .. k : a[i] = b[i]
    <3> SUFFICES ASSUME NEW i \in 1 .. k PROVE a[i] = b[i]
      OBVIOUS
    <3>1. i \in 1 .. k + 1
      BY <2>1
    <3> QED
      BY <2>1, <2>2, <2>3, <3>1, Zenon
  <2> HIDE DEF a, b
  <2>7. a = Append(b, part)
    <3>1. /\ Append(b, part) \in Seq(Utterances) /\ Len(Append(b, part)) = k + 1
          /\ Append(b, part)[k + 1] = part
          /\ \A i \in 1 .. k : Append(b, part)[i] = b[i]
      BY <1>2, <2>4
    <3>2. \A i \in 1 .. k + 1 : i = k + 1 \/ i \in 1 .. k
      BY <2>1
    <3> QED
      BY <2>4, <2>5, <2>6, <3>1, <3>2, SeqEqual
  <2> QED
    BY <2>7 DEF a, b
<1>4. Talk!CallsOf(m) \in Seq(Utterances) /\ Talk!TextOf(m) \in Seq(Utterances)
  BY <1>1, UttersCalls, UttersText
<1>5. ofMessage[m] = Talk!TextOf(m) \o Talk!CallsOf(m)
  BY DEF ofMessage
<1>6. ofMessage[n] = Talk!TextOf(m) \o Talk!CallsOf(n)
  BY <1>1 DEF ofMessage, Talk!TextOf
<1>7. Talk!TextOf(m) \o Append(Talk!CallsOf(m), part)
        = (Talk!TextOf(m) \o Talk!CallsOf(m)) \o <<part>>
  <2>1. PICK a \in Seq(Utterances) : a = Talk!TextOf(m)
    BY <1>4
  <2>2. PICK b \in Seq(Utterances) : b = Talk!CallsOf(m)
    BY <1>4
  <2>3. a \o Append(b, part) = (a \o b) \o <<part>>
    BY <1>2
  <2> QED
    BY <2>1, <2>2, <2>3, Zenon
<1> QED
  BY <1>1, <1>3, <1>5, <1>6, <1>7 DEF part

\* What an item more says is said after the messages of the others.
LEMMA MergedSays ==
  ASSUME NEW ms \in Seq(TalkMessages), NEW it \in TalkItems
  PROVE  /\ Talk!Merged(ms, it) \in Seq(TalkMessages)
         /\ MessagesSay(Talk!Merged(ms, it)) = MessagesSay(ms) \o ofItem[it]
<1> DEFINE called == [id |-> it.id, name |-> it.name]
<1>1. CASE it.type = "function_call" /\ ms # <<>> /\ Talk!Last(ms).role = "assistant"
  <2> DEFINE k == Len(ms)
             l == ms[k]
             n == [l EXCEPT !.calls = Append(@, called)]
             front == SubSeq(ms, 1, k - 1)
  <2>1. /\ k \in Nat \ {0} /\ l \in TalkMessages /\ front \in Seq(TalkMessages)
        /\ ms = Append(front, l)
    BY <1>1
  <2>2. l.role = "assistant"
    BY <1>1 DEF Talk!Last
  <2>3. called \in TalkCalls
    BY <1>1 DEF TalkItems, TalkCalls
  <2>4. Talk!Merged(ms, it) = [ms EXCEPT ![k] = n]
    <3>1. Talk!Merged(ms, it) = [ms EXCEPT ![Len(ms)].calls = Append(@, called)]
      BY <1>1, Zenon DEF Talk!Merged
    <3> HIDE DEF called
    <3> QED
      BY <3>1
  <2> HIDE DEF called
  <2>5. n \in TalkMessages /\ ofMessage[n] = ofMessage[l] \o <<Talk!Part("call", called.id, called.name)>>
    BY <2>1, <2>2, <2>3, CallJoins
  <2> HIDE DEF n, l, front, k
  <2>6. [ms EXCEPT ![k] = n] = Append(front, n)
    <3>1. Len(ms) \in Nat /\ Len(front) \in Nat /\ k = Len(front) + 1 /\ k = Len(ms)
      BY <2>1 DEF k
    <3>2. /\ [ms EXCEPT ![k] = n] \in Seq(TalkMessages) /\ Len([ms EXCEPT ![k] = n]) = k
          /\ \A i \in 1 .. k : [ms EXCEPT ![k] = n][i] = IF i = k THEN n ELSE ms[i]
      <4>1. k \in 1 .. Len(ms)
        BY <3>1
      <4> QED
        BY <2>5, <3>1, <4>1, ExceptSeq
    <3>3. \A i \in 1 .. k : i # k => ms[i] = front[i]
      BY <2>1, <3>1
    <3>4. /\ Append(front, n) \in Seq(TalkMessages) /\ Len(Append(front, n)) = k
          /\ \A i \in 1 .. k : Append(front, n)[i] = IF i = k THEN n ELSE front[i]
      BY <2>1, <2>5, <3>1
    <3> QED
      BY <3>2, <3>3, <3>4, SeqEqual
  <2>7. MessagesSay(ms) = MessagesSay(front) \o ofMessage[l]
    BY <2>1, MessageMore
  <2>8. MessagesSay(Append(front, n)) = MessagesSay(front) \o ofMessage[n]
    BY <2>1, <2>5, MessageMore
  <2>9. ofItem[it] = <<Talk!Part("call", called.id, called.name)>>
    BY <1>1 DEF ofItem, called
  <2>10. MessagesSay(front) \o (ofMessage[l] \o ofItem[it])
           = (MessagesSay(front) \o ofMessage[l]) \o ofItem[it]
    <3>1. /\ MessagesSay(front) \in Seq(Utterances) /\ ofMessage[l] \in Seq(Utterances)
          /\ ofItem[it] \in Seq(Utterances)
      BY <2>1, SayTypes, MessagesSayTypes
    <3>2. \A a, b, c \in Seq(Utterances) : a \o (b \o c) = (a \o b) \o c
      BY ConcatAssociative, SMTT(20)
    <3> QED
      BY <3>1, <3>2, Zenon
  <2>11. Append(front, n) \in Seq(TalkMessages)
    BY <2>1, <2>5
  <2> QED
    BY <2>4, <2>5, <2>6, <2>7, <2>8, <2>9, <2>10, <2>11, Zenon
<1>2. ASSUME NEW m \in TalkMessages, Talk!Merged(ms, it) = Append(ms, m),
             ofMessage[m] = ofItem[it]
      PROVE  /\ Talk!Merged(ms, it) \in Seq(TalkMessages)
             /\ MessagesSay(Talk!Merged(ms, it)) = MessagesSay(ms) \o ofItem[it]
  <2>1. Append(ms, m) \in Seq(TalkMessages)
    OBVIOUS
  <2>2. MessagesSay(Append(ms, m)) = MessagesSay(ms) \o ofMessage[m]
    BY MessageMore
  <2> QED
    BY <1>2, <2>1, <2>2, Zenon
<1>3. CASE it.type = "function_call" /\ ~(ms # <<>> /\ Talk!Last(ms).role = "assistant")
  <2> DEFINE m == Talk!Message("assistant", FALSE, <<called>>)
  <2>1. Talk!Merged(ms, it) = Append(ms, m)
    BY <1>3, Zenon DEF Talk!Merged
  <2>2. called \in TalkCalls /\ <<called>> \in Seq(TalkCalls)
    BY <1>3 DEF TalkItems, TalkCalls
  <2>3. m \in TalkMessages
    BY <2>2 DEF Talk!Message, TalkMessages
  <2>4. ofMessage[m] = ofItem[it]
    <3>1. m.role = "assistant" /\ m.text = FALSE /\ m.calls = <<called>>
      BY DEF Talk!Message
    <3>2. ofMessage[m] = Talk!TextOf(m) \o Talk!CallsOf(m)
      BY <2>3, <3>1 DEF ofMessage
    <3>3. Talk!TextOf(m) = <<>>
      BY <3>1 DEF Talk!TextOf
    <3>4. Talk!CallsOf(m) = <<Talk!Part("call", called.id, called.name)>>
      <4>0. PICK cs \in Seq(TalkCalls) : cs = <<called>> /\ Len(cs) = 1 /\ cs[1] = called
        <5> HIDE DEF called
        <5> QED
          BY <2>2
      <4>1. m.calls \in Seq(TalkCalls) /\ Len(m.calls) = 1 /\ m.calls[1] = called
        <5> HIDE DEF m, called
        <5> QED
          BY <3>1, <4>0, Zenon
      <4> HIDE DEF m, called
      <4>2. /\ Talk!CallsOf(m) \in Seq(Utterances) /\ Len(Talk!CallsOf(m)) = 1
            /\ Talk!CallsOf(m)[1] = Talk!Part("call", called.id, called.name)
        BY <4>1, UttersCalls
      <4> QED
        BY <4>2
    <3>5. ofItem[it] = <<Talk!Part("call", called.id, called.name)>>
      BY <1>3 DEF ofItem
    <3>6. <<>> \o ofItem[it] = ofItem[it]
      BY SayTypes
    <3> QED
      BY <3>2, <3>3, <3>4, <3>5, <3>6, Zenon
  <2> QED
    BY <1>2, <2>1, <2>3, <2>4
<1>4. CASE it.type = "function_call_output"
  <2> DEFINE m == Talk!Result(it.id)
  <2>1. Talk!Merged(ms, it) = Append(ms, m)
    BY <1>4 DEF Talk!Merged
  <2>2. m \in TalkMessages
    BY DEF Talk!Result, TalkMessages, TalkItems
  <2>3. ofMessage[m] = ofItem[it]
    BY <1>4, <2>2 DEF ofMessage, ofItem, Talk!Result, Talk!ResultOf
  <2> QED
    BY <1>2, <2>1, <2>2, <2>3
<1>5. CASE it.type = "message"
  <2> DEFINE m == Talk!Message(it.role, it.text, <<>>)
  <2>1. Talk!Merged(ms, it) = Append(ms, m)
    BY <1>5 DEF Talk!Merged
  <2>2. m \in TalkMessages /\ m.role = it.role /\ m.text = it.text /\ m.calls = <<>> /\ it.text \in BOOLEAN
    BY <1>5 DEF Talk!Message, TalkMessages, TalkItems
  <2>3. ofMessage[m] = ofItem[it]
    <3>1. it.role \in {"system", "user", "assistant"}
      BY <1>5 DEF TalkItems
    <3>2. Talk!CallsOf(m) = <<>>
      BY <2>2 DEF Talk!CallsOf
    <3>3. Talk!TextOf(m) = IF it.text THEN <<Talk!Spoke>> ELSE <<>>
      BY <2>2 DEF Talk!TextOf
    <3>4. ofMessage[m] = IF it.role = "system" THEN <<>> ELSE Talk!TextOf(m) \o Talk!CallsOf(m)
      BY <2>2, <3>1 DEF ofMessage
    <3>5. Talk!TextOf(m) \o <<>> = Talk!TextOf(m)
      BY <2>2, UttersText
    <3>6. ofItem[it] = IF it.role # "system" /\ it.text THEN <<Talk!Spoke>> ELSE <<>>
      BY <1>5 DEF ofItem
    <3>7. it.text = TRUE \/ it.text = FALSE
      BY <2>2
    <3> HIDE DEF m
    <3>8. CASE it.role = "system"
      BY <3>4, <3>6, <3>8, Zenon
    <3>9. CASE it.role # "system"
      <4>1. ofMessage[m] = Talk!TextOf(m)
        BY <3>2, <3>4, <3>5, <3>9, Zenon
      <4> QED
        BY <3>3, <3>6, <3>7, <3>9, <4>1, Zenon
    <3> QED
      BY <3>8, <3>9
  <2> QED
    BY <1>2, <2>1, <2>2, <2>3
<1>6. CASE it.type = "reasoning"
  <2>1. Talk!Merged(ms, it) = ms
    BY <1>6 DEF Talk!Merged
  <2>2. ofItem[it] = <<>>
    BY <1>6 DEF ofItem
  <2>3. MessagesSay(ms) \o <<>> = MessagesSay(ms)
    BY MessagesSayTypes
  <2> QED
    BY <2>1, <2>2, <2>3
<1> QED
  BY <1>1, <1>3, <1>4, <1>5, <1>6 DEF TalkItems

\* The messages that items become say what the items say.
LEMMA ItemsBecomeMessages ==
  \A items \in Seq(TalkItems) :
    /\ Talk!ToMessages(items) \in Seq(TalkMessages)
    /\ MessagesSay(Talk!ToMessages(items)) = ItemsSay(items)
<1> DEFINE P == {items \in Seq(TalkItems) :
                   /\ Talk!ToMessages(items) \in Seq(TalkMessages)
                   /\ MessagesSay(Talk!ToMessages(items)) = ItemsSay(items)}
<1>1. <<>> \in P
  <2>1. <<>> \in Seq(TalkItems) /\ <<>> \in Seq(TalkMessages)
    OBVIOUS
  <2> QED
    BY <2>1, ToMessagesEmpty, FlattenEmpty, ImageEmpty, Zenon DEF MessagesSay, ItemsSay
<1>2. ASSUME NEW items \in Seq(TalkItems), items \in P, NEW it \in TalkItems
      PROVE  Append(items, it) \in P
  <2>1. Talk!ToMessages(Append(items, it)) = Talk!Merged(Talk!ToMessages(items), it)
    BY ToMessagesAppend
  <2>2. PICK ms \in Seq(TalkMessages) :
          ms = Talk!ToMessages(items) /\ MessagesSay(ms) = ItemsSay(items)
    BY <1>2
  <2>3. /\ Talk!Merged(ms, it) \in Seq(TalkMessages)
        /\ MessagesSay(Talk!Merged(ms, it)) = MessagesSay(ms) \o ofItem[it]
    BY MergedSays
  <2>4. ItemsSay(Append(items, it)) = ItemsSay(items) \o ofItem[it]
    BY ItemMore
  <2>5. Append(items, it) \in Seq(TalkItems)
    OBVIOUS
  <2>6. /\ Talk!ToMessages(Append(items, it)) \in Seq(TalkMessages)
        /\ MessagesSay(Talk!ToMessages(Append(items, it))) = ItemsSay(Append(items, it))
    BY <2>1, <2>2, <2>3, <2>4, Zenon
  <2> QED
    BY <2>5, <2>6
<1> HIDE DEF P
<1>3. Seq(TalkItems) \subseteq P
  BY <1>1, <1>2, Sequences
<1> QED
  BY <1>3 DEF P

(***************************************************************************)
(* What a provider hears                                                   *)
(***************************************************************************)
TalkTurns == [role : {"system", "user", "assistant", "tool", "item"}, parts : Seq(Utterances)]

ofTurn == [turn \in TalkTurns |-> IF turn.role = "system" THEN <<>> ELSE turn.parts]

callsOf == [m \in TalkMessages |-> m.calls]

turnsOf(p, ms) ==
    [m \in TalkMessages |->
       IF p = "anthropic" \/ p = "bedrock" THEN Talk!Anthropic(m)
       ELSE IF p = "google" THEN Talk!Google(ms, m)
       ELSE IF p = "codex" THEN Talk!Codex(m)
       ELSE Talk!Unchanged(m)]

\* How a provider hears what the messages say: Google by the functions' names.
hears(p, ms) ==
    [x \in Utterances |->
       IF p # "google" THEN x
       ELSE IF x.kind = "result" THEN Talk!Part("result", Nothing, Talk!NameOf(ms, x.id))
       ELSE [x EXCEPT !.id = Nothing]]

\* The calls of a conversation are a sequence of calls.
LEMMA CallsTypes ==
  ASSUME NEW ms \in Seq(TalkMessages)
  PROVE  Image(callsOf, ms) \in Seq(Seq(TalkCalls)) /\ Flat(Image(callsOf, ms)) \in Seq(TalkCalls)
<1>1. \A m \in TalkMessages : callsOf[m] \in Seq(TalkCalls)
  BY DEF TalkMessages, callsOf
<1>2. Image(callsOf, ms) \in Seq(Seq(TalkCalls))
  BY <1>1, ImageType
<1> QED
  BY <1>2, FlattenType, Zenon

\* The name that is found for an id is that of a call with this id.
LEMMA NameFound ==
  ASSUME NEW ms \in Seq(TalkMessages), NEW id
  PROVE  LET calls == Flat(Image(callsOf, ms))
         IN  \/ \E c \in Members(calls) : c.id = id /\ Talk!NameOf(ms, id) = c.name
             \/ (\A c \in Members(calls) : c.id # id) /\ Talk!NameOf(ms, id) = "tool"
<1> DEFINE calls == Flat(Image(callsOf, ms))
           named == {i \in DOMAIN calls : calls[i].id = id}
<1>1. calls \in Seq(TalkCalls)
  BY CallsTypes
<1>2. DOMAIN ms = 1 .. Len(ms) /\ \A i \in DOMAIN ms : ms[i] \in TalkMessages
  OBVIOUS
<1>3. calls = Talk!FlattenSeq([i \in DOMAIN ms |-> ms[i].calls])
  <2>1. Image(callsOf, ms) = [i \in DOMAIN ms |-> ms[i].calls]
    BY <1>2 DEF Image, callsOf
  <2> QED
    BY <2>1 DEF Flat
<1> HIDE DEF calls
<1>4. Talk!NameOf(ms, id) = IF named = {} THEN "tool" ELSE calls[Talk!Max(named)].name
  BY <1>3, Zenon DEF Talk!NameOf
<1>5. DOMAIN calls = 1 .. Len(calls) /\ Len(calls) \in Nat
  BY <1>1
<1>6. CASE named = {}
  BY <1>4, <1>5, <1>6 DEF Members, calls
<1>7. CASE named # {}
  <2>1. Talk!Max(named) \in named
    BY <1>5, <1>7, MaxIs
  <2> HIDE DEF named
  <2>2. PICK i \in 1 .. Len(calls) : calls[i].id = id /\ Talk!NameOf(ms, id) = calls[i].name
    <3>1. Talk!NameOf(ms, id) = calls[Talk!Max(named)].name
      BY <1>4, <1>7, Zenon
    <3>2. Talk!Max(named) \in 1 .. Len(calls) /\ calls[Talk!Max(named)].id = id
      BY <1>5, <2>1 DEF named
    <3> QED
      BY <3>1, <3>2, Zenon
  <2>3. calls[i] \in Members(calls)
    BY <2>2 DEF Members
  <2> QED
    BY <2>2, <2>3 DEF calls
<1> QED
  BY <1>6, <1>7

\* A result is named for a function of the conversation, or "tool" when no call has its id.
LEMMA NameTypes ==
  ASSUME NEW ms \in Seq(TalkMessages), NEW id
  PROVE  Talk!NameOf(ms, id) \in TalkNames \cup {"tool"}
<1> DEFINE calls == Flat(Image(callsOf, ms))
<1>1. calls \in Seq(TalkCalls)
  BY CallsTypes
<1>2. \/ \E c \in Members(calls) : c.id = id /\ Talk!NameOf(ms, id) = c.name
      \/ Talk!NameOf(ms, id) = "tool"
  BY NameFound
<1> HIDE DEF calls
<1>3. \A c \in Members(calls) : c.name \in TalkNames
  <2>1. Members(calls) \subseteq TalkCalls
    BY <1>1, MembersType
  <2> QED
    BY <2>1 DEF TalkCalls
<1> QED
  BY <1>2, <1>3

\* What a provider hears of an utterance is an utterance.
LEMMA HearsTypes ==
  ASSUME NEW ms \in Seq(TalkMessages), NEW p
  PROVE  hears(p, ms) \in [Utterances -> Utterances]
<1> SUFFICES ASSUME NEW x \in Utterances PROVE hears(p, ms)[x] \in Utterances
  BY DEF hears
<1>1. Talk!Part("result", Nothing, Talk!NameOf(ms, x.id)) \in Utterances
  BY NameTypes DEF Talk!Part, Utterances
<1>2. [x EXCEPT !.id = Nothing] \in Utterances
  BY DEF Utterances
<1> QED
  BY <1>1, <1>2, Zenon DEF hears

\* The turns a message becomes are turns, and who is asked hears of them what the
\* message says.
LEMMA AloneHeard ==
  ASSUME NEW s \in Seq(Utterances)
  PROVE  Talk!Alone(s) \in Seq(TalkTurns) /\ Flat(Image(ofTurn, Talk!Alone(s))) = s
<1> DEFINE alone == [x \in Utterances |-> Talk!Turn("item", <<x>>)]
           single == [x \in Utterances |-> <<x>>]
           same == [x \in Utterances |-> x]
<1>1. DOMAIN s = 1 .. Len(s) /\ \A i \in DOMAIN s : s[i] \in Utterances
  OBVIOUS
<1>2. Talk!Alone(s) = Image(alone, s)
  BY <1>1 DEF Talk!Alone, Image
<1>3. \A x \in Utterances : alone[x] \in TalkTurns /\ ofTurn[alone[x]] = single[x]
  <2> TAKE x \in Utterances
  <2>1. <<x>> \in Seq(Utterances)
    OBVIOUS
  <2>2. alone[x] \in TalkTurns /\ alone[x].role = "item" /\ alone[x].parts = <<x>>
    BY <2>1 DEF Talk!Turn, TalkTurns
  <2> HIDE DEF alone
  <2> QED
    BY <2>2 DEF ofTurn
<1>4. Talk!Alone(s) \in Seq(TalkTurns)
  <2> HIDE DEF alone
  <2>1. Image(alone, s) \in Seq(TalkTurns)
    BY <1>3, ImageType
  <2> QED
    BY <1>2, <2>1, Zenon
<1>5. Image(ofTurn, Image(alone, s)) = Image(single, Image(same, s))
  <2> HIDE DEF alone
  <2>1. \A x \in Utterances : ofTurn[alone[x]] = single[same[x]]
    BY <1>3
  <2> HIDE DEF single, same
  <2> QED
    BY <2>1, ImagesSame
<1>6. Image(same, s) = s
  <2>1. Image(same, s) = [i \in DOMAIN s |-> s[i]]
    BY <1>1 DEF Image
  <2>2. [i \in DOMAIN s |-> s[i]] = s
    OBVIOUS
  <2> QED
    BY <2>1, <2>2, Zenon
<1>7. Flat(Image(single, s)) = s
  BY FlattenSingles
<1> QED
  BY <1>2, <1>4, <1>5, <1>6, <1>7, Zenon

\* The same for one turn.
LEMMA TurnHeard ==
  ASSUME NEW role \in {"user", "assistant", "tool", "item"}, NEW s \in Seq(Utterances)
  PROVE  /\ <<Talk!Turn(role, s)>> \in Seq(TalkTurns)
         /\ Flat(Image(ofTurn, <<Talk!Turn(role, s)>>)) = s
<1> DEFINE turn == Talk!Turn(role, s)
<1>1. turn \in TalkTurns /\ turn.role # "system" /\ turn.parts = s
  BY DEF Talk!Turn, TalkTurns
<1> HIDE DEF turn
<1>2. ofTurn[turn] = s
  BY <1>1 DEF ofTurn
<1>3. Image(ofTurn, <<turn>>) = <<ofTurn[turn]>>
  BY DEF Image
<1>4. Flat(<<s>>) = s
  BY FlattenOne
<1>5. <<turn>> \in Seq(TalkTurns)
  BY <1>1
<1> QED
  BY <1>2, <1>3, <1>4, <1>5, Zenon DEF turn

\* A system turn tells nothing of the exchange.
LEMMA SystemUnheard ==
  ASSUME NEW s \in Seq(Utterances)
  PROVE  /\ <<Talk!Turn("system", s)>> \in Seq(TalkTurns)
         /\ Flat(Image(ofTurn, <<Talk!Turn("system", s)>>)) = <<>>
<1> DEFINE turn == Talk!Turn("system", s)
<1>1. turn \in TalkTurns /\ turn.role = "system"
  BY DEF Talk!Turn, TalkTurns
<1> HIDE DEF turn
<1>2. ofTurn[turn] = <<>>
  BY <1>1 DEF ofTurn
<1>3. Image(ofTurn, <<turn>>) = <<ofTurn[turn]>>
  BY DEF Image
<1>4. Flat(<<<<>>>>) = <<>>
  <2>1. <<>> \in Seq({})
    OBVIOUS
  <2> QED
    BY <2>1, FlattenOne
<1>5. <<turn>> \in Seq(TalkTurns)
  BY <1>1
<1> QED
  BY <1>2, <1>3, <1>4, <1>5, Zenon DEF turn

\* No turn tells nothing.
LEMMA NothingHeard ==
  <<>> \in Seq(TalkTurns) /\ Flat(Image(ofTurn, <<>>)) = <<>>
<1>1. <<>> \in Seq(TalkTurns)
  OBVIOUS
<1> QED
  BY <1>1, ImageEmpty, FlattenEmpty, Zenon

\* Where providers keep ids, nothing is changed.
LEMMA HearsSame ==
  ASSUME NEW p, p # "google", NEW ms, NEW s \in Seq(Utterances)
  PROVE  Image(hears(p, ms), s) = s
<1>1. \A i \in DOMAIN s : hears(p, ms)[s[i]] = s[i]
  BY DEF hears
<1>2. Image(hears(p, ms), s) = [i \in DOMAIN s |-> s[i]]
  BY <1>1 DEF Image
<1>3. [i \in DOMAIN s |-> s[i]] = s
  OBVIOUS
<1> QED
  BY <1>2, <1>3, Zenon

\* A turn is left out when it says nothing.
LEMMA SpokenHeard ==
  ASSUME NEW m \in TalkMessages, m.role \in {"user", "assistant"},
         NEW calls \in Seq(Utterances), m.calls = <<>> => calls = <<>>
  PROVE  /\ Talk!Spoken(m, calls) \in Seq(TalkTurns)
         /\ Flat(Image(ofTurn, Talk!Spoken(m, calls))) = Talk!TextOf(m) \o calls
<1>1. CASE Talk!Empty(m)
  <2>1. Talk!TextOf(m) = <<>> /\ calls = <<>>
    BY <1>1 DEF Talk!Empty, Talk!TextOf
  <2>2. <<>> \o <<>> = <<>>
    OBVIOUS
  <2>3. Talk!Spoken(m, calls) = <<>>
    BY <1>1 DEF Talk!Spoken
  <2> QED
    BY <2>1, <2>2, <2>3, NothingHeard, Zenon
<1>2. CASE ~Talk!Empty(m)
  <2>1. Talk!TextOf(m) \in Seq(Utterances)
    BY UttersText
  <2>2. PICK s \in Seq(Utterances) : s = Talk!TextOf(m) \o calls
    <3>1. \A a, b \in Seq(Utterances) : a \o b \in Seq(Utterances)
      OBVIOUS
    <3> QED
      BY <2>1, <3>1, Zenon
  <2>3. Talk!Spoken(m, calls) = <<Talk!Turn(m.role, s)>>
    BY <1>2, <2>2, Zenon DEF Talk!Spoken
  <2>4. m.role \in {"user", "assistant", "tool", "item"}
    OBVIOUS
  <2>5. /\ <<Talk!Turn(m.role, s)>> \in Seq(TalkTurns)
        /\ Flat(Image(ofTurn, <<Talk!Turn(m.role, s)>>)) = s
    BY <2>4, TurnHeard
  <2> QED
    BY <2>2, <2>3, <2>5, Zenon
<1> QED
  BY <1>1, <1>2

\* What is said without and with calls.
LEMMA MessageCases ==
  ASSUME NEW m \in TalkMessages
  PROVE  /\ m.role \in {"system", "user", "assistant", "tool"}
         /\ m.calls \in Seq(TalkCalls)
         /\ Talk!CallsOf(m) \in Seq(Utterances) /\ Talk!TextOf(m) \in Seq(Utterances)
         /\ Talk!TextOf(m) \o Talk!CallsOf(m) \in Seq(Utterances)
         /\ m.calls = <<>> => /\ Talk!CallsOf(m) = <<>> /\ Talk!UnnamedOf(m) = <<>>
                              /\ Talk!TextOf(m) \o Talk!CallsOf(m) = Talk!TextOf(m)
         /\ m.role # "assistant" => m.calls = <<>>
         /\ m.role = "system" => ofMessage[m] = <<>>
         /\ m.role = "tool" => ofMessage[m] = <<Talk!ResultOf(m)>>
         /\ m.role \in {"user", "assistant"} => ofMessage[m] = Talk!TextOf(m) \o Talk!CallsOf(m)
<1>1. /\ m.role \in {"system", "user", "assistant", "tool"} /\ m.calls \in Seq(TalkCalls)
      /\ (m.role # "assistant" => m.calls = <<>>)
  BY DEF TalkMessages
<1>2. Talk!CallsOf(m) \in Seq(Utterances) /\ Talk!TextOf(m) \in Seq(Utterances)
  BY <1>1, UttersCalls, UttersText
<1>3. Talk!TextOf(m) \o Talk!CallsOf(m) \in Seq(Utterances)
  BY <1>2
<1>4. m.calls = <<>> => Talk!CallsOf(m) = <<>> /\ Talk!UnnamedOf(m) = <<>>
  BY DEF Talk!CallsOf, Talk!UnnamedOf
<1>5. Talk!TextOf(m) \o <<>> = Talk!TextOf(m)
  BY <1>2
<1>6. /\ m.role = "system" => ofMessage[m] = <<>>
      /\ m.role = "tool" => ofMessage[m] = <<Talk!ResultOf(m)>>
      /\ m.role \in {"user", "assistant"} => ofMessage[m] = Talk!TextOf(m) \o Talk!CallsOf(m)
  BY DEF ofMessage
<1>7. m.calls = <<>> => Talk!TextOf(m) \o Talk!CallsOf(m) = Talk!TextOf(m)
  BY <1>4, <1>5, Zenon
<1> QED
  BY <1>1, <1>2, <1>3, <1>4, <1>6, <1>7, Zenon

\* Google knows a call by the function's name only.
LEMMA UnnamedHeard ==
  ASSUME NEW ms, NEW m \in TalkMessages
  PROVE  /\ Talk!UnnamedOf(m) \in Seq(Utterances)
         /\ Image(hears("google", ms), Talk!TextOf(m) \o Talk!CallsOf(m))
              = Talk!TextOf(m) \o Talk!UnnamedOf(m)
<1> DEFINE h == hears("google", ms)
<1>1. /\ m.calls \in Seq(TalkCalls) /\ Talk!CallsOf(m) \in Seq(Utterances)
      /\ Talk!TextOf(m) \in Seq(Utterances)
  BY MessageCases
<1>2. Image(h, Talk!TextOf(m) \o Talk!CallsOf(m))
        = Image(h, Talk!TextOf(m)) \o Image(h, Talk!CallsOf(m))
  <2> HIDE DEF h
  <2> QED
    BY <1>1, ImageConcat
<1>3. Image(h, Talk!TextOf(m)) = Talk!TextOf(m)
  <2>1. h[Talk!Spoke] = Talk!Spoke
    BY UttersText DEF hears, Talk!Spoke, Talk!Part
  <2> HIDE DEF h
  <2>2. Image(h, <<Talk!Spoke>>) = <<Talk!Spoke>>
    BY <2>1 DEF Image
  <2> QED
    BY <2>2, ImageEmpty, Zenon DEF Talk!TextOf
<1>4. DOMAIN m.calls = 1 .. Len(m.calls) /\ \A i \in DOMAIN m.calls : m.calls[i] \in TalkCalls
  BY <1>1
<1>5. ASSUME NEW c \in TalkCalls
      PROVE  /\ Talk!Part("call", Nothing, c.name) \in Utterances
             /\ h[Talk!Part("call", c.id, c.name)] = Talk!Part("call", Nothing, c.name)
  <2>1. Talk!Part("call", c.id, c.name) \in Utterances
    BY DEF TalkCalls, Talk!Part, Utterances
  <2> QED
    BY <2>1 DEF TalkCalls, Talk!Part, Utterances, hears
<1> HIDE DEF h
<1>6. Talk!UnnamedOf(m) \in Seq(Utterances)
  <2>1. \A i \in 1 .. Len(m.calls) :
          Talk!Part("call", Nothing, m.calls[i].name) \in Utterances
    BY <1>4, <1>5
  <2>2. Len(m.calls) \in Nat
    BY <1>1
  <2> HIDE DEF Talk!Part
  <2> QED
    BY <1>4, <2>1, <2>2 DEF Talk!UnnamedOf
<1>7. Image(h, Talk!CallsOf(m)) = Talk!UnnamedOf(m)
  <2>1. /\ DOMAIN Talk!CallsOf(m) = DOMAIN m.calls
        /\ \A i \in DOMAIN m.calls : Talk!CallsOf(m)[i] = Talk!Part("call", m.calls[i].id, m.calls[i].name)
    BY DEF Talk!CallsOf
  <2>2. \A i \in DOMAIN m.calls :
          h[Talk!CallsOf(m)[i]] = Talk!Part("call", Nothing, m.calls[i].name)
    BY <1>4, <1>5, <2>1, Zenon
  <2>3. Image(h, Talk!CallsOf(m)) = [i \in DOMAIN m.calls |-> h[Talk!CallsOf(m)[i]]]
    BY <2>1, Zenon DEF Image
  <2> QED
    BY <2>2, <2>3 DEF Talk!UnnamedOf
<1> QED
  BY <1>2, <1>3, <1>6, <1>7, Zenon DEF h

\* Whoever is asked, hears of a message what it says.
LEMMA MessageHeard ==
  ASSUME NEW p \in Talk!Providers, NEW ms \in Seq(TalkMessages), NEW m \in TalkMessages
  PROVE  /\ turnsOf(p, ms)[m] \in Seq(TalkTurns)
         /\ Flat(Image(ofTurn, turnsOf(p, ms)[m])) = Image(hears(p, ms), ofMessage[m])
<1> DEFINE turns == turnsOf(p, ms)[m]
           text == Talk!TextOf(m)
           calls == Talk!CallsOf(m)
           reply == Talk!ResultOf(m)
           learnt == Image(hears(p, ms), ofMessage[m])
<1>1. /\ m.role \in {"system", "user", "assistant", "tool"}
      /\ text \in Seq(Utterances) /\ calls \in Seq(Utterances)
      /\ text \o calls \in Seq(Utterances)
      /\ m.calls = <<>> => calls = <<>> /\ Talk!UnnamedOf(m) = <<>> /\ text \o calls = text
      /\ m.role # "assistant" => m.calls = <<>>
      /\ m.role = "system" => ofMessage[m] = <<>>
      /\ m.role = "tool" => ofMessage[m] = <<reply>>
      /\ m.role \in {"user", "assistant"} => ofMessage[m] = text \o calls
  BY MessageCases
<1>2. reply \in Utterances /\ <<reply>> \in Seq(Utterances)
  BY UttersText
<1>3. m.role = "system" => learnt = <<>>
  BY <1>1, ImageEmpty, Zenon
<1>4. ofMessage[m] \in Seq(Utterances)
  BY SayTypes
<1>5. p # "google" => learnt = ofMessage[m]
  BY <1>4, HearsSame
<1>6. turns = IF p = "anthropic" \/ p = "bedrock" THEN Talk!Anthropic(m)
              ELSE IF p = "google" THEN Talk!Google(ms, m)
              ELSE IF p = "codex" THEN Talk!Codex(m)
              ELSE Talk!Unchanged(m)
  BY Zenon DEF turnsOf
<1> HIDE DEF turns, learnt, text, calls, reply
<1>7. CASE p = "anthropic" \/ p = "bedrock"
  <2>1. turns = Talk!Anthropic(m) /\ learnt = ofMessage[m]
    BY <1>5, <1>6, <1>7
  <2>2. CASE m.role = "system"
    <3>1. turns = <<>>
      BY <2>1, <2>2 DEF Talk!Anthropic
    <3> QED
      BY <1>3, <2>2, <3>1, NothingHeard, Zenon DEF turns, learnt
  <2>3. CASE m.role = "tool"
    <3>1. turns = <<Talk!Turn("user", <<reply>>)>>
      BY <2>1, <2>3 DEF Talk!Anthropic, reply
    <3>2. PICK s \in Seq(Utterances) : s = <<reply>>
      BY <1>2
    <3>3. /\ <<Talk!Turn("user", s)>> \in Seq(TalkTurns)
          /\ Flat(Image(ofTurn, <<Talk!Turn("user", s)>>)) = s
      BY TurnHeard
    <3> QED
      BY <1>1, <2>1, <2>3, <3>1, <3>2, <3>3, Zenon DEF turns, learnt
  <2>4. CASE m.role \in {"user", "assistant"}
    <3>1. turns = Talk!Spoken(m, calls)
      BY <2>1, <2>4 DEF Talk!Anthropic, calls
    <3>2. /\ Talk!Spoken(m, calls) \in Seq(TalkTurns)
          /\ Flat(Image(ofTurn, Talk!Spoken(m, calls))) = text \o calls
      BY <1>1, <2>4, SpokenHeard DEF text
    <3> QED
      BY <1>1, <2>1, <2>4, <3>1, <3>2, Zenon DEF turns, learnt
  <2> QED
    BY <1>1, <2>2, <2>3, <2>4
<1>8. CASE p = "google"
  <2>1. turns = Talk!Google(ms, m)
    BY <1>6, <1>8
  <2>2. CASE m.role = "system"
    <3>1. turns = <<>>
      BY <2>1, <2>2 DEF Talk!Google
    <3> QED
      BY <1>3, <2>2, <3>1, NothingHeard, Zenon DEF turns, learnt
  <2>3. CASE m.role = "tool"
    <3> DEFINE x == Talk!Part("result", Nothing, Talk!NameOf(ms, m.answers))
    <3>1. turns = <<Talk!Turn("user", <<x>>)>>
      BY <2>1, <2>3 DEF Talk!Google
    <3>2. x \in Utterances /\ hears(p, ms)[reply] = x
      <4>1. reply.kind = "result" /\ reply.id = m.answers
        BY DEF reply, Talk!ResultOf, Talk!Part
      <4>2. hears(p, ms)[reply] = Talk!Part("result", Nothing, Talk!NameOf(ms, reply.id))
        BY <1>2, <1>8, <4>1, Zenon DEF hears
      <4>3. hears(p, ms)[reply] \in Utterances
        BY <1>2, HearsTypes
      <4> QED
        BY <4>1, <4>2, <4>3, Zenon
    <3> HIDE DEF x
    <3>3. PICK s \in Seq(Utterances) : s = <<x>>
      <4>1. \A y \in Utterances : <<y>> \in Seq(Utterances)
        OBVIOUS
      <4> QED
        BY <3>2, <4>1, Zenon
    <3>4. /\ <<Talk!Turn("user", s)>> \in Seq(TalkTurns)
          /\ Flat(Image(ofTurn, <<Talk!Turn("user", s)>>)) = s
      BY TurnHeard
    <3>5. Image(hears(p, ms), <<reply>>) = <<hears(p, ms)[reply]>>
      BY DEF Image
    <3> QED
      BY <1>1, <2>3, <3>1, <3>2, <3>3, <3>4, <3>5, Zenon DEF turns, learnt
  <2>4. CASE m.role \in {"user", "assistant"}
    <3>1. turns = Talk!Spoken(m, Talk!UnnamedOf(m))
      BY <2>1, <2>4 DEF Talk!Google
    <3>2. /\ Talk!UnnamedOf(m) \in Seq(Utterances)
          /\ Image(hears("google", ms), text \o calls) = text \o Talk!UnnamedOf(m)
      BY UnnamedHeard DEF text, calls
    <3>3. /\ Talk!Spoken(m, Talk!UnnamedOf(m)) \in Seq(TalkTurns)
          /\ Flat(Image(ofTurn, Talk!Spoken(m, Talk!UnnamedOf(m)))) = text \o Talk!UnnamedOf(m)
      <4>1. PICK s \in Seq(Utterances) : s = Talk!UnnamedOf(m)
        BY <3>2
      <4>2. m.calls = <<>> => s = <<>>
        BY <1>1, <4>1
      <4>3. Talk!Spoken(m, s) \in Seq(TalkTurns) /\ Flat(Image(ofTurn, Talk!Spoken(m, s))) = text \o s
        BY <2>4, <4>2, SpokenHeard DEF text
      <4> QED
        BY <4>1, <4>3, Zenon
    <3> QED
      BY <1>1, <1>8, <2>4, <3>1, <3>2, <3>3, Zenon DEF turns, learnt
  <2> QED
    BY <1>1, <2>2, <2>3, <2>4
<1>9. CASE p = "codex"
  <2>1. turns = Talk!Codex(m) /\ learnt = ofMessage[m]
    BY <1>5, <1>6, <1>9
  <2>2. CASE m.role = "tool"
    <3>1. turns = Talk!Alone(<<reply>>)
      BY <2>1, <2>2 DEF Talk!Codex, reply
    <3>2. PICK s \in Seq(Utterances) : s = <<reply>>
      BY <1>2
    <3>3. Talk!Alone(s) \in Seq(TalkTurns) /\ Flat(Image(ofTurn, Talk!Alone(s))) = s
      BY AloneHeard
    <3> QED
      BY <1>1, <2>1, <2>2, <3>1, <3>2, <3>3, Zenon DEF turns, learnt
  <2>3. CASE m.role = "assistant" /\ m.calls # <<>>
    <3>1. turns = Talk!Alone(text \o calls)
      BY <2>1, <2>3 DEF Talk!Codex, text, calls
    <3>2. PICK s \in Seq(Utterances) : s = text \o calls
      BY <1>1
    <3>3. Talk!Alone(s) \in Seq(TalkTurns) /\ Flat(Image(ofTurn, Talk!Alone(s))) = s
      BY AloneHeard
    <3> QED
      BY <1>1, <2>1, <2>3, <3>1, <3>2, <3>3, Zenon DEF turns, learnt
  <2>4. CASE m.role # "tool" /\ m.calls = <<>>
    <3>1. turns = <<Talk!Turn(m.role, text)>>
      BY <2>1, <2>4 DEF Talk!Codex, text
    <3>2. CASE m.role = "system"
      <4>1. /\ <<Talk!Turn("system", text)>> \in Seq(TalkTurns)
            /\ Flat(Image(ofTurn, <<Talk!Turn("system", text)>>)) = <<>>
        BY <1>1, SystemUnheard
      <4> QED
        BY <1>3, <3>1, <3>2, <4>1, Zenon DEF turns, learnt
    <3>3. CASE m.role \in {"user", "assistant"}
      <4>1. m.role \in {"user", "assistant", "tool", "item"}
        BY <3>3
      <4>2. /\ <<Talk!Turn(m.role, text)>> \in Seq(TalkTurns)
            /\ Flat(Image(ofTurn, <<Talk!Turn(m.role, text)>>)) = text
        BY <1>1, <4>1, TurnHeard
      <4> QED
        BY <1>1, <2>1, <2>4, <3>1, <3>3, <4>2, Zenon DEF turns, learnt
    <3> QED
      BY <1>1, <2>4, <3>2, <3>3
  <2> QED
    BY <1>1, <2>2, <2>3, <2>4
<1>10. CASE p = "openai"
  <2>1. turns = Talk!Unchanged(m) /\ learnt = ofMessage[m]
    BY <1>5, <1>6, <1>10
  <2>2. turns = <<Talk!Turn(m.role, IF m.role = "tool" THEN <<reply>> ELSE text \o calls)>>
    BY <2>1, Zenon DEF Talk!Unchanged, reply, text, calls
  <2>3. CASE m.role = "system"
    <3>1. PICK s \in Seq(Utterances) : s = text \o calls
      BY <1>1
    <3>2. /\ <<Talk!Turn("system", s)>> \in Seq(TalkTurns)
          /\ Flat(Image(ofTurn, <<Talk!Turn("system", s)>>)) = <<>>
      BY SystemUnheard
    <3>3. turns = <<Talk!Turn("system", s)>>
      <4>1. m.role # "tool"
        BY <2>3
      <4> QED
        BY <2>2, <2>3, <3>1, <4>1, Zenon
    <3> QED
      BY <1>3, <2>3, <3>2, <3>3, Zenon DEF turns, learnt
  <2>4. CASE m.role # "system"
    <3>1. PICK s \in Seq(Utterances) :
            s = (IF m.role = "tool" THEN <<reply>> ELSE text \o calls) /\ s = ofMessage[m]
      <4>1. CASE m.role = "tool"
        BY <1>1, <1>2, <4>1, Zenon
      <4>2. CASE m.role # "tool"
        <5>1. m.role \in {"user", "assistant"}
          BY <1>1, <2>4, <4>2
        <5> QED
          BY <1>1, <4>2, <5>1, Zenon
      <4> QED
        BY <4>1, <4>2
    <3>2. m.role \in {"user", "assistant", "tool", "item"}
      BY <1>1, <2>4
    <3>3. /\ <<Talk!Turn(m.role, s)>> \in Seq(TalkTurns)
          /\ Flat(Image(ofTurn, <<Talk!Turn(m.role, s)>>)) = s
      BY <3>2, TurnHeard
    <3> QED
      BY <2>1, <2>2, <3>1, <3>3, Zenon DEF turns, learnt
  <2> QED
    BY <2>3, <2>4
<1> QED
  BY <1>7, <1>8, <1>9, <1>10 DEF Talk!Providers

\* Whoever is asked, hears what the messages say.
LEMMA TurnsAre ==
  ASSUME NEW p \in Talk!Providers, NEW ms \in Seq(TalkMessages)
  PROVE  Talk!Turns(p, ms) = Flat(Image(turnsOf(p, ms), ms))
<1>1. \A i \in DOMAIN ms : ms[i] \in TalkMessages
  OBVIOUS
<1>2. ASSUME NEW i \in DOMAIN ms
      PROVE  turnsOf(p, ms)[ms[i]] =
               CASE p = "anthropic" \/ p = "bedrock" -> Talk!Anthropic(ms[i])
                 [] p = "google" -> Talk!Google(ms, ms[i])
                 [] p = "codex" -> Talk!Codex(ms[i])
                 [] p = "openai" -> Talk!Unchanged(ms[i])
  <2>1. turnsOf(p, ms)[ms[i]] =
          IF p = "anthropic" \/ p = "bedrock" THEN Talk!Anthropic(ms[i])
          ELSE IF p = "google" THEN Talk!Google(ms, ms[i])
          ELSE IF p = "codex" THEN Talk!Codex(ms[i])
          ELSE Talk!Unchanged(ms[i])
    BY <1>1, Zenon DEF turnsOf
  <2>2. CASE p = "anthropic"
    BY <2>1, <2>2
  <2>3. CASE p = "bedrock"
    BY <2>1, <2>3
  <2>4. CASE p = "google"
    BY <2>1, <2>4
  <2>5. CASE p = "codex"
    BY <2>1, <2>5
  <2>6. CASE p = "openai"
    BY <2>1, <2>6
  <2> QED
    BY <2>2, <2>3, <2>4, <2>5, <2>6 DEF Talk!Providers
<1>3. Image(turnsOf(p, ms), ms) = [i \in DOMAIN ms |->
               CASE p = "anthropic" \/ p = "bedrock" -> Talk!Anthropic(ms[i])
                 [] p = "google" -> Talk!Google(ms, ms[i])
                 [] p = "codex" -> Talk!Codex(ms[i])
                 [] p = "openai" -> Talk!Unchanged(ms[i])]
  BY <1>2, Zenon DEF Image
<1> QED
  BY <1>3, Zenon DEF Talk!Turns, Flat

ofTurns == [turns \in Seq(TalkTurns) |-> Flat(Image(ofTurn, turns))]

\* What is heard of flattened turns is what is heard of each sequence of them.
LEMMA TurnsTwice ==
  \A ss \in Seq(Seq(TalkTurns)) : Flat(Image(ofTurn, Flat(ss))) = Flat(Image(ofTurns, ss))
<1> DEFINE P == {ss \in Seq(Seq(TalkTurns)) :
                   Flat(Image(ofTurn, Flat(ss))) = Flat(Image(ofTurns, ss))}
<1>0. \A turn \in TalkTurns : ofTurn[turn] \in Seq(Utterances)
  BY DEF ofTurn, TalkTurns
<1>1. \A turns \in Seq(TalkTurns) : Image(ofTurn, turns) \in Seq(Seq(Utterances))
  BY <1>0, ImageType
<1>2. \A turns \in Seq(TalkTurns) :
        ofTurns[turns] = Flat(Image(ofTurn, turns)) /\ ofTurns[turns] \in Seq(Utterances)
  <2>1. \A turns \in Seq(TalkTurns) : Flat(Image(ofTurn, turns)) \in Seq(Utterances)
    BY <1>1, FlattenType, Zenon
  <2> QED
    BY <2>1, Zenon DEF ofTurns
<1>3. <<>> \in P
  <2>1. <<>> \in Seq(Seq(TalkTurns))
    OBVIOUS
  <2> QED
    BY <2>1, FlattenEmpty, ImageEmpty, Zenon
<1>4. ASSUME NEW ss \in Seq(Seq(TalkTurns)), ss \in P, NEW x \in Seq(TalkTurns)
      PROVE  Append(ss, x) \in P
  <2>1. ofTurns[x] = Flat(Image(ofTurn, x)) /\ ofTurns[x] \in Seq(Utterances)
    BY <1>2
  <2>2. Image(ofTurns, Append(ss, x)) = Append(Image(ofTurns, ss), ofTurns[x])
    BY ImageAppend
  <2>3. Image(ofTurns, ss) \in Seq(Seq(Utterances))
    BY <1>2, ImageType
  <2>4. Flat(Append(Image(ofTurns, ss), ofTurns[x])) = Flat(Image(ofTurns, ss)) \o ofTurns[x]
    BY <2>1, <2>3, FlattenAppend, Zenon
  <2>5. Flat(Append(ss, x)) = Flat(ss) \o x /\ Flat(ss) \in Seq(TalkTurns)
    BY FlattenAppend, FlattenType, Zenon
  <2>6. Image(ofTurn, Flat(ss) \o x) = Image(ofTurn, Flat(ss)) \o Image(ofTurn, x)
    BY <2>5, ImageConcat
  <2>7. /\ Image(ofTurn, Flat(ss)) \in Seq(Seq(Utterances))
        /\ Image(ofTurn, x) \in Seq(Seq(Utterances))
    BY <1>1, <2>5, Zenon
  <2>8. Flat(Image(ofTurn, Flat(ss)) \o Image(ofTurn, x))
          = Flat(Image(ofTurn, Flat(ss))) \o Flat(Image(ofTurn, x))
    BY <2>7, FlattenConcat, Zenon
  <2>9. /\ Append(ss, x) \in Seq(Seq(TalkTurns))
        /\ Flat(Image(ofTurn, Flat(ss))) = Flat(Image(ofTurns, ss))
    BY <1>4
  <2>10. Flat(Image(ofTurn, Flat(Append(ss, x)))) = Flat(Image(ofTurns, Append(ss, x)))
    BY <2>1, <2>2, <2>4, <2>5, <2>6, <2>8, <2>9, Zenon
  <2> QED
    BY <2>9, <2>10
<1> HIDE DEF P
<1>5. Seq(Seq(TalkTurns)) \subseteq P
  BY <1>3, <1>4, Sequences
<1> QED
  BY <1>5 DEF P

\* The turns built for a provider tell what the messages say, as that provider is told it.
LEMMA TurnsHeard ==
  ASSUME NEW p \in Talk!Providers, NEW ms \in Seq(TalkMessages)
  PROVE  /\ Talk!Turns(p, ms) \in Seq(TalkTurns)
         /\ Flat(Image(ofTurn, Talk!Turns(p, ms))) = Image(hears(p, ms), MessagesSay(ms))
<1> DEFINE to == turnsOf(p, ms)
           k == hears(p, ms)
           hearing == [s \in Seq(Utterances) |-> Image(k, s)]
           each == Image(ofMessage, ms)
<1>1. \A m \in TalkMessages : to[m] \in Seq(TalkTurns)
  BY MessageHeard
<1>2. Image(to, ms) \in Seq(Seq(TalkTurns))
  <2> HIDE DEF to
  <2> QED
    BY <1>1, ImageType
<1>3. Talk!Turns(p, ms) = Flat(Image(to, ms))
  BY TurnsAre
<1>4. Talk!Turns(p, ms) \in Seq(TalkTurns)
  <2> HIDE DEF to
  <2> QED
    BY <1>2, <1>3, FlattenType, Zenon
<1>5. ofTurn \in [TalkTurns -> Seq(Utterances)]
  BY DEF ofTurn, TalkTurns
<1>6. k \in [Utterances -> Utterances]
  BY HearsTypes
<1>7. \A m \in TalkMessages : ofTurns[to[m]] = hearing[ofMessage[m]]
  <2> TAKE m \in TalkMessages
  <2>1. to[m] \in Seq(TalkTurns) /\ Flat(Image(ofTurn, to[m])) = Image(k, ofMessage[m])
    BY MessageHeard
  <2>2. ofMessage[m] \in Seq(Utterances)
    BY SayTypes
  <2> HIDE DEF to, k
  <2> QED
    BY <2>1, <2>2, Zenon DEF ofTurns
<1>8. each \in Seq(Seq(Utterances))
  BY MessagesSayTypes
<1> HIDE DEF to, k
<1>9. Flat(Image(ofTurn, Flat(Image(to, ms)))) = Flat(Image(ofTurns, Image(to, ms)))
  BY <1>2, TurnsTwice, Zenon
<1>10. Flat(Image(hearing, each)) = Image(k, Flat(each))
  <2>1. \A ss \in Seq(Seq(Utterances)) : Flat(Image(hearing, ss)) = Image(k, Flat(ss))
    <3>1. \A s \in Seq(Utterances) : hearing[s] = Image(k, s)
      OBVIOUS
    <3>2. \A x \in Utterances : k[x] \in Utterances
      BY <1>6
    <3> HIDE DEF hearing
    <3> QED
      BY <3>1, <3>2, FlattenImage
  <2> HIDE DEF hearing, each
  <2> QED
    BY <1>8, <2>1, Zenon
<1>11. Image(ofTurns, Image(to, ms)) = Image(hearing, Image(ofMessage, ms))
  <2> HIDE DEF hearing
  <2> QED
    BY <1>7, ImagesSame
<1> HIDE DEF hearing
<1> QED
  BY <1>3, <1>4, <1>9, <1>10, <1>11, Zenon DEF MessagesSay, k, each

\* What is heard of the turns is what was heard of each.
LEMMA HeardIs ==
  ASSUME sent.turns \in Seq(TalkTurns)
  PROVE  Talk!Heard = Flat(Image(ofTurn, sent.turns))
<1>1. \A i \in DOMAIN sent.turns : sent.turns[i] \in TalkTurns
  OBVIOUS
<1>2. Image(ofTurn, sent.turns)
        = [i \in DOMAIN sent.turns |->
             IF sent.turns[i].role = "system" THEN <<>> ELSE sent.turns[i].parts]
  BY <1>1 DEF Image, ofTurn
<1> QED
  BY <1>2, Zenon DEF Talk!Heard, Flat

(***************************************************************************)
(* The calls of a conversation and their names                              *)
(***************************************************************************)
LEMMA MembersImage ==
  ASSUME NEW S, NEW s \in Seq(S), NEW k
  PROVE  Members(Image(k, s)) = {k[x] : x \in Members(s)}
<1>1. Len(Image(k, s)) = Len(s) /\ \A i \in 1 .. Len(s) : Image(k, s)[i] = k[s[i]]
  BY ImageAt
<1> QED
  BY <1>1 DEF Members

\* A message says its calls, and no others.
LEMMA CallsOfMessage ==
  ASSUME NEW m \in TalkMessages
  PROVE  /\ \A c \in Members(m.calls) : Talk!Part("call", c.id, c.name) \in Members(ofMessage[m])
         /\ \A x \in Members(ofMessage[m]) :
              x.kind = "call" => \E c \in Members(m.calls) : c.id = x.id
<1> DEFINE text == Talk!TextOf(m)
           calls == Talk!CallsOf(m)
<1>1. /\ m.role \in {"system", "user", "assistant", "tool"} /\ m.calls \in Seq(TalkCalls)
      /\ text \in Seq(Utterances) /\ calls \in Seq(Utterances)
      /\ m.role # "assistant" => m.calls = <<>>
      /\ m.role = "system" => ofMessage[m] = <<>>
      /\ m.role = "tool" => ofMessage[m] = <<Talk!ResultOf(m)>>
      /\ m.role \in {"user", "assistant"} => ofMessage[m] = text \o calls
  BY MessageCases
<1>2. /\ Len(calls) = Len(m.calls)
      /\ \A i \in 1 .. Len(m.calls) : calls[i] = Talk!Part("call", m.calls[i].id, m.calls[i].name)
  BY <1>1, UttersCalls
<1>3. m.role \in {"user", "assistant"} =>
        Members(ofMessage[m]) = Members(text) \cup Members(calls)
  <2> HIDE DEF text, calls
  <2>1. Members(text \o calls) = Members(text) \cup Members(calls)
    BY <1>1, MembersConcat
  <2> QED
    BY <1>1, <2>1, Zenon
<1>4. \A x \in Members(text) : x.kind = "text"
  BY DEF Talk!TextOf, Talk!Spoke, Talk!Part, Members
<1> HIDE DEF text, calls
<1>5. ASSUME NEW c \in Members(m.calls)
      PROVE  Talk!Part("call", c.id, c.name) \in Members(ofMessage[m])
  <2>1. PICK i \in 1 .. Len(m.calls) : c = m.calls[i]
    BY DEF Members
  <2>2. m.calls # <<>>
    <3>1. Len(m.calls) \in Nat /\ Len(m.calls) # 0
      BY <1>1, <2>1
    <3> QED
      BY <3>1
  <2>3. m.role \in {"user", "assistant"}
    BY <1>1, <2>2
  <2>4. calls[i] \in Members(calls)
    BY <1>2, <2>1 DEF Members
  <2> QED
    BY <1>2, <1>3, <2>1, <2>3, <2>4
<1>6. ASSUME NEW x \in Members(ofMessage[m]), x.kind = "call"
      PROVE  \E c \in Members(m.calls) : c.id = x.id
  <2>1. CASE m.role = "system"
    <3>1. ofMessage[m] = <<>>
      BY <1>1, <2>1
    <3> QED
      BY <3>1 DEF Members
  <2>2. CASE m.role = "tool"
    <3>1. ofMessage[m] = <<Talk!ResultOf(m)>>
      BY <1>1, <2>2
    <3> QED
      BY <1>6, <3>1 DEF Members, Talk!ResultOf, Talk!Part
  <2>3. CASE m.role \in {"user", "assistant"}
    <3>1. x \in Members(calls)
      BY <1>3, <1>4, <1>6, <2>3
    <3>2. PICK i \in 1 .. Len(m.calls) : x = calls[i]
      BY <1>2, <3>1 DEF Members
    <3>3. x = Talk!Part("call", m.calls[i].id, m.calls[i].name)
      BY <1>2, <3>2, Zenon
    <3>4. x.id = m.calls[i].id
      BY <3>3 DEF Talk!Part
    <3> QED
      BY <3>2, <3>4 DEF Members
  <2> QED
    BY <1>1, <2>1, <2>2, <2>3
<1> QED
  BY <1>5, <1>6

\* The calls looked up by _openai_messages_to_gemini are exactly those the messages say.
LEMMA CallsSaid ==
  ASSUME NEW ms \in Seq(TalkMessages)
  PROVE  LET calls == Flat(Image(callsOf, ms))
         IN  /\ \A c \in Members(calls) :
                  Talk!Part("call", c.id, c.name) \in Members(MessagesSay(ms))
             /\ \A x \in Members(MessagesSay(ms)) :
                  x.kind = "call" => \E c \in Members(calls) : c.id = x.id
<1> DEFINE calls == Flat(Image(callsOf, ms))
<1>1. Members(ms) \subseteq TalkMessages
  BY MembersType
<1>2. Members(calls) = UNION {Members(m.calls) : m \in Members(ms)}
  <2>1. Image(callsOf, ms) \in Seq(Seq(TalkCalls))
    BY CallsTypes
  <2>2. Members(calls) = UNION {Members(s) : s \in Members(Image(callsOf, ms))}
    BY <2>1, FlattenMembers, Zenon
  <2>3. Members(Image(callsOf, ms)) = {callsOf[m] : m \in Members(ms)}
    BY MembersImage
  <2>4. \A m \in Members(ms) : callsOf[m] = m.calls
    BY <1>1 DEF callsOf
  <2> HIDE DEF calls
  <2> QED
    BY <2>2, <2>3, <2>4
<1>3. Members(MessagesSay(ms)) = UNION {Members(ofMessage[m]) : m \in Members(ms)}
  <2>1. Image(ofMessage, ms) \in Seq(Seq(Utterances))
    BY MessagesSayTypes
  <2>2. Members(MessagesSay(ms)) = UNION {Members(s) : s \in Members(Image(ofMessage, ms))}
    BY <2>1, FlattenMembers, Zenon DEF MessagesSay
  <2>3. Members(Image(ofMessage, ms)) = {ofMessage[m] : m \in Members(ms)}
    BY MembersImage
  <2> QED
    BY <2>2, <2>3
<1> HIDE DEF calls
<1>4. ASSUME NEW c \in Members(calls)
      PROVE  Talk!Part("call", c.id, c.name) \in Members(MessagesSay(ms))
  <2>1. PICK m \in Members(ms) : c \in Members(m.calls)
    BY <1>2
  <2>2. Talk!Part("call", c.id, c.name) \in Members(ofMessage[m])
    BY <1>1, <2>1, CallsOfMessage
  <2> QED
    BY <1>3, <2>2
<1>5. ASSUME NEW x \in Members(MessagesSay(ms)), x.kind = "call"
      PROVE  \E c \in Members(calls) : c.id = x.id
  <2>1. PICK m \in Members(ms) : x \in Members(ofMessage[m])
    BY <1>3
  <2>2. PICK c \in Members(m.calls) : c.id = x.id
    BY <1>1, <1>5, <2>1, CallsOfMessage
  <2> QED
    BY <1>2, <2>2
<1> QED
  BY <1>4, <1>5 DEF calls

\* The name that is found for a call is that of a call with the same id.
LEMMA NameIs ==
  ASSUME NEW ms \in Seq(TalkMessages), NEW x \in Members(MessagesSay(ms)), x.kind = "call"
  PROVE  \E y \in Members(MessagesSay(ms)) :
           y.kind = "call" /\ y.id = x.id /\ y.name = Talk!NameOf(ms, x.id)
<1> DEFINE calls == Flat(Image(callsOf, ms))
<1>1. /\ \A c \in Members(calls) :
           Talk!Part("call", c.id, c.name) \in Members(MessagesSay(ms))
      /\ \E c \in Members(calls) : c.id = x.id
  BY CallsSaid
<1>2. \/ \E c \in Members(calls) : c.id = x.id /\ Talk!NameOf(ms, x.id) = c.name
      \/ (\A c \in Members(calls) : c.id # x.id) /\ Talk!NameOf(ms, x.id) = "tool"
  BY NameFound
<1> HIDE DEF calls
<1>3. PICK c \in Members(calls) : c.id = x.id /\ Talk!NameOf(ms, x.id) = c.name
  BY <1>1, <1>2
<1> DEFINE y == Talk!Part("call", c.id, c.name)
<1>4. y \in Members(MessagesSay(ms))
  BY <1>1
<1>5. y.kind = "call" /\ y.id = c.id /\ y.name = c.name
  BY DEF Talk!Part
<1> HIDE DEF y
<1> QED
  BY <1>3, <1>4, <1>5

(***************************************************************************)
(* The invariant of a conversation                                         *)
(***************************************************************************)
\* What is uttered: a call and a result by an id and by the function's name.
Sayings ==
    {x \in [kind : {"text", "call", "result"}, id : TalkKeys \cup {Nothing},
            name : TalkNames \cup {Nothing}] :
       IF x.kind = "text" THEN x = Talk!Spoke ELSE x.id \in TalkKeys /\ x.name \in TalkNames}

\* A result as the client writes it down.
erased == [x \in Utterances |-> Talk!KnownAt("openai", x)]

TalkTyped ==
    /\ \/ client = "chat" /\ history \in Seq(TalkMessages)
       \/ client = "responses" /\ history \in Seq(TalkItems)
    /\ minted \in 0 .. Len(TalkIds)
    /\ uttered \in Seq(Sayings)

SaidInHistory == IF client = "chat" THEN MessagesSay(history) ELSE ItemsSay(history)

HistoryKept == SaidInHistory = Image(erased, uttered)

IdsGiven == \A x \in Members(uttered) :
    x.kind = "text" \/ x.id = x.name \/ \E k \in 1 .. minted : x.id = TalkIds[k]

IdsNamed == \A x, y \in Members(uttered) :
    x.kind # "text" /\ y.kind # "text" /\ x.id = y.id => x.name = y.name

ResultsFollow == \A x \in Members(uttered) :
    x.kind = "result" => \E y \in Members(uttered) : y.kind = "call" /\ y.id = x.id

AskedAsHeld == sent # Talk!Idle => \E p \in Talk!Providers :
    /\ sent.to = p /\ sent.turns = Talk!Turns(p, Talk!Messages)
    /\ TalkNames \subseteq sent.tools

TalkInv == TalkTyped /\ HistoryKept /\ IdsGiven /\ IdsNamed /\ ResultsFollow /\ AskedAsHeld

\* What was uttered can be told, and erasing a result's name is what an OpenAI dialect does.
LEMMA SayingsUttered ==
  /\ Sayings \subseteq Utterances
  /\ \A s \in Seq(Sayings) : s \in Seq(Utterances)
  /\ \A x \in Utterances : erased[x] = Talk!KnownAt("openai", x) /\ erased[x] \in Utterances
<1>1. Sayings \subseteq Utterances
  BY DEF Sayings, Utterances
<1>2. \A x \in Utterances : Talk!KnownAt("openai", x) \in Utterances
  BY DEF Utterances, Talk!KnownAt
<1>3. \A s \in Seq(Sayings) : s \in Seq(Utterances)
  <2> HIDE DEF Sayings
  <2> QED
    BY <1>1
<1> QED
  BY <1>1, <1>2, <1>3, Zenon DEF erased

\* The messages a provider is given say what the client's history says.
LEMMA MessagesKept ==
  ASSUME TalkTyped
  PROVE  Talk!Messages \in Seq(TalkMessages) /\ MessagesSay(Talk!Messages) = SaidInHistory
<1>1. CASE client = "chat"
  BY <1>1 DEF TalkTyped, Talk!Messages, SaidInHistory
<1>2. CASE client = "responses" /\ history \in Seq(TalkItems)
  <2>1. /\ Talk!ToMessages(history) \in Seq(TalkMessages)
        /\ MessagesSay(Talk!ToMessages(history)) = ItemsSay(history)
    BY <1>2, ItemsBecomeMessages
  <2>2. client # "chat"
    BY <1>2
  <2> QED
    BY <2>1, <2>2, Zenon DEF Talk!Messages, SaidInHistory
<1> QED
  BY <1>1, <1>2 DEF TalkTyped

\* Google finds the function's name of a result.
LEMMA ResultNamed ==
  ASSUME TalkTyped, HistoryKept, IdsNamed, ResultsFollow,
         NEW x \in Members(uttered), x.kind = "result"
  PROVE  Talk!NameOf(Talk!Messages, x.id) = x.name
<1> DEFINE ms == Talk!Messages
<1>1. ms \in Seq(TalkMessages) /\ MessagesSay(ms) = Image(erased, uttered)
  BY MessagesKept DEF HistoryKept
<1>2. uttered \in Seq(Sayings) /\ uttered \in Seq(Utterances) /\ Members(uttered) \subseteq Utterances
  <2>1. uttered \in Seq(Sayings)
    BY DEF TalkTyped
  <2>2. uttered \in Seq(Utterances)
    BY <2>1, SayingsUttered
  <2> QED
    BY <2>1, <2>2, MembersType
<1>3. Members(MessagesSay(ms)) = {erased[y] : y \in Members(uttered)}
  BY <1>1, <1>2, MembersImage
<1> HIDE DEF ms
<1>4. \A y \in Members(uttered) : /\ erased[y].kind = y.kind /\ erased[y].id = y.id
                                  /\ y.kind = "call" => erased[y] = y
  <2> SUFFICES ASSUME NEW y \in Members(uttered)
               PROVE  /\ erased[y].kind = y.kind /\ erased[y].id = y.id
                      /\ y.kind = "call" => erased[y] = y
    OBVIOUS
  <2>1. y \in Utterances /\ erased[y] = Talk!KnownAt("openai", y)
    BY <1>2, SayingsUttered
  <2> QED
    BY <2>1 DEF Talk!KnownAt, Utterances
<1>5. PICK y \in Members(uttered) : y.kind = "call" /\ y.id = x.id
  BY DEF ResultsFollow
<1>6. y \in Members(MessagesSay(ms))
  BY <1>3, <1>4, <1>5
<1>7. ASSUME NEW z \in Members(MessagesSay(ms)), z.kind = "call" /\ z.id = y.id
      PROVE  z.name = x.name
  <2>1. PICK w \in Members(uttered) : z = erased[w]
    BY <1>3
  <2>2. w.kind = "call" /\ z = w /\ w.id = x.id
    BY <1>4, <1>5, <1>7, <2>1
  <2> QED
    BY <2>2 DEF IdsNamed
<1>8. Talk!NameOf(ms, y.id) = x.name
  <2>1. PICK z \in Members(MessagesSay(ms)) :
          z.kind = "call" /\ z.id = y.id /\ z.name = Talk!NameOf(ms, y.id)
    BY <1>1, <1>5, <1>6, NameIs
  <2> QED
    BY <1>7, <2>1
<1> QED
  BY <1>5, <1>8 DEF ms

\* The invariant says what a provider is told.
LEMMA TalkKept ==
  TalkInv => ConversationKept
<1> SUFFICES ASSUME TalkInv, sent # Talk!Idle
             PROVE  /\ Talk!Heard = [i \in DOMAIN uttered |-> Talk!KnownAt(sent.to, uttered[i])]
                    /\ TalkNames \subseteq sent.tools
  BY DEF ConversationKept, Talk!ConversationKept
<1> DEFINE ms == Talk!Messages
<1>1. PICK p \in Talk!Providers :
        sent.to = p /\ sent.turns = Talk!Turns(p, ms) /\ TalkNames \subseteq sent.tools
  BY DEF TalkInv, AskedAsHeld
<1>2. ms \in Seq(TalkMessages) /\ MessagesSay(ms) = Image(erased, uttered)
  BY MessagesKept DEF TalkInv, HistoryKept
<1>3. uttered \in Seq(Sayings) /\ uttered \in Seq(Utterances)
  <2>1. uttered \in Seq(Sayings)
    BY DEF TalkInv, TalkTyped
  <2> QED
    BY <2>1, SayingsUttered
<1>4. ASSUME NEW x \in Members(uttered), x.kind = "result"
      PROVE  Talk!NameOf(ms, x.id) = x.name
  BY <1>4, ResultNamed DEF TalkInv
<1> HIDE DEF ms
<1>5. Talk!Heard = Image(hears(p, ms), Image(erased, uttered))
  <2>1. /\ Talk!Turns(p, ms) \in Seq(TalkTurns)
        /\ Flat(Image(ofTurn, Talk!Turns(p, ms))) = Image(hears(p, ms), MessagesSay(ms))
    BY <1>2, TurnsHeard
  <2>2. Talk!Heard = Flat(Image(ofTurn, sent.turns))
    BY <1>1, <2>1, HeardIs
  <2> QED
    BY <1>1, <1>2, <2>1, <2>2, Zenon
<1>6. ASSUME NEW x \in Members(uttered)
      PROVE  hears(p, ms)[erased[x]] = Talk!KnownAt(p, x)
  <2>1. x \in Utterances /\ erased[x] = Talk!KnownAt("openai", x) /\ erased[x] \in Utterances
    BY <1>3, MembersType, SayingsUttered
  <2>2. CASE p # "google"
    <3>1. hears(p, ms)[erased[x]] = erased[x]
      BY <2>1, <2>2, Zenon DEF hears
    <3> QED
      BY <2>1, <2>2, <3>1 DEF Talk!KnownAt
  <2>3. CASE p = "google" /\ x.kind = "result"
    <3>1. erased[x].kind = "result" /\ erased[x].id = x.id
      BY <2>1, <2>3 DEF Talk!KnownAt, Utterances
    <3>2. hears(p, ms)[erased[x]] = Talk!Part("result", Nothing, Talk!NameOf(ms, x.id))
      BY <2>1, <2>3, <3>1, Zenon DEF hears
    <3>3. Talk!NameOf(ms, x.id) = x.name
      BY <1>4, <2>3
    <3>4. Talk!KnownAt(p, x) = Talk!Part("result", Nothing, x.name)
      BY <2>1, <2>3 DEF Talk!KnownAt, Talk!Part, Utterances
    <3> QED
      BY <3>2, <3>3, <3>4, Zenon
  <2>4. CASE p = "google" /\ x.kind # "result"
    <3>1. erased[x] = x
      BY <2>1, <2>4 DEF Talk!KnownAt
    <3>2. hears(p, ms)[x] = [x EXCEPT !.id = Nothing]
      BY <2>1, <2>4, Zenon DEF hears
    <3>3. Talk!KnownAt(p, x) = [x EXCEPT !.id = Nothing]
      BY <2>4, Zenon DEF Talk!KnownAt
    <3> QED
      BY <3>1, <3>2, <3>3, Zenon
  <2> QED
    BY <2>2, <2>3, <2>4
<1>7. DOMAIN uttered = 1 .. Len(uttered) /\ DOMAIN Image(erased, uttered) = DOMAIN uttered
  BY <1>3 DEF Image
<1>8. \A i \in DOMAIN uttered :
        hears(p, ms)[Image(erased, uttered)[i]] = Talk!KnownAt(p, uttered[i])
  <2>1. \A i \in DOMAIN uttered : uttered[i] \in Members(uttered)
    BY <1>7 DEF Members
  <2>2. \A i \in DOMAIN uttered : Image(erased, uttered)[i] = erased[uttered[i]]
    BY DEF Image
  <2> QED
    BY <1>6, <2>1, <2>2
<1>9. Image(hears(p, ms), Image(erased, uttered))
        = [i \in DOMAIN uttered |-> hears(p, ms)[Image(erased, uttered)[i]]]
  BY <1>7, Zenon DEF Image
<1> QED
  BY <1>1, <1>5, <1>8, <1>9

(***************************************************************************)
(* Steps of a conversation                                                 *)
(***************************************************************************)
LEMMA MessagesSayBoth ==
  ASSUME NEW a \in Seq(TalkMessages), NEW b \in Seq(TalkMessages)
  PROVE  MessagesSay(a \o b) = MessagesSay(a) \o MessagesSay(b)
<1>1. Image(ofMessage, a \o b) = Image(ofMessage, a) \o Image(ofMessage, b)
  BY ImageConcat
<1>2. /\ Image(ofMessage, a) \in Seq(Seq(Utterances))
      /\ Image(ofMessage, b) \in Seq(Seq(Utterances))
  BY MessagesSayTypes
<1>3. Flat(Image(ofMessage, a) \o Image(ofMessage, b))
        = Flat(Image(ofMessage, a)) \o Flat(Image(ofMessage, b))
  BY <1>2, FlattenConcat, Zenon
<1> QED
  BY <1>1, <1>3, Zenon DEF MessagesSay

\* Histories of items joined say what both say.
LEMMA ItemsSayBoth ==
  ASSUME NEW a \in Seq(TalkItems), NEW b \in Seq(TalkItems)
  PROVE  ItemsSay(a \o b) = ItemsSay(a) \o ItemsSay(b)
<1>1. Image(ofItem, a \o b) = Image(ofItem, a) \o Image(ofItem, b)
  BY ImageConcat
<1>2. Image(ofItem, a) \in Seq(Seq(Utterances)) /\ Image(ofItem, b) \in Seq(Seq(Utterances))
  BY SayTypes, ImageType
<1>3. Flat(Image(ofItem, a) \o Image(ofItem, b)) = Flat(Image(ofItem, a)) \o Flat(Image(ofItem, b))
  BY <1>2, FlattenConcat, Zenon
<1> QED
  BY <1>1, <1>3, Zenon DEF ItemsSay

\* One message or item says what it says.
LEMMA OneSays ==
  /\ \A m \in TalkMessages : MessagesSay(<<m>>) = ofMessage[m]
  /\ \A it \in TalkItems : ItemsSay(<<it>>) = ofItem[it]
<1>1. ASSUME NEW m \in TalkMessages PROVE MessagesSay(<<m>>) = ofMessage[m]
  <2>1. Image(ofMessage, <<m>>) = <<ofMessage[m]>>
    BY DEF Image
  <2>2. PICK s \in Seq(Utterances) : s = ofMessage[m]
    BY SayTypes
  <2>3. Flat(<<s>>) = s
    BY FlattenOne
  <2> QED
    BY <2>1, <2>2, <2>3, Zenon DEF MessagesSay
<1>2. ASSUME NEW it \in TalkItems PROVE ItemsSay(<<it>>) = ofItem[it]
  <2>1. Image(ofItem, <<it>>) = <<ofItem[it]>>
    BY DEF Image
  <2>2. PICK s \in Seq(Utterances) : s = ofItem[it]
    BY SayTypes
  <2>3. Flat(<<s>>) = s
    BY FlattenOne
  <2> QED
    BY <2>1, <2>2, <2>3, Zenon DEF ItemsSay
<1> QED
  BY <1>1, <1>2

\* Where each says one thing, all say these in their order.
LEMMA SinglesSay ==
  ASSUME NEW S, NEW more \in Seq(S), NEW news \in Seq(Utterances), Len(more) = Len(news), NEW k,
         \A i \in 1 .. Len(news) : k[more[i]] = <<erased[news[i]]>>
  PROVE  Flat(Image(k, more)) = Image(erased, news)
<1> DEFINE single == [x \in Utterances |-> <<x>>]
           told == Image(erased, news)
<1>1. told \in Seq(Utterances) /\ Len(told) = Len(news)
  <2>1. \A x \in Utterances : erased[x] \in Utterances
    BY SayingsUttered
  <2> QED
    BY <2>1, ImageType, ImageAt
<1>2. /\ DOMAIN more = 1 .. Len(news) /\ DOMAIN told = 1 .. Len(news)
      /\ \A i \in 1 .. Len(news) : told[i] \in Utterances /\ told[i] = erased[news[i]]
  <2>1. DOMAIN more = 1 .. Len(news)
    OBVIOUS
  <2>2. \A i \in 1 .. Len(news) : told[i] = erased[news[i]]
    BY ImageAt
  <2> HIDE DEF told
  <2> QED
    BY <1>1, <2>1, <2>2
<1> HIDE DEF told
<1>3. \A i \in 1 .. Len(news) : k[more[i]] = single[told[i]]
  BY <1>2
<1>4. Image(k, more) = Image(single, told)
  <2> HIDE DEF single
  <2> QED
    BY <1>2, <1>3 DEF Image
<1>5. Flat(Image(single, told)) = told
  BY <1>1, FlattenSingles
<1> QED
  BY <1>4, <1>5, Zenon DEF told

\* Nothing but results is erased.
LEMMA NotErased ==
  ASSUME NEW news \in Seq(Utterances), \A i \in 1 .. Len(news) : news[i].kind # "result"
  PROVE  Image(erased, news) = news
<1>1. DOMAIN news = 1 .. Len(news) /\ \A i \in 1 .. Len(news) : news[i] \in Utterances
  OBVIOUS
<1>2. \A i \in DOMAIN news : erased[news[i]] = news[i]
  BY <1>1, SayingsUttered DEF Talk!KnownAt
<1>3. Image(erased, news) = [i \in DOMAIN news |-> news[i]]
  BY <1>2 DEF Image
<1>4. [i \in DOMAIN news |-> news[i]] = news
  OBVIOUS
<1> QED
  BY <1>3, <1>4, Zenon

\* The history goes on with what is uttered.
LEMMA HistoryGrows ==
  ASSUME TalkTyped, HistoryKept, NEW more, NEW news \in Seq(Sayings),
         history' = history \o more, uttered' = uttered \o news, client' = client,
         minted' \in 0 .. Len(TalkIds),
         client = "chat" => more \in Seq(TalkMessages) /\ MessagesSay(more) = Image(erased, news),
         client = "responses" => more \in Seq(TalkItems) /\ ItemsSay(more) = Image(erased, news)
  PROVE  /\ TalkTyped' /\ HistoryKept'
         /\ Members(uttered') = Members(uttered) \cup Members(news)
<1>1. uttered \in Seq(Sayings)
  BY DEF TalkTyped
<1>2. uttered' \in Seq(Sayings)
  <2>1. \A a, b \in Seq(Sayings) : a \o b \in Seq(Sayings)
    OBVIOUS
  <2> QED
    BY <1>1, <2>1, Zenon
<1>3. Members(uttered') = Members(uttered) \cup Members(news)
  <2>1. Members(uttered \o news) = Members(uttered) \cup Members(news)
    BY <1>1, MembersConcat
  <2> QED
    BY <2>1, Zenon
<1>4. Image(erased, uttered \o news) = Image(erased, uttered) \o Image(erased, news)
  BY <1>1, ImageConcat
<1>5. CASE client = "chat" /\ history \in Seq(TalkMessages)
  <2>1. \A a, b \in Seq(TalkMessages) : a \o b \in Seq(TalkMessages)
    OBVIOUS
  <2>2. history' \in Seq(TalkMessages)
    BY <1>5, <2>1, Zenon
  <2>3. MessagesSay(history \o more) = MessagesSay(history) \o MessagesSay(more)
    BY <1>5, MessagesSayBoth
  <2>4. MessagesSay(history) = Image(erased, uttered)
    BY <1>5 DEF HistoryKept, SaidInHistory
  <2>5. MessagesSay(history \o more) = Image(erased, uttered \o news)
    BY <1>4, <1>5, <2>3, <2>4, Zenon
  <2>6. MessagesSay(history') = Image(erased, uttered')
    BY <2>5, Zenon
  <2>7. client' = "chat"
    BY <1>5
  <2>8. HistoryKept'
    BY <2>6, <2>7, Zenon DEF HistoryKept, SaidInHistory
  <2> QED
    BY <1>2, <1>3, <2>2, <2>7, <2>8, Zenon DEF TalkTyped
<1>6. CASE client = "responses" /\ history \in Seq(TalkItems)
  <2>1. \A a, b \in Seq(TalkItems) : a \o b \in Seq(TalkItems)
    OBVIOUS
  <2>2. history' \in Seq(TalkItems)
    BY <1>6, <2>1, Zenon
  <2>3. ItemsSay(history \o more) = ItemsSay(history) \o ItemsSay(more)
    BY <1>6, ItemsSayBoth
  <2>4. ItemsSay(history) = Image(erased, uttered)
    <3>1. client # "chat"
      BY <1>6
    <3> QED
      BY <3>1, Zenon DEF HistoryKept, SaidInHistory
  <2>5. ItemsSay(history \o more) = Image(erased, uttered \o news)
    BY <1>4, <1>6, <2>3, <2>4, Zenon
  <2>6. ItemsSay(history') = Image(erased, uttered')
    BY <2>5, Zenon
  <2>7. client' = "responses" /\ client' # "chat"
    BY <1>6
  <2>8. HistoryKept'
    BY <2>6, <2>7, Zenon DEF HistoryKept, SaidInHistory
  <2> QED
    BY <1>2, <1>3, <2>2, <2>7, <2>8, Zenon DEF TalkTyped
<1> QED
  BY <1>5, <1>6 DEF TalkTyped

\* Texts name nothing.
LEMMA TextsName ==
  ASSUME IdsGiven, IdsNamed, ResultsFollow, NEW N, \A x \in N : x.kind = "text",
         Members(uttered') = Members(uttered) \cup N,
         1 .. minted \subseteq 1 .. minted'
  PROVE  IdsGiven' /\ IdsNamed' /\ ResultsFollow'
<1>1. IdsGiven'
  BY DEF IdsGiven
<1>2. IdsNamed'
  BY DEF IdsNamed
<1>3. ResultsFollow'
  BY DEF ResultsFollow
<1> QED
  BY <1>1, <1>2, <1>3

\* The text of one that speaks.
OneText(text) == IF text THEN <<Talk!Spoke>> ELSE <<>>

\* A text, or its absence, is an utterance without a name to erase.
LEMMA OneTextSays ==
  ASSUME NEW text \in BOOLEAN
  PROVE  /\ OneText(text) \in Seq(Sayings) /\ OneText(text) \in Seq(Utterances)
         /\ Image(erased, OneText(text)) = OneText(text)
         /\ \A x \in Members(OneText(text)) : x.kind = "text"
<1>1. Talk!Spoke \in Sayings /\ Talk!Spoke.kind = "text"
  BY DEF Sayings, Talk!Spoke, Talk!Part
<1>2. OneText(text) \in Seq(Sayings)
  <2> HIDE DEF Sayings
  <2> QED
    BY <1>1 DEF OneText
<1>3. OneText(text) \in Seq(Utterances)
  BY <1>2, SayingsUttered
<1>4. \A i \in 1 .. Len(OneText(text)) : OneText(text)[i].kind = "text"
  BY <1>1 DEF OneText
<1>5. Image(erased, OneText(text)) = OneText(text)
  <2>1. PICK s \in Seq(Utterances) : s = OneText(text)
    BY <1>3
  <2>2. \A i \in 1 .. Len(s) : s[i].kind # "result"
    BY <1>4, <2>1
  <2>3. Image(erased, s) = s
    BY <2>2, NotErased
  <2> QED
    BY <2>1, <2>3, Zenon
<1> QED
  BY <1>2, <1>3, <1>4, <1>5 DEF Members

\* With no request under way there is nothing to compare with the history.
LEMMA NothingAsked ==
  ASSUME sent' = Talk!Idle
  PROVE  AskedAsHeld'
<1>1. Talk!Idle' = Talk!Idle
  BY DEF Talk!Idle
<1> QED
  BY <1>1 DEF AskedAsHeld

\* The client saying something keeps the conversation.
LEMMA TalkSays ==
  ASSUME TalkInv, NEW role \in {"system", "user"}, NEW text \in BOOLEAN, Talk!Say(role, text)
  PROVE  TalkInv'
<1> DEFINE m == Talk!Message(role, text, <<>>)
           it == Talk!Item("message", role, text, Nothing, Nothing)
           more == IF client = "chat" THEN <<m>> ELSE <<it>>
           aloud == text /\ role # "system"
           news == OneText(aloud)
<1>1. aloud \in BOOLEAN
  OBVIOUS
<1>2. m \in TalkMessages /\ it \in TalkItems
  BY DEF Talk!Message, TalkMessages, Talk!Item, TalkItems
<1>3. ofMessage[m] = news /\ ofItem[it] = news
  <2>1. m.role = role /\ m.text = text /\ m.calls = <<>>
    BY DEF Talk!Message
  <2>2. it.type = "message" /\ it.role = role /\ it.text = text
    BY DEF Talk!Item
  <2> HIDE DEF m, it
  <2>3. ofItem[it] = news
    BY <1>2, <2>2 DEF ofItem, OneText
  <2>4. CASE role = "system"
    <3>1. ofMessage[m] = <<>>
      BY <1>2, <2>1, <2>4, MessageCases
    <3> QED
      BY <2>3, <2>4, <3>1 DEF OneText
  <2>5. CASE role = "user"
    <3>1. ofMessage[m] = Talk!TextOf(m)
      <4>1. ofMessage[m] = Talk!TextOf(m) \o Talk!CallsOf(m)
        BY <1>2, <2>1, <2>5, MessageCases
      <4>2. Talk!TextOf(m) \o Talk!CallsOf(m) = Talk!TextOf(m)
        BY <1>2, <2>1, MessageCases
      <4> QED
        BY <4>1, <4>2, Zenon
    <3>2. Talk!TextOf(m) = news
      BY <2>1, <2>5 DEF Talk!TextOf, OneText
    <3> QED
      BY <2>3, <3>1, <3>2, Zenon
  <2> QED
    BY <2>4, <2>5
<1> HIDE DEF m, it
<1>4. /\ history' = history \o more /\ sent' = Talk!Idle /\ client' = client
      /\ minted' = minted
  <2>1. /\ history' = Append(history, IF client = "chat" THEN m ELSE it)
        /\ sent = Talk!Idle /\ UNCHANGED <<client, sent, minted>>
    BY Zenon DEF Talk!Say, m, it
  <2>2. CASE client = "chat" /\ history \in Seq(TalkMessages)
    <3>1. history' = Append(history, m)
      BY <2>1, <2>2
    <3> QED
      BY <1>2, <2>1, <2>2, <3>1
  <2>3. CASE client = "responses" /\ history \in Seq(TalkItems)
    <3>1. history' = Append(history, it)
      BY <2>1, <2>3
    <3> QED
      BY <1>2, <2>1, <2>3, <3>1
  <2> QED
    BY <2>2, <2>3 DEF TalkInv, TalkTyped
<1>5. uttered' = uttered \o news
  <2>1. uttered \in Seq(Sayings)
    BY DEF TalkInv, TalkTyped
  <2>2. uttered \o <<>> = uttered
    BY <2>1
  <2>3. uttered' = IF aloud THEN uttered \o <<Talk!Spoke>> ELSE uttered
    BY Zenon DEF Talk!Say
  <2> HIDE DEF aloud
  <2> QED
    BY <2>2, <2>3, Zenon DEF OneText
<1> HIDE DEF aloud
<1>6. /\ news \in Seq(Sayings) /\ Image(erased, news) = news
      /\ \A x \in Members(news) : x.kind = "text"
  BY <1>1, OneTextSays
<1> HIDE DEF news
<1>7. /\ client = "chat" => more \in Seq(TalkMessages) /\ MessagesSay(more) = Image(erased, news)
      /\ client = "responses" => more \in Seq(TalkItems) /\ ItemsSay(more) = Image(erased, news)
  <2>1. <<m>> \in Seq(TalkMessages) /\ <<it>> \in Seq(TalkItems)
    BY <1>2
  <2>2. MessagesSay(<<m>>) = news /\ ItemsSay(<<it>>) = news
    BY <1>2, <1>3, OneSays, Zenon
  <2>3. "chat" # "responses"
    OBVIOUS
  <2>4. client = "chat" => more = <<m>>
    OBVIOUS
  <2>5. client = "responses" => more = <<it>>
    BY <2>3, Zenon
  <2> HIDE DEF more
  <2> QED
    BY <1>6, <2>1, <2>2, <2>4, <2>5, Zenon
<1> HIDE DEF more
<1>8. minted \in 0 .. Len(TalkIds) /\ TalkTyped /\ HistoryKept
  BY DEF TalkInv, TalkTyped
<1>9. /\ TalkTyped' /\ HistoryKept'
      /\ Members(uttered') = Members(uttered) \cup Members(news)
  <2>1. minted' \in 0 .. Len(TalkIds)
    BY <1>4, <1>8
  <2> QED
    BY <1>4, <1>5, <1>6, <1>7, <1>8, <2>1, HistoryGrows
<1>10. IdsGiven' /\ IdsNamed' /\ ResultsFollow'
  BY <1>4, <1>6, <1>9, TextsName DEF TalkInv
<1>11. AskedAsHeld'
  BY <1>4, NothingAsked
<1> QED
  BY <1>9, <1>10, <1>11 DEF TalkInv

\* What the client holds while it waits is what was asked with.
LEMMA TalkAsks ==
  ASSUME TalkInv, NEW p \in Talk!Providers, Talk!Ask(p)
  PROVE  TalkInv'
<1>1. UNCHANGED <<client, history, minted, uttered>>
  BY DEF Talk!Ask
<1>2. /\ offered' \in {TalkNames, TalkNames \cup OtherTools}
      /\ sent' = [to |-> p, turns |-> Talk!Turns(p, Talk!Messages),
                  tools |-> Talk!ToolsFor(p, Talk!ChatTools(offered'))]
  BY Zenon DEF Talk!Ask
<1>3. TalkNames \subseteq Talk!ToolsFor(p, Talk!ChatTools(offered'))
  BY <1>2 DEF Talk!ToolsFor, Talk!ChatTools
<1>4. Talk!Messages' = Talk!Messages
  BY <1>1 DEF Talk!Messages
<1>5. AskedAsHeld'
  <2>1. sent'.to = p /\ sent'.turns = Talk!Turns(p, Talk!Messages) /\ TalkNames \subseteq sent'.tools
    BY <1>2, <1>3
  <2>2. sent'.turns = Talk!Turns(p, Talk!Messages')
    BY <1>4, <2>1, Zenon
  <2> QED
    BY <2>1, <2>2 DEF AskedAsHeld
<1>6. /\ TalkTyped' /\ HistoryKept' /\ IdsGiven' /\ IdsNamed' /\ ResultsFollow'
  BY <1>1 DEF TalkInv, TalkTyped, HistoryKept, SaidInHistory, IdsGiven, IdsNamed, ResultsFollow
<1> QED
  BY <1>5, <1>6 DEF TalkInv

\* So does a step that leaves the history alone and asks nothing new.
LEMMA TalkRests ==
  ASSUME TalkInv, UNCHANGED <<client, history, minted, uttered>>,
         sent' = sent \/ sent' = Talk!Idle
  PROVE  TalkInv'
<1>1. /\ TalkTyped' /\ HistoryKept' /\ IdsGiven' /\ IdsNamed' /\ ResultsFollow'
  BY DEF TalkInv, TalkTyped, HistoryKept, SaidInHistory, IdsGiven, IdsNamed, ResultsFollow
<1>2. CASE sent' = Talk!Idle
  BY <1>1, <1>2, NothingAsked DEF TalkInv
<1>3. CASE sent' = sent
  <2>1. Talk!Messages' = Talk!Messages
    BY DEF Talk!Messages
  <2>2. AskedAsHeld
    BY DEF TalkInv
  <2>3. AskedAsHeld'
    BY <1>3, <2>1, <2>2 DEF AskedAsHeld, Talk!Idle
  <2> QED
    BY <1>1, <2>3 DEF TalkInv
<1> QED
  BY <1>2, <1>3

\* The empty conversation is kept.
LEMMA TalkBegins ==
  Talk!Init => TalkInv
<1> SUFFICES ASSUME Talk!Init PROVE TalkInv
  OBVIOUS
<1>1. /\ client \in {"chat", "responses"} /\ history = <<>> /\ minted = 0 /\ uttered = <<>>
      /\ sent = Talk!Idle
  BY DEF Talk!Init
<1>2. Members(<<>>) = {}
  BY DEF Members
<1>3. Len(TalkIds) \in Nat
  BY TalkAssumption
<1>4. TalkTyped
  <2>1. <<>> \in Seq(TalkMessages) /\ <<>> \in Seq(TalkItems) /\ <<>> \in Seq(Sayings)
    OBVIOUS
  <2>2. minted \in 0 .. Len(TalkIds)
    BY <1>1, <1>3
  <2>3. client = "chat" \/ client = "responses"
    BY <1>1
  <2> QED
    BY <1>1, <2>1, <2>2, <2>3, Zenon DEF TalkTyped
<1>5. MessagesSay(<<>>) = <<>> /\ ItemsSay(<<>>) = <<>>
  BY ImageEmpty, FlattenEmpty, Zenon DEF MessagesSay, ItemsSay
<1>6. HistoryKept
  BY <1>1, <1>5, ImageEmpty, Zenon DEF HistoryKept, SaidInHistory
<1>7. IdsGiven /\ IdsNamed /\ ResultsFollow
  BY <1>1, <1>2 DEF IdsGiven, IdsNamed, ResultsFollow
<1>8. AskedAsHeld
  BY <1>1 DEF AskedAsHeld
<1> QED
  BY <1>4, <1>6, <1>7, <1>8 DEF TalkInv

\* The calls that are given.
CallsBy(ids, names) == [i \in DOMAIN ids |-> Talk!Part("call", ids[i], names[i])]

\* The calls of an answer are utterances whose names nothing erases.
LEMMA CallsAre ==
  ASSUME NEW names \in Seq(TalkNames), NEW ids \in Seq(TalkKeys), Len(ids) = Len(names)
  PROVE  /\ CallsBy(ids, names) \in Seq(Sayings) /\ CallsBy(ids, names) \in Seq(Utterances)
         /\ Len(CallsBy(ids, names)) = Len(names)
         /\ Image(erased, CallsBy(ids, names)) = CallsBy(ids, names)
         /\ \A i \in 1 .. Len(names) :
              /\ CallsBy(ids, names)[i] = Talk!Part("call", ids[i], names[i])
              /\ erased[CallsBy(ids, names)[i]] = CallsBy(ids, names)[i]
         /\ \A x \in Members(CallsBy(ids, names)) : \E i \in 1 .. Len(names) :
              x.kind = "call" /\ x.id = ids[i] /\ x.name = names[i]
<1> DEFINE news == CallsBy(ids, names)
<1>1. DOMAIN ids = 1 .. Len(names) /\ Len(names) \in Nat
  OBVIOUS
<1>2. ASSUME NEW i \in 1 .. Len(names)
      PROVE  Talk!Part("call", ids[i], names[i]) \in Sayings
  <2>1. ids[i] \in TalkKeys /\ names[i] \in TalkNames
    OBVIOUS
  <2> QED
    BY <2>1 DEF Talk!Part, Sayings
<1>3. \A i \in 1 .. Len(names) : news[i] = Talk!Part("call", ids[i], names[i])
  BY <1>1 DEF CallsBy
<1>4. news \in Seq(Sayings) /\ Len(news) = Len(names)
  <2> HIDE DEF Sayings, Talk!Part
  <2> QED
    BY <1>1, <1>2 DEF CallsBy
<1> HIDE DEF news
<1>5. news \in Seq(Utterances)
  BY <1>4, SayingsUttered
<1>6. ASSUME NEW i \in 1 .. Len(news)
      PROVE  news[i].kind = "call" /\ news[i].id = ids[i] /\ news[i].name = names[i]
  <2>1. news[i] = Talk!Part("call", ids[i], names[i])
    BY <1>3, <1>4, Zenon
  <2> QED
    BY <2>1 DEF Talk!Part
<1>7. Image(erased, news) = news
  <2>1. \A i \in 1 .. Len(news) : news[i].kind # "result"
    BY <1>6
  <2> QED
    BY <1>5, <2>1, NotErased
<1>8. \A i \in 1 .. Len(names) : erased[news[i]] = news[i]
  <2>1. \A i \in 1 .. Len(news) : Image(erased, news)[i] = erased[news[i]]
    BY <1>5, ImageAt
  <2> QED
    BY <1>4, <1>7, <2>1
<1>9. \A x \in Members(news) : \E i \in 1 .. Len(names) :
        x.kind = "call" /\ x.id = ids[i] /\ x.name = names[i]
  BY <1>4, <1>6 DEF Members
<1> QED
  BY <1>3, <1>4, <1>5, <1>7, <1>8, <1>9 DEF news

\* An answer is held as it was given.
LEMMA AnswerHeld ==
  ASSUME NEW text \in BOOLEAN, NEW names \in Seq(TalkNames), NEW ids \in Seq(TalkKeys),
         Len(ids) = Len(names), client \in {"chat", "responses"},
         NEW more, more = Talk!Answered(text, ids, names)
  PROVE  /\ client = "chat" => /\ more \in Seq(TalkMessages)
                               /\ MessagesSay(more) = OneText(text) \o CallsBy(ids, names)
         /\ client = "responses" => /\ more \in Seq(TalkItems)
                                    /\ ItemsSay(more) = OneText(text) \o CallsBy(ids, names)
<1> DEFINE news == CallsBy(ids, names)
<1> DEFINE calls == [i \in DOMAIN ids |-> [id |-> ids[i], name |-> names[i]]]
           items == [i \in DOMAIN ids |->
                       Talk!Item("function_call", Nothing, FALSE, ids[i], names[i])]
           line == Talk!Item("message", "assistant", TRUE, Nothing, Nothing)
           word  == IF text THEN <<line>> ELSE <<>>
           thought == Talk!Item("reasoning", Nothing, FALSE, Nothing, Nothing)
           m == Talk!Message("assistant", text, calls)
<1>1. /\ DOMAIN ids = 1 .. Len(names) /\ Len(names) \in Nat
      /\ \A i \in 1 .. Len(names) : ids[i] \in TalkKeys /\ names[i] \in TalkNames
  OBVIOUS
<1>2. /\ news \in Seq(Utterances) /\ Len(news) = Len(names) /\ Image(erased, news) = news
      /\ \A i \in 1 .. Len(names) : /\ news[i] = Talk!Part("call", ids[i], names[i])
                                    /\ erased[news[i]] = news[i]
  BY CallsAre
<1> HIDE DEF news
<1>3. CASE client = "chat"
  <2>1. more = <<m>>
    BY <1>3 DEF Talk!Answered
  <2>2. calls \in Seq(TalkCalls)
    <3>1. \A i \in 1 .. Len(names) : [id |-> ids[i], name |-> names[i]] \in TalkCalls
      BY <1>1 DEF TalkCalls
    <3> QED
      BY <1>1, <3>1
  <2>3. DOMAIN calls = DOMAIN ids /\ \A i \in DOMAIN ids : calls[i].id = ids[i] /\ calls[i].name = names[i]
    OBVIOUS
  <2> HIDE DEF calls
  <2>4. m \in TalkMessages /\ m.role = "assistant" /\ m.text = text /\ m.calls = calls
    BY <2>2 DEF Talk!Message, TalkMessages
  <2> HIDE DEF m
  <2>5. Talk!CallsOf(m) = news
    BY <2>3, <2>4 DEF Talk!CallsOf, CallsBy, news
  <2>6. ofMessage[m] = Talk!TextOf(m) \o Talk!CallsOf(m)
    BY <2>4, MessageCases
  <2>7. Talk!TextOf(m) = OneText(text)
    BY <2>4 DEF Talk!TextOf, OneText
  <2>8. MessagesSay(<<m>>) = ofMessage[m] /\ <<m>> \in Seq(TalkMessages)
    BY <2>4, OneSays
  <2>9. client # "responses"
    BY <1>3
  <2> QED
    BY <2>1, <2>5, <2>6, <2>7, <2>8, <2>9, Zenon DEF news
<1>4. CASE client = "responses"
  <2>1. more = word \o items \/ more = <<thought>> \o word \o items
    <3>1. client # "chat"
      BY <1>4, SMTT(20)
    <3> QED
      BY <3>1, ZenonT(40) DEF Talk!Answered
  <2>2. ASSUME NEW i \in 1 .. Len(names)
        PROVE  /\ items[i] \in TalkItems
               /\ ofItem[items[i]] = <<Talk!Part("call", ids[i], names[i])>>
    <3> DEFINE it == Talk!Item("function_call", Nothing, FALSE, ids[i], names[i])
    <3>1. it \in TalkItems /\ it.type = "function_call" /\ it.id = ids[i] /\ it.name = names[i]
      BY <1>1 DEF Talk!Item, TalkItems
    <3>2. items[i] = it
      BY <1>1
    <3> HIDE DEF it, items
    <3>3. ofItem[it] = <<Talk!Part("call", it.id, it.name)>>
      BY <3>1, Zenon DEF ofItem
    <3> QED
      BY <3>1, <3>2, <3>3, Zenon
  <2>3. items \in Seq(TalkItems) /\ Len(items) = Len(names)
    <3>1. DOMAIN items = 1 .. Len(names) /\ items = [i \in 1 .. Len(names) |-> items[i]]
      BY <1>1
    <3> HIDE DEF items
    <3> QED
      BY <1>1, <2>2, <3>1
  <2> HIDE DEF items
  <2>4. ItemsSay(items) = news
    <3>1. ASSUME NEW i \in 1 .. Len(news)
          PROVE  ofItem[items[i]] = <<erased[news[i]]>>
      <4>1. i \in 1 .. Len(names)
        BY <1>2, Zenon
      <4>2. news[i] = Talk!Part("call", ids[i], names[i]) /\ erased[news[i]] = news[i]
        BY <1>2, <4>1, Zenon
      <4>3. ofItem[items[i]] = <<Talk!Part("call", ids[i], names[i])>>
        BY <2>2, <4>1, Zenon
      <4> QED
        BY <4>2, <4>3, Zenon
    <3>2. Len(items) = Len(news)
      BY <1>2, <2>3
    <3>3. Flat(Image(ofItem, items)) = Image(erased, news)
      BY <1>2, <2>3, <3>1, <3>2, SinglesSay
    <3> QED
      BY <1>2, <3>3, Zenon DEF ItemsSay
  <2>5. line \in TalkItems /\ ofItem[line] = <<Talk!Spoke>>
    <3>1. /\ line \in TalkItems /\ line.type = "message" /\ line.role = "assistant"
          /\ line.text = TRUE
      BY DEF Talk!Item, TalkItems
    <3> HIDE DEF line
    <3> QED
      BY <3>1 DEF ofItem
  <2>6. thought \in TalkItems /\ ofItem[thought] = <<>>
    <3>1. thought \in TalkItems /\ thought.type = "reasoning"
      BY DEF Talk!Item, TalkItems
    <3> HIDE DEF thought
    <3> QED
      BY <3>1 DEF ofItem
  <2> HIDE DEF line, thought
  <2>7. word \in Seq(TalkItems) /\ ItemsSay(word) = OneText(text)
    <3>1. ItemsSay(<<line>>) = <<Talk!Spoke>> /\ ItemsSay(<<>>) = <<>>
      BY <2>5, OneSays, ImageEmpty, FlattenEmpty, Zenon DEF ItemsSay
    <3>2. <<line>> \in Seq(TalkItems) /\ <<>> \in Seq(TalkItems)
      BY <2>5
    <3> QED
      BY <3>1, <3>2, Zenon DEF OneText
  <2> HIDE DEF word
  <2>8. word \o items \in Seq(TalkItems) /\ ItemsSay(word \o items) = OneText(text) \o news
    <3>1. word \o items \in Seq(TalkItems)
      BY <2>3, <2>7
    <3>2. ItemsSay(word \o items) = ItemsSay(word) \o ItemsSay(items)
      BY <2>3, <2>7, ItemsSayBoth
    <3> QED
      BY <2>4, <2>7, <3>1, <3>2, Zenon
  <2>9. /\ <<thought>> \o word \in Seq(TalkItems) /\ ItemsSay(<<thought>> \o word) = OneText(text)
    <3>1. PICK one \in Seq(TalkItems) : one = <<thought>>
      <4>1. <<thought>> \in Seq(TalkItems)
        BY <2>6
      <4> QED
        BY <4>1, Zenon
    <3>2. one \o word \in Seq(TalkItems)
      BY <2>7
    <3>3. ItemsSay(one \o word) = ItemsSay(one) \o ItemsSay(word)
      BY <2>7, ItemsSayBoth
    <3>4. ItemsSay(one) = <<>>
      BY <2>6, <3>1, OneSays, Zenon
    <3>5. <<>> \o OneText(text) = OneText(text)
      BY OneTextSays
    <3> QED
      BY <2>7, <3>1, <3>2, <3>3, <3>4, <3>5, Zenon
  <2>10. /\ <<thought>> \o word \o items \in Seq(TalkItems)
         /\ ItemsSay(<<thought>> \o word \o items) = OneText(text) \o news
    <3>1. PICK both \in Seq(TalkItems) : both = <<thought>> \o word
      BY <2>9, Zenon
    <3>2. both \o items \in Seq(TalkItems)
      BY <2>3
    <3>3. ItemsSay(both \o items) = ItemsSay(both) \o ItemsSay(items)
      BY <2>3, ItemsSayBoth
    <3> QED
      BY <2>4, <2>9, <3>1, <3>2, <3>3, Zenon
  <2>11. client # "chat"
    BY <1>4
  <2> QED
    BY <2>1, <2>8, <2>10, <2>11, Zenon DEF news
<1> QED
  BY <1>3, <1>4 DEF news

\* An id that is given is new, and a function's own name names it.
LEMMA CallsNamed ==
  ASSUME TalkTyped, IdsGiven, IdsNamed, ResultsFollow,
         NEW names \in Seq(TalkNames), NEW ids \in Seq(TalkKeys), Len(ids) = Len(names),
         minted + Len(names) <= Len(TalkIds), minted' = minted + Len(names),
         \/ ids = names
         \/ \A i \in 1 .. Len(names) : ids[i] = TalkIds[minted + i],
         NEW N, \A x \in N : \/ x.kind = "text"
                             \/ \E i \in 1 .. Len(names) :
                                  x.kind = "call" /\ x.id = ids[i] /\ x.name = names[i],
         Members(uttered') = Members(uttered) \cup N
  PROVE  IdsGiven' /\ IdsNamed' /\ ResultsFollow'
<1>1. /\ minted \in Nat /\ Len(names) \in Nat /\ Len(TalkIds) \in Nat
      /\ DOMAIN TalkIds = 1 .. Len(TalkIds)
  <2>1. Len(TalkIds) \in Nat /\ DOMAIN TalkIds = 1 .. Len(TalkIds)
    BY TalkAssumption
  <2> QED
    BY <2>1 DEF TalkTyped
<1>2. ASSUME NEW x \in Members(uttered), x.kind # "text"
      PROVE  /\ x.name \in TalkNames
             /\ x.id = x.name \/ \E k \in 1 .. minted : x.id = TalkIds[k]
  <2>1. Members(uttered) \subseteq Sayings
    BY MembersType DEF TalkTyped
  <2> QED
    BY <1>2, <2>1 DEF Sayings, IdsGiven
<1>3. \A i \in 1 .. Len(names) : names[i] \in TalkNames
  OBVIOUS
<1>4. \A k \in 1 .. minted : k \in 1 .. minted' /\ k \in DOMAIN TalkIds
  BY <1>1
<1>5. \A i \in 1 .. Len(names) :
        minted + i \in 1 .. minted' /\ minted + i \in DOMAIN TalkIds
  BY <1>1
<1>6. \A k \in 1 .. minted, i \in 1 .. Len(names) : k # minted + i
  BY <1>1
<1>7. \A i, j \in 1 .. Len(names) : minted + i = minted + j => i = j
  BY <1>1
<1>8. IdsGiven'
  <2> SUFFICES ASSUME NEW x \in Members(uttered'), x.kind # "text"
               PROVE  x.id = x.name \/ \E k \in 1 .. minted' : x.id = TalkIds[k]
    BY DEF IdsGiven
  <2>1. CASE x \in Members(uttered)
    BY <1>2, <1>4, <2>1
  <2>2. CASE x \in N
    <3>1. PICK i \in 1 .. Len(names) : x.kind = "call" /\ x.id = ids[i] /\ x.name = names[i]
      BY <2>2
    <3> QED
      BY <1>5, <3>1
  <2> QED
    BY <2>1, <2>2
<1>9. ASSUME NEW x \in Members(uttered), NEW y \in N, x.kind # "text", y.kind # "text",
             x.id = y.id
      PROVE  x.name = y.name
  <2>1. PICK i \in 1 .. Len(names) : y.id = ids[i] /\ y.name = names[i]
    BY <1>9
  <2>2. x.name \in TalkNames /\ (x.id = x.name \/ \E k \in 1 .. minted : x.id = TalkIds[k])
    BY <1>2, <1>9
  <2>3. CASE ids = names
    <3>1. x.id \in TalkNames /\ y.id = y.name
      BY <1>3, <1>9, <2>1, <2>3
    <3>2. \A k \in 1 .. minted : x.id # TalkIds[k]
      BY <1>4, <3>1, TalkAssumption
    <3> QED
      BY <1>9, <2>2, <3>1, <3>2
  <2>4. CASE \A j \in 1 .. Len(names) : ids[j] = TalkIds[minted + j]
    <3>1. x.id = TalkIds[minted + i] /\ minted + i \in DOMAIN TalkIds
      BY <1>5, <1>9, <2>1, <2>4
    <3>2. x.id \notin TalkNames
      BY <3>1, TalkAssumption
    <3>3. PICK k \in 1 .. minted : x.id = TalkIds[k]
      BY <2>2, <3>2
    <3>4. k = minted + i
      BY <1>4, <3>1, <3>3, TalkAssumption, Zenon
    <3> QED
      BY <1>6, <2>1, <3>3, <3>4, Zenon
  <2> QED
    BY <2>3, <2>4
<1>10. ASSUME NEW x \in N, NEW y \in N, x.kind # "text", y.kind # "text", x.id = y.id
       PROVE  x.name = y.name
  <2>1. PICK i \in 1 .. Len(names) : x.id = ids[i] /\ x.name = names[i]
    BY <1>10
  <2>2. PICK j \in 1 .. Len(names) : y.id = ids[j] /\ y.name = names[j]
    BY <1>10
  <2>3. CASE ids = names
    BY <1>10, <2>1, <2>2, <2>3
  <2>4. CASE \A l \in 1 .. Len(names) : ids[l] = TalkIds[minted + l]
    <3>1. TalkIds[minted + i] = TalkIds[minted + j]
      BY <1>10, <2>1, <2>2, <2>4, Zenon
    <3>2. minted + i = minted + j
      BY <1>5, <3>1, TalkAssumption, Zenon
    <3> QED
      BY <1>7, <2>1, <2>2, <3>2, Zenon
  <2> QED
    BY <2>3, <2>4
<1>11. IdsNamed'
  BY <1>9, <1>10 DEF IdsNamed
<1>12. ResultsFollow'
  <2>1. \A x \in N : x.kind # "result"
    OBVIOUS
  <2> QED
    BY <2>1 DEF ResultsFollow
<1> QED
  BY <1>8, <1>11, <1>12

\* A provider's answer, with ids of its own or minted ones, keeps the conversation.
LEMMA TalkAnswers ==
  ASSUME TalkInv, NEW text \in BOOLEAN, NEW n \in 0 .. 2, NEW names \in [1 .. n -> TalkNames],
         Talk!Answer(text, names)
  PROVE  TalkInv'
<1>1. names \in Seq(TalkNames) /\ DOMAIN names = 1 .. Len(names) /\ Len(names) \in Nat
  OBVIOUS
<1>2. /\ minted + Len(names) <= Len(TalkIds) /\ minted' = minted + Len(names)
      /\ sent' = Talk!Idle /\ client' = client
  BY DEF Talk!Answer
<1>3. PICK ids \in {Talk!IdsFor(names)} \cup (IF sent.to = "google" THEN {names} ELSE {}) :
        /\ history' = history \o Talk!Answered(text, ids, names)
        /\ uttered' = uttered \o (IF text THEN <<Talk!Spoke>> ELSE <<>>)
                        \o [i \in DOMAIN ids |-> Talk!Part("call", ids[i], names[i])]
  BY Zenon DEF Talk!Answer
<1>4. /\ minted \in Nat /\ Len(TalkIds) \in Nat /\ DOMAIN TalkIds = 1 .. Len(TalkIds)
      /\ uttered \in Seq(Sayings) /\ client \in {"chat", "responses"}
  <2>1. Len(TalkIds) \in Nat /\ DOMAIN TalkIds = 1 .. Len(TalkIds)
    BY TalkAssumption
  <2> QED
    BY <2>1 DEF TalkInv, TalkTyped
<1>5. /\ ids \in Seq(TalkKeys) /\ Len(ids) = Len(names)
      /\ ids = names \/ \A i \in 1 .. Len(names) : ids[i] = TalkIds[minted + i]
  <2>1. CASE ids = names
    <3>1. \A i \in 1 .. Len(names) : names[i] \in TalkKeys
      BY <1>1 DEF TalkKeys
    <3>2. names \in Seq(TalkKeys)
      BY <1>1, <3>1
    <3> QED
      BY <2>1, <3>2
  <2>2. CASE ids = Talk!IdsFor(names)
    <3>1. ids = [i \in 1 .. Len(names) |-> TalkIds[minted + i]]
      BY <1>1, <2>2 DEF Talk!IdsFor
    <3>2. \A i \in 1 .. Len(names) : minted + i \in DOMAIN TalkIds
      BY <1>1, <1>2, <1>4
    <3>3. \A i \in 1 .. Len(names) : TalkIds[minted + i] \in TalkKeys
      BY <3>2 DEF TalkKeys
    <3> QED
      BY <1>1, <3>1, <3>3
  <2> QED
    BY <1>3, <2>1, <2>2
<1> DEFINE calls == CallsBy(ids, names)
           word == OneText(text)
           more == Talk!Answered(text, ids, names)
<1>6. /\ calls \in Seq(Sayings) /\ Image(erased, calls) = calls
      /\ \A x \in Members(calls) : \E i \in 1 .. Len(names) :
           x.kind = "call" /\ x.id = ids[i] /\ x.name = names[i]
  BY <1>1, <1>5, CallsAre
<1>7. /\ word \in Seq(Sayings) /\ Image(erased, word) = word
      /\ \A x \in Members(word) : x.kind = "text"
  BY OneTextSays
<1>8. /\ client = "chat" => more \in Seq(TalkMessages) /\ MessagesSay(more) = word \o calls
      /\ client = "responses" => more \in Seq(TalkItems) /\ ItemsSay(more) = word \o calls
  BY <1>1, <1>4, <1>5, AnswerHeld
<1>9. uttered' = (uttered \o word) \o calls
  BY <1>3, Zenon DEF OneText, CallsBy
<1>10. history' = history \o more
  BY <1>3
<1> HIDE DEF calls, word, more
<1>11. PICK news \in Seq(Sayings) : news = word \o calls
  <2>1. \A a, b \in Seq(Sayings) : a \o b \in Seq(Sayings)
    OBVIOUS
  <2> QED
    BY <1>6, <1>7, <2>1, Zenon
<1>12. uttered' = uttered \o news
  <2>1. \A a, b, c \in Seq(Sayings) : (a \o b) \o c = a \o (b \o c)
    BY ConcatAssociative, SMTT(20)
  <2> QED
    BY <1>4, <1>6, <1>7, <1>9, <1>11, <2>1, ZenonT(40)
<1>13. Image(erased, news) = news
  <2>1. Image(erased, word \o calls) = Image(erased, word) \o Image(erased, calls)
    <3>1. word \in Seq(Sayings) /\ calls \in Seq(Sayings)
      BY <1>6, <1>7, Zenon
    <3> QED
      BY <3>1, ImageConcat
  <2> QED
    BY <1>6, <1>7, <1>11, <2>1, Zenon
<1>14. Members(news) = Members(word) \cup Members(calls)
  <2>1. Members(word \o calls) = Members(word) \cup Members(calls)
    BY <1>6, <1>7, MembersConcat
  <2> QED
    BY <1>11, <2>1, Zenon
<1>15. /\ TalkTyped' /\ HistoryKept'
       /\ Members(uttered') = Members(uttered) \cup Members(news)
  <2>1. minted' \in 0 .. Len(TalkIds)
    BY <1>1, <1>2, <1>4
  <2>2. /\ client = "chat" => more \in Seq(TalkMessages) /\ MessagesSay(more) = Image(erased, news)
        /\ client = "responses" => more \in Seq(TalkItems) /\ ItemsSay(more) = Image(erased, news)
    BY <1>8, <1>11, <1>13, Zenon
  <2> QED
    BY <1>2, <1>10, <1>12, <2>1, <2>2, HistoryGrows DEF TalkInv
<1>16. IdsGiven' /\ IdsNamed' /\ ResultsFollow'
  <2>1. \A x \in Members(news) :
          \/ x.kind = "text"
          \/ \E i \in 1 .. Len(names) : x.kind = "call" /\ x.id = ids[i] /\ x.name = names[i]
    BY <1>6, <1>7, <1>14
  <2>2. TalkTyped /\ IdsGiven /\ IdsNamed /\ ResultsFollow
    BY <1>2, Zenon DEF TalkInv
  <2> QED
    BY <1>1, <1>2, <1>5, <1>15, <2>1, <2>2, CallsNamed, ZenonT(40)
<1>17. AskedAsHeld'
  BY <1>2, NothingAsked
<1> QED
  BY <1>15, <1>16, <1>17 DEF TalkInv

\* What messages say is what each of them says, and so for items.
LEMMA AllSay ==
  /\ \A ms \in Seq(TalkMessages) : \A m \in Members(ms) :
       Members(ofMessage[m]) \subseteq Members(MessagesSay(ms))
  /\ \A items \in Seq(TalkItems) : \A it \in Members(items) :
       Members(ofItem[it]) \subseteq Members(ItemsSay(items))
<1>1. ASSUME NEW ms \in Seq(TalkMessages), NEW m \in Members(ms)
      PROVE  Members(ofMessage[m]) \subseteq Members(MessagesSay(ms))
  <2>1. Image(ofMessage, ms) \in Seq(Seq(Utterances))
    BY MessagesSayTypes
  <2>2. Members(MessagesSay(ms)) = UNION {Members(s) : s \in Members(Image(ofMessage, ms))}
    BY <2>1, FlattenMembers, Zenon DEF MessagesSay
  <2>3. Members(Image(ofMessage, ms)) = {ofMessage[x] : x \in Members(ms)}
    BY MembersImage
  <2> QED
    BY <2>2, <2>3
<1>2. ASSUME NEW items \in Seq(TalkItems), NEW it \in Members(items)
      PROVE  Members(ofItem[it]) \subseteq Members(ItemsSay(items))
  <2>1. Image(ofItem, items) \in Seq(Seq(Utterances))
    BY SayTypes, ImageType
  <2>2. Members(ItemsSay(items)) = UNION {Members(s) : s \in Members(Image(ofItem, items))}
    BY <2>1, FlattenMembers, Zenon DEF ItemsSay
  <2>3. Members(Image(ofItem, items)) = {ofItem[x] : x \in Members(items)}
    BY MembersImage
  <2> QED
    BY <2>2, <2>3
<1> QED
  BY <1>1, <1>2

\* The items of a type are items of the history with that type.
LEMMA OfTypeIs ==
  ASSUME history \in Seq(TalkItems), NEW type
  PROVE  /\ Talk!OfType(type) \in Seq(TalkItems)
         /\ \A it \in Members(Talk!OfType(type)) : it \in Members(history) /\ it.type = type
<1> DEFINE typed == [it \in TalkItems |-> IF it.type = type THEN <<it>> ELSE <<>>]
<1>1. \A i \in DOMAIN history : history[i] \in TalkItems
  OBVIOUS
<1>2. Image(typed, history)
        = [i \in DOMAIN history |-> IF history[i].type = type THEN <<history[i]>> ELSE <<>>]
  BY <1>1 DEF Image
<1>3. Talk!OfType(type) = Flat(Image(typed, history))
  BY <1>2, Zenon DEF Talk!OfType, Flat
<1>4. ASSUME NEW it \in TalkItems
      PROVE  /\ typed[it] \in Seq(TalkItems)
             /\ \A x \in Members(typed[it]) : x = it /\ it.type = type
  <2>1. typed[it] = IF it.type = type THEN <<it>> ELSE <<>>
    OBVIOUS
  <2> HIDE DEF typed
  <2>2. <<it>> \in Seq(TalkItems) /\ <<>> \in Seq(TalkItems)
    OBVIOUS
  <2>3. Members(<<it>>) = {it} /\ Members(<<>>) = {}
    BY DEF Members
  <2> QED
    BY <2>1, <2>2, <2>3
<1> HIDE DEF typed
<1>5. Image(typed, history) \in Seq(Seq(TalkItems))
  BY <1>4, ImageType
<1>6. Talk!OfType(type) \in Seq(TalkItems)
  BY <1>3, <1>5, FlattenType, Zenon
<1>7. Members(Flat(Image(typed, history))) = UNION {Members(s) : s \in Members(Image(typed, history))}
  BY <1>5, FlattenMembers, Zenon
<1>8. Members(Image(typed, history)) = {typed[it] : it \in Members(history)}
  BY MembersImage
<1>9. Members(history) \subseteq TalkItems
  BY MembersType
<1>10. ASSUME NEW x \in Members(Talk!OfType(type)) PROVE x \in Members(history) /\ x.type = type
  <2>1. Members(Talk!OfType(type)) = UNION {Members(s) : s \in {typed[it] : it \in Members(history)}}
    BY <1>3, <1>7, <1>8, Zenon
  <2>2. PICK it \in Members(history) : x \in Members(typed[it])
    BY <2>1
  <2>3. it \in TalkItems
    BY <1>9, <2>2
  <2> QED
    BY <1>4, <2>2, <2>3
<1> QED
  BY <1>6, <1>10

\* Who waits for a result was called.
LEMMA UnansweredCalled ==
  ASSUME TalkTyped, HistoryKept
  PROVE  /\ DOMAIN Talk!Unanswered = 1 .. Len(Talk!Unanswered) /\ Len(Talk!Unanswered) \in Nat
         /\ \A i \in 1 .. Len(Talk!Unanswered) :
              /\ Talk!Unanswered[i].id \in TalkKeys /\ Talk!Unanswered[i].name \in TalkNames
              /\ \E y \in Members(uttered) : /\ y.kind = "call" /\ y.id = Talk!Unanswered[i].id
                                             /\ y.name = Talk!Unanswered[i].name
<1> DEFINE U == Talk!Unanswered
<1>1. uttered \in Seq(Utterances) /\ Members(uttered) \subseteq Utterances
  <2>1. uttered \in Seq(Utterances)
    BY SayingsUttered DEF TalkTyped
  <2> QED
    BY <2>1, MembersType
<1>2. Members(SaidInHistory) = {erased[y] : y \in Members(uttered)}
  BY <1>1, MembersImage DEF HistoryKept
<1>3. ASSUME NEW id, NEW name, Talk!Part("call", id, name) \in Members(SaidInHistory)
      PROVE  \E y \in Members(uttered) : y.kind = "call" /\ y.id = id /\ y.name = name
  <2>1. PICK y \in Members(uttered) : Talk!Part("call", id, name) = erased[y]
    BY <1>2, <1>3
  <2>2. y \in Utterances /\ erased[y] = Talk!KnownAt("openai", y)
    BY <1>1, SayingsUttered
  <2>3. y.kind = "call" /\ y = Talk!Part("call", id, name)
    BY <2>1, <2>2 DEF Talk!Part, Talk!KnownAt, Utterances
  <2> QED
    BY <2>3 DEF Talk!Part
<1>4. CASE client = "chat" /\ history \in Seq(TalkMessages)
  <2>1. CASE history = <<>>
    <3>1. U = <<>>
      BY <1>4, <2>1, Zenon DEF Talk!Unanswered
    <3> HIDE DEF U
    <3>2. DOMAIN U = 1 .. Len(U) /\ Len(U) = 0
      BY <3>1
    <3> QED
      BY <3>2 DEF U
  <2>2. CASE history # <<>>
    <3> DEFINE m == history[Len(history)]
    <3>1. m \in Members(history) /\ m \in TalkMessages
      <4>1. Len(history) \in 1 .. Len(history)
        BY <1>4, <2>2
      <4> QED
        BY <1>4, <4>1 DEF Members
    <3>2. U = m.calls
      BY <1>4, <2>2, Zenon DEF Talk!Unanswered, Talk!Last
    <3> HIDE DEF m, U
    <3>3. m.calls \in Seq(TalkCalls)
      BY <3>1, MessageCases
    <3>4. DOMAIN U = 1 .. Len(U) /\ Len(U) \in Nat
      BY <3>2, <3>3
    <3>5. ASSUME NEW i \in 1 .. Len(U)
          PROVE  /\ U[i].id \in TalkKeys /\ U[i].name \in TalkNames
                 /\ Talk!Part("call", U[i].id, U[i].name) \in Members(SaidInHistory)
      <4>1. U[i] \in Members(m.calls) /\ U[i] \in TalkCalls
        BY <3>2, <3>3 DEF Members
      <4>2. Talk!Part("call", U[i].id, U[i].name) \in Members(ofMessage[m])
        BY <3>1, <4>1, CallsOfMessage
      <4>3. Members(ofMessage[m]) \subseteq Members(MessagesSay(history))
        BY <1>4, <3>1, AllSay
      <4>4. SaidInHistory = MessagesSay(history)
        BY <1>4 DEF SaidInHistory
      <4> QED
        BY <4>1, <4>2, <4>3, <4>4 DEF TalkCalls
    <3>6. \A i \in 1 .. Len(U) :
            \E y \in Members(uttered) : y.kind = "call" /\ y.id = U[i].id /\ y.name = U[i].name
      BY <1>3, <3>5
    <3> QED
      BY <3>4, <3>5, <3>6 DEF U
  <2> QED
    BY <2>1, <2>2
<1>5. CASE client = "responses" /\ history \in Seq(TalkItems)
  <2> DEFINE calls == Talk!OfType("function_call")
             n == Len(Talk!OfType("function_call_output"))
  <2>1. /\ calls \in Seq(TalkItems)
        /\ \A it \in Members(calls) : it \in Members(history) /\ it.type = "function_call"
    BY <1>5, OfTypeIs
  <2>2. n \in Nat
    <3>1. Talk!OfType("function_call_output") \in Seq(TalkItems)
      BY <1>5, OfTypeIs
    <3> QED
      BY <3>1
  <2>3. U = SubSeq(calls, n + 1, Len(calls))
    <3>1. client # "chat"
      BY <1>5
    <3> QED
      BY <3>1, Zenon DEF Talk!Unanswered
  <2> HIDE DEF U, calls, n
  <2>4. U \in Seq(TalkItems) /\ \A i \in 1 .. Len(U) : U[i] \in Members(calls)
    BY <2>1, <2>2, <2>3 DEF Members
  <2>5. DOMAIN U = 1 .. Len(U) /\ Len(U) \in Nat
    BY <2>4
  <2>6. ASSUME NEW i \in 1 .. Len(U)
        PROVE  /\ U[i].id \in TalkKeys /\ U[i].name \in TalkNames
               /\ Talk!Part("call", U[i].id, U[i].name) \in Members(SaidInHistory)
    <3> DEFINE it == U[i]
    <3>1. it \in Members(history) /\ it.type = "function_call"
      BY <2>1, <2>4
    <3>2. it \in TalkItems
      BY <2>4
    <3> HIDE DEF it
    <3>3. it.id \in TalkKeys /\ it.name \in TalkNames
      BY <3>1, <3>2 DEF TalkItems
    <3>4. ofItem[it] = <<Talk!Part("call", it.id, it.name)>>
      BY <3>1, <3>2, Zenon DEF ofItem
    <3>5. Talk!Part("call", it.id, it.name) \in Members(ofItem[it])
      BY <3>4 DEF Members
    <3>6. Members(ofItem[it]) \subseteq Members(ItemsSay(history))
      BY <1>5, <3>1, AllSay
    <3>7. SaidInHistory = ItemsSay(history)
      <4>1. client # "chat"
        BY <1>5
      <4> QED
        BY <4>1, Zenon DEF SaidInHistory
    <3> QED
      BY <3>3, <3>5, <3>6, <3>7 DEF it
  <2>7. \A i \in 1 .. Len(U) :
          \E y \in Members(uttered) : y.kind = "call" /\ y.id = U[i].id /\ y.name = U[i].name
    BY <1>3, <2>6
  <2> QED
    BY <2>5, <2>6, <2>7 DEF U
<1> QED
  BY <1>4, <1>5 DEF TalkTyped

\* The client answering the calls it was asked keeps the conversation.
LEMMA TalkRuns ==
  ASSUME TalkInv, Talk!RunTools
  PROVE  TalkInv'
<1> DEFINE U == Talk!Unanswered
           reply(i) == Talk!Result(U[i].id)
           output(i) == Talk!Item("function_call_output", Nothing, TRUE, U[i].id, Nothing)
           more == [i \in DOMAIN U |-> IF client = "chat" THEN reply(i) ELSE output(i)]
           news == [i \in DOMAIN U |-> Talk!Part("result", U[i].id, U[i].name)]
<1>1. TalkTyped /\ HistoryKept /\ IdsGiven /\ IdsNamed /\ ResultsFollow
  BY DEF TalkInv
<1>2. /\ DOMAIN U = 1 .. Len(U) /\ Len(U) \in Nat
      /\ \A i \in 1 .. Len(U) :
           /\ U[i].id \in TalkKeys /\ U[i].name \in TalkNames
           /\ \E y \in Members(uttered) : y.kind = "call" /\ y.id = U[i].id /\ y.name = U[i].name
  BY <1>1, UnansweredCalled
<1>3. /\ history' = history \o more /\ uttered' = uttered \o news
      /\ sent = Talk!Idle /\ client' = client /\ sent' = sent /\ minted' = minted
  BY Zenon DEF Talk!RunTools
<1> HIDE DEF U
<1>4. ASSUME NEW i \in 1 .. Len(U)
      PROVE  /\ news[i] = Talk!Part("result", U[i].id, U[i].name)
             /\ news[i] \in Sayings /\ news[i] \in Utterances
             /\ erased[news[i]] = Talk!Part("result", U[i].id, Nothing)
             /\ reply(i) \in TalkMessages /\ output(i) \in TalkItems
             /\ ofMessage[reply(i)] = <<erased[news[i]]>>
             /\ ofItem[output(i)] = <<erased[news[i]]>>
  <2> DEFINE x == Talk!Part("result", U[i].id, U[i].name)
  <2>1. news[i] = x
    BY <1>2
  <2>2. x \in Sayings
    BY <1>2 DEF Talk!Part, Sayings
  <2>3. x \in Utterances
    BY <2>2, SayingsUttered
  <2>4. Talk!KnownAt("openai", x) = Talk!Part("result", U[i].id, Nothing)
    BY DEF Talk!KnownAt, Talk!Part
  <2>5. erased[x] = Talk!Part("result", U[i].id, Nothing)
    BY <2>3, <2>4, SayingsUttered, Zenon
  <2>6. reply(i) \in TalkMessages /\ reply(i).role = "tool" /\ reply(i).answers = U[i].id
    BY <1>2 DEF Talk!Result, TalkMessages
  <2>7. output(i) \in TalkItems /\ output(i).type = "function_call_output" /\ output(i).id = U[i].id
    BY <1>2 DEF Talk!Item, TalkItems
  <2> HIDE DEF x, reply, output, news
  <2>8. ofMessage[reply(i)] = <<Talk!ResultOf(reply(i))>>
    BY <2>6, MessageCases
  <2>9. Talk!ResultOf(reply(i)) = Talk!Part("result", U[i].id, Nothing)
    BY <2>6, Zenon DEF Talk!ResultOf
  <2>10. ofItem[output(i)] = <<Talk!Part("result", U[i].id, Nothing)>>
    BY <2>7, Zenon DEF ofItem
  <2> QED
    BY <2>1, <2>2, <2>3, <2>5, <2>6, <2>7, <2>8, <2>9, <2>10, Zenon DEF x
<1>5. news \in Seq(Sayings) /\ Len(news) = Len(U)
  <2>1. DOMAIN news = 1 .. Len(U) /\ news = [i \in 1 .. Len(U) |-> news[i]]
    BY <1>2
  <2>2. \A i \in 1 .. Len(U) : news[i] \in Sayings
    BY <1>4
  <2> HIDE DEF news
  <2> QED
    BY <1>2, <2>1, <2>2
<1>6. news \in Seq(Utterances)
  BY <1>5, SayingsUttered
<1>7. client = "chat" => more \in Seq(TalkMessages) /\ MessagesSay(more) = Image(erased, news)
  <2> SUFFICES ASSUME client = "chat"
               PROVE  more \in Seq(TalkMessages) /\ MessagesSay(more) = Image(erased, news)
    OBVIOUS
  <2>1. more = [i \in 1 .. Len(U) |-> reply(i)]
    BY <1>2
  <2> HIDE DEF more, news, reply, output
  <2>2. more \in Seq(TalkMessages) /\ Len(more) = Len(news)
    BY <1>2, <1>4, <1>5, <2>1
  <2>3. \A i \in 1 .. Len(news) : ofMessage[more[i]] = <<erased[news[i]]>>
    BY <1>4, <1>5, <2>1
  <2>4. Flat(Image(ofMessage, more)) = Image(erased, news)
    BY <1>6, <2>2, <2>3, SinglesSay
  <2> QED
    BY <2>2, <2>4 DEF MessagesSay
<1>8. client = "responses" => more \in Seq(TalkItems) /\ ItemsSay(more) = Image(erased, news)
  <2> SUFFICES ASSUME client = "responses"
               PROVE  more \in Seq(TalkItems) /\ ItemsSay(more) = Image(erased, news)
    OBVIOUS
  <2>1. more = [i \in 1 .. Len(U) |-> output(i)]
    <3>1. client # "chat"
      OBVIOUS
    <3> QED
      BY <1>2, <3>1
  <2> HIDE DEF more, news, reply, output
  <2>2. more \in Seq(TalkItems) /\ Len(more) = Len(news)
    BY <1>2, <1>4, <1>5, <2>1
  <2>3. \A i \in 1 .. Len(news) : ofItem[more[i]] = <<erased[news[i]]>>
    BY <1>4, <1>5, <2>1
  <2>4. Flat(Image(ofItem, more)) = Image(erased, news)
    BY <1>6, <2>2, <2>3, SinglesSay
  <2> QED
    BY <2>2, <2>4 DEF ItemsSay
<1>9. \A x \in Members(news) :
        /\ x.kind = "result"
        /\ \E y \in Members(uttered) : y.kind = "call" /\ y.id = x.id /\ y.name = x.name
  <2> SUFFICES ASSUME NEW x \in Members(news)
               PROVE  /\ x.kind = "result"
                      /\ \E y \in Members(uttered) :
                           y.kind = "call" /\ y.id = x.id /\ y.name = x.name
    OBVIOUS
  <2> HIDE DEF news
  <2>1. PICK i \in 1 .. Len(U) : x = news[i]
    BY <1>5 DEF Members
  <2>2. x = Talk!Part("result", U[i].id, U[i].name)
    BY <1>4, <2>1, Zenon
  <2>3. x.kind = "result" /\ x.id = U[i].id /\ x.name = U[i].name
    BY <2>2 DEF Talk!Part
  <2> QED
    BY <1>2, <2>3
<1> HIDE DEF more, news
<1>10. /\ TalkTyped' /\ HistoryKept'
       /\ Members(uttered') = Members(uttered) \cup Members(news)
  <2>1. minted' \in 0 .. Len(TalkIds)
    BY <1>1, <1>3 DEF TalkTyped
  <2> QED
    BY <1>1, <1>3, <1>5, <1>7, <1>8, <2>1, HistoryGrows
<1>11. IdsGiven'
  BY <1>1, <1>3, <1>9, <1>10 DEF IdsGiven
<1>12. IdsNamed'
  <2>1. \A x \in Members(uttered') : x.kind # "text" =>
          \E y \in Members(uttered) : y.kind # "text" /\ y.id = x.id /\ y.name = x.name
    BY <1>9, <1>10
  <2> QED
    BY <1>1, <2>1 DEF IdsNamed
<1>13. ResultsFollow'
  BY <1>1, <1>9, <1>10 DEF ResultsFollow
<1>14. AskedAsHeld'
  <2>1. sent' = Talk!Idle
    BY <1>3
  <2> QED
    BY <2>1, NothingAsked
<1> QED
  BY <1>10, <1>11, <1>12, <1>13, <1>14 DEF TalkInv

\* Every step keeps the conversation.
LEMMA TalkGoesOn ==
  TalkInv /\ [Talk!Next]_(Talk!vars) => TalkInv'
<1> SUFFICES ASSUME TalkInv, [Talk!Next]_(Talk!vars) PROVE TalkInv'
  OBVIOUS
<1>1. CASE Talk!Say("system", TRUE) \/ \E text \in BOOLEAN : Talk!Say("user", text)
  BY <1>1, TalkSays
<1>2. CASE \E p \in Talk!Providers : Talk!Ask(p)
  BY <1>2, TalkAsks
<1>3. ASSUME NEW text \in BOOLEAN, NEW n \in 0 .. 2, NEW names \in [1 .. n -> TalkNames],
             Talk!Answer(text, names)
      PROVE  TalkInv'
  BY <1>3, TalkAnswers
<1>4. CASE Talk!FallBack
  BY <1>4, TalkRests DEF Talk!FallBack
<1>5. CASE Talk!RunTools
  BY <1>5, TalkRuns
<1>6. CASE UNCHANGED Talk!vars
  BY <1>6, TalkRests DEF Talk!vars
<1> QED
  BY <1>1, <1>2, <1>3, <1>4, <1>5, <1>6 DEF Talk!Next

\* Whichever provider answers next, and whoever answered before, is told the conversation
\* as it was, with the names of the functions that were called; and all functions
\* (Conversation, ConversationKept).
THEOREM ConversationIsKept == Talk!Spec => []ConversationKept
<1>1. Talk!Init => TalkInv
  BY TalkBegins
<1>2. TalkInv /\ [Talk!Next]_(Talk!vars) => TalkInv'
  BY TalkGoesOn
<1>3. TalkInv => ConversationKept
  BY TalkKept
<1> QED
  BY <1>1, <1>2, <1>3, PTL DEF Talk!Spec

===========================================================================
