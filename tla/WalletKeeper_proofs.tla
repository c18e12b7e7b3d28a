------------------------ MODULE WalletKeeper_proofs ------------------------
(***************************************************************************)
(* The wallet keeper and the ledger it writes: facts about the operators of *)
(* WalletLedger and type correctness; the inductive invariant and what a    *)
(* step may do to the ledger; and what follows from it, the properties of   *)
(* the runs for every value of the constants and the implementation of      *)
(* FundingPromise.                                                         *)
(***************************************************************************)
EXTENDS WalletKeeper, FoldTheorems, FiniteSetTheorems, TLAPS

(***************************************************************************)
(* The ledger.                                                             *)
(***************************************************************************)
\* wallet_op_begin appends one pending row and leaves the others alone.
LEMMA BeginEffect ==
    ASSUME NEW log \in Seq(Row), NEW op \in OpKinds,
           NEW av \in Int, NEW rs \in Int, NEW t \in Nat
    PROVE  LET new == Begin(log, op, av, rs, t)
           IN /\ new \in Seq(Row)
              /\ Len(new) = Len(log) + 1
              /\ DOMAIN new = 1 .. Len(log) + 1
              /\ \A i \in DOMAIN log : new[i] = log[i]
              /\ new[Len(log) + 1].op = op
              /\ new[Len(log) + 1].outcome = "pending"
              /\ new[Len(log) + 1].ts = t
              /\ new[Len(log) + 1].upd = t
  <1> DEFINE r == [op |-> op, outcome |-> "pending", ts |-> t, upd |-> t,
                   preAvail |-> av, preResv |-> rs]
  <1>1. r \in Row
    BY DEF Row, Outcomes, Spent, Terminal
  <1>2. Begin(log, op, av, rs, t) = Append(log, r)
    BY DEF Begin
  <1> HIDE DEF r
  <1>3. /\ Append(log, r) \in Seq(Row)
        /\ Len(Append(log, r)) = Len(log) + 1
        /\ DOMAIN Append(log, r) = 1 .. Len(log) + 1
        /\ \A i \in DOMAIN log : Append(log, r)[i] = log[i]
        /\ Append(log, r)[Len(log) + 1] = r
    BY <1>1
  <1> QED
    BY <1>2, <1>3 DEF r

\* wallet_op_finish changes outcome and updated_at of the rows named, and
\* nothing else.
LEMMA FinishEffect ==
    ASSUME NEW log \in Seq(Row), NEW S, NEW outcome \in Outcomes, NEW t \in Nat
    PROVE  LET new == Finish(log, S, outcome, t)
           IN /\ new \in Seq(Row)
              /\ Len(new) = Len(log)
              /\ DOMAIN new = DOMAIN log
              /\ \A i \in DOMAIN log :
                    /\ new[i].op = log[i].op
                    /\ new[i].ts = log[i].ts
                    /\ new[i].outcome = IF i \in S THEN outcome ELSE log[i].outcome
                    /\ new[i].upd = IF i \in S THEN t ELSE log[i].upd
  <1> DEFINE new == Finish(log, S, outcome, t)
  <1>1. /\ Len(log) \in Nat
        /\ DOMAIN log = 1 .. Len(log)
        /\ \A i \in DOMAIN log : log[i] \in Row
    OBVIOUS
  <1>2. /\ DOMAIN new = DOMAIN log
        /\ \A i \in DOMAIN log :
              new[i] = IF i \in S
                       THEN [log[i] EXCEPT !.outcome = outcome, !.upd = t]
                       ELSE log[i]
    BY DEF Finish
  <1>3. \A i \in DOMAIN log :
           /\ new[i] \in Row
           /\ new[i].op = log[i].op
           /\ new[i].ts = log[i].ts
           /\ new[i].outcome = IF i \in S THEN outcome ELSE log[i].outcome
           /\ new[i].upd = IF i \in S THEN t ELSE log[i].upd
    BY <1>1, <1>2 DEF Row
  <1>4. new = [i \in 1 .. Len(log) |-> new[i]]
    BY <1>1 DEF Finish
  <1>5. new \in [1 .. Len(log) -> Row]
    BY <1>1, <1>3, <1>4
  <1>6. new \in Seq(Row) /\ Len(new) = Len(log)
    BY <1>1, <1>5
  <1> QED
    BY <1>2, <1>3, <1>6

LEMMA FinishLength ==
    ASSUME NEW log \in Seq(Row), NEW S, NEW outcome, NEW t
    PROVE  Len(Finish(log, S, outcome, t)) = Len(log)
  <1>1. Len(log) \in Nat /\ DOMAIN log = 1 .. Len(log)
    OBVIOUS
  <1>2. Finish(log, S, outcome, t)
          = [i \in 1 .. Len(log) |-> Finish(log, S, outcome, t)[i]]
    BY <1>1 DEF Finish
  <1> QED
    BY <1>1, <1>2

\* The rows a query returns are finitely many row numbers.
LEMMA RowsFinite ==
    ASSUME NEW log \in Seq(Row), NEW kinds, NEW outs
    PROVE  /\ Rows(log, kinds, outs) \subseteq 1 .. Len(log)
           /\ IsFiniteSet(Rows(log, kinds, outs))
  <1>1. Rows(log, kinds, outs) \subseteq 1 .. Len(log)
    BY DEF Rows
  <1>2. IsFiniteSet(1 .. Len(log))
    BY FS_Interval
  <1> QED
    BY <1>1, <1>2, FS_Subset

(***************************************************************************)
(* The keeper.                                                             *)
(***************************************************************************)
USE DEF keeper, chain

Verdicts == {"ok", "refused", "inconclusive"}

\* What a verdict of the sidecar is stored as is an outcome (_outcome_for).
LEMMA OutcomeType ==
    ASSUME NEW v \in Verdicts
    PROVE  /\ OutcomeFor(v) \in Outcomes
           /\ ClosedOutcome(v) \in Outcomes
  BY DEF Verdicts, OutcomeFor, ClosedOutcome, Outcomes, Spent, Terminal

\* The outcomes the reconcile and the settlement pass write are outcomes.
LEMMA UnknownIsOutcome == {"unknown", "effective", "ineffective"} \subseteq Outcomes
  BY DEF Outcomes, Spent, Terminal

\* The store-failure budget stays a natural number.
LEMMA FaultyType ==
    ASSUME faults \in Nat, NEW b, Faulty(b)
    PROVE  faults' \in Nat
  BY DEF Faulty

\* A step of NoCycle or an update of one local leaves the locals well typed.
LEMMA CycleTypes ==
    ASSUME TypeOK
    PROVE  /\ NoCycle \in CycleType
           /\ \A r \in Int : [cyc EXCEPT !.row = r] \in CycleType
           /\ \A r \in Int, S \in SUBSET Channels :
                 [cyc EXCEPT !.row = r, !.ids = S] \in CycleType
           /\ \A v \in {"none", "pump_halt", "error_halt"} :
                 [cyc EXCEPT !.verdict = v] \in CycleType
           /\ \A a, r \in Int, t \in Nat :
                 [NoCycle EXCEPT !.avail = a, !.resv = r, !.at = t] \in CycleType
  <1>0. cyc \in CycleType
    BY DEF TypeOK
  <1>1. NoCycle \in CycleType
    BY DEF CycleType, NoCycle, Nobody
  <1>2. \A r \in Int : [cyc EXCEPT !.row = r] \in CycleType
    BY <1>0 DEF CycleType
  <1>3. \A r \in Int, S \in SUBSET Channels :
           [cyc EXCEPT !.row = r, !.ids = S] \in CycleType
    BY <1>0 DEF CycleType
  <1>4. \A v \in {"none", "pump_halt", "error_halt"} :
           [cyc EXCEPT !.verdict = v] \in CycleType
    BY <1>0 DEF CycleType
  <1>5. \A N \in CycleType, a, r \in Int, t \in Nat :
           [N EXCEPT !.avail = a, !.resv = r, !.at = t] \in CycleType
    BY DEF CycleType
  <1> QED
    BY <1>1, <1>2, <1>3, <1>4, <1>5

\* A new control request, and one moved on by the sidecar, are well typed
\* (control.js, reclaim.mjs).
LEMMA JobTypes ==
    ASSUME TypeOK
    PROVE  /\ \A i \in Nat, op \in OpKinds, S \in SUBSET Channels :
                 Job(i, op, S) \in JobType
           /\ \A j \in jobs, e \in BOOLEAN, s \in {"broadcast", "mempool"} :
                 /\ [j EXCEPT !.stage = s] \in JobType
                 /\ [j EXCEPT !.stage = s, !.echo = e] \in JobType
  <1>0. jobs \subseteq JobType /\ now \in Nat
    BY DEF TypeOK
  <1>1. \A i \in Nat, op \in OpKinds, S \in SUBSET Channels :
           Job(i, op, S) \in JobType
    BY <1>0 DEF Job, JobType
  <1>2. \A j \in JobType, e \in BOOLEAN, s \in {"broadcast", "mempool"} :
           /\ [j EXCEPT !.stage = s] \in JobType
           /\ [j EXCEPT !.stage = s, !.echo = e] \in JobType
    BY DEF JobType
  <1> QED
    BY <1>0, <1>1, <1>2

\* The keeper and the dashboard, hearing an answer.
LEMMA HeardType ==
    ASSUME TypeOK, NEW i, NEW v \in Verdicts, NEW e, Heard(i, v, e)
    PROVE  /\ ops' \in Seq(Row) /\ Len(ops') = Len(ops)
           /\ halts' \subseteq {"topup", "reclaim"}
           /\ pc' \in PCs /\ cyc' \in CycleType /\ manual' \in Int
           /\ faults' \in Nat
  <1>0. ops \in Seq(Row) /\ now \in Nat /\ faults \in Nat
    BY DEF TypeOK
  <1>f. ASSUME NEW S, NEW o \in Outcomes
        PROVE  Finish(ops, S, o, now) \in Seq(Row)
               /\ Len(Finish(ops, S, o, now)) = Len(ops)
    <2>1. Finish(ops, S, o, now) \in Seq(Row)
      BY <1>0, FinishEffect
    <2>2. Len(Finish(ops, S, o, now)) = Len(ops)
      BY <1>0, FinishLength
    <2> QED
      BY <2>1, <2>2
  <1>1. CASE DepositHeard(v)
    <2>1. PICK w \in BOOLEAN :
            /\ ops' = IF w THEN Finish(ops, {cyc.row}, OutcomeFor(v), now) ELSE ops
            /\ Faulty(~w)
      BY <1>1 DEF DepositHeard
    <2>2. ops' \in Seq(Row) /\ Len(ops') = Len(ops)
      BY <1>0, <1>f, <2>1, OutcomeType
    <2>3. faults' \in Nat
      BY <1>0, <2>1, FaultyType
    <2>4. pc' \in PCs /\ cyc' \in CycleType
      BY <1>1, CycleTypes DEF DepositHeard, PCs
    <2> QED
      BY <1>1, <2>2, <2>3, <2>4 DEF DepositHeard, TypeOK
  <1>2. CASE TxHeard(v, e)
    <2>1. PICK broken \in SUBSET {"finish", "strikes", "halt"} :
            /\ ops' = IF "finish" \in broken THEN ops
                      ELSE Finish(ops, {cyc.row}, ClosedOutcome(v), now)
            /\ halts' \in {halts, halts \cup {"reclaim"}}
            /\ Faulty(broken # {})
      BY <1>2 DEF TxHeard
    <2>2. ops' \in Seq(Row) /\ Len(ops') = Len(ops)
      BY <1>0, <1>f, <2>1, OutcomeType
    <2>3. pc' \in PCs
      BY <1>2 DEF TxHeard, PCs
    <2>4. cyc' \in CycleType
      <3>1. cyc' = [cyc EXCEPT !.row = Nobody, !.ids = {}]
        BY <1>2 DEF TxHeard
      <3>2. Nobody \in Int /\ {} \in SUBSET Channels
        BY DEF Nobody
      <3> QED
        BY <3>1, <3>2, CycleTypes
    <2>5. manual' = manual
      BY <1>2 DEF TxHeard
    <2>6. faults' \in Nat
      BY <1>0, <2>1, FaultyType
    <2> QED
      BY <2>1, <2>2, <2>3, <2>4, <2>5, <2>6 DEF TypeOK
  <1>3. CASE ManualHeard(v)
    <2>1. PICK w \in BOOLEAN :
            /\ ops' = IF w /\ manual # 0
                      THEN Finish(ops, {manual}, ClosedOutcome(v), now) ELSE ops
            /\ Faulty(~w)
      BY <1>3 DEF ManualHeard
    <2>2. ops' \in Seq(Row) /\ Len(ops') = Len(ops)
      BY <1>0, <1>f, <2>1, OutcomeType
    <2>3. faults' \in Nat
      BY <1>0, <2>1, FaultyType
    <2>4. halts' = halts /\ pc' = pc /\ cyc' = cyc /\ manual' \in Int
      BY <1>3 DEF ManualHeard, Nobody
    <2> QED
      BY <2>2, <2>3, <2>4 DEF TypeOK
  <1>4. CASE UNCHANGED <<ops, halts, keeper, manual, faults>>
    BY <1>4 DEF TypeOK
  <1> QED
    BY <1>1, <1>2, <1>3, <1>4 DEF Heard

\* A mined deposit or withdrawal never takes the escrow below zero.
LEMMA LandedType ==
    ASSUME TypeOK, NEW j \in jobs, Landed(j)
    PROVE  avail' \in Nat
  BY KnobsAssumption DEF TypeOK, Landed, LesserOf

\* What the sidecar writes into buyer_status is a status row (refreshStatus).
LEMMA ReadingType ==
    ASSUME TypeOK, NEW a \in Nat, NEW c
    PROVE  Reading(a, c) \subseteq [avail : Int, resv : Int, at : Nat]
  <1>1. Cardinality({x \in Channels : c[x] # "none"}) \in Nat
    BY WorldAssumption, FS_Subset, FS_CardinalityType
  <1>2. ChannelAmt * Cardinality({x \in Channels : c[x] # "none"}) \in Int
    BY <1>1, WorldAssumption
  <1> QED
    BY <1>2 DEF Reading, NoReading, TypeOK

\* The state the keeper starts in is well typed.
THEOREM InitType == Init => TypeOK
  BY WorldAssumption
  DEF Init, TypeOK, CycleType, NoCycle, Nobody, PCs

\* The intent row of the keeper or of the dashboard, and its job.
LEMMA BegunType ==
    ASSUME TypeOK, NEW op \in OpKinds, NEW av \in Int, NEW rs \in Int,
           NEW ids \in SUBSET Channels
    PROVE  /\ Begin(ops, op, av, rs, now) \in Seq(Row)
           /\ Len(ops) + 1 \in Nat
           /\ jobs \cup {Job(Len(ops) + 1, op, ids)} \subseteq JobType
           /\ jobs \cup {Job(0, op, ids)} \subseteq JobType
  <1>1. ops \in Seq(Row) /\ now \in Nat /\ jobs \subseteq JobType
    BY DEF TypeOK
  <1>2. Len(ops) + 1 \in Nat
    BY <1>1
  <1>3. Begin(ops, op, av, rs, now) \in Seq(Row)
    BY <1>1, BeginEffect
  <1>4. Job(Len(ops) + 1, op, ids) \in JobType /\ Job(0, op, ids) \in JobType
    BY <1>2, JobTypes
  <1> QED
    BY <1>1, <1>2, <1>3, <1>4

\* Every step preserves the types: one step per action of Next.
THEOREM NextType == TypeOK /\ [Next]_vars => TypeOK'
  <1> SUFFICES ASSUME TypeOK, [Next]_vars PROVE TypeOK'
    OBVIOUS
  <1>0. ops \in Seq(Row) /\ now \in Nat /\ faults \in Nat /\ cyc \in CycleType
    BY DEF TypeOK
  <1>f. ASSUME NEW log \in Seq(Row), NEW S, NEW o \in Outcomes
        PROVE  Finish(log, S, o, now) \in Seq(Row)
    BY <1>0, FinishEffect
  <1>c. cyc.avail \in Int /\ cyc.resv \in Int
    BY <1>0 DEF CycleType
  <1>1. CASE CycleStart
    <2>1. ops' \in Seq(Row) /\ faults' \in Nat
      <3>1. PICK closed, orphans :
              /\ ops' = Finish(ops, closed, "unknown", now)
              /\ Faulty(closed # orphans)
        BY <1>1 DEF CycleStart
      <3> QED
        BY <1>0, <1>f, <3>1, UnknownIsOutcome, FaultyType
    <2>2. cyc' \in CycleType
      <3>1. cyc' = [NoCycle EXCEPT !.avail = status.avail,
                                   !.resv = status.resv, !.at = status.at]
        BY <1>1 DEF CycleStart
      <3>2. status.avail \in Int /\ status.resv \in Int /\ status.at \in Nat
        BY DEF TypeOK
      <3> QED
        BY <3>1, <3>2, CycleTypes
    <2> QED
      BY <1>1, <2>1, <2>2 DEF CycleStart, TypeOK, PCs
  <1>2. CASE Settle
    <2> DEFINE pend == {i \in Open(ops, {"topup"}) : ops[i].outcome = "pending"}
               due  == {i \in Open(ops, {"topup"}) \ pend :
                            now - ops[i].upd >= SettleAfter}
               good(closed) == {i \in closed \cap due : Effective(i)}
               rows(closed) ==
                   Finish(Finish(Finish(ops,
                       closed \cap pend, "unknown", now),
                       good(closed), "effective", now),
                       (closed \cap due) \ good(closed), "ineffective", now)
               pump(closed, broken) ==
                   "settled" \notin broken /\ PumpTripped(rows(closed))
               error(closed, broken) ==
                   "terminal" \notin broken
                   /\ ErrorStrikesOf(rows(closed), "topup", ErrorStrikes)
                          >= ErrorStrikes
    <2>1. PICK closed \in SUBSET (pend \cup due),
               broken \in SUBSET {"settled", "terminal", "halt"} :
            /\ ops' = rows(closed)
            /\ cyc' = [cyc EXCEPT !.verdict =
                           IF pump(closed, broken) THEN "pump_halt"
                           ELSE IF error(closed, broken) THEN "error_halt"
                           ELSE "none"]
            /\ halts' = IF (pump(closed, broken) \/ error(closed, broken))
                           /\ "halt" \notin broken
                        THEN halts \cup {"topup"} ELSE halts
            /\ Faulty(closed # pend \cup due \/ broken # {})
      BY <1>2, Zenon DEF Settle
    <2>2. ops' \in Seq(Row)
      BY <1>0, <1>f, <2>1, UnknownIsOutcome
    <2>3. faults' \in Nat
      BY <1>0, <2>1, FaultyType
    <2>4. cyc' \in CycleType
      BY <2>1, CycleTypes
    <2>5. halts' \subseteq {"topup", "reclaim"}
      BY <2>1 DEF TypeOK
    <2> QED
      BY <1>2, <2>2, <2>3, <2>4, <2>5 DEF Settle, TypeOK, PCs
  <1>3. CASE ReclaimGate
    BY <1>3, FaultyType DEF ReclaimGate, TypeOK, PCs
  <1>4. CASE ReclaimDeclined
    BY <1>4 DEF ReclaimDeclined, TypeOK, PCs
  <1>5. CASE TopupRefused
    <2>1. PICK b : halts' \in {halts, halts \cup {"topup"}} /\ Faulty(b)
      BY <1>5 DEF TopupRefused
    <2> QED
      BY <1>0, <1>5, <2>1, FaultyType, CycleTypes DEF TopupRefused, TypeOK, PCs
  <1>6. CASE TopupFired
    <2>1. PICK b : Faulty(b)
      BY <1>6 DEF TopupFired
    <2>2. faults' \in Nat
      BY <1>0, <2>1, FaultyType
    <2>3. /\ ops' = Begin(ops, "topup", cyc.avail, cyc.resv, now)
          /\ jobs' = jobs \cup {Job(Len(ops) + 1, "topup", {})}
          /\ cyc' = [cyc EXCEPT !.row = Len(ops) + 1]
      BY <1>6 DEF TopupFired
    <2>4. ops' \in Seq(Row) /\ jobs' \subseteq JobType /\ Len(ops) + 1 \in Int
      BY <1>c, <2>3, BegunType DEF OpKinds
    <2>5. cyc' \in CycleType
      BY <2>3, <2>4, CycleTypes
    <2> QED
      BY <1>6, <2>2, <2>4, <2>5 DEF TopupFired, TypeOK, PCs
  <1>7. ASSUME NEW op \in ReclaimOps, NEW ids \in SUBSET Channels,
               FireReclaim(op, ids)
        PROVE  TypeOK'
    <2>3. /\ ops' = Begin(ops, op, cyc.avail, cyc.resv, now)
          /\ jobs' = jobs \cup {Job(Len(ops) + 1, op, ids)}
          /\ cyc' = [cyc EXCEPT !.row = Len(ops) + 1, !.ids = ids]
      BY <1>7 DEF FireReclaim
    <2>0. op \in OpKinds
      BY DEF OpKinds
    <2>1. /\ Begin(ops, op, cyc.avail, cyc.resv, now) \in Seq(Row)
          /\ Len(ops) + 1 \in Nat
          /\ jobs \cup {Job(Len(ops) + 1, op, ids)} \subseteq JobType
      BY <1>c, <2>0, BegunType
    <2>4. ops' \in Seq(Row) /\ jobs' \subseteq JobType /\ Len(ops) + 1 \in Int
      BY <2>1, <2>3
    <2>5. cyc' \in CycleType
      BY <2>3, <2>4, CycleTypes
    <2> QED
      BY <1>7, <2>4, <2>5 DEF FireReclaim, TypeOK, PCs
  <1>8. ASSUME NEW op \in ManualKinds, ManualFired(op)
        PROVE  TypeOK'
    <2>1. PICK logged \in BOOLEAN :
            /\ ops' = IF logged THEN Begin(ops, op, NoReading, NoReading, now)
                                ELSE ops
            /\ manual' = IF logged THEN Len(ops) + 1 ELSE 0
            /\ jobs' = jobs \cup {Job(manual', op, {})}
            /\ Faulty(~logged)
      BY <1>8 DEF ManualFired
    <2>2. op \in OpKinds /\ NoReading \in Int
      BY WorldAssumption DEF OpKinds, NoReading
    <2>3. ops' \in Seq(Row) /\ jobs' \subseteq JobType /\ manual' \in Int
      <3>1. CASE logged
        BY <2>1, <2>2, <3>1, BegunType
      <3>2. CASE ~logged
        <4>1. ops' = ops /\ manual' = 0 /\ jobs' = jobs \cup {Job(0, op, {})}
          BY <2>1, <3>2
        <4> QED
          BY <1>0, <2>2, <4>1, BegunType
      <3> QED
        BY <3>1, <3>2
    <2>4. faults' \in Nat
      BY <1>0, <2>1, FaultyType
    <2> QED
      BY <1>8, <2>3, <2>4 DEF ManualFired, TypeOK
  <1>9. ASSUME NEW i \in 0 .. Len(ops), ReplyLost(i)
        PROVE  TypeOK'
    <2>1. Heard(i, "inconclusive", TRUE)
      BY <1>9 DEF ReplyLost
    <2>2. "inconclusive" \in Verdicts
      BY DEF Verdicts
    <2> QED
      BY <1>9, <2>1, <2>2, HeardType DEF ReplyLost, TypeOK
  <1>10. ASSUME NEW j \in jobs, CliBroadcasts(j)
         PROVE  TypeOK'
    <2>1. [j EXCEPT !.stage = "broadcast"] \in JobType /\ j \in JobType
      BY JobTypes DEF TypeOK
    <2>2. jobs' \subseteq JobType
      BY <1>10, <2>1 DEF CliBroadcasts, TypeOK
    <2>3. sent' \subseteq Nat
      BY <1>10, <2>1 DEF CliBroadcasts, TypeOK, JobType
    <2> QED
      BY <1>10, <2>2, <2>3 DEF CliBroadcasts, TypeOK
  <1>11. ASSUME NEW j \in jobs, ReclaimRuns(j)
         PROVE  TypeOK'
    <2>0. j \in JobType
      BY DEF TypeOK
    <2>1. PICK honours \in Honours :
            /\ jobs' = (jobs \ {j}) \cup
                   {[j EXCEPT !.stage = "broadcast",
                              !.echo = honours \/ j.ids = {}]}
            /\ \/ j.op = "reclaim_set_operator"
                  /\ operatorSelf' = TRUE /\ UNCHANGED <<avail, chan>>
               \/ /\ j.op # "reclaim_set_operator"
                  /\ \E acted \in SUBSET {c \in IF honours THEN j.ids ELSE Channels :
                                              chan[c] = Acts(j.op)} :
                       /\ chan' = [c \in Channels |->
                                     IF c \in acted THEN Leaves(j.op) ELSE chan[c]]
                       /\ avail' = IF j.op = "reclaim_withdraw"
                                   THEN avail + ChannelAmt * Cardinality(acted)
                                   ELSE avail
                  /\ UNCHANGED operatorSelf
      BY <1>11 DEF ReclaimRuns
    <2>2. (honours \/ j.ids = {}) \in BOOLEAN
      BY WorldAssumption
    <2>3. jobs' \subseteq JobType
      BY <2>1, <2>2, JobTypes DEF TypeOK
    <2>4. /\ avail' \in Nat
          /\ chan' \in [Channels -> {"none", "open", "closing"}]
          /\ operatorSelf' \in BOOLEAN
      <3>0. /\ avail \in Nat
            /\ chan \in [Channels -> {"none", "open", "closing"}]
            /\ operatorSelf \in BOOLEAN
        BY DEF TypeOK
      <3>1. CASE j.op = "reclaim_set_operator"
        BY <2>1, <3>0, <3>1
      <3>2. CASE j.op # "reclaim_set_operator"
        <4>1. PICK acted \in SUBSET {c \in IF honours THEN j.ids ELSE Channels :
                                              chan[c] = Acts(j.op)} :
                /\ chan' = [c \in Channels |->
                              IF c \in acted THEN Leaves(j.op) ELSE chan[c]]
                /\ avail' = IF j.op = "reclaim_withdraw"
                            THEN avail + ChannelAmt * Cardinality(acted)
                            ELSE avail
          BY <2>1, <3>2
        <4>2. acted \subseteq Channels
          BY <2>0 DEF JobType
        <4>3. Cardinality(acted) \in Nat
          BY <4>2, WorldAssumption, FS_Subset, FS_CardinalityType
        <4>4. ChannelAmt * Cardinality(acted) \in Nat
          BY <4>3, WorldAssumption
        <4>5. chan' \in [Channels -> {"none", "open", "closing"}]
          BY <3>0, <4>1 DEF Leaves
        <4>6. avail' \in Nat
          BY <3>0, <4>1, <4>4
        <4>7. operatorSelf' = operatorSelf
          BY <2>1, <3>2
        <4> QED
          BY <3>0, <4>5, <4>6, <4>7
      <3> QED
        BY <3>1, <3>2
    <2>5. sent' \subseteq Nat
      BY <1>11, <2>0 DEF ReclaimRuns, TypeOK, JobType
    <2> QED
      BY <1>11, <2>3, <2>4, <2>5 DEF ReclaimRuns, TypeOK
  <1>12. ASSUME NEW j \in jobs, JobSucceeds(j)
         PROVE  TypeOK'
    <2>1. Heard(j.row, "ok", j.echo) /\ "ok" \in Verdicts
      BY <1>12 DEF JobSucceeds, Verdicts
    <2>2. avail' \in Nat
      BY <1>12, LandedType DEF JobSucceeds
    <2>3. status' \in [avail : Int, resv : Int, at : Nat]
      BY <1>12, <2>2, ReadingType DEF JobSucceeds, TypeOK
    <2> QED
      BY <1>12, <2>1, <2>2, <2>3, HeardType DEF JobSucceeds, TypeOK
  <1>13. ASSUME NEW j \in jobs, JobRefused(j)
         PROVE  TypeOK'
    <2>1. Heard(j.row, "refused", j.echo) /\ "refused" \in Verdicts
      BY <1>13 DEF JobRefused, Verdicts
    <2> QED
      BY <1>13, <2>1, HeardType DEF JobRefused, TypeOK
  <1>14. ASSUME NEW j \in jobs, JobFails(j)
         PROVE  TypeOK'
    <2>1. Heard(j.row, "inconclusive", j.echo) /\ "inconclusive" \in Verdicts
      BY <1>14 DEF JobFails, Verdicts
    <2>2. jobs' \subseteq JobType
      BY <1>14, JobTypes DEF JobFails, TypeOK
    <2> QED
      BY <1>14, <2>1, <2>2, HeardType DEF JobFails, TypeOK
  <1>15. ASSUME NEW j \in jobs, LandsLate(j)
         PROVE  TypeOK'
    <2>1. avail' \in Nat
      BY <1>15, LandedType DEF LandsLate
    <2> QED
      BY <1>15, <2>1 DEF LandsLate, TypeOK
  <1>16. CASE StatusWritten
    <2>1. status' \in [avail : Int, resv : Int, at : Nat]
      BY <1>16, ReadingType DEF StatusWritten, TypeOK
    <2> QED
      BY <1>16, <2>1 DEF StatusWritten, TypeOK
  <1>17. ASSUME NEW c \in Channels, ChannelOpens(c)
         PROVE  TypeOK'
    BY <1>17, WorldAssumption DEF ChannelOpens, TypeOK
  <1>18. ASSUME NEW c \in Channels, ChannelSettles(c)
         PROVE  TypeOK'
    BY <1>18 DEF ChannelSettles, TypeOK
  <1>19. CASE Crash
    <2>0. cyc' = NoCycle /\ manual' = Nobody /\ Nobody \in Int
      BY <1>19 DEF Crash, Nobody
    <2>1. cyc' \in CycleType /\ manual' \in Int
      BY <2>0, CycleTypes
    <2> QED
      BY <1>19, <2>1 DEF Crash, TypeOK, PCs
  <1>20. CASE Shutdown
    <2>0. cyc' = NoCycle /\ manual' = Nobody /\ Nobody \in Int
      BY <1>20 DEF Shutdown, Nobody
    <2>1. cyc' \in CycleType /\ manual' \in Int
      BY <2>0, CycleTypes
    <2>2. ops' \in Seq(Row)
      BY <1>0, <1>f, <1>20, UnknownIsOutcome DEF Shutdown
    <2> QED
      BY <1>20, <2>1, <2>2 DEF Shutdown, TypeOK, PCs
  <1>21. ASSUME NEW kind, ClearHalt(kind)
         PROVE  TypeOK'
    <2>1. reviewed' \subseteq Nat
      BY <1>0, <1>21 DEF ClearHalt, Rows
    <2> QED
      BY <1>21, <2>1 DEF ClearHalt, TypeOK
  <1>22. CASE Tick
    BY <1>22 DEF Tick, TypeOK
  <1>23. CASE UNCHANGED vars
    BY <1>23 DEF vars, TypeOK
  <1> QED
    BY <1>1, <1>2, <1>3, <1>4, <1>5, <1>6, <1>7, <1>8, <1>9, <1>10, <1>11,
       <1>12, <1>13, <1>14, <1>15, <1>16, <1>17, <1>18, <1>19, <1>20, <1>21,
       <1>22, <1>23
    DEF Next, KeeperStep

\* The wallet keeper is type-correct, for every setting of the knobs.
THEOREM TypeCorrect == Spec => []TypeOK
  <1> QED
    BY InitType, NextType, PTL DEF Spec


(***************************************************************************)
(* Safety.                                                                 *)
(***************************************************************************)

USE DEF keeper, chain

(***************************************************************************)
(* The inductive invariant.                                                *)
(***************************************************************************)
\* The row of a job exists, has the job's kind, and was never written off.
JobsBacked ==
    \A j \in jobs : j.row # 0 =>
        j.row \in DOMAIN ops /\ ops[j.row].op = j.op
        /\ ops[j.row].outcome # "failed"

\* A row has one job, and a queued job has broadcast nothing.
JobsUnique ==
    /\ \A j, k \in jobs : j.row # 0 /\ j.row = k.row => j = k
    /\ \A j \in jobs : j.row # 0 /\ j.stage = "queued" => j.row \notin sent

\* The keeper awaits an answer about its own pending row, the dashboard about a
\* row of its own kind.
AwaitedRows ==
    /\ pc = "deposit" =>
          /\ cyc.row \in DOMAIN ops /\ ops[cyc.row].op = "topup"
          /\ ops[cyc.row].outcome = "pending"
    /\ pc = "tx" =>
          /\ cyc.row \in DOMAIN ops /\ ops[cyc.row].op \in ReclaimOps
          /\ ops[cyc.row].outcome = "pending"
    /\ manual > 0 => manual \in DOMAIN ops /\ ops[manual].op \in ManualOps

\* The scan is reached past the reclaim halt, and nothing raises it meanwhile.
ScanUnhalted == pc = "scan" => "reclaim" \notin halts

TopupNeverOk == \A i \in DOMAIN ops : ops[i].op = "topup" => ops[i].outcome # "ok"

KeeperInv ==
    /\ JobsBacked /\ JobsUnique /\ AwaitedRows /\ ScanUnhalted
    /\ TopupNeverOk /\ NeverWrittenOff
    /\ CapHolds /\ CooldownHolds /\ ReclaimSpaced

(***************************************************************************)
(* What a step may do to the ledger.                                       *)
(***************************************************************************)
\* No row is added; a row's outcome changes only if it was open or belongs to
\* the dashboard.
Rewrite ==
    /\ Len(ops') = Len(ops) /\ DOMAIN ops' = DOMAIN ops
    /\ \A i \in DOMAIN ops :
          /\ ops'[i].op = ops[i].op /\ ops'[i].ts = ops[i].ts
          /\ ops'[i].upd \in {ops[i].upd, now}
          /\ \/ ops'[i].outcome = ops[i].outcome
             \/ ops[i].op \in ManualOps
             \/ /\ ops[i].outcome \in {"pending", "fired"}
                /\ ops[i].op = "topup" => ops'[i].outcome # "ok"

\* Of the rows only those of S change, all to the outcome o.
Closes(S, o) ==
    /\ Len(ops') = Len(ops) /\ DOMAIN ops' = DOMAIN ops
    /\ \A i \in DOMAIN ops :
          /\ ops'[i].op = ops[i].op /\ ops'[i].ts = ops[i].ts
          /\ ops'[i].outcome = IF i \in S THEN o ELSE ops[i].outcome
          /\ ops'[i].upd \in {ops[i].upd, now}

\* One pending row is added.
AppendRow(op) ==
    /\ Len(ops') = Len(ops) + 1 /\ DOMAIN ops' = 1 .. Len(ops) + 1
    /\ \A i \in DOMAIN ops : ops'[i] = ops[i]
    /\ ops'[Len(ops) + 1].op = op
    /\ ops'[Len(ops) + 1].outcome = "pending"
    /\ ops'[Len(ops) + 1].ts = now /\ ops'[Len(ops) + 1].upd = now

\* Deposits, reclaim phases and manual operations are three kinds of row.
LEMMA KindsDisjoint ==
    /\ "topup" \notin ManualOps /\ "topup" \notin ReclaimOps
    /\ ReclaimOps \cap ManualOps = {}
    /\ OpKinds = {"topup"} \cup ReclaimOps \cup ManualOps
  BY DEF ManualOps, ReclaimOps, OpKinds

\* wallet_op_finish changes outcomes and nothing a clock or a cap reads.
LEMMA FinishCloses ==
    ASSUME TypeOK, NEW S, NEW o \in Outcomes, ops' = Finish(ops, S, o, now)
    PROVE  Closes(S, o)
  BY FinishEffect DEF TypeOK, Closes

\* A ledger left alone is the empty rewrite.
LEMMA SameCloses ==
    ASSUME ops' = ops
    PROVE  Closes({}, "unknown") /\ Rewrite
  BY DEF Closes, Rewrite

\* wallet_op_begin adds one pending row, stamped now, at the end.
LEMMA BeginAppends ==
    ASSUME TypeOK, NEW op \in OpKinds, NEW av \in Int, NEW rs \in Int,
           ops' = Begin(ops, op, av, rs, now)
    PROVE  AppendRow(op)
  BY BeginEffect DEF TypeOK, AppendRow

\* An answer rewrites the awaited row, if any, with the verdict's outcome.
LEMMA HeardEffect ==
    ASSUME TypeOK, AwaitedRows, NEW i, NEW v \in Verdicts, NEW e, Heard(i, v, e)
    PROVE  /\ \E S \in SUBSET {i}, o \in {OutcomeFor(v), ClosedOutcome(v)} :
                 /\ Closes(S, o)
                 /\ \A k \in S \cap DOMAIN ops :
                       /\ \/ ops[k].op \in ManualOps
                          \/ ops[k].outcome = "pending"
                       /\ ops[k].op = "topup" => o = OutcomeFor(v)
           /\ AwaitedRows'
           /\ pc' = pc \/ pc' \in {"idle", "topup"}
           /\ pc # "tx" => halts' = halts
  <1>0. \A o \in {OutcomeFor(v), ClosedOutcome(v)} : o \in Outcomes
    BY OutcomeType
  <1>1. CASE pc = "deposit" /\ cyc.row = i /\ DepositHeard(v)
    <2>1. \/ ops' = ops
          \/ ops' = Finish(ops, {i}, OutcomeFor(v), now)
      BY <1>1 DEF DepositHeard
    <2>2. Closes({}, OutcomeFor(v)) \/ Closes({i}, OutcomeFor(v))
      BY <1>0, <2>1, FinishCloses, SameCloses DEF Closes
    <2>3. i \in DOMAIN ops /\ ops[i].op = "topup" /\ ops[i].outcome = "pending"
      BY <1>1 DEF AwaitedRows
    <2>4. pc' = "idle" /\ manual' = manual /\ halts' = halts
      BY <1>1 DEF DepositHeard
    <2>5. AwaitedRows'
      BY <2>2, <2>4 DEF AwaitedRows, Closes
    <2>6. \E S \in SUBSET {i} : Closes(S, OutcomeFor(v))
      BY <2>2
    <2> QED
      BY <2>3, <2>4, <2>5, <2>6
  <1>2. CASE pc = "tx" /\ cyc.row = i /\ TxHeard(v, e)
    <2>1. \/ ops' = ops
          \/ ops' = Finish(ops, {i}, ClosedOutcome(v), now)
      BY <1>2 DEF TxHeard
    <2>2. Closes({}, ClosedOutcome(v)) \/ Closes({i}, ClosedOutcome(v))
      BY <1>0, <2>1, FinishCloses, SameCloses DEF Closes
    <2>3. i \in DOMAIN ops /\ ops[i].op \in ReclaimOps /\ ops[i].outcome = "pending"
      BY <1>2 DEF AwaitedRows
    <2>4. pc' = "topup" /\ manual' = manual
      BY <1>2 DEF TxHeard
    <2>5. AwaitedRows'
      BY <2>2, <2>4 DEF AwaitedRows, Closes
    <2>6. \E S \in SUBSET {i} : Closes(S, ClosedOutcome(v))
      BY <2>2
    <2> QED
      BY <1>2, <2>3, <2>4, <2>5, <2>6, KindsDisjoint
  <1>3. CASE manual = i /\ ManualHeard(v)
    <2>1. \/ ops' = ops
          \/ i # 0 /\ ops' = Finish(ops, {i}, ClosedOutcome(v), now)
      BY <1>3 DEF ManualHeard
    <2>2. Closes({}, ClosedOutcome(v)) \/ Closes({i}, ClosedOutcome(v))
      BY <1>0, <2>1, FinishCloses, SameCloses DEF Closes
    <2>3. i \in DOMAIN ops => ops[i].op \in ManualOps
      <3>1. i \in DOMAIN ops => i > 0
        BY DEF TypeOK
      <3> QED
        BY <1>3, <3>1 DEF AwaitedRows
    <2>4. /\ pc' = pc /\ cyc' = cyc /\ halts' = halts
          /\ ~(manual' > 0)
      <3>1. manual' = Nobody /\ UNCHANGED <<halts, keeper>>
        BY <1>3 DEF ManualHeard
      <3> QED
        BY <3>1 DEF Nobody
    <2>5. AwaitedRows'
      BY <2>2, <2>3, <2>4, KindsDisjoint DEF AwaitedRows, Closes
    <2>6. \E S \in SUBSET {i} : Closes(S, ClosedOutcome(v))
      BY <2>2
    <2> QED
      BY <2>3, <2>4, <2>5, <2>6, KindsDisjoint
  <1>4. CASE UNCHANGED <<ops, halts, keeper, manual, faults>>
    <2>1. Closes({}, OutcomeFor(v))
      BY <1>4 DEF Closes
    <2>2. AwaitedRows'
      BY <1>4 DEF AwaitedRows
    <2>3. {} \in SUBSET {i} /\ {} \cap DOMAIN ops = {}
      OBVIOUS
    <2> QED
      BY <1>4, <2>1, <2>2, <2>3
  <1> QED
    BY <1>1, <1>2, <1>3, <1>4 DEF Heard

\* Closing orphans and scoring deposits concerns open rows only, and writes
\* nothing off.
ClosesOpen ==
    /\ Len(ops') = Len(ops) /\ DOMAIN ops' = DOMAIN ops
    /\ \A i \in DOMAIN ops :
          /\ ops'[i].op = ops[i].op /\ ops'[i].ts = ops[i].ts
          /\ ops'[i].upd \in {ops[i].upd, now}
          /\ \/ ops'[i].outcome = ops[i].outcome
             \/ /\ ops[i].outcome \in {"pending", "fired"}
                /\ ops'[i].outcome \in {"unknown", "effective", "ineffective"}

\* The reconcile at a cycle start (_reconcile_orphans) closes open rows only.
LEMMA CycleStartEffect ==
    ASSUME TypeOK, CycleStart
    PROVE  ClosesOpen
  <1> DEFINE orphans == {i \in Open(ops, OpKinds \ {"topup"}) :
                            ops[i].outcome = "pending"}
  <1>1. PICK closed \in SUBSET orphans : ops' = Finish(ops, closed, "unknown", now)
    BY DEF CycleStart
  <1>2. Closes(closed, "unknown")
    BY <1>1, FinishCloses, UnknownIsOutcome
  <1>3. \A i \in closed : ops[i].outcome \in {"pending", "fired"}
    BY DEF Open, Rows
  <1> QED
    BY <1>2, <1>3 DEF Closes, ClosesOpen

\* The settlement pass (_settle_topups) closes open deposits only, never as "ok".
LEMMA SettleEffect ==
    ASSUME TypeOK, Settle
    PROVE  ClosesOpen
  <1> DEFINE pend == {i \in Open(ops, {"topup"}) : ops[i].outcome = "pending"}
             due  == {i \in Open(ops, {"topup"}) \ pend :
                          now - ops[i].upd >= SettleAfter}
             good(closed) == {i \in closed \cap due : Effective(i)}
  <1>1. PICK closed \in SUBSET (pend \cup due) :
          ops' = Finish(Finish(Finish(ops,
                     closed \cap pend, "unknown", now),
                     good(closed), "effective", now),
                     (closed \cap due) \ good(closed), "ineffective", now)
    BY Zenon DEF Settle
  <1>2. PICK A \in SUBSET Open(ops, {"topup"}), B \in SUBSET Open(ops, {"topup"}),
             C \in SUBSET Open(ops, {"topup"}) :
          ops' = Finish(Finish(Finish(ops, A, "unknown", now),
                               B, "effective", now), C, "ineffective", now)
    <2> DEFINE A == closed \cap pend
               B == good(closed)
               C == (closed \cap due) \ good(closed)
    <2>1. /\ A \in SUBSET Open(ops, {"topup"})
          /\ B \in SUBSET Open(ops, {"topup"})
          /\ C \in SUBSET Open(ops, {"topup"})
      OBVIOUS
    <2>2. ops' = Finish(Finish(Finish(ops, A, "unknown", now),
                               B, "effective", now), C, "ineffective", now)
      BY <1>1
    <2> HIDE DEF A, B, C
    <2> QED
      BY <2>1, <2>2
  <1> DEFINE r1 == Finish(ops, A, "unknown", now)
             r2 == Finish(r1, B, "effective", now)
  <1>3. \A i \in A \cup B \cup C : ops[i].outcome \in {"pending", "fired"}
    BY DEF Open, Rows
  <1>4. ops \in Seq(Row) /\ now \in Nat
    BY DEF TypeOK
  <1>5. /\ r1 \in Seq(Row) /\ Len(r1) = Len(ops) /\ DOMAIN r1 = DOMAIN ops
        /\ \A i \in DOMAIN ops :
              /\ r1[i].op = ops[i].op /\ r1[i].ts = ops[i].ts
              /\ r1[i].outcome = IF i \in A THEN "unknown" ELSE ops[i].outcome
              /\ r1[i].upd \in {ops[i].upd, now}
    BY <1>4, UnknownIsOutcome, FinishEffect
  <1> HIDE DEF r1
  <1>6. /\ r2 \in Seq(Row) /\ Len(r2) = Len(r1) /\ DOMAIN r2 = DOMAIN r1
        /\ \A i \in DOMAIN r1 :
              /\ r2[i].op = r1[i].op /\ r2[i].ts = r1[i].ts
              /\ r2[i].outcome = IF i \in B THEN "effective" ELSE r1[i].outcome
              /\ r2[i].upd \in {r1[i].upd, now}
    BY <1>4, <1>5, UnknownIsOutcome, FinishEffect
  <1> HIDE DEF r2
  <1>7. /\ Len(ops') = Len(r2) /\ DOMAIN ops' = DOMAIN r2
        /\ \A i \in DOMAIN r2 :
              /\ ops'[i].op = r2[i].op /\ ops'[i].ts = r2[i].ts
              /\ ops'[i].outcome = IF i \in C THEN "ineffective" ELSE r2[i].outcome
              /\ ops'[i].upd \in {r2[i].upd, now}
    <2>1. ops' = Finish(r2, C, "ineffective", now)
      BY <1>2 DEF r1, r2
    <2> QED
      BY <1>4, <1>6, <2>1, UnknownIsOutcome, FinishEffect
  <1> QED
    BY <1>3, <1>5, <1>6, <1>7 DEF ClosesOpen

\* A cancelled keeper closes the open row it was awaiting, nothing else.
LEMMA ShutdownEffect ==
    ASSUME TypeOK, AwaitedRows, Shutdown
    PROVE  ClosesOpen
  <1>1. Closes({cyc.row}, "unknown")
    BY FinishCloses, UnknownIsOutcome DEF Shutdown
  <1>2. ops[cyc.row].outcome = "pending"
    BY DEF Shutdown, AwaitedRows
  <1> QED
    BY <1>1, <1>2 DEF Closes, ClosesOpen

\* Every step rewrites rows or appends one.
LEMMA LedgerStep ==
    ASSUME TypeOK, AwaitedRows, [Next]_vars
    PROVE  \/ Rewrite
           \/ TopupFired /\ AppendRow("topup")
           \/ \E op \in ReclaimOps, ids \in SUBSET Channels :
                 FireReclaim(op, ids) /\ AppendRow(op)
           \/ \E op \in ManualOps : AppendRow(op)
  <1>c. cyc.avail \in Int /\ cyc.resv \in Int
    BY DEF TypeOK, CycleType
  <1>o. ClosesOpen => Rewrite
    BY DEF ClosesOpen, Rewrite
  <1>h. ASSUME NEW i, NEW v \in Verdicts, NEW e, Heard(i, v, e)
        PROVE  Rewrite
    <2>1. PICK S \in SUBSET {i}, o \in {OutcomeFor(v), ClosedOutcome(v)} :
            /\ Closes(S, o)
            /\ \A k \in S \cap DOMAIN ops :
                  /\ \/ ops[k].op \in ManualOps
                     \/ ops[k].outcome = "pending"
                  /\ ops[k].op = "topup" => o = OutcomeFor(v)
      BY <1>h, HeardEffect
    <2>2. OutcomeFor(v) # "ok"
      BY DEF OutcomeFor
    <2> QED
      BY <2>1, <2>2 DEF Closes, Rewrite
  <1>1. CASE CycleStart
    BY <1>1, <1>o, CycleStartEffect
  <1>2. CASE Settle
    BY <1>2, <1>o, SettleEffect
  <1>3. CASE Shutdown
    BY <1>3, <1>o, ShutdownEffect
  <1>4. CASE TopupFired
    BY <1>4, <1>c, BeginAppends, KindsDisjoint DEF TopupFired
  <1>5. ASSUME NEW op \in ReclaimOps, NEW ids \in SUBSET Channels,
               FireReclaim(op, ids)
        PROVE  AppendRow(op)
    BY <1>5, <1>c, BeginAppends, KindsDisjoint DEF FireReclaim
  <1>6. ASSUME NEW op \in ManualKinds, ManualFired(op)
        PROVE  Rewrite \/ (AppendRow(op) /\ op \in ManualOps)
    <2>1. ops' = ops \/ ops' = Begin(ops, op, NoReading, NoReading, now)
      BY <1>6 DEF ManualFired
    <2>2. op \in ManualOps /\ NoReading \in Int
      BY WorldAssumption DEF NoReading
    <2> QED
      BY <2>1, <2>2, BeginAppends, SameCloses, KindsDisjoint
  <1>7. ASSUME NEW i \in 0 .. Len(ops), ReplyLost(i)
        PROVE  Rewrite
    BY <1>7, <1>h DEF ReplyLost, Verdicts
  <1>8. ASSUME NEW j \in jobs, JobSucceeds(j) \/ JobRefused(j) \/ JobFails(j)
        PROVE  Rewrite
    BY <1>8, <1>h DEF JobSucceeds, JobRefused, JobFails, Verdicts
  <1>9. ASSUME NEW j \in jobs, CliBroadcasts(j) \/ ReclaimRuns(j) \/ LandsLate(j)
        PROVE  Rewrite
    BY <1>9, SameCloses DEF CliBroadcasts, ReclaimRuns, LandsLate
  <1>10. ASSUME NEW c \in Channels, ChannelOpens(c) \/ ChannelSettles(c)
         PROVE  Rewrite
    BY <1>10, SameCloses DEF ChannelOpens, ChannelSettles
  <1>11. ASSUME NEW kind, ClearHalt(kind)
         PROVE  Rewrite
    BY <1>11, SameCloses DEF ClearHalt
  <1>12. CASE \/ ReclaimGate \/ ReclaimDeclined \/ TopupRefused
              \/ StatusWritten \/ Crash \/ Tick \/ UNCHANGED vars
    BY <1>12, SameCloses
    DEF ReclaimGate, ReclaimDeclined, TopupRefused, StatusWritten, Crash, Tick,
        vars
  <1> QED
    BY <1>1, <1>2, <1>3, <1>4, <1>5, <1>6, <1>7, <1>8, <1>9, <1>10, <1>11,
       <1>12
    DEF Next, KeeperStep

(***************************************************************************)
(* The awaits, and the halt across the scan.                               *)
(***************************************************************************)
LEMMA AwaitsStep ==
    ASSUME TypeOK, AwaitedRows, ScanUnhalted, [Next]_vars
    PROVE  AwaitedRows' /\ ScanUnhalted'
  <1>c. cyc.avail \in Int /\ cyc.resv \in Int
    BY DEF TypeOK, CycleType
  <1>l. Len(ops) \in Nat /\ DOMAIN ops = 1 .. Len(ops)
    BY DEF TypeOK
  <1>m. ASSUME ClosesOpen \/ UNCHANGED ops, manual' \in {manual, Nobody},
               pc' \notin {"deposit", "tx"}
        PROVE  AwaitedRows'
    BY <1>m DEF AwaitedRows, ClosesOpen, Nobody
  <1>h. ASSUME NEW i, NEW v \in Verdicts, NEW e, Heard(i, v, e)
        PROVE  AwaitedRows' /\ ScanUnhalted'
    BY <1>h, HeardEffect DEF ScanUnhalted
  <1>1. CASE CycleStart
    BY <1>1, <1>m, CycleStartEffect DEF CycleStart, ScanUnhalted
  <1>2. CASE Settle
    BY <1>2, <1>m, SettleEffect DEF Settle, ScanUnhalted
  <1>3. CASE Shutdown
    BY <1>3, <1>m, ShutdownEffect DEF Shutdown, ScanUnhalted
  <1>4. CASE TopupFired
    <2>1. AppendRow("topup")
      BY <1>4, <1>c, BeginAppends, KindsDisjoint DEF TopupFired
    <2>2. cyc'.row = Len(ops) + 1
      BY <1>4 DEF TopupFired, TypeOK, CycleType
    <2> QED
      BY <1>4, <1>l, <2>1, <2>2
      DEF TopupFired, AppendRow, AwaitedRows, ScanUnhalted
  <1>5. ASSUME NEW op \in ReclaimOps, NEW ids \in SUBSET Channels,
               FireReclaim(op, ids)
        PROVE  AwaitedRows' /\ ScanUnhalted'
    <2>1. AppendRow(op)
      BY <1>5, <1>c, BeginAppends, KindsDisjoint DEF FireReclaim
    <2>2. cyc'.row = Len(ops) + 1
      BY <1>5 DEF FireReclaim, TypeOK, CycleType
    <2> QED
      BY <1>5, <1>l, <2>1, <2>2
      DEF FireReclaim, AppendRow, AwaitedRows, ScanUnhalted
  <1>6. ASSUME NEW op \in ManualKinds, ManualFired(op)
        PROVE  AwaitedRows' /\ ScanUnhalted'
    <2>0. op \in ManualOps /\ op \in OpKinds /\ NoReading \in Int
      BY WorldAssumption, KindsDisjoint DEF NoReading
    <2>1. \/ ops' = ops /\ manual' = 0
          \/ /\ ops' = Begin(ops, op, NoReading, NoReading, now)
             /\ manual' = Len(ops) + 1
      BY <1>6 DEF ManualFired
    <2>2. UNCHANGED <<pc, cyc, halts>>
      BY <1>6 DEF ManualFired
    <2>3. CASE ops' = ops /\ manual' = 0
      BY <2>2, <2>3 DEF AwaitedRows, ScanUnhalted
    <2>4. CASE AppendRow(op) /\ manual' = Len(ops) + 1
      BY <1>l, <2>0, <2>2, <2>4 DEF AwaitedRows, ScanUnhalted, AppendRow
    <2> QED
      BY <2>0, <2>1, <2>3, <2>4, BeginAppends
  <1>7. ASSUME NEW i \in 0 .. Len(ops), ReplyLost(i)
        PROVE  AwaitedRows' /\ ScanUnhalted'
    BY <1>7, <1>h DEF ReplyLost, Verdicts
  <1>8. ASSUME NEW j \in jobs, JobSucceeds(j) \/ JobRefused(j) \/ JobFails(j)
        PROVE  AwaitedRows' /\ ScanUnhalted'
    BY <1>8, <1>h DEF JobSucceeds, JobRefused, JobFails, Verdicts
  <1>9. ASSUME NEW j \in jobs, CliBroadcasts(j) \/ ReclaimRuns(j) \/ LandsLate(j)
        PROVE  AwaitedRows' /\ ScanUnhalted'
    BY <1>9 DEF CliBroadcasts, ReclaimRuns, LandsLate, AwaitedRows, ScanUnhalted
  <1>10. ASSUME NEW c \in Channels, ChannelOpens(c) \/ ChannelSettles(c)
         PROVE  AwaitedRows' /\ ScanUnhalted'
    BY <1>10 DEF ChannelOpens, ChannelSettles, AwaitedRows, ScanUnhalted
  <1>11. ASSUME NEW kind, ClearHalt(kind)
         PROVE  AwaitedRows' /\ ScanUnhalted'
    BY <1>11 DEF ClearHalt, AwaitedRows, ScanUnhalted
  <1>12. CASE StatusWritten \/ Tick \/ UNCHANGED vars
    BY <1>12 DEF StatusWritten, Tick, vars, AwaitedRows, ScanUnhalted
  <1>13. CASE ReclaimGate
    BY <1>13, <1>m DEF ReclaimGate, Halted, ScanUnhalted
  <1>14. CASE ReclaimDeclined \/ TopupRefused \/ Crash
    BY <1>14, <1>m DEF ReclaimDeclined, TopupRefused, Crash, ScanUnhalted
  <1> QED
    BY <1>1, <1>2, <1>3, <1>4, <1>5, <1>6, <1>7, <1>8, <1>9, <1>10, <1>11,
       <1>12, <1>13, <1>14
    DEF Next, KeeperStep

(***************************************************************************)
(* Spacing and cap.                                                        *)
(***************************************************************************)
\* A deposit row is spent or failed: it can stop counting, never start again.
LEMMA RewriteSpent ==
    ASSUME TypeOK, TypeOK', TopupNeverOk, Rewrite
    PROVE  /\ TopupNeverOk'
           /\ SpentTopups' \subseteq SpentTopups
           /\ SpentTopups \subseteq DOMAIN ops
           /\ \A i \in DOMAIN ops : ops'[i].ts = ops[i].ts
  <1>1. TopupNeverOk'
    BY KindsDisjoint DEF TopupNeverOk, Rewrite
  <1>2. ASSUME NEW i \in SpentTopups' PROVE i \in SpentTopups
    BY KindsDisjoint DEF SpentTopups, Rows, Rewrite, Spent
  <1> QED
    BY <1>1, <1>2 DEF Rewrite, SpentTopups, Rows

\* Of the rows begun only a deposit adds to the spent deposits.
LEMMA AppendSpent ==
    ASSUME TypeOK, NEW op \in OpKinds, AppendRow(op)
    PROVE  /\ SpentTopups \subseteq 1 .. Len(ops)
           /\ SpentTopups' = IF op = "topup" THEN SpentTopups \cup {Len(ops) + 1}
                                             ELSE SpentTopups
           /\ \A i \in 1 .. Len(ops) : ops'[i] = ops[i]
  BY DEF TypeOK, AppendRow, SpentTopups, Rows, Spent

\* No step closes a deposit as "ok", the outcome of operations without settlement.
LEMMA TopupNeverOkStep ==
    ASSUME TypeOK, TypeOK', TopupNeverOk, AwaitedRows, [Next]_vars
    PROVE  TopupNeverOk'
  <1>1. ASSUME NEW op, AppendRow(op) PROVE TopupNeverOk'
    <2>1. Len(ops) \in Nat /\ DOMAIN ops = 1 .. Len(ops)
      BY DEF TypeOK
    <2>2. ASSUME NEW i \in DOMAIN ops' PROVE i \in DOMAIN ops \/ i = Len(ops) + 1
      BY <1>1, <2>1, <2>2 DEF AppendRow
    <2>3. ASSUME NEW i \in DOMAIN ops PROVE ops'[i].op = "topup" => ops'[i].outcome # "ok"
      BY <1>1, <2>3 DEF AppendRow, TopupNeverOk
    <2> QED
      BY <1>1, <2>2, <2>3 DEF AppendRow, TopupNeverOk
  <1>2. ASSUME Rewrite PROVE TopupNeverOk'
    BY <1>2, RewriteSpent
  <1>3. Rewrite \/ \E op : AppendRow(op)
    BY LedgerStep
  <1> QED
    BY <1>1, <1>2, <1>3

\* Rows are numbered from 1 and stamped with clock readings.
LEMMA RowTimes ==
    ASSUME TypeOK
    PROVE  /\ Len(ops) \in Nat /\ DOMAIN ops = 1 .. Len(ops)
           /\ \A i \in 1 .. Len(ops) : ops[i].ts \in Nat
  <1>1. ops \in Seq(Row)
    BY DEF TypeOK
  <1>2. \A i \in 1 .. Len(ops) : ops[i] \in Row
    BY <1>1
  <1> QED
    BY <1>1, <1>2 DEF Row

\* No step puts two spent deposits closer than the cooldown knob (_retry_gate).
LEMMA CooldownStep ==
    ASSUME TypeOK, TypeOK', TopupNeverOk, AwaitedRows, CooldownHolds, [Next]_vars
    PROVE  CooldownHolds'
  <1>1. CASE Rewrite
    BY <1>1, RewriteSpent DEF CooldownHolds
  <1>2. ASSUME NEW op \in OpKinds \ {"topup"}, AppendRow(op)
        PROVE  CooldownHolds'
    BY <1>2, AppendSpent DEF CooldownHolds
  <1>3. CASE TopupFired /\ AppendRow("topup")
    <2> DEFINE n == Len(ops) + 1
    <2>0. /\ n \in Nat /\ SpentTopups \subseteq 1 .. Len(ops)
          /\ SpentTopups' = SpentTopups \cup {n}
          /\ \A i \in 1 .. Len(ops) : ops'[i] = ops[i]
          /\ ops'[n].ts = now
      <3>1. n \in Nat
        BY RowTimes
      <3>2. ops'[n].ts = now
        BY <1>3 DEF AppendRow
      <3>3. "topup" \in OpKinds
        BY DEF OpKinds
      <3> QED
        BY <1>3, <3>1, <3>2, <3>3, AppendSpent
    <2>1. /\ now \in Nat /\ Window \in Nat /\ Cooldown \in Nat
          /\ Cooldown <= Window
          /\ \A i \in SpentTopups : ops[i].ts \in Nat
      BY <2>0, RowTimes, KnobsAssumption DEF TypeOK
    <2>2. ASSUME NEW i \in SpentTopups PROVE now - ops[i].ts >= Cooldown
      <3>1. CASE ops[i].ts >= now - Window
        <4>1. i \in SpentSince(ops, now - Window)
          BY <3>1 DEF SpentTopups, SpentSince
        <4>2. ~(now - ops[i].ts < Cooldown)
          BY <1>3, <4>1 DEF TopupFired, CoolingDown, AnyWithin
        <4> QED
          BY <2>1, <4>2
      <3>2. CASE ~(ops[i].ts >= now - Window)
        BY <2>1, <3>2
      <3> QED
        BY <3>1, <3>2
    <2>3. ASSUME NEW i \in SpentTopups', NEW j \in SpentTopups', i < j
          PROVE  ops'[j].ts - ops'[i].ts >= Cooldown
      <3>1. CASE j = n
        BY <2>0, <2>2, <2>3, <3>1
      <3>2. CASE j # n
        BY <2>0, <2>3, <3>2 DEF CooldownHolds
      <3> QED
        BY <3>1, <3>2
    <2> QED
      BY <2>3 DEF CooldownHolds
  <1> QED
    BY <1>1, <1>2, <1>3, LedgerStep, KindsDisjoint

\* The deposits of the window that ends at deposit i.
InWindow(i) == {j \in SpentTopups : j <= i /\ ops[j].ts >= ops[i].ts - Window}

\* The deposits of a window can be counted.
LEMMA InWindowFinite ==
    ASSUME TypeOK, NEW i
    PROVE  IsFiniteSet(InWindow(i)) /\ Cardinality(InWindow(i)) \in Nat
  <1>1. IsFiniteSet(SpentTopups)
    BY RowsFinite DEF TypeOK, SpentTopups
  <1>2. InWindow(i) \subseteq SpentTopups
    BY DEF InWindow
  <1> QED
    BY <1>1, <1>2, FS_Subset, FS_CardinalityType

\* No step takes the deposits of a window over the daily cap (_maybe_topup).
LEMMA CapStep ==
    ASSUME TypeOK, TypeOK', TopupNeverOk, AwaitedRows, CapHolds, [Next]_vars
    PROVE  CapHolds'
  <1>0. /\ now \in Nat /\ Window \in Nat /\ Amount \in Nat /\ Cap \in Nat
        /\ Len(ops) \in Nat
        /\ \A i \in 1 .. Len(ops) : ops[i].ts \in Nat
    BY RowTimes, KnobsAssumption DEF TypeOK
  <1>1. CapHolds <=> \A i \in SpentTopups : Amount * Cardinality(InWindow(i)) <= Cap
    BY DEF CapHolds, InWindow
  <1>2. CapHolds' <=>
           \A i \in SpentTopups' : Amount * Cardinality(InWindow(i)') <= Cap
    BY DEF CapHolds, InWindow
  \* A window that loses deposits stays under the cap.
  <1>3. ASSUME NEW i \in SpentTopups, InWindow(i)' \subseteq InWindow(i)
        PROVE  Amount * Cardinality(InWindow(i)') <= Cap
    <2>1. /\ Cardinality(InWindow(i)') <= Cardinality(InWindow(i))
          /\ Cardinality(InWindow(i)) \in Nat /\ Cardinality(InWindow(i)') \in Nat
      BY <1>3, InWindowFinite, FS_Subset, FS_CardinalityType
    <2>2. Amount * Cardinality(InWindow(i)) <= Cap
      BY <1>1
    <2>3. \A a, b \in Nat : a <= b => Amount * a <= Amount * b
      BY <1>0
    <2>4. Amount * Cardinality(InWindow(i)') <= Amount * Cardinality(InWindow(i))
      BY <2>1, <2>3
    <2>5. /\ Amount * Cardinality(InWindow(i)') \in Nat
          /\ Amount * Cardinality(InWindow(i)) \in Nat
      BY <1>0, <2>1
    <2> QED
      BY <1>0, <2>2, <2>4, <2>5
  <1>4. CASE Rewrite
    <2>1. \A i \in SpentTopups' : i \in SpentTopups /\ InWindow(i)' \subseteq InWindow(i)
      BY <1>4, RewriteSpent DEF InWindow
    <2> QED
      BY <1>2, <1>3, <2>1
  <1>5. ASSUME NEW op \in OpKinds \ {"topup"}, AppendRow(op)
        PROVE  CapHolds'
    <2>1. \A i \in SpentTopups' : i \in SpentTopups /\ InWindow(i)' \subseteq InWindow(i)
      BY <1>5, AppendSpent DEF InWindow
    <2> QED
      BY <1>2, <1>3, <2>1
  <1>6. CASE TopupFired /\ AppendRow("topup")
    <2>n. PICK n \in Nat : n = Len(ops) + 1
      BY <1>0
    <2> DEFINE S == SpentSince(ops, now - Window)
    <2>0. /\ SpentTopups \subseteq 1 .. Len(ops)
          /\ SpentTopups' = SpentTopups \cup {n}
          /\ \A i \in 1 .. Len(ops) : ops'[i] = ops[i]
          /\ ops'[n].ts = now
      BY <1>6, <2>n, AppendSpent, KindsDisjoint DEF AppendRow
    <2>1. \A i \in SpentTopups : InWindow(i)' \subseteq InWindow(i)
      BY <1>0, <2>n, <2>0 DEF InWindow
    <2>2. InWindow(n)' = S \cup {n}
      <3>1. \A j \in SpentTopups' : j <= n
        BY <1>0, <2>n, <2>0
      <3>2. \A j \in SpentTopups : ops'[j].ts = ops[j].ts
        BY <2>0
      <3>3. InWindow(n)' = {j \in SpentTopups' : ops'[j].ts >= now - Window}
        BY <2>0, <3>1 DEF InWindow
      <3>4. S = {j \in SpentTopups : ops[j].ts >= now - Window}
        BY DEF SpentSince, SpentTopups
      <3> QED
        <4>1. now >= now - Window
          BY <1>0
        <4>2. ASSUME NEW j PROVE j \in InWindow(n)' <=> j \in S \cup {n}
          <5>1. CASE j = n
            BY <2>0, <3>3, <4>1, <5>1
          <5>2. CASE j # n
            BY <2>0, <3>2, <3>3, <3>4, <5>2
          <5> QED
            BY <5>1, <5>2
        <4> QED
          BY <4>2
    <2>3. IsFiniteSet(S) /\ n \notin S /\ Cardinality(S) \in Nat
      <3>1. S \subseteq SpentTopups
        BY DEF SpentSince, SpentTopups
      <3>2. IsFiniteSet(SpentTopups)
        BY RowsFinite DEF TypeOK, SpentTopups
      <3> QED
        BY <1>0, <2>n, <2>0, <3>1, <3>2, FS_Subset, FS_CardinalityType
    <2>4. Cardinality(InWindow(n)') = Cardinality(S) + 1
      BY <2>2, <2>3, FS_AddElement
    <2>5. ~(Amount * Cardinality(S) + Amount > Cap)
      BY <1>6 DEF TopupFired, CapFull, SpentUsdc
    <2>6. Amount * (Cardinality(S) + 1) = Amount * Cardinality(S) + Amount
      BY <1>0, <2>3
    <2>7. Amount * Cardinality(S) \in Nat
      BY <1>0, <2>3
    <2>8. Amount * Cardinality(InWindow(n)') <= Cap
      BY <1>0, <2>4, <2>5, <2>6, <2>7
    <2> QED
      BY <1>2, <1>3, <2>0, <2>1, <2>8
  <1> QED
    BY <1>4, <1>5, <1>6, LedgerStep, KindsDisjoint

\* No step puts two reclaim phases closer than the challenge window
\* (_maybe_reclaim).
LEMMA ReclaimSpacedStep ==
    ASSUME TypeOK, TypeOK', AwaitedRows, ReclaimSpaced, [Next]_vars
    PROVE  ReclaimSpaced'
  <1> DEFINE R == Rows(ops, ReclaimOps, Outcomes)
  <1>0. /\ now \in Nat /\ ReclaimCooldown \in Nat /\ Len(ops) \in Nat
        /\ DOMAIN ops = 1 .. Len(ops)
        /\ \A i \in 1 .. Len(ops) : ops[i].ts \in Nat
        /\ \A i \in 1 .. Len(ops) : ops[i].outcome \in Outcomes
    <2>1. \A i \in 1 .. Len(ops) : ops[i] \in Row
      <3>1. ops \in Seq(Row)
        BY DEF TypeOK
      <3> QED
        BY <3>1
    <2>2. \A i \in 1 .. Len(ops) : ops[i].outcome \in Outcomes
      BY <2>1 DEF Row
    <2>3. now \in Nat
      BY DEF TypeOK
    <2> QED
      BY <2>2, <2>3, RowTimes, TimingAssumption
  <1>1. CASE Rewrite
    <2>1. R' \subseteq R /\ \A i \in R : ops'[i].ts = ops[i].ts
      BY <1>0, <1>1 DEF Rewrite, Rows
    <2> QED
      BY <2>1 DEF ReclaimSpaced
  <1>2. ASSUME NEW op \in OpKinds \ ReclaimOps, AppendRow(op)
        PROVE  ReclaimSpaced'
    <2>1. R' \subseteq R /\ \A i \in R : ops'[i].ts = ops[i].ts
      BY <1>0, <1>2 DEF AppendRow, Rows
    <2> QED
      BY <2>1 DEF ReclaimSpaced
  <1>3. ASSUME NEW op \in ReclaimOps, NEW ids, FireReclaim(op, ids), AppendRow(op)
        PROVE  ReclaimSpaced'
    <2>1. /\ R \subseteq 1 .. Len(ops)
          /\ R' \subseteq R \cup {Len(ops) + 1}
          /\ \A i \in R : ops'[i].ts = ops[i].ts
          /\ ops'[Len(ops) + 1].ts = now
      BY <1>0, <1>3 DEF AppendRow, Rows
    <2>2. \A i \in R : ~(now - ops[i].ts < ReclaimCooldown)
      BY <1>3 DEF FireReclaim, ReclaimCoolingDown, AnyWithin
    <2>3. \A i \in R : now - ops[i].ts >= ReclaimCooldown
      BY <1>0, <2>1, <2>2
    <2>4. ASSUME NEW i \in R', NEW j \in R', i < j
          PROVE  ops'[j].ts - ops'[i].ts >= ReclaimCooldown
      <3>1. CASE j = Len(ops) + 1
        BY <1>0, <2>1, <2>3, <2>4, <3>1
      <3>2. CASE j # Len(ops) + 1
        BY <1>0, <2>1, <2>4, <3>2 DEF ReclaimSpaced
      <3> QED
        BY <3>1, <3>2
    <2> QED
      BY <2>4 DEF ReclaimSpaced
  <1> QED
    BY <1>1, <1>2, <1>3, LedgerStep, KindsDisjoint

(***************************************************************************)
(* Jobs and write-offs.                                                    *)
(***************************************************************************)
WrittenOff(i) == i \in DOMAIN ops /\ ops[i].outcome # "failed"
                 /\ ops'[i].outcome = "failed"

\* The only step that writes a row off is the sidecar's refusal of its job.
LEMMA OnlyRefusalsWriteOff ==
    ASSUME TypeOK, AwaitedRows, [Next]_vars, NEW i, WrittenOff(i)
    PROVE  \E j \in jobs : JobRefused(j) /\ j.row = i
  <1>c. cyc.avail \in Int /\ cyc.resv \in Int
    BY DEF TypeOK, CycleType
  <1>o. ~ClosesOpen /\ ops' # ops /\ \A op : ~AppendRow(op)
    BY DEF WrittenOff, ClosesOpen, AppendRow
  <1>h. ASSUME NEW r, NEW v \in Verdicts, NEW e, Heard(r, v, e)
        PROVE  r = i /\ v = "refused"
    <2>1. \E S \in SUBSET {r}, o \in {OutcomeFor(v), ClosedOutcome(v)} :
             Closes(S, o)
      <3>1. \E S \in SUBSET {r}, o \in {OutcomeFor(v), ClosedOutcome(v)} :
                 /\ Closes(S, o)
                 /\ \A k \in S \cap DOMAIN ops :
                       /\ \/ ops[k].op \in ManualOps
                          \/ ops[k].outcome = "pending"
                       /\ ops[k].op = "topup" => o = OutcomeFor(v)
        BY <1>h, HeardEffect
      <3> QED
        BY <3>1
    <2>2. PICK S \in SUBSET {r}, o \in {OutcomeFor(v), ClosedOutcome(v)} :
            Closes(S, o)
      BY <2>1
    <2>3. i \in S /\ o = "failed"
      BY <2>2 DEF Closes, WrittenOff
    <2>4. v = "refused"
      BY <2>3 DEF Verdicts, OutcomeFor, ClosedOutcome
    <2> QED
      BY <2>3, <2>4
  <1>1. CASE CycleStart \/ Settle \/ Shutdown
    BY <1>1, <1>o, CycleStartEffect, SettleEffect, ShutdownEffect
  <1>4. CASE TopupFired
    BY <1>4, <1>o, <1>c, BeginAppends, KindsDisjoint DEF TopupFired
  <1>5. ASSUME NEW op \in ReclaimOps, NEW ids \in SUBSET Channels,
               FireReclaim(op, ids)
        PROVE  FALSE
    BY <1>5, <1>o, <1>c, BeginAppends, KindsDisjoint DEF FireReclaim
  <1>6. ASSUME NEW op \in ManualKinds, ManualFired(op)
        PROVE  FALSE
    <2>1. ops' = ops \/ ops' = Begin(ops, op, NoReading, NoReading, now)
      BY <1>6 DEF ManualFired
    <2>2. op \in OpKinds /\ NoReading \in Int
      BY WorldAssumption, KindsDisjoint DEF NoReading
    <2> QED
      BY <1>o, <2>1, <2>2, BeginAppends
  <1>7. ASSUME NEW k \in 0 .. Len(ops), ReplyLost(k)
        PROVE  FALSE
    BY <1>7, <1>h DEF ReplyLost, Verdicts
  <1>8. ASSUME NEW j \in jobs, JobSucceeds(j) \/ JobFails(j)
        PROVE  FALSE
    BY <1>8, <1>h DEF JobSucceeds, JobFails, Verdicts
  <1>9. ASSUME NEW j \in jobs, JobRefused(j)
        PROVE  j.row = i
    BY <1>9, <1>h DEF JobRefused, Verdicts
  <1>10. ASSUME NEW j \in jobs, CliBroadcasts(j) \/ ReclaimRuns(j) \/ LandsLate(j)
         PROVE  FALSE
    BY <1>10, <1>o DEF CliBroadcasts, ReclaimRuns, LandsLate
  <1>11. ASSUME NEW c \in Channels, ChannelOpens(c) \/ ChannelSettles(c)
         PROVE  FALSE
    BY <1>11, <1>o DEF ChannelOpens, ChannelSettles
  <1>12. ASSUME NEW kind, ClearHalt(kind)
         PROVE  FALSE
    BY <1>12, <1>o DEF ClearHalt
  <1>13. CASE \/ ReclaimGate \/ ReclaimDeclined \/ TopupRefused
              \/ StatusWritten \/ Crash \/ Tick \/ UNCHANGED vars
    BY <1>13, <1>o
    DEF ReclaimGate, ReclaimDeclined, TopupRefused, StatusWritten, Crash, Tick,
        vars
  <1> QED
    BY <1>1, <1>4, <1>5, <1>6, <1>7, <1>8, <1>9, <1>10, <1>11, <1>12, <1>13
    DEF Next, KeeperStep

\* What a step may do to the jobs: forget some, move one on, or accept one with
\* a new row or with none.
Forgets  == jobs' \subseteq jobs /\ sent' = sent
Moves(j) == /\ \E k : /\ jobs' = (jobs \ {j}) \cup {k}
                      /\ k.row = j.row /\ k.op = j.op /\ k.stage # "queued"
                      /\ k.born = j.born
            /\ j.stage # "mempool"
            /\ sent' \in {sent, sent \cup {j.row}}
            /\ sent' # sent => ops' = ops /\ j.stage = "queued"
Accepts(i, op) == \E k : /\ jobs' = jobs \cup {k} /\ k.row = i /\ k.op = op
                         /\ k.born = now /\ sent' = sent

\* What a step may do to the control requests: forget some, move one on, or accept
\* one together with its new row (or with none, from the dashboard).
LEMMA JobsShape ==
    ASSUME TypeOK, [Next]_vars
    PROVE  \/ Forgets
           \/ \E j \in jobs : Moves(j)
           \/ \E op \in OpKinds : Accepts(Len(ops) + 1, op) /\ AppendRow(op)
           \/ \E op \in ManualOps : Accepts(0, op) /\ ops' = ops
  <1>c. cyc.avail \in Int /\ cyc.resv \in Int
    BY DEF TypeOK, CycleType
  <1>t. jobs \subseteq JobType
    BY DEF TypeOK
  <1>j. \A i, op, ids : /\ Job(i, op, ids).row = i /\ Job(i, op, ids).op = op
                        /\ Job(i, op, ids).born = now
    BY DEF Job
  <1>1. CASE TopupFired
    <2>1. Accepts(Len(ops) + 1, "topup")
      BY <1>1, <1>j DEF TopupFired, Accepts
    <2>2. AppendRow("topup")
      BY <1>1, <1>c, BeginAppends, KindsDisjoint DEF TopupFired
    <2> QED
      BY <2>1, <2>2, KindsDisjoint
  <1>2. ASSUME NEW op \in ReclaimOps, NEW ids \in SUBSET Channels,
               FireReclaim(op, ids)
        PROVE  Accepts(Len(ops) + 1, op) /\ AppendRow(op) /\ op \in OpKinds
    <2>0. /\ jobs' = jobs \cup {Job(Len(ops) + 1, op, ids)}
          /\ sent' = sent
      BY <1>2 DEF FireReclaim
    <2>1. Accepts(Len(ops) + 1, op)
      BY <2>0, <1>j DEF Accepts
    <2>2. AppendRow(op)
      BY <1>2, <1>c, BeginAppends, KindsDisjoint DEF FireReclaim
    <2> QED
      BY <2>1, <2>2, KindsDisjoint
  <1>3. ASSUME NEW op \in ManualKinds, ManualFired(op)
        PROVE  /\ op \in ManualOps /\ op \in OpKinds
               /\ \/ Accepts(Len(ops) + 1, op) /\ AppendRow(op)
                  \/ Accepts(0, op) /\ ops' = ops
    <2>1. PICK i : /\ jobs' = jobs \cup {Job(i, op, {})} /\ sent' = sent
                   /\ \/ i = 0 /\ ops' = ops
                      \/ /\ i = Len(ops) + 1
                         /\ ops' = Begin(ops, op, NoReading, NoReading, now)
      BY <1>3 DEF ManualFired
    <2>2. op \in ManualOps /\ op \in OpKinds /\ NoReading \in Int
      BY WorldAssumption, KindsDisjoint DEF NoReading
    <2>3. Accepts(i, op)
      BY <1>j, <2>1 DEF Accepts
    <2> QED
      BY <2>1, <2>2, <2>3, BeginAppends
  <1>4. ASSUME NEW j \in jobs, CliBroadcasts(j)
        PROVE  Moves(j)
    <2> DEFINE k == [j EXCEPT !.stage = "broadcast"]
    <2>1. k.row = j.row /\ k.op = j.op /\ k.born = j.born /\ k.stage = "broadcast"
      BY <1>t DEF JobType
    <2>2. /\ jobs' = (jobs \ {j}) \cup {k} /\ sent' = sent \cup {j.row}
          /\ ops' = ops /\ j.stage = "queued"
      BY <1>4 DEF CliBroadcasts, MayRun
    <2> HIDE DEF k
    <2> QED
      BY <2>1, <2>2 DEF Moves
  <1>5. ASSUME NEW j \in jobs, ReclaimRuns(j)
        PROVE  Moves(j)
    <2>1. PICK e : jobs' = (jobs \ {j}) \cup
                        {[j EXCEPT !.stage = "broadcast", !.echo = e]}
      BY <1>5 DEF ReclaimRuns
    <2> DEFINE k == [j EXCEPT !.stage = "broadcast", !.echo = e]
    <2>2. k.row = j.row /\ k.op = j.op /\ k.born = j.born /\ k.stage = "broadcast"
      BY <1>t DEF JobType
    <2>3. sent' = sent \cup {j.row} /\ ops' = ops /\ j.stage = "queued"
      BY <1>5 DEF ReclaimRuns, MayRun
    <2> HIDE DEF k
    <2> QED
      BY <2>1, <2>2, <2>3 DEF Moves, k
  <1>6. ASSUME NEW j \in jobs, JobFails(j)
        PROVE  Forgets \/ Moves(j)
    <2>1. sent' = sent /\ j.stage # "mempool"
      BY <1>6 DEF JobFails
    <2>2. CASE jobs' = (jobs \ {j}) \cup {[j EXCEPT !.stage = "mempool"]}
      <3> DEFINE k == [j EXCEPT !.stage = "mempool"]
      <3>1. k.row = j.row /\ k.op = j.op /\ k.born = j.born /\ k.stage = "mempool"
        BY <1>t DEF JobType
      <3> HIDE DEF k
      <3> QED
        BY <2>1, <2>2, <3>1 DEF Moves, k
    <2>3. CASE jobs' = (jobs \ {j}) \cup {}
      BY <2>1, <2>3 DEF Forgets
    <2> QED
      BY <1>6, <2>2, <2>3 DEF JobFails
  <1>7. ASSUME NEW j \in jobs, JobSucceeds(j) \/ JobRefused(j) \/ LandsLate(j)
        PROVE  Forgets
    BY <1>7 DEF JobSucceeds, JobRefused, LandsLate, Forgets
  <1>8. ASSUME NEW i, ReplyLost(i) PROVE Forgets
    BY <1>8 DEF ReplyLost, Forgets
  <1>9. ASSUME NEW c, ChannelOpens(c) \/ ChannelSettles(c) PROVE Forgets
    BY <1>9 DEF ChannelOpens, ChannelSettles, Forgets
  <1>10. ASSUME NEW kind, ClearHalt(kind) PROVE Forgets
    BY <1>10 DEF ClearHalt, Forgets
  <1>11. CASE \/ CycleStart \/ Settle \/ ReclaimGate \/ ReclaimDeclined
              \/ TopupRefused \/ StatusWritten \/ Crash \/ Shutdown \/ Tick
              \/ UNCHANGED vars
    BY <1>11
    DEF CycleStart, Settle, ReclaimGate, ReclaimDeclined, TopupRefused,
        StatusWritten, Crash, Shutdown, Tick, vars, Forgets
  <1> QED
    BY <1>1, <1>2, <1>3, <1>4, <1>5, <1>6, <1>7, <1>8, <1>9, <1>10, <1>11
    DEF Next, KeeperStep

\* Every request keeps a row of its own kind that is not written off, and no
\* broadcast is written off by any step.
LEMMA JobsStep ==
    ASSUME TypeOK, TypeOK', AwaitedRows, JobsBacked, JobsUnique,
           NeverWrittenOff, [Next]_vars
    PROVE  JobsBacked' /\ JobsUnique' /\ NeverWrittenOff'
  <1> DEFINE n == Len(ops) + 1
  <1>0. /\ Len(ops) \in Nat /\ DOMAIN ops = 1 .. Len(ops)
        /\ n \in Nat /\ n # 0 /\ n \notin DOMAIN ops
    BY RowTimes
  <1>1. sent \ {0} \subseteq DOMAIN ops /\ n \notin sent
    BY <1>0 DEF NeverWrittenOff
  \* A row the step writes off is not sent and keeps no job.
  <1>2. ASSUME NEW i, WrittenOff(i)
        PROVE  /\ i \notin sent /\ sent' = sent
               /\ jobs' \subseteq jobs /\ \A k \in jobs' : k.row # i
    <2>1. PICK j \in jobs : JobRefused(j) /\ j.row = i
      BY <1>2, OnlyRefusalsWriteOff
    <2>2. j.stage = "queued" /\ jobs' = jobs \ {j} /\ sent' = sent
      BY <2>1 DEF JobRefused
    <2>3. i # 0
      BY <1>0, <1>2 DEF WrittenOff
    <2> QED
      BY <2>1, <2>2, <2>3 DEF JobsUnique
  <1>3. \/ Rewrite
        \/ \E op \in OpKinds : AppendRow(op)
    BY LedgerStep, KindsDisjoint
  <1>4. /\ DOMAIN ops \subseteq DOMAIN ops'
        /\ \A i \in DOMAIN ops : ops'[i].op = ops[i].op
    BY <1>0, <1>3 DEF Rewrite, AppendRow
  <1>5. ASSUME NEW i \in DOMAIN ops, ops[i].outcome # "failed", ~WrittenOff(i)
        PROVE  i \in DOMAIN ops' /\ ops'[i].outcome # "failed"
    BY <1>4, <1>5 DEF WrittenOff
  <1>6. CASE Forgets
    <2>1. JobsBacked'
      <3>1. ASSUME NEW k \in jobs', k.row # 0
            PROVE  /\ k.row \in DOMAIN ops' /\ ops'[k.row].op = k.op
                   /\ ops'[k.row].outcome # "failed"
        <4>1. /\ k \in jobs /\ k.row \in DOMAIN ops /\ ops[k.row].op = k.op
              /\ ops[k.row].outcome # "failed"
          BY <1>6, <3>1 DEF Forgets, JobsBacked
        <4>2. ~WrittenOff(k.row)
          BY <1>2
        <4> QED
          BY <1>4, <1>5, <4>1, <4>2
      <3> QED
        BY <3>1 DEF JobsBacked
    <2>2. JobsUnique'
      BY <1>6 DEF Forgets, JobsUnique
    <2>3. NeverWrittenOff'
      <3>1. ASSUME NEW i \in sent' \ {0}
            PROVE  i \in DOMAIN ops' /\ ops'[i].outcome # "failed"
        <4>1. i \in sent /\ i \in DOMAIN ops /\ ops[i].outcome # "failed"
          BY <1>6, <3>1 DEF Forgets, NeverWrittenOff
        <4>2. ~WrittenOff(i)
          BY <1>2, <4>1
        <4> QED
          BY <1>5, <4>1, <4>2
      <3> QED
        BY <3>1 DEF NeverWrittenOff
    <2> QED
      BY <2>1, <2>2, <2>3
  <1>7. ASSUME NEW j \in jobs, Moves(j), \A i : ~WrittenOff(i)
        PROVE  JobsBacked' /\ JobsUnique' /\ NeverWrittenOff'
    <2>1. PICK m : /\ jobs' = (jobs \ {j}) \cup {m}
                   /\ m.row = j.row /\ m.op = j.op /\ m.stage # "queued"
      BY <1>7 DEF Moves
    <2>2. sent' \subseteq sent \cup {j.row}
      BY <1>7 DEF Moves
    <2>3. JobsBacked'
      <3>1. ASSUME NEW k \in jobs', k.row # 0
            PROVE  /\ k.row \in DOMAIN ops' /\ ops'[k.row].op = k.op
                   /\ ops'[k.row].outcome # "failed"
        <4>1. PICK l \in jobs : l.row = k.row /\ l.op = k.op
          BY <2>1
        <4>2. /\ l.row \in DOMAIN ops /\ ops[l.row].op = l.op
              /\ ops[l.row].outcome # "failed"
          BY <3>1, <4>1 DEF JobsBacked
        <4> QED
          BY <1>4, <1>5, <1>7, <4>1, <4>2
      <3> QED
        BY <3>1 DEF JobsBacked
    <2>4. JobsUnique'
      BY <2>1, <2>2 DEF JobsUnique
    <2>5. NeverWrittenOff'
      <3>1. ASSUME NEW i \in sent' \ {0}
            PROVE  i \in DOMAIN ops' /\ ops'[i].outcome # "failed"
        <4>1. i \in DOMAIN ops /\ ops[i].outcome # "failed"
          BY <2>2, <3>1 DEF NeverWrittenOff, JobsBacked
        <4> QED
          BY <1>5, <1>7, <4>1
      <3> QED
        BY <3>1 DEF NeverWrittenOff
    <2> QED
      BY <2>3, <2>4, <2>5
  <1>8. ASSUME NEW op \in OpKinds, Accepts(n, op), AppendRow(op)
        PROVE  JobsBacked' /\ JobsUnique' /\ NeverWrittenOff'
    <2>1. PICK m : jobs' = jobs \cup {m} /\ m.row = n /\ m.op = op /\ sent' = sent
      BY <1>8 DEF Accepts
    <2>2. /\ n \in DOMAIN ops' /\ ops'[n].op = op /\ ops'[n].outcome = "pending"
          /\ DOMAIN ops \subseteq DOMAIN ops'
          /\ \A i \in DOMAIN ops : ops'[i] = ops[i]
      BY <1>0, <1>8 DEF AppendRow
    <2>3. \A k \in jobs : k.row # n
      BY <1>0 DEF JobsBacked
    <2>4. JobsBacked'
      BY <1>0, <2>1, <2>2 DEF JobsBacked
    <2>5. JobsUnique'
      BY <1>0, <1>1, <2>1, <2>3 DEF JobsUnique
    <2>6. NeverWrittenOff'
      BY <2>1, <2>2 DEF NeverWrittenOff
    <2> QED
      BY <2>4, <2>5, <2>6
  <1>9. ASSUME NEW op, Accepts(0, op), ops' = ops
        PROVE  JobsBacked' /\ JobsUnique' /\ NeverWrittenOff'
    <2>1. PICK m : jobs' = jobs \cup {m} /\ m.row = 0 /\ sent' = sent
      BY <1>9 DEF Accepts
    <2> QED
      BY <1>9, <2>1 DEF JobsBacked, JobsUnique, NeverWrittenOff
  <1> QED
    <2>1. CASE \E i : WrittenOff(i)
      BY <1>2, <1>6, <2>1 DEF Forgets
    <2>2. CASE \A i : ~WrittenOff(i)
      BY <1>6, <1>7, <1>8, <1>9, <2>2, JobsShape
    <2> QED
      BY <2>1, <2>2

(***************************************************************************)
(* The theorems.                                                           *)
(***************************************************************************)
THEOREM InitKeeperInv == Init => KeeperInv
  <1> SUFFICES ASSUME Init PROVE KeeperInv
    OBVIOUS
  <1>1. /\ ops = <<>> /\ jobs = {} /\ sent = {} /\ pc = "idle" /\ manual = -1
        /\ DOMAIN ops = {}
    BY DEF Init, Nobody
  <1>2. \A kinds, outs : Rows(ops, kinds, outs) = {}
    BY <1>1 DEF Rows
  <1> QED
    BY <1>1, <1>2
    DEF KeeperInv, JobsBacked, JobsUnique, AwaitedRows, ScanUnhalted,
        TopupNeverOk, NeverWrittenOff, CapHolds, CooldownHolds, ReclaimSpaced,
        SpentTopups

\* Every step keeps the inductive invariant.
THEOREM NextKeeperInv == TypeOK /\ TypeOK' /\ KeeperInv /\ [Next]_vars => KeeperInv'
  BY AwaitsStep, TopupNeverOkStep, CooldownStep, CapStep, ReclaimSpacedStep,
     JobsStep
  DEF KeeperInv

\* The inductive invariant holds in every reachable state of the keeper, the
\* sidecar and the dashboard.
THEOREM KeeperInvariant == Spec => [](TypeOK /\ KeeperInv)
  <1>1. Init => TypeOK /\ KeeperInv
    BY InitType, InitKeeperInv
  <1>2. (TypeOK /\ KeeperInv) /\ [Next]_vars => (TypeOK /\ KeeperInv)'
    BY NextType, NextKeeperInv
  <1> QED
    BY <1>1, <1>2, PTL DEF Spec


(***************************************************************************)
(* What follows from the invariant.                                        *)
(***************************************************************************)
\* No transaction that was broadcast is ever written off as `failed'.
THEOREM BroadcastsNeverWrittenOff == Spec => []NeverWrittenOff
  <1>1. KeeperInv => NeverWrittenOff
    BY DEF KeeperInv
  <1> QED
    BY <1>1, KeeperInvariant, PTL

\* The daily cap holds in every rolling window.
THEOREM CapIsKept == Spec => []CapHolds
  <1>1. KeeperInv => CapHolds
    BY DEF KeeperInv
  <1> QED
    BY <1>1, KeeperInvariant, PTL

\* Deposits are spaced by the cooldown.
THEOREM CooldownIsKept == Spec => []CooldownHolds
  <1>1. KeeperInv => CooldownHolds
    BY DEF KeeperInv
  <1> QED
    BY <1>1, KeeperInvariant, PTL

\* Reclaim phases are spaced by the challenge window.
THEOREM ReclaimIsSpaced == Spec => []ReclaimSpaced
  <1>1. KeeperInv => ReclaimSpaced
    BY DEF KeeperInv
  <1> QED
    BY <1>1, KeeperInvariant, PTL

\* A persisted halt binds its kind of transaction.
THEOREM HaltsAreBinding == Spec => HaltsBind
  <1>1. TypeOK /\ KeeperInv /\ [Next]_vars
           => [/\ NewRow({"topup"}) => "topup" \notin halts
               /\ NewRow(ReclaimOps) => "reclaim" \notin halts]_vars
    <2> SUFFICES ASSUME TypeOK, KeeperInv, [Next]_vars
                 PROVE  /\ NewRow({"topup"}) => "topup" \notin halts
                        /\ NewRow(ReclaimOps) => "reclaim" \notin halts
      OBVIOUS
    <2>0. AwaitedRows /\ ScanUnhalted
      BY DEF KeeperInv
    <2>1. CASE Rewrite
      BY <2>1, RowTimes DEF Rewrite, NewRow
    <2>2. ASSUME NEW op, AppendRow(op)
          PROVE  \A kinds : NewRow(kinds) => op \in kinds
      BY <2>2 DEF AppendRow, NewRow
    <2>3. CASE TopupFired /\ AppendRow("topup")
      BY <2>2, <2>3, KindsDisjoint DEF TopupFired, Halted
    <2>4. ASSUME NEW op \in ReclaimOps, NEW ids \in SUBSET Channels,
                 FireReclaim(op, ids), AppendRow(op)
          PROVE  /\ ~NewRow({"topup"})
                 /\ "reclaim" \notin halts
      BY <2>0, <2>2, <2>4, KindsDisjoint DEF FireReclaim, ScanUnhalted
    <2>5. ASSUME NEW op \in ManualOps, AppendRow(op)
          PROVE  ~NewRow({"topup"}) /\ ~NewRow(ReclaimOps)
      BY <2>2, <2>5, KindsDisjoint
    <2> QED
      BY <2>0, <2>1, <2>3, <2>4, <2>5, LedgerStep
  <1>2. Spec => [](TypeOK /\ KeeperInv)
    BY KeeperInvariant
  <1> QED
    BY <1>1, <1>2, PTL DEF Spec, HaltsBind

\* A row the keeper closed is final.
THEOREM KeeperRowsStayFinal == Spec => KeeperRowsFinal
  <1>1. TypeOK /\ KeeperInv /\ [Next]_vars
           => [\A i \in Rows(ops, OpKinds \ ManualOps, Terminal) :
                  ops'[i].outcome = ops[i].outcome]_vars
    <2> SUFFICES ASSUME TypeOK, KeeperInv, [Next]_vars,
                        NEW i \in Rows(ops, OpKinds \ ManualOps, Terminal)
                 PROVE  ops'[i].outcome = ops[i].outcome
      OBVIOUS
    <2>1. /\ i \in DOMAIN ops /\ ops[i].op \notin ManualOps
          /\ ops[i].outcome \notin {"pending", "fired"}
      BY DEF Rows, Terminal
    <2>2. AwaitedRows
      BY DEF KeeperInv
    <2>3. Rewrite \/ \E op : AppendRow(op)
      BY <2>2, LedgerStep
    <2> QED
      BY <2>1, <2>3 DEF Rewrite, AppendRow
  <1>2. Spec => [](TypeOK /\ KeeperInv)
    BY KeeperInvariant
  <1> QED
    BY <1>1, <1>2, PTL DEF Spec, KeeperRowsFinal

(***************************************************************************)
(* The breakers.                                                           *)
(***************************************************************************)
\* The newest n rows are fewer than n only if there are fewer rows.
LEMMA NewestAreAll ==
    ASSUME NEW L \in Nat, NEW S, S \subseteq 1 .. L, NEW n \in Nat,
           Cardinality(Newest(S, n)) < n
    PROVE  Newest(S, n) = S
  <1> DEFINE X == S \ Newest(S, n)
  <1>1. SUFFICES ASSUME X # {} PROVE FALSE
    BY DEF Newest
  <1>2. PICK m \in X : \A i \in X : i <= m
    BY <1>1, GreatestNumber
  <1>3. ASSUME NEW j \in S, j > m PROVE j \in Newest(S, n)
    <2>1. j \in X => j <= m
      BY <1>2
    <2>2. j \in Int /\ m \in Int
      BY DEF Newest
    <2> QED
      BY <1>3, <2>1, <2>2
  <1>4. IsFiniteSet(Newest(S, n))
    <2>1. Newest(S, n) \subseteq 1 .. L
      BY DEF Newest
    <2>2. IsFiniteSet(1 .. L)
      BY FS_Interval
    <2> QED
      BY <2>1, <2>2, FS_Subset
  <1>5. /\ Cardinality({j \in S : j > m}) <= Cardinality(Newest(S, n))
        /\ Cardinality({j \in S : j > m}) \in Nat
        /\ Cardinality(Newest(S, n)) \in Nat
    BY <1>3, <1>4, FS_Subset, FS_CardinalityType
  <1>6. m \in Newest(S, n)
    BY <1>2, <1>5 DEF Newest
  <1> QED
    BY <1>2, <1>6

\* The two ledgers hold the same deposits with the same outcomes.
SameDeposits(log, new) ==
    \A i : /\ i \in DOMAIN new /\ new[i].op = "topup"
                <=> i \in DOMAIN log /\ log[i].op = "topup"
           /\ i \in DOMAIN log /\ log[i].op = "topup"
                => new[i].outcome = log[i].outcome

\* Neither breaker of _settle_topups is tripped by the deposits on the ledger.
BreakersSilent(log) ==
    /\ ~PumpTripped(log)
    /\ ErrorStrikesOf(log, "topup", ErrorStrikes) < ErrorStrikes

AfterSettle == {"reclaim", "scan", "tx", "topup"}

\* Past _settle_topups, a cycle that read the whole store and set no verdict has
\* silent breakers, whatever else happens at its awaits.
SettledFirst ==
    /\ faults <= MaxFaults
    /\ faults = MaxFaults /\ cyc.verdict = "none" /\ pc \in AfterSettle
          => BreakersSilent(ops)

\* The breakers read nothing but the deposits and their outcomes.
LEMMA SameEvidence ==
    ASSUME NEW log, NEW new, SameDeposits(log, new)
    PROVE  BreakersSilent(log) => BreakersSilent(new)
  <1>1. \A outs : Rows(new, {"topup"}, outs) = Rows(log, {"topup"}, outs)
    BY DEF Rows, SameDeposits
  <1>2. \A n : /\ NewestSettled(new, "topup", n) = NewestSettled(log, "topup", n)
               /\ NewestTerminal(new, "topup", n) = NewestTerminal(log, "topup", n)
    BY <1>1 DEF NewestSettled, NewestTerminal
  <1>3. \A n : \A i \in NewestSettled(log, "topup", n)
                      \cup NewestTerminal(log, "topup", n) :
                  new[i].outcome = log[i].outcome
    BY DEF NewestSettled, NewestTerminal, Newest, Rows, SameDeposits
  <1>4. PumpTripped(new) => PumpTripped(log)
    BY <1>2, <1>3 DEF PumpTripped
  <1>5. ErrorStrikesOf(new, "topup", ErrorStrikes)
            = ErrorStrikesOf(log, "topup", ErrorStrikes)
    <2> DEFINE T == NewestTerminal(log, "topup", ErrorStrikes)
    <2>1. {i \in T : \A j \in T : j >= i => new[j].outcome \in Error}
              = {i \in T : \A j \in T : j >= i => log[j].outcome \in Error}
      BY <1>3
    <2> QED
      BY <1>2, <2>1 DEF ErrorStrikesOf, Strikes
  <1> QED
    BY <1>4, <1>5 DEF BreakersSilent

\* Rows of another kind are no evidence.
LEMMA OthersKeepDeposits ==
    ASSUME TypeOK
    PROVE  /\ ops' = ops => SameDeposits(ops, ops')
           /\ \A op : op # "topup" /\ AppendRow(op) => SameDeposits(ops, ops')
           /\ \A S, o : /\ Closes(S, o)
                        /\ \A k \in S \cap DOMAIN ops : ops[k].op # "topup"
                        => SameDeposits(ops, ops')
  <1>1. DOMAIN ops = 1 .. Len(ops) /\ Len(ops) \in Nat
    BY RowTimes
  <1>2. ops' = ops => SameDeposits(ops, ops')
    BY DEF SameDeposits
  <1>3. ASSUME NEW op, op # "topup", AppendRow(op)
        PROVE  SameDeposits(ops, ops')
    <2>1. DOMAIN ops' = DOMAIN ops \cup {Len(ops) + 1}
      BY <1>1, <1>3 DEF AppendRow
    <2> QED
      BY <1>3, <2>1 DEF AppendRow, SameDeposits
  <1>4. ASSUME NEW S, NEW o, Closes(S, o),
               \A k \in S \cap DOMAIN ops : ops[k].op # "topup"
        PROVE  SameDeposits(ops, ops')
    BY <1>4 DEF Closes, SameDeposits
  <1> QED
    BY <1>2, <1>3, <1>4

\* An answer heard past the settlement pass, and not the end of the cycle, is
\* about a reclaim phase or a manual operation.
LEMMA HeardKeepsDeposits ==
    ASSUME TypeOK, AwaitedRows, NEW i, NEW v \in Verdicts, NEW e, Heard(i, v, e),
           pc' \in AfterSettle
    PROVE  /\ pc \in AfterSettle /\ cyc'.verdict = cyc.verdict
           /\ SameDeposits(ops, ops')
  <1>0. ClosedOutcome(v) \in Outcomes /\ cyc \in CycleType
    BY OutcomeType DEF TypeOK
  <1>1. pc = "deposit" /\ cyc.row = i /\ DepositHeard(v) => FALSE
    BY DEF DepositHeard, AfterSettle
  <1>2. CASE pc = "tx" /\ cyc.row = i /\ TxHeard(v, e)
    <2>1. ops' = ops \/ ops' = Finish(ops, {i}, ClosedOutcome(v), now)
      BY <1>2 DEF TxHeard
    <2>2. \A k \in {i} \cap DOMAIN ops : ops[k].op # "topup"
      BY <1>2, KindsDisjoint DEF AwaitedRows
    <2>3. SameDeposits(ops, ops')
      BY <1>0, <2>1, <2>2, FinishCloses, OthersKeepDeposits
    <2>4. cyc'.verdict = cyc.verdict
      BY <1>0, <1>2 DEF TxHeard, CycleType
    <2> QED
      BY <1>2, <2>3, <2>4 DEF AfterSettle
  <1>3. CASE manual = i /\ ManualHeard(v)
    <2>1. \/ ops' = ops
          \/ i # 0 /\ ops' = Finish(ops, {i}, ClosedOutcome(v), now)
      BY <1>3 DEF ManualHeard
    <2>2. \A k \in {i} \cap DOMAIN ops : ops[k].op # "topup"
      <3>1. i \in DOMAIN ops => i > 0
        BY RowTimes
      <3> QED
        BY <1>3, <3>1, KindsDisjoint DEF AwaitedRows
    <2>3. SameDeposits(ops, ops')
      BY <1>0, <2>1, <2>2, FinishCloses, OthersKeepDeposits
    <2>4. pc' = pc /\ cyc' = cyc
      BY <1>3 DEF ManualHeard
    <2> QED
      BY <2>3, <2>4
  <1>4. CASE UNCHANGED <<ops, halts, keeper, manual, faults>>
    BY <1>4, OthersKeepDeposits
  <1> QED
    BY <1>1, <1>2, <1>3, <1>4 DEF Heard

\* Only the settlement pass brings the keeper past itself, and after it no
\* deposit changes before the keeper fires one or ends its cycle.
LEMMA DepositsStand ==
    ASSUME TypeOK, AwaitedRows, [Next]_vars, ~Settle, pc' \in AfterSettle
    PROVE  /\ pc \in AfterSettle /\ cyc'.verdict = cyc.verdict
           /\ SameDeposits(ops, ops')
  <1>c. cyc \in CycleType /\ cyc.avail \in Int /\ cyc.resv \in Int
    BY DEF TypeOK, CycleType
  <1>k. \A op \in ReclaimOps \cup ManualOps : op # "topup" /\ op \in OpKinds
    BY KindsDisjoint
  <1>1. ASSUME NEW op \in ReclaimOps, NEW ids \in SUBSET Channels,
               FireReclaim(op, ids)
        PROVE  /\ pc \in AfterSettle /\ cyc'.verdict = cyc.verdict
               /\ SameDeposits(ops, ops')
    <2>1. AppendRow(op)
      BY <1>1, <1>c, <1>k, BeginAppends DEF FireReclaim
    <2>2. pc = "scan" /\ cyc'.verdict = cyc.verdict
      BY <1>1, <1>c DEF FireReclaim, CycleType
    <2> QED
      BY <1>k, <2>1, <2>2, OthersKeepDeposits DEF AfterSettle
  <1>2. ASSUME NEW op \in ManualKinds, ManualFired(op)
        PROVE  /\ pc \in AfterSettle /\ cyc'.verdict = cyc.verdict
               /\ SameDeposits(ops, ops')
    <2>0. op \in ManualOps /\ NoReading \in Int
      BY WorldAssumption DEF NoReading
    <2>1. ops' = ops \/ ops' = Begin(ops, op, NoReading, NoReading, now)
      BY <1>2 DEF ManualFired
    <2>2. SameDeposits(ops, ops')
      BY <1>k, <2>0, <2>1, BeginAppends, OthersKeepDeposits
    <2>3. pc' = pc /\ cyc' = cyc
      BY <1>2 DEF ManualFired
    <2> QED
      BY <2>2, <2>3
  <1>3. ASSUME NEW i \in 0 .. Len(ops), ReplyLost(i)
        PROVE  /\ pc \in AfterSettle /\ cyc'.verdict = cyc.verdict
               /\ SameDeposits(ops, ops')
    BY <1>3, HeardKeepsDeposits DEF ReplyLost, Verdicts
  <1>4. ASSUME NEW j \in jobs, JobSucceeds(j) \/ JobRefused(j) \/ JobFails(j)
        PROVE  /\ pc \in AfterSettle /\ cyc'.verdict = cyc.verdict
               /\ SameDeposits(ops, ops')
    BY <1>4, HeardKeepsDeposits DEF JobSucceeds, JobRefused, JobFails, Verdicts
  <1>5. UNCHANGED <<ops, keeper>> =>
            /\ pc \in AfterSettle /\ cyc'.verdict = cyc.verdict
            /\ SameDeposits(ops, ops')
    BY OthersKeepDeposits
  <1>6. ASSUME NEW j \in jobs, CliBroadcasts(j) \/ ReclaimRuns(j) \/ LandsLate(j)
        PROVE  UNCHANGED <<ops, keeper>>
    BY <1>6 DEF CliBroadcasts, ReclaimRuns, LandsLate
  <1>7. ASSUME NEW c \in Channels, ChannelOpens(c) \/ ChannelSettles(c)
        PROVE  UNCHANGED <<ops, keeper>>
    BY <1>7 DEF ChannelOpens, ChannelSettles
  <1>8. ASSUME NEW kind, ClearHalt(kind)
        PROVE  UNCHANGED <<ops, keeper>>
    BY <1>8 DEF ClearHalt
  <1>9. StatusWritten \/ Tick \/ UNCHANGED vars => UNCHANGED <<ops, keeper>>
    BY DEF StatusWritten, Tick, vars
  <1>10. CASE ReclaimGate \/ ReclaimDeclined
    <2>1. pc \in {"reclaim", "scan"} /\ cyc' = cyc /\ ops' = ops
      BY <1>10 DEF ReclaimGate, ReclaimDeclined
    <2> QED
      BY <2>1, OthersKeepDeposits DEF AfterSettle
  <1>11. ~(CycleStart \/ TopupRefused \/ TopupFired \/ Crash \/ Shutdown)
    BY DEF CycleStart, TopupRefused, TopupFired, Crash, Shutdown, AfterSettle
  <1> QED
    BY <1>1, <1>2, <1>3, <1>4, <1>5, <1>6, <1>7, <1>8, <1>9, <1>10, <1>11
    DEF Next, KeeperStep

\* Store failures only use their budget up.
LEMMA FaultsFall ==
    ASSUME TypeOK, [Next]_vars
    PROVE  faults' <= faults
  <1>t. faults \in Nat
    BY DEF TypeOK
  <1>f. \A b : Faulty(b) => faults' <= faults
    BY <1>t DEF Faulty
  <1>u. faults' = faults => faults' <= faults
    BY <1>t
  <1>h. ASSUME NEW i, NEW v, NEW e, Heard(i, v, e)
        PROVE  faults' <= faults
    BY <1>h, <1>f, <1>u DEF Heard, DepositHeard, TxHeard, ManualHeard
  <1>1. CycleStart \/ Settle \/ ReclaimGate \/ TopupRefused \/ TopupFired
            => \E b : Faulty(b)
    BY DEF CycleStart, Settle, ReclaimGate, TopupRefused, TopupFired
  <1>2. ASSUME NEW op, ManualFired(op) PROVE \E b : Faulty(b)
    BY <1>2 DEF ManualFired
  <1>3. ASSUME NEW i, ReplyLost(i) PROVE faults' <= faults
    BY <1>3, <1>h DEF ReplyLost
  <1>4. ASSUME NEW j, JobSucceeds(j) \/ JobRefused(j) \/ JobFails(j)
        PROVE  faults' <= faults
    BY <1>4, <1>h DEF JobSucceeds, JobRefused, JobFails
  <1>5. ASSUME NEW j, CliBroadcasts(j) \/ ReclaimRuns(j) \/ LandsLate(j)
        PROVE  faults' = faults
    BY <1>5 DEF CliBroadcasts, ReclaimRuns, LandsLate
  <1>6. ASSUME NEW c, ChannelOpens(c) \/ ChannelSettles(c) PROVE faults' = faults
    BY <1>6 DEF ChannelOpens, ChannelSettles
  <1>7. ASSUME NEW kind, ClearHalt(kind) PROVE faults' = faults
    BY <1>7 DEF ClearHalt
  <1>8. ASSUME NEW op, NEW ids, FireReclaim(op, ids) PROVE faults' = faults
    BY <1>8 DEF FireReclaim
  <1>9. ReclaimDeclined \/ StatusWritten \/ Crash \/ Shutdown \/ Tick
            \/ UNCHANGED vars => faults' = faults
    BY DEF ReclaimDeclined, StatusWritten, Crash, Shutdown, Tick, vars
  <1> QED
    BY <1>f, <1>u, <1>1, <1>2, <1>3, <1>4, <1>5, <1>6, <1>7, <1>8, <1>9
    DEF Next, KeeperStep

\* While the budget of faults is whole, none has been spent.
LEMMA FaultsBounded ==
    ASSUME TypeOK, TypeOK', faults <= MaxFaults, [Next]_vars
    PROVE  faults' <= MaxFaults /\ (faults' = MaxFaults => faults = MaxFaults)
  <1>1. faults \in Nat
    BY DEF TypeOK
  <1>2. faults' \in Nat
    BY DEF TypeOK
  <1>3. MaxFaults \in Nat
    BY WorldAssumption
  <1> QED
    BY <1>1, <1>2, <1>3, FaultsFall

\* A settlement pass that read the store and set no verdict found both breakers
\* silent.
LEMMA SettleReads ==
    ASSUME TypeOK, Settle, faults' = faults, cyc'.verdict = "none"
    PROVE  BreakersSilent(ops')
  <1>1. PICK broken \in SUBSET {"settled", "terminal", "halt"} :
          /\ cyc' = [cyc EXCEPT !.verdict =
                IF "settled" \notin broken /\ PumpTripped(ops')
                THEN "pump_halt"
                ELSE IF "terminal" \notin broken
                        /\ ErrorStrikesOf(ops', "topup", ErrorStrikes)
                               >= ErrorStrikes
                     THEN "error_halt" ELSE "none"]
          /\ broken # {} => faults' = faults - 1
    BY Zenon DEF Settle, Faulty
  <1>2. broken = {}
    BY <1>1 DEF TypeOK
  <1>3. /\ ~PumpTripped(ops')
        /\ ~(ErrorStrikesOf(ops', "topup", ErrorStrikes) >= ErrorStrikes)
    BY <1>1, <1>2 DEF TypeOK, CycleType
  <1>4. ErrorStrikesOf(ops', "topup", ErrorStrikes) \in Nat
    <2> DEFINE T == NewestTerminal(ops', "topup", ErrorStrikes)
               E == {i \in T : \A j \in T : j >= i => ops'[j].outcome \in Error}
    <2>1. E \subseteq Rows(ops', {"topup"}, Terminal)
      BY DEF NewestTerminal, Newest
    <2>2. ops' \in Seq(Row)
      BY NextType DEF TypeOK, Next, KeeperStep
    <2>3. IsFiniteSet(Rows(ops', {"topup"}, Terminal))
      BY <2>2, RowsFinite
    <2>4. Cardinality(E) \in Nat
      BY <2>1, <2>3, FS_Subset, FS_CardinalityType
    <2> QED
      BY <2>4 DEF ErrorStrikesOf, Strikes
  <1> QED
    BY <1>3, <1>4, TimingAssumption DEF BreakersSilent

\* Every step keeps the breakers silent past the settlement pass.
LEMMA SettledFirstStep ==
    ASSUME TypeOK, TypeOK', AwaitedRows, SettledFirst, [Next]_vars
    PROVE  SettledFirst'
  <1>1. faults \in Nat /\ faults' \in Nat /\ MaxFaults \in Nat
    BY WorldAssumption DEF TypeOK
  <1>2. faults' <= faults /\ faults <= MaxFaults
    BY FaultsFall DEF SettledFirst
  <1>3. SUFFICES ASSUME faults' = MaxFaults, cyc'.verdict = "none",
                        pc' \in AfterSettle
                 PROVE  BreakersSilent(ops')
    BY <1>1, <1>2 DEF SettledFirst, BreakersSilent, PumpTripped, ErrorStrikesOf
  <1>4. faults' = faults
    BY <1>1, <1>2, <1>3
  <1>5. CASE Settle
    BY <1>3, <1>4, <1>5, SettleReads
  <1>6. CASE ~Settle
    BY <1>3, <1>4, <1>6, DepositsStand, SameEvidence DEF SettledFirst
  <1> QED
    BY <1>5, <1>6

\* With a readable store no deposit is started on a tripped breaker.
THEOREM BreakersAreBinding == Spec => BreakersBind
  <1>1. Init => SettledFirst
    BY WorldAssumption DEF Init, SettledFirst, AfterSettle
  <1>2. TypeOK /\ TypeOK' /\ KeeperInv /\ SettledFirst /\ [Next]_vars
            => SettledFirst'
    BY SettledFirstStep DEF KeeperInv
  <1>3. TypeOK /\ KeeperInv /\ SettledFirst /\ [Next]_vars
           => [NewRow({"topup"}) /\ NoFaultYet
                 => /\ \/ Cardinality(Rows(ops, {"topup"}, Settled)) < PumpStrikes
                       \/ \E i \in NewestSettled(ops, "topup", PumpStrikes) :
                              ops[i].outcome = "effective"
                    /\ Strikes(ops, NewestTerminal(ops, "topup", ErrorStrikes))
                           < ErrorStrikes]_vars
    <2> SUFFICES ASSUME TypeOK, KeeperInv, SettledFirst, [Next]_vars,
                        NewRow({"topup"}), NoFaultYet
                 PROVE  /\ \/ Cardinality(Rows(ops, {"topup"}, Settled))
                                  < PumpStrikes
                           \/ \E i \in NewestSettled(ops, "topup", PumpStrikes) :
                                  ops[i].outcome = "effective"
                        /\ Strikes(ops, NewestTerminal(ops, "topup", ErrorStrikes))
                               < ErrorStrikes
      OBVIOUS
    <2>1. TopupFired
      <3>1. ~Rewrite
        BY RowTimes DEF Rewrite, NewRow
      <3>2. ASSUME NEW op, AppendRow(op) PROVE op = "topup"
        BY <3>2 DEF AppendRow, NewRow
      <3> QED
        BY <3>1, <3>2, LedgerStep, KindsDisjoint DEF KeeperInv
    <2>2. faults = MaxFaults
      BY FaultsFall, WorldAssumption DEF TypeOK, SettledFirst, NoFaultYet
    <2>3. BreakersSilent(ops)
      BY <2>1, <2>2 DEF TopupFired, SettledFirst, AfterSettle
    <2> DEFINE R == Rows(ops, {"topup"}, Settled)
               N == NewestSettled(ops, "topup", PumpStrikes)
    <2>4. /\ R \subseteq 1 .. Len(ops) /\ Len(ops) \in Nat
          /\ IsFiniteSet(R) /\ N \subseteq R
      BY RowsFinite DEF TypeOK, NewestSettled, Newest
    <2>5. Cardinality(N) \in Nat /\ PumpStrikes \in Nat
      BY <2>4, FS_Subset, FS_CardinalityType, TimingAssumption
    <2>6. CASE Cardinality(N) < PumpStrikes
      <3>1. N = R
        BY <2>4, <2>5, <2>6, NewestAreAll DEF NewestSettled
      <3> QED
        BY <2>3, <2>6, <3>1 DEF BreakersSilent, ErrorStrikesOf
    <2>7. CASE Cardinality(N) >= PumpStrikes
      <3>1. PICK i \in N : ops[i].outcome # "ineffective"
        BY <2>3, <2>7 DEF BreakersSilent, PumpTripped
      <3>2. ops[i].outcome = "effective"
        BY <2>4, <3>1 DEF Rows, Settled
      <3> QED
        BY <2>3, <3>1, <3>2 DEF BreakersSilent, ErrorStrikesOf
    <2> QED
      BY <2>5, <2>6, <2>7
  <1>4. Spec => [](TypeOK /\ KeeperInv)
    BY KeeperInvariant
  <1> QED
    BY <1>1, <1>2, <1>3, <1>4, PTL DEF Spec, BreakersBind

(***************************************************************************)
(* No deposit on top of one that may still be under way.                   *)
(***************************************************************************)
\* A deposit request at the sidecar is within its budget, and its row, stamped
\* no earlier than the request, waits for an answer or had to give up on one.
DepositUnderWay(j) ==
    /\ j.born <= now /\ now - j.born <= DepositBudget
    /\ j.row \in DOMAIN ops
    /\ ops[j.row].outcome \in {"pending", "unknown"}
    /\ ops[j.row].upd >= j.born

DepositsUnderWay == \A j \in InSidecar : j.op = "topup" => DepositUnderWay(j)

\* While no store call failed: it is the newest deposit of the ledger ...
NewestUnderWay ==
    faults = MaxFaults =>
        \A j \in InSidecar, i \in DOMAIN ops :
            j.op = "topup" /\ ops[i].op = "topup" => i <= j.row

\* ... and past _settle_topups no deposit waits for an answer.
OrphansClosed ==
    faults = MaxFaults /\ pc \in AfterSettle =>
        \A i \in DOMAIN ops : ops[i].op = "topup" => ops[i].outcome # "pending"

OverlapInv ==
    faults <= MaxFaults /\ DepositsUnderWay /\ NewestUnderWay /\ OrphansClosed

\* The settlement pass (_settle_topups) closes orphaned deposits as unknown and
\* scores no row that was not answered; without a store failure it leaves no
\* deposit pending.
LEMMA SettleCloses ==
    ASSUME TypeOK, Settle
    PROVE  \A i \in DOMAIN ops :
              ops[i].op = "topup" =>
                 /\ ops[i].outcome = "pending" =>
                       /\ ops'[i].outcome \in {"pending", "unknown"}
                       /\ faults' = faults => ops'[i].outcome = "unknown"
                 /\ ops[i].outcome # "pending" => ops'[i].outcome # "pending"
  <1> DEFINE pend == {i \in Open(ops, {"topup"}) : ops[i].outcome = "pending"}
             due  == {i \in Open(ops, {"topup"}) \ pend :
                          now - ops[i].upd >= SettleAfter}
             good(closed) == {i \in closed \cap due : Effective(i)}
  <1>1. PICK closed \in SUBSET (pend \cup due),
             broken \in SUBSET {"settled", "terminal", "halt"} :
          /\ ops' = Finish(Finish(Finish(ops,
                        closed \cap pend, "unknown", now),
                        good(closed), "effective", now),
                        (closed \cap due) \ good(closed), "ineffective", now)
          /\ Faulty(closed # pend \cup due \/ broken # {})
    BY Zenon DEF Settle
  <1>2. \A i \in DOMAIN ops : ops[i].op = "topup" /\ ops[i].outcome = "pending"
                                 => i \in pend /\ i \notin due
    BY DEF Open, Rows
  <1>3. faults' = faults => pend \subseteq closed
    <2>1. faults \in Nat
      BY DEF TypeOK
    <2> QED
      BY <1>1, <2>1 DEF Faulty
  <1>4. PICK A, B, C :
          /\ A = closed \cap pend /\ B \subseteq due /\ C \subseteq due
          /\ ops' = Finish(Finish(Finish(ops, A, "unknown", now),
                                  B, "effective", now), C, "ineffective", now)
    <2> DEFINE A == closed \cap pend
               B == good(closed)
               C == (closed \cap due) \ good(closed)
    <2>1. A = closed \cap pend /\ B \subseteq due /\ C \subseteq due
      OBVIOUS
    <2>2. ops' = Finish(Finish(Finish(ops, A, "unknown", now),
                               B, "effective", now), C, "ineffective", now)
      BY <1>1
    <2> HIDE DEF A, B, C
    <2> QED
      BY <2>1, <2>2
  <1> HIDE DEF pend, due, good
  <1>5. ops \in Seq(Row) /\ now \in Nat
    BY DEF TypeOK
  <1> DEFINE r1 == Finish(ops, A, "unknown", now)
             r2 == Finish(r1, B, "effective", now)
  <1>6. /\ r1 \in Seq(Row) /\ DOMAIN r1 = DOMAIN ops
        /\ \A i \in DOMAIN ops :
              r1[i].outcome = IF i \in A THEN "unknown" ELSE ops[i].outcome
    BY <1>5, UnknownIsOutcome, FinishEffect
  <1> HIDE DEF r1
  <1>7. /\ r2 \in Seq(Row) /\ DOMAIN r2 = DOMAIN r1
        /\ \A i \in DOMAIN r1 :
              r2[i].outcome = IF i \in B THEN "effective" ELSE r1[i].outcome
    BY <1>5, <1>6, UnknownIsOutcome, FinishEffect
  <1> HIDE DEF r2
  <1>8. \A i \in DOMAIN r2 :
           ops'[i].outcome = IF i \in C THEN "ineffective" ELSE r2[i].outcome
    <2>1. ops' = Finish(r2, C, "ineffective", now)
      BY <1>4 DEF r1, r2
    <2> QED
      BY <1>5, <1>7, <2>1, UnknownIsOutcome, FinishEffect
  <1> QED
    BY <1>2, <1>3, <1>4, <1>6, <1>7, <1>8

\* A pending deposit is left alone, given up on, refused, or confirmed by the
\* sidecar, whose job is then over.
LEMMA PendingGoes ==
    ASSUME TypeOK, AwaitedRows, [Next]_vars, NEW i \in DOMAIN ops,
           ops[i].op = "topup", ops[i].outcome = "pending"
    PROVE  \/ ops'[i].outcome \in {"pending", "unknown", "failed"}
           \/ \E j \in jobs : JobSucceeds(j) /\ j.row = i
  <1>c. cyc.avail \in Int /\ cyc.resv \in Int
    BY DEF TypeOK, CycleType
  <1> DEFINE Stays == ops'[i].outcome \in {"pending", "unknown", "failed"}
  <1>a. (\E op : AppendRow(op)) \/ ops' = ops => Stays
    BY DEF AppendRow
  <1>h. ASSUME NEW r, NEW v \in Verdicts, NEW e, Heard(r, v, e), v # "ok" \/ r # i
        PROVE  Stays
    <2>1. PICK S \in SUBSET {r}, o \in {OutcomeFor(v), ClosedOutcome(v)} :
            /\ Closes(S, o)
            /\ \A k \in S \cap DOMAIN ops :
                  /\ \/ ops[k].op \in ManualOps
                     \/ ops[k].outcome = "pending"
                  /\ ops[k].op = "topup" => o = OutcomeFor(v)
      BY <1>h, HeardEffect
    <2>2. CASE i \in S
      <3>1. r = i /\ o = OutcomeFor(v)
        BY <2>1, <2>2
      <3>2. o \in {"failed", "unknown"}
        BY <1>h, <3>1 DEF OutcomeFor
      <3> QED
        BY <2>1, <2>2, <3>2 DEF Closes
    <2>3. CASE i \notin S
      BY <2>1, <2>3 DEF Closes
    <2> QED
      BY <2>2, <2>3
  <1> HIDE DEF Stays
  <1>1. CASE CycleStart
    <2>1. PICK closed \in SUBSET Open(ops, OpKinds \ {"topup"}) :
            ops' = Finish(ops, closed, "unknown", now)
      BY <1>1 DEF CycleStart
    <2>2. ops'[i].outcome \in {"pending", "unknown"}
      BY <2>1, UnknownIsOutcome, FinishCloses DEF Closes
    <2> QED
      BY <2>2 DEF Stays
  <1>2. CASE Settle
    BY <1>2, SettleCloses DEF Stays
  <1>3. CASE Shutdown
    <2>1. Closes({cyc.row}, "unknown")
      BY <1>3, FinishCloses, UnknownIsOutcome DEF Shutdown
    <2> QED
      BY <2>1 DEF Closes, Stays
  <1>4. CASE TopupFired
    BY <1>4, <1>a, <1>c, BeginAppends, KindsDisjoint DEF TopupFired, Stays
  <1>5. ASSUME NEW op \in ReclaimOps, NEW ids \in SUBSET Channels,
               FireReclaim(op, ids)
        PROVE  Stays
    BY <1>5, <1>a, <1>c, BeginAppends, KindsDisjoint DEF FireReclaim
  <1>6. ASSUME NEW op \in ManualKinds, ManualFired(op)
        PROVE  Stays
    <2>1. ops' = ops \/ ops' = Begin(ops, op, NoReading, NoReading, now)
      BY <1>6 DEF ManualFired
    <2>2. op \in OpKinds /\ NoReading \in Int
      BY WorldAssumption, KindsDisjoint DEF NoReading
    <2> QED
      BY <1>a, <2>1, <2>2, BeginAppends
  <1>7. ASSUME NEW k \in 0 .. Len(ops), ReplyLost(k)
        PROVE  Stays
    BY <1>7, <1>h DEF ReplyLost, Verdicts
  <1>8. ASSUME NEW j \in jobs, JobRefused(j) \/ JobFails(j)
        PROVE  Stays
    BY <1>8, <1>h DEF JobRefused, JobFails, Verdicts
  <1>9. ASSUME NEW j \in jobs, JobSucceeds(j)
        PROVE  Stays \/ j.row = i
    BY <1>9, <1>h DEF JobSucceeds, Verdicts
  <1>10. ASSUME NEW j \in jobs, CliBroadcasts(j) \/ ReclaimRuns(j) \/ LandsLate(j)
         PROVE  Stays
    BY <1>10, <1>a DEF CliBroadcasts, ReclaimRuns, LandsLate
  <1>11. ASSUME NEW c \in Channels, ChannelOpens(c) \/ ChannelSettles(c)
         PROVE  Stays
    BY <1>11, <1>a DEF ChannelOpens, ChannelSettles
  <1>12. ASSUME NEW kind, ClearHalt(kind)
         PROVE  Stays
    BY <1>12, <1>a DEF ClearHalt
  <1>13. CASE \/ ReclaimGate \/ ReclaimDeclined \/ TopupRefused
              \/ StatusWritten \/ Crash \/ Tick \/ UNCHANGED vars
    BY <1>13, <1>a
    DEF ReclaimGate, ReclaimDeclined, TopupRefused, StatusWritten, Crash, Tick,
        vars
  <1> QED
    BY <1>1, <1>2, <1>3, <1>4, <1>5, <1>6, <1>7, <1>8, <1>9, <1>10, <1>11,
       <1>12, <1>13
    DEF Next, KeeperStep, Stays

\* The newest n of a set of rows are at most n.
LEMMA NewestCount ==
    ASSUME NEW L \in Nat, NEW S, S \subseteq 1 .. L, NEW n \in Nat \ {0}
    PROVE  /\ IsFiniteSet(Newest(S, n))
           /\ Cardinality(Newest(S, n)) \in Nat
           /\ Cardinality(Newest(S, n)) <= n
  <1>1. /\ Newest(S, n) \subseteq S
        /\ \A i \in Newest(S, n) : Cardinality({j \in S : j > i}) < n
    BY DEF Newest
  <1> QED
    BY <1>1, GreatestFew

\* The error backoff outlasts a deposit request at every number of strikes.
LEMMA BackoffOutlasts ==
    ASSUME NEW k \in 1 .. ErrorStrikes
    PROVE  DepositBudget < Backoff(k) /\ Backoff(k) \in Int
  <1> DEFINE p == 2 ^ (k - 1)
             b == GreaterOf(Cooldown, BackoffBase)
  <1>1. p \in Nat /\ p >= 1
    BY BackoffAssumption
  <1>2. b \in Nat /\ b >= BackoffBase /\ BackoffCap \in Nat
    BY KnobsAssumption, TimingAssumption DEF GreaterOf
  <1>3. Backoff(k) = LesserOf(b * p, BackoffCap)
    BY DEF Backoff
  <1> HIDE DEF p, b
  <1>4. b * p \in Nat /\ b * p >= b
    <2>1. \A x, y \in Nat : y >= 1 => x * y \in Nat /\ x * y >= x
      OBVIOUS
    <2> QED
      BY <1>1, <1>2, <2>1
  <1>5. DepositBudget \in Nat /\ BackoffBase \in Nat
    BY TimingAssumption
  <1> QED
    BY <1>2, <1>3, <1>4, <1>5, BackoffAssumption DEF LesserOf

\* A deposit that passed the gates without a store failure is not made on top of
\* one under way: that one would be the newest strike, younger than the backoff.
LEMMA FiredAlone ==
    ASSUME TypeOK, JobsBacked, OverlapInv, TopupFired, faults' = MaxFaults
    PROVE  \A j \in InSidecar : j.op # "topup"
  <1> SUFFICES ASSUME NEW j \in InSidecar, j.op = "topup" PROVE FALSE
    OBVIOUS
  <1> DEFINE i == j.row
             R == Rows(ops, {"topup"}, Terminal)
             T == NewestTerminal(ops, "topup", ErrorStrikes)
             E == {x \in T : \A y \in T : y >= x => ops[y].outcome \in Error}
             k == Strikes(ops, T)
  <1>0. /\ faults \in Nat /\ now \in Nat /\ ErrorStrikes \in Nat \ {0}
        /\ Len(ops) \in Nat /\ DOMAIN ops = 1 .. Len(ops)
        /\ j \in jobs /\ j.born \in Nat
    BY TimingAssumption, RowTimes DEF TypeOK, InSidecar, JobType
  <1>1. faults = MaxFaults /\ ~BackingOff
    BY <1>0, WorldAssumption DEF TopupFired, Faulty, OverlapInv
  <1>2. /\ i \in DOMAIN ops /\ ops[i].outcome \in {"pending", "unknown"}
        /\ now - j.born <= DepositBudget /\ ops[i].upd >= j.born
    BY DEF OverlapInv, DepositsUnderWay, DepositUnderWay
  <1>3. ops[i].op = "topup"
    BY <1>0, <1>2 DEF JobsBacked
  <1>4. ops[i].outcome = "unknown"
    BY <1>1, <1>2, <1>3 DEF TopupFired, OverlapInv, OrphansClosed, AfterSettle
  <1>5. \A x \in R : x <= i
    BY <1>1 DEF OverlapInv, NewestUnderWay, Rows
  <1>6. i \in R
    BY <1>2, <1>3, <1>4 DEF Rows, Terminal
  <1>7. R \subseteq 1 .. Len(ops)
    BY <1>0 DEF Rows
  <1>8. T = Newest(R, ErrorStrikes)
    BY DEF NewestTerminal
  <1>9. i \in T /\ T \subseteq R
    <2>1. {y \in R : y > i} = {}
      BY <1>0, <1>2, <1>5, <1>7
    <2>2. Cardinality({y \in R : y > i}) = 0
      BY <2>1, FS_EmptySet
    <2>3. ErrorStrikes > 0
      BY <1>0
    <2> HIDE DEF R, T
    <2>4. i \in Newest(R, ErrorStrikes) /\ Newest(R, ErrorStrikes) \subseteq R
      BY <1>6, <2>2, <2>3 DEF Newest
    <2> QED
      BY <1>8, <2>4
  <1>10. /\ IsFiniteSet(T) /\ Cardinality(T) \in Nat
         /\ Cardinality(T) <= ErrorStrikes
    BY <1>0, <1>7, <1>8, NewestCount
  <1> HIDE DEF R, T
  <1>11. i \in E /\ E \subseteq T
    <2>1. \A y \in T : y >= i => y = i
      BY <1>0, <1>2, <1>5, <1>7, <1>9
    <2> QED
      BY <1>4, <1>9, <2>1 DEF Error
  <1>12. k = Cardinality(E)
    BY DEF Strikes
  <1> HIDE DEF E
  <1>13. /\ IsFiniteSet(E) /\ Cardinality(E) \in Nat
         /\ Cardinality(E) <= Cardinality(T) /\ Cardinality(E) # 0
    BY <1>10, <1>11, FS_Subset, FS_CardinalityType, FS_EmptySet
  <1>14. k \in 1 .. ErrorStrikes
    BY <1>0, <1>10, <1>12, <1>13
  <1> HIDE DEF k
  <1>15. DepositBudget < Backoff(k) /\ Backoff(k) \in Int
    BY <1>14, BackoffOutlasts
  <1>16. ops[i].upd \in Nat /\ DepositBudget \in Nat
    <2>1. ops[i] \in Row
      BY <1>2 DEF TypeOK
    <2> QED
      BY <2>1, TimingAssumption DEF Row
  <1>17. now - ops[i].upd < Backoff(k)
    BY <1>0, <1>2, <1>15, <1>16
  <1>18. ASSUME NEW x \in T, \A y \in T : y <= x
         PROVE  now - ops[x].upd < Backoff(k)
    <2>1. x = i
      BY <1>0, <1>2, <1>5, <1>7, <1>9, <1>18
    <2> QED
      BY <1>17, <2>1
  <1>19. k > 0
    BY <1>0, <1>14
  <1>20. BackingOff
    BY <1>18, <1>19 DEF BackingOff, k, T
  <1> QED
    BY <1>1, <1>20

\* Only a tick moves the clock.
LEMMA ClockOrTick ==
    ASSUME [Next]_vars
    PROVE  now' = now \/ Tick
  BY DEF Next, KeeperStep, vars, CycleStart, Settle, ReclaimGate,
         ReclaimDeclined, TopupRefused, TopupFired, FireReclaim, ManualFired,
         ReplyLost, CliBroadcasts, ReclaimRuns, JobSucceeds, JobRefused,
         JobFails, LandsLate, StatusWritten, ChannelOpens, ChannelSettles,
         Crash, Shutdown, ClearHalt

\* A deposit request at the sidecar was there before, or the keeper just fired it.
LEMMA DepositJobs ==
    ASSUME TypeOK, AwaitedRows, [Next]_vars, NEW k \in InSidecar', k.op = "topup"
    PROVE  \/ \E j \in InSidecar :
                 j.row = k.row /\ j.op = "topup" /\ j.born = k.born
           \/ /\ TopupFired /\ AppendRow("topup")
              /\ k.row = Len(ops) + 1 /\ k.born = now
  <1> DEFINE Old == \E j \in InSidecar :
                       j.row = k.row /\ j.op = "topup" /\ j.born = k.born
  <1>0. k \in jobs' /\ k.stage # "mempool"
    BY DEF InSidecar
  <1>1. k \in jobs => Old
    BY <1>0 DEF InSidecar
  <1> HIDE DEF Old
  <1>2. CASE Forgets
    BY <1>0, <1>1, <1>2 DEF Forgets, Old
  <1>3. ASSUME NEW j \in jobs, Moves(j)
        PROVE  Old
    <2>1. k \in jobs \/ (k.row = j.row /\ k.op = j.op /\ k.born = j.born)
      BY <1>0, <1>3 DEF Moves
    <2>2. j \in InSidecar
      BY <1>3 DEF Moves, InSidecar
    <2> QED
      BY <1>1, <2>1, <2>2 DEF Old
  <1>4. ASSUME NEW op, Accepts(Len(ops) + 1, op), AppendRow(op)
        PROVE  \/ Old
               \/ /\ TopupFired /\ AppendRow("topup")
                  /\ k.row = Len(ops) + 1 /\ k.born = now
    <2>1. k \in jobs \/ (k.row = Len(ops) + 1 /\ k.op = op /\ k.born = now)
      BY <1>0, <1>4 DEF Accepts
    <2>2. ASSUME op = "topup" PROVE TopupFired
      <3>1. ~Rewrite
        <4>1. Len(ops) \in Nat /\ Len(ops') = Len(ops) + 1
          BY <1>4, RowTimes DEF AppendRow
        <4>2. Rewrite => Len(ops') = Len(ops)
          BY DEF Rewrite
        <4> QED
          BY <4>1, <4>2
      <3>2. ASSUME NEW o, AppendRow(o) PROVE o = "topup"
        BY <1>4, <2>2, <3>2 DEF AppendRow
      <3> QED
        BY <3>1, <3>2, LedgerStep, KindsDisjoint
    <2> QED
      BY <1>1, <1>4, <2>1, <2>2
  <1>5. ASSUME NEW op \in ManualOps, Accepts(0, op)
        PROVE  Old
    <2>1. k \in jobs \/ k.op = op
      BY <1>0, <1>5 DEF Accepts
    <2> QED
      BY <1>1, <2>1, KindsDisjoint
  <1> QED
    BY <1>2, <1>3, <1>4, <1>5, JobsShape DEF Old

\* A deposit stays within its budget at the sidecar, and its row goes unanswered
\* as long as it is there.
LEMMA UnderWayStep ==
    ASSUME TypeOK, TypeOK', KeeperInv, JobsBacked', DepositsUnderWay, [Next]_vars
    PROVE  DepositsUnderWay'
  <1> SUFFICES ASSUME NEW k \in InSidecar', k.op = "topup"
               PROVE  DepositUnderWay(k)'
    BY DEF DepositsUnderWay
  <1>0. /\ AwaitedRows /\ JobsBacked /\ JobsUnique /\ now \in Nat
        /\ k \in jobs' /\ k.stage # "mempool" /\ DepositBudget \in Nat
        /\ Len(ops) \in Nat /\ DOMAIN ops = 1 .. Len(ops)
    BY RowTimes, TimingAssumption DEF KeeperInv, TypeOK, InSidecar
  <1>1. CASE /\ TopupFired /\ AppendRow("topup")
             /\ k.row = Len(ops) + 1 /\ k.born = now
    <2>1. now' = now
      BY <1>1 DEF TopupFired
    <2> QED
      BY <1>0, <1>1, <2>1 DEF AppendRow, DepositUnderWay
  <1>2. ASSUME NEW j \in InSidecar,
               j.row = k.row, j.op = "topup", j.born = k.born
        PROVE  DepositUnderWay(k)'
    <2> DEFINE i == k.row
    <2>1. /\ j.born <= now /\ now - j.born <= DepositBudget
          /\ i \in DOMAIN ops /\ ops[i].outcome \in {"pending", "unknown"}
          /\ ops[i].upd >= j.born
      BY <1>2 DEF DepositsUnderWay, DepositUnderWay
    <2>2. j \in jobs /\ i # 0 /\ j.born \in Nat
      <3>1. j \in jobs /\ j \in JobType
        BY DEF InSidecar, TypeOK
      <3>2. j.born \in Nat
        BY <3>1 DEF JobType
      <3>3. i # 0
        BY <1>0, <2>1
      <3> QED
        BY <3>1, <3>2, <3>3
    <2>3. ops[i].op = "topup"
      BY <1>0, <1>2, <2>2 DEF JobsBacked
    <2>4. k.born <= now' /\ now' - k.born <= DepositBudget
      <3>1. CASE now' = now
        BY <1>2, <2>1, <3>1
      <3>2. CASE Tick
        <4>1. jobs' = jobs /\ now' = now + 1
          BY <3>2 DEF Tick
        <4>2. k \in InSidecar
          BY <1>0, <4>1 DEF InSidecar
        <4>3. now - k.born < DepositBudget
          BY <1>2, <3>2, <4>2, KindsDisjoint DEF Tick, Budget
        <4> QED
          BY <1>0, <1>2, <2>1, <2>2, <4>1, <4>3
      <3> QED
        BY <3>1, <3>2, ClockOrTick
    <2>5. /\ i \in DOMAIN ops' /\ ops'[i].upd \in {ops[i].upd, now}
          /\ ops[i].outcome = "unknown" => ops'[i].outcome = "unknown"
      <3>1. Rewrite \/ \E op : AppendRow(op)
        BY <1>0, LedgerStep
      <3>2. CASE Rewrite
        BY <2>1, <2>3, <3>2, KindsDisjoint DEF Rewrite
      <3>3. ASSUME NEW op, AppendRow(op)
            PROVE  i \in DOMAIN ops' /\ ops'[i] = ops[i]
        BY <1>0, <2>1, <3>3 DEF AppendRow
      <3> QED
        BY <3>1, <3>2, <3>3
    <2>6. ops[i].outcome = "pending" => ops'[i].outcome \in {"pending", "unknown"}
      <3>1. ops'[i].outcome # "failed"
        BY <1>0, <2>2 DEF JobsBacked
      <3>2. ASSUME NEW l \in jobs, JobSucceeds(l), l.row = i
            PROVE  FALSE
        <4>1. jobs' = jobs \ {l}
          BY <3>2 DEF JobSucceeds
        <4> QED
          BY <1>0, <2>2, <3>2, <4>1 DEF JobsUnique
      <3> QED
        BY <1>0, <2>1, <2>3, <3>1, <3>2, PendingGoes
    <2> QED
      BY <1>2, <2>1, <2>4, <2>5, <2>6 DEF DepositUnderWay
  <1> QED
    BY <1>0, <1>1, <1>2, DepositJobs

\* Without a store failure a deposit under way stays the newest.
LEMMA NewestStep ==
    ASSUME TypeOK, TypeOK', KeeperInv, OverlapInv, [Next]_vars
    PROVE  NewestUnderWay'
  <1> SUFFICES ASSUME faults' = MaxFaults, NEW k \in InSidecar', k.op = "topup",
                      NEW i \in DOMAIN ops', ops'[i].op = "topup"
               PROVE  i <= k.row
    BY DEF NewestUnderWay
  <1>0. /\ AwaitedRows /\ JobsBacked
        /\ Len(ops) \in Nat /\ DOMAIN ops = 1 .. Len(ops)
    BY RowTimes DEF KeeperInv
  <1>1. faults = MaxFaults
    BY FaultsBounded DEF OverlapInv
  <1>2. CASE /\ TopupFired /\ AppendRow("topup")
             /\ k.row = Len(ops) + 1 /\ k.born = now
    BY <1>0, <1>2 DEF AppendRow
  <1>3. ASSUME NEW j \in InSidecar, j.row = k.row, j.op = "topup"
        PROVE  i <= k.row
    <2>1. ~TopupFired
      BY <1>0, <1>3, FiredAlone
    <2>2. i \in DOMAIN ops /\ ops[i].op = "topup"
      <3>1. CASE Rewrite
        BY <3>1 DEF Rewrite
      <3>2. ASSUME NEW op \in ReclaimOps \cup ManualOps, AppendRow(op)
            PROVE  i \in DOMAIN ops /\ ops[i].op = "topup"
        <4>1. i # Len(ops) + 1
          BY <3>2, KindsDisjoint DEF AppendRow
        <4> QED
          BY <1>0, <3>2, <4>1 DEF AppendRow
      <3> QED
        BY <1>0, <2>1, <3>1, <3>2, LedgerStep
    <2> QED
      BY <1>1, <1>3, <2>2 DEF OverlapInv, NewestUnderWay
  <1> QED
    BY <1>0, <1>2, <1>3, DepositJobs

\* The settlement pass closes the orphans, and nothing opens a deposit before the
\* keeper fires one.
LEMMA OrphansStep ==
    ASSUME TypeOK, TypeOK', KeeperInv, OverlapInv, [Next]_vars
    PROVE  OrphansClosed'
  <1> SUFFICES ASSUME faults' = MaxFaults, pc' \in AfterSettle,
                      NEW i \in DOMAIN ops', ops'[i].op = "topup"
               PROVE  ops'[i].outcome # "pending"
    BY DEF OrphansClosed, AfterSettle
  <1>1. faults = MaxFaults
    BY FaultsBounded DEF OverlapInv
  <1>2. CASE Settle
    <2>1. i \in DOMAIN ops /\ ops[i].op = "topup"
      BY <1>2, SettleEffect DEF ClosesOpen
    <2> QED
      BY <1>1, <1>2, <2>1, SettleCloses
  <1>3. CASE ~Settle
    <2>1. pc \in AfterSettle /\ SameDeposits(ops, ops')
      BY <1>3, DepositsStand DEF KeeperInv
    <2> QED
      BY <1>1, <2>1 DEF SameDeposits, OverlapInv, OrphansClosed
  <1> QED
    BY <1>2, <1>3

\* The keeper never asks for a deposit while one it fired may still be queued or
\* running at the sidecar, as long as the store answers.
THEOREM NeverOnTop == Spec => NoOverlap
  <1>1. Init => OverlapInv
    BY WorldAssumption DEF Init, OverlapInv, DepositsUnderWay, NewestUnderWay,
                           OrphansClosed, InSidecar, AfterSettle
  <1>2. TypeOK /\ TypeOK' /\ KeeperInv /\ KeeperInv' /\ OverlapInv /\ [Next]_vars
            => OverlapInv'
    <2> SUFFICES ASSUME TypeOK, TypeOK', KeeperInv, KeeperInv', OverlapInv,
                        [Next]_vars
                 PROVE  OverlapInv'
      OBVIOUS
    <2>1. DepositsUnderWay'
      BY UnderWayStep DEF OverlapInv, KeeperInv
    <2>2. faults' <= MaxFaults
      BY FaultsBounded DEF OverlapInv
    <2> QED
      BY <2>1, <2>2, NewestStep, OrphansStep DEF OverlapInv
  <1>3. TypeOK /\ KeeperInv /\ OverlapInv /\ [Next]_vars
           => [NewRow({"topup"}) /\ NoFaultYet
                 => \A j \in InSidecar : j.op # "topup"]_vars
    <2> SUFFICES ASSUME TypeOK, KeeperInv, OverlapInv, [Next]_vars,
                        NewRow({"topup"}), NoFaultYet
                 PROVE  \A j \in InSidecar : j.op # "topup"
      OBVIOUS
    <2>1. TopupFired
      <3>1. ~Rewrite
        BY RowTimes DEF Rewrite, NewRow
      <3>2. ASSUME NEW op, AppendRow(op) PROVE op = "topup"
        BY <3>2 DEF AppendRow, NewRow
      <3> QED
        BY <3>1, <3>2, LedgerStep, KindsDisjoint DEF KeeperInv
    <2> QED
      BY <2>1, FiredAlone DEF KeeperInv, NoFaultYet
  <1>4. Spec => [](TypeOK /\ KeeperInv)
    BY KeeperInvariant
  <1> QED
    BY <1>1, <1>2, <1>3, <1>4, PTL DEF Spec, NoOverlap

(***************************************************************************)
(* The reclaim breaker.                                                    *)
(***************************************************************************)
\* No store failure, crash or cleared halt so far.
Calm == faults = MaxFaults /\ crashes = MaxCrashes /\ clears = MaxClears

\* The two ledgers hold the same reclaim phases with the same outcomes.
SameReclaims(log, new) ==
    \A i : /\ i \in DOMAIN new /\ new[i].op \in ReclaimOps
                <=> i \in DOMAIN log /\ log[i].op \in ReclaimOps
           /\ i \in DOMAIN log /\ log[i].op \in ReclaimOps
                => new[i].op = log[i].op /\ new[i].outcome = log[i].outcome

ReclaimStrikesOf(log, op) == Strikes(log, NewestTerminal(log, op, ReclaimStrikes))

\* While nothing failed, the only open phase is the one the keeper awaits, which
\* is the newest, and a kind of phase out of strikes has raised the halt.
StruckIsHalted ==
    /\ pc = "tx" => \A i \in DOMAIN ops : ops[i].op \in ReclaimOps => i <= cyc.row
    /\ Calm =>
         /\ \A i \in DOMAIN ops :
               ops[i].op \in ReclaimOps /\ ops[i].outcome \in {"pending", "fired"}
                  => pc = "tx" /\ i = cyc.row
         /\ \A op \in ReclaimOps :
               ReclaimStrikesOf(ops, op) >= ReclaimStrikes => "reclaim" \in halts

\* The budgets of crashes and cleared halts are only used up.
LEMMA BudgetsFall ==
    ASSUME TypeOK, [Next]_vars
    PROVE  crashes' <= crashes /\ clears' <= clears
  <1>t. crashes \in Nat /\ clears \in Nat
    BY DEF TypeOK
  <1>1. Crash \/ Shutdown => crashes' = crashes - 1 /\ clears' = clears
    BY DEF Crash, Shutdown
  <1>2. ASSUME NEW kind, ClearHalt(kind)
        PROVE  crashes' = crashes /\ clears' = clears - 1
    BY <1>2 DEF ClearHalt
  <1>3. \/ Crash \/ Shutdown \/ \E kind \in {"topup", "reclaim"} : ClearHalt(kind)
        \/ crashes' = crashes /\ clears' = clears
    BY DEF Next, KeeperStep, vars, CycleStart, Settle, ReclaimGate,
           ReclaimDeclined, TopupRefused, TopupFired, FireReclaim, ManualFired,
           ReplyLost, CliBroadcasts, ReclaimRuns, JobSucceeds, JobRefused,
           JobFails, LandsLate, StatusWritten, ChannelOpens, ChannelSettles, Tick
  <1> QED
    BY <1>t, <1>1, <1>2, <1>3

\* Strikes are counted on terminal rows of the kind alone.
LEMMA SameStrikes ==
    ASSUME NEW log, NEW new, NEW op,
           Rows(new, {op}, Terminal) = Rows(log, {op}, Terminal),
           \A i \in Rows(log, {op}, Terminal) : new[i].outcome = log[i].outcome
    PROVE  ReclaimStrikesOf(new, op) = ReclaimStrikesOf(log, op)
  <1> DEFINE T == NewestTerminal(log, op, ReclaimStrikes)
  <1>1. NewestTerminal(new, op, ReclaimStrikes) = T
    BY DEF NewestTerminal
  <1>2. \A i \in T : new[i].outcome = log[i].outcome
    BY DEF NewestTerminal, Newest
  <1>3. {i \in T : \A j \in T : j >= i => new[j].outcome \in Error}
            = {i \in T : \A j \in T : j >= i => log[j].outcome \in Error}
    BY <1>2
  <1> QED
    BY <1>1, <1>3 DEF ReclaimStrikesOf, Strikes

\* Rows of another kind are no reclaim phases.
LEMMA OthersKeepReclaims ==
    ASSUME TypeOK
    PROVE  /\ ops' = ops => SameReclaims(ops, ops')
           /\ \A op : op \notin ReclaimOps /\ AppendRow(op)
                         => SameReclaims(ops, ops')
           /\ \A S, o : /\ Closes(S, o)
                        /\ \A k \in S \cap DOMAIN ops : ops[k].op \notin ReclaimOps
                        => SameReclaims(ops, ops')
  <1>1. DOMAIN ops = 1 .. Len(ops) /\ Len(ops) \in Nat
    BY RowTimes
  <1>2. ops' = ops => SameReclaims(ops, ops')
    BY DEF SameReclaims
  <1>3. ASSUME NEW op, op \notin ReclaimOps, AppendRow(op)
        PROVE  SameReclaims(ops, ops')
    <2>1. DOMAIN ops' = DOMAIN ops \cup {Len(ops) + 1}
      BY <1>1, <1>3 DEF AppendRow
    <2> QED
      BY <1>3, <2>1 DEF AppendRow, SameReclaims
  <1>4. ASSUME NEW S, NEW o, Closes(S, o),
               \A k \in S \cap DOMAIN ops : ops[k].op \notin ReclaimOps
        PROVE  SameReclaims(ops, ops')
    BY <1>4 DEF Closes, SameReclaims
  <1> QED
    BY <1>2, <1>3, <1>4

\* The three things a step may do to the phases while all is calm: leave them
\* alone, close the awaited one (raising the halt when its kind is out of
\* strikes), or start one.
LeavesPhases ==
    /\ pc' = "tx" <=> pc = "tx"
    /\ pc = "tx" => cyc'.row = cyc.row
    /\ halts \subseteq halts'
    /\ SameReclaims(ops, ops') \/ (pc # "tx" /\ Rewrite)
ClosesPhase(v) ==
    /\ pc = "tx" /\ pc' # "tx" /\ halts \subseteq halts'
    /\ Closes({cyc.row}, ClosedOutcome(v))
    /\ v # "ok" /\ ReclaimStrikesOf(ops', ops[cyc.row].op) >= ReclaimStrikes
          => "reclaim" \in halts'
StartsPhase ==
    /\ pc = "scan" /\ pc' = "tx" /\ halts' = halts
    /\ cyc'.row = Len(ops) + 1
    /\ \E op \in ReclaimOps : AppendRow(op)

\* An answer that was stored closes the awaited phase or concerns another kind.
LEMMA HeardOnPhases ==
    ASSUME TypeOK, AwaitedRows, NEW i, NEW v \in Verdicts, NEW e, Heard(i, v, e),
           faults' = faults
    PROVE  LeavesPhases \/ ClosesPhase(v)
  <1>0. /\ ClosedOutcome(v) \in Outcomes /\ OutcomeFor(v) \in Outcomes
        /\ faults \in Nat
    BY OutcomeType DEF TypeOK
  <1>1. CASE pc = "deposit" /\ cyc.row = i /\ DepositHeard(v)
    <2>1. ops' = ops \/ ops' = Finish(ops, {i}, OutcomeFor(v), now)
      BY <1>1 DEF DepositHeard
    <2>2. \A k \in {i} \cap DOMAIN ops : ops[k].op \notin ReclaimOps
      BY <1>1, KindsDisjoint DEF AwaitedRows
    <2>3. SameReclaims(ops, ops')
      BY <1>0, <2>1, <2>2, FinishCloses, OthersKeepReclaims
    <2>4. pc' = "idle" /\ halts' = halts
      BY <1>1 DEF DepositHeard
    <2> QED
      BY <1>1, <2>3, <2>4 DEF LeavesPhases
  <1>2. CASE pc = "tx" /\ cyc.row = i /\ TxHeard(v, e)
    <2>1. PICK broken \in SUBSET {"finish", "strikes", "halt"} :
            LET rows == IF "finish" \in broken THEN ops
                        ELSE Finish(ops, {cyc.row}, ClosedOutcome(v), now)
                trip == IF v = "ok" THEN ~e
                        ELSE "strikes" \notin broken
                             /\ ErrorStrikesOf(rows, ops[cyc.row].op,
                                               ReclaimStrikes) >= ReclaimStrikes
            IN /\ ops' = rows
               /\ halts' = IF trip /\ "halt" \notin broken
                           THEN halts \cup {"reclaim"} ELSE halts
               /\ Faulty(broken # {})
      BY <1>2, Zenon DEF TxHeard
    <2>2. broken = {}
      BY <1>0, <2>1 DEF Faulty
    <2>3. ops' = Finish(ops, {cyc.row}, ClosedOutcome(v), now)
      BY <2>1, <2>2
    <2>4. halts \subseteq halts'
      BY <2>1
    <2>5. v # "ok" /\ ReclaimStrikesOf(ops', ops[cyc.row].op) >= ReclaimStrikes
             => "reclaim" \in halts'
      BY <2>1, <2>2 DEF ErrorStrikesOf, ReclaimStrikesOf
    <2>6. pc' = "topup"
      BY <1>2 DEF TxHeard
    <2>7. Closes({cyc.row}, ClosedOutcome(v))
      BY <1>0, <2>3, FinishCloses
    <2> QED
      BY <1>2, <2>4, <2>5, <2>6, <2>7 DEF ClosesPhase
  <1>3. CASE manual = i /\ ManualHeard(v)
    <2>1. \/ ops' = ops
          \/ i # 0 /\ ops' = Finish(ops, {i}, ClosedOutcome(v), now)
      BY <1>3 DEF ManualHeard
    <2>2. \A k \in {i} \cap DOMAIN ops : ops[k].op \notin ReclaimOps
      <3>1. i \in DOMAIN ops => i > 0
        BY RowTimes
      <3> QED
        BY <1>3, <3>1, KindsDisjoint DEF AwaitedRows
    <2>3. SameReclaims(ops, ops')
      BY <1>0, <2>1, <2>2, FinishCloses, OthersKeepReclaims
    <2>4. pc' = pc /\ cyc' = cyc /\ halts' = halts
      BY <1>3 DEF ManualHeard
    <2> QED
      BY <2>3, <2>4 DEF LeavesPhases
  <1>4. CASE UNCHANGED <<ops, halts, keeper, manual, faults>>
    BY <1>4, OthersKeepReclaims DEF LeavesPhases
  <1> QED
    BY <1>1, <1>2, <1>3, <1>4 DEF Heard

\* Every calm step does one of the three.
LEMMA CalmStep ==
    ASSUME TypeOK, AwaitedRows, [Next]_vars, Calm, Calm'
    PROVE  LeavesPhases \/ StartsPhase \/ \E v \in Verdicts : ClosesPhase(v)
  <1>c. /\ cyc \in CycleType /\ cyc.avail \in Int /\ cyc.resv \in Int
        /\ faults' = faults /\ crashes' = crashes /\ clears' = clears
        /\ crashes \in Nat /\ clears \in Nat
    BY DEF TypeOK, CycleType, Calm
  <1>1. CASE CycleStart
    <2>1. Rewrite
      BY <1>1, CycleStartEffect DEF ClosesOpen, Rewrite
    <2> QED
      BY <1>1, <2>1 DEF CycleStart, LeavesPhases
  <1>2. CASE Settle
    <2>1. Rewrite
      BY <1>2, SettleEffect DEF ClosesOpen, Rewrite
    <2>2. pc = "settle" /\ pc' = "reclaim" /\ halts \subseteq halts'
      BY <1>2 DEF Settle
    <2> QED
      BY <2>1, <2>2 DEF LeavesPhases
  <1>3. CASE TopupFired
    <2>1. AppendRow("topup")
      BY <1>3, <1>c, BeginAppends, KindsDisjoint DEF TopupFired
    <2>2. SameReclaims(ops, ops')
      BY <2>1, KindsDisjoint, OthersKeepReclaims
    <2> QED
      BY <1>3, <2>2 DEF TopupFired, LeavesPhases
  <1>4. ASSUME NEW op \in ReclaimOps, NEW ids \in SUBSET Channels,
               FireReclaim(op, ids)
        PROVE  StartsPhase
    <2>1. AppendRow(op)
      BY <1>4, <1>c, BeginAppends, KindsDisjoint DEF FireReclaim
    <2>2. cyc'.row = Len(ops) + 1
      BY <1>4, <1>c DEF FireReclaim, CycleType
    <2> QED
      BY <1>4, <2>1, <2>2 DEF FireReclaim, StartsPhase
  <1>5. ASSUME NEW op \in ManualKinds, ManualFired(op)
        PROVE  LeavesPhases
    <2>0. op \in ManualOps /\ op \in OpKinds /\ op \notin ReclaimOps
          /\ NoReading \in Int
      BY WorldAssumption, KindsDisjoint DEF NoReading
    <2>1. ops' = ops \/ ops' = Begin(ops, op, NoReading, NoReading, now)
      BY <1>5 DEF ManualFired
    <2>2. SameReclaims(ops, ops')
      BY <2>0, <2>1, BeginAppends, OthersKeepReclaims
    <2>3. UNCHANGED <<pc, cyc, halts>>
      BY <1>5 DEF ManualFired
    <2> QED
      BY <2>2, <2>3 DEF LeavesPhases
  <1>6. ASSUME NEW i \in 0 .. Len(ops), ReplyLost(i)
        PROVE  LeavesPhases \/ \E v \in Verdicts : ClosesPhase(v)
    BY <1>6, <1>c, HeardOnPhases DEF ReplyLost, Verdicts
  <1>7. ASSUME NEW j \in jobs, JobSucceeds(j) \/ JobRefused(j) \/ JobFails(j)
        PROVE  LeavesPhases \/ \E v \in Verdicts : ClosesPhase(v)
    BY <1>7, <1>c, HeardOnPhases DEF JobSucceeds, JobRefused, JobFails, Verdicts
  <1>8. UNCHANGED <<ops, keeper, halts>> => LeavesPhases
    BY OthersKeepReclaims DEF LeavesPhases
  <1>9. ASSUME NEW j \in jobs, CliBroadcasts(j) \/ ReclaimRuns(j) \/ LandsLate(j)
        PROVE  UNCHANGED <<ops, keeper, halts>>
    BY <1>9 DEF CliBroadcasts, ReclaimRuns, LandsLate
  <1>10. ASSUME NEW c \in Channels, ChannelOpens(c) \/ ChannelSettles(c)
         PROVE  UNCHANGED <<ops, keeper, halts>>
    BY <1>10 DEF ChannelOpens, ChannelSettles
  <1>11. StatusWritten \/ Tick \/ UNCHANGED vars => UNCHANGED <<ops, keeper, halts>>
    BY DEF StatusWritten, Tick, vars
  <1>12. CASE ReclaimGate \/ ReclaimDeclined \/ TopupRefused
    <2>1. pc # "tx" /\ pc' # "tx" /\ ops' = ops /\ halts \subseteq halts'
      BY <1>12 DEF ReclaimGate, ReclaimDeclined, TopupRefused
    <2> QED
      BY <2>1, OthersKeepReclaims DEF LeavesPhases
  <1>13. ~(Crash \/ Shutdown) /\ \A kind : ~ClearHalt(kind)
    BY <1>c DEF Crash, Shutdown, ClearHalt
  <1> QED
    BY <1>1, <1>2, <1>3, <1>4, <1>5, <1>6, <1>7, <1>8, <1>9, <1>10, <1>11,
       <1>12, <1>13
    DEF Next, KeeperStep

\* The awaited phase is the newest one, whatever fails.
LEMMA NewestAwaited ==
    ASSUME TypeOK, AwaitedRows, StruckIsHalted, [Next]_vars
    PROVE  pc' = "tx" => \A i \in DOMAIN ops' :
                            ops'[i].op \in ReclaimOps => i <= cyc'.row
  <1>c. cyc \in CycleType
    BY DEF TypeOK
  <1>l. Len(ops) \in Nat /\ DOMAIN ops = 1 .. Len(ops)
    BY RowTimes
  <1> SUFFICES ASSUME pc' = "tx", NEW i \in DOMAIN ops', ops'[i].op \in ReclaimOps
               PROVE  i <= cyc'.row
    OBVIOUS
  <1>1. ASSUME NEW op \in ReclaimOps, NEW ids \in SUBSET Channels,
               FireReclaim(op, ids), AppendRow(op)
        PROVE  i <= cyc'.row
    BY <1>1, <1>c, <1>l DEF FireReclaim, AppendRow, CycleType
  <1>2. \/ \E op \in ReclaimOps, ids \in SUBSET Channels : FireReclaim(op, ids)
        \/ pc = "tx" /\ cyc'.row = cyc.row
    <2>h. ASSUME NEW k, NEW v, NEW e, Heard(k, v, e)
          PROVE  pc = "tx" /\ cyc'.row = cyc.row
      BY <2>h DEF Heard, DepositHeard, TxHeard, ManualHeard
    <2>1. ASSUME NEW k, ReplyLost(k) PROVE pc = "tx" /\ cyc'.row = cyc.row
      BY <2>1, <2>h DEF ReplyLost
    <2>2. ASSUME NEW j, JobSucceeds(j) \/ JobRefused(j) \/ JobFails(j)
          PROVE  pc = "tx" /\ cyc'.row = cyc.row
      BY <2>2, <2>h DEF JobSucceeds, JobRefused, JobFails
    <2>3. ASSUME NEW j, CliBroadcasts(j) \/ ReclaimRuns(j) \/ LandsLate(j)
          PROVE  pc = "tx" /\ cyc'.row = cyc.row
      BY <2>3 DEF CliBroadcasts, ReclaimRuns, LandsLate
    <2>4. ASSUME NEW c, ChannelOpens(c) \/ ChannelSettles(c)
          PROVE  pc = "tx" /\ cyc'.row = cyc.row
      BY <2>4 DEF ChannelOpens, ChannelSettles
    <2>5. ASSUME NEW x, ClearHalt(x) \/ ManualFired(x)
          PROVE  pc = "tx" /\ cyc'.row = cyc.row
      BY <2>5 DEF ClearHalt, ManualFired
    <2>6. StatusWritten \/ Tick \/ UNCHANGED vars => pc = "tx" /\ cyc'.row = cyc.row
      BY DEF StatusWritten, Tick, vars
    <2>7. ~(\/ CycleStart \/ Settle \/ ReclaimGate \/ ReclaimDeclined
            \/ TopupRefused \/ TopupFired \/ Crash \/ Shutdown)
      BY DEF CycleStart, Settle, ReclaimGate, ReclaimDeclined, TopupRefused,
             TopupFired, Crash, Shutdown
    <2> QED
      BY <2>1, <2>2, <2>3, <2>4, <2>5, <2>6, <2>7 DEF Next, KeeperStep
  <1>3. CASE pc = "tx" /\ cyc'.row = cyc.row
    <2>1. i \in DOMAIN ops /\ ops[i].op \in ReclaimOps
      <3>1. ~TopupFired /\ \A op, ids : ~FireReclaim(op, ids)
        BY <1>3 DEF TopupFired, FireReclaim
      <3>2. Rewrite \/ \E op \in ManualOps : AppendRow(op)
        BY <3>1, LedgerStep
      <3>3. Rewrite => i \in DOMAIN ops /\ ops[i].op \in ReclaimOps
        BY DEF Rewrite
      <3>4. ASSUME NEW op \in ManualOps, AppendRow(op)
            PROVE  i \in DOMAIN ops /\ ops[i].op \in ReclaimOps
        <4>1. i # Len(ops) + 1
          BY <3>4, KindsDisjoint DEF AppendRow
        <4> QED
          BY <1>l, <3>4, <4>1 DEF AppendRow
      <3> QED
        BY <3>2, <3>3, <3>4
    <2> QED
      BY <1>3, <2>1 DEF StruckIsHalted
  <1>4. ASSUME NEW op \in ReclaimOps, NEW ids \in SUBSET Channels,
               FireReclaim(op, ids)
        PROVE  AppendRow(op)
    <2>1. cyc.avail \in Int /\ cyc.resv \in Int
      BY <1>c DEF CycleType
    <2> QED
      BY <1>4, <2>1, BeginAppends, KindsDisjoint DEF FireReclaim
  <1> QED
    BY <1>1, <1>2, <1>3, <1>4

\* A phase confirmed last leaves its kind without strikes.
LEMMA ConfirmedClears ==
    ASSUME NEW log, NEW op, NEW r \in Rows(log, {op}, Terminal),
           Rows(log, {op}, Terminal) \subseteq Int,
           \A i \in Rows(log, {op}, Terminal) : i <= r,
           log[r].outcome \notin Error
    PROVE  ReclaimStrikesOf(log, op) = 0
  <1> DEFINE T == NewestTerminal(log, op, ReclaimStrikes)
             E == {i \in T : \A j \in T : j >= i => log[j].outcome \in Error}
  <1>1. r \in T
    <2>1. {j \in Rows(log, {op}, Terminal) : j > r} = {}
      OBVIOUS
    <2>2. Cardinality({}) = 0 /\ 0 < ReclaimStrikes
      BY FS_EmptySet, TimingAssumption
    <2> QED
      BY <2>1, <2>2 DEF NewestTerminal, Newest
  <1>2. E = {}
    <2>1. T \subseteq Rows(log, {op}, Terminal)
      BY DEF NewestTerminal, Newest
    <2> QED
      BY <1>1, <2>1
  <1>3. Cardinality(E) = 0
    BY <1>2, FS_EmptySet
  <1> QED
    BY <1>3 DEF ReclaimStrikesOf, Strikes

\* Every step keeps struck kinds halted.
LEMMA StruckIsHaltedStep ==
    ASSUME TypeOK, TypeOK', AwaitedRows, StruckIsHalted, [Next]_vars,
           Calm' => Calm
    PROVE  StruckIsHalted'
  <1>l. Len(ops) \in Nat /\ DOMAIN ops = 1 .. Len(ops)
    BY RowTimes
  <1>d. Terminal \cap {"pending", "fired"} = {} /\ Terminal \subseteq Outcomes
    BY DEF Terminal, Outcomes
  <1> DEFINE OnlyAwaited == \A i \in DOMAIN ops :
                 ops[i].op \in ReclaimOps /\ ops[i].outcome \in {"pending", "fired"}
                    => pc = "tx" /\ i = cyc.row
             Struck == \A op \in ReclaimOps :
                 ReclaimStrikesOf(ops, op) >= ReclaimStrikes => "reclaim" \in halts
  <1>1. ASSUME Calm' PROVE OnlyAwaited' /\ Struck'
    <2>0. OnlyAwaited /\ Struck /\ Calm
      BY <1>1 DEF StruckIsHalted
    <2>s. ASSUME halts \subseteq halts',
                 \A op \in ReclaimOps :
                    /\ Rows(ops', {op}, Terminal) = Rows(ops, {op}, Terminal)
                    /\ \A i \in Rows(ops, {op}, Terminal) :
                          ops'[i].outcome = ops[i].outcome
          PROVE  Struck'
      <3>1. \A op \in ReclaimOps :
               ReclaimStrikesOf(ops', op) = ReclaimStrikesOf(ops, op)
        BY <2>s, SameStrikes
      <3>2. \A op \in ReclaimOps :
               ReclaimStrikesOf(ops', op) >= ReclaimStrikes => "reclaim" \in halts'
        BY <2>0, <2>s, <3>1
      <3> QED
        BY <3>2 DEF ReclaimStrikesOf
    <2>1. CASE LeavesPhases
      <3>1. SameReclaims(ops, ops')
        <4>1. pc # "tx" /\ Rewrite => SameReclaims(ops, ops')
          <5> SUFFICES ASSUME pc # "tx", Rewrite PROVE SameReclaims(ops, ops')
            OBVIOUS
          <5>1. \A i \in DOMAIN ops : ops[i].op \in ReclaimOps
                   => ops'[i].outcome = ops[i].outcome
            BY <2>0, KindsDisjoint DEF Rewrite
          <5> QED
            BY <5>1 DEF Rewrite, SameReclaims
        <4> QED
          BY <2>1, <4>1 DEF LeavesPhases
      <3>2. OnlyAwaited'
        BY <2>0, <2>1, <3>1 DEF LeavesPhases, SameReclaims
      <3>3. \A op \in ReclaimOps :
               /\ Rows(ops', {op}, Terminal) = Rows(ops, {op}, Terminal)
               /\ \A i \in Rows(ops, {op}, Terminal) :
                     ops'[i].outcome = ops[i].outcome
        BY <3>1 DEF SameReclaims, Rows
      <3> QED
        BY <2>1, <2>s, <3>2, <3>3 DEF LeavesPhases
    <2>2. CASE StartsPhase
      <3>1. PICK op1 \in ReclaimOps : AppendRow(op1)
        BY <2>2 DEF StartsPhase
      <3>2. DOMAIN ops' = DOMAIN ops \cup {Len(ops) + 1}
        BY <1>l, <3>1 DEF AppendRow
      <3>3. pc = "scan" /\ pc' = "tx" /\ cyc'.row = Len(ops) + 1 /\ halts' = halts
        BY <2>2 DEF StartsPhase
      <3>4. OnlyAwaited'
        BY <2>0, <3>1, <3>2, <3>3 DEF AppendRow
      <3>5. \A op \in ReclaimOps :
               /\ Rows(ops', {op}, Terminal) = Rows(ops, {op}, Terminal)
               /\ \A i \in Rows(ops, {op}, Terminal) :
                     ops'[i].outcome = ops[i].outcome
        BY <1>l, <1>d, <3>1, <3>2 DEF AppendRow, Rows
      <3> QED
        BY <2>s, <3>3, <3>4, <3>5
    <2>3. ASSUME NEW v \in Verdicts, ClosesPhase(v)
          PROVE  OnlyAwaited' /\ Struck'
      <3> DEFINE r == cyc.row
                 mine == ops[r].op
      <3>1. /\ pc = "tx" /\ halts \subseteq halts'
            /\ Closes({r}, ClosedOutcome(v))
            /\ r \in DOMAIN ops /\ mine \in ReclaimOps
        BY <2>3 DEF ClosesPhase, AwaitedRows
      <3>2. /\ ClosedOutcome(v) \in Terminal
            /\ v = "ok" => ClosedOutcome(v) \notin Error
        BY DEF Verdicts, ClosedOutcome, OutcomeFor, Terminal, Error
      <3>3. OnlyAwaited'
        BY <1>d, <2>0, <3>1, <3>2 DEF Closes
      <3>4. ASSUME NEW op \in ReclaimOps,
                   ReclaimStrikesOf(ops', op) >= ReclaimStrikes
            PROVE  "reclaim" \in halts'
        <4>1. CASE op # mine
          <5>1. /\ Rows(ops', {op}, Terminal) = Rows(ops, {op}, Terminal)
                /\ \A i \in Rows(ops, {op}, Terminal) :
                      ops'[i].outcome = ops[i].outcome
            BY <3>1, <4>1 DEF Closes, Rows
          <5>2. ReclaimStrikesOf(ops, op) >= ReclaimStrikes
            BY <3>4, <5>1, SameStrikes
          <5> QED
            BY <2>0, <3>1, <5>2
        <4>2. CASE op = mine /\ v # "ok"
          BY <2>3, <3>4, <4>2 DEF ClosesPhase
        <4>3. CASE op = mine /\ v = "ok"
          <5>1. /\ r \in Rows(ops', {op}, Terminal)
                /\ ops'[r].outcome \notin Error
            BY <3>1, <3>2, <4>3 DEF Closes, Rows
          <5>2. \A i \in Rows(ops', {op}, Terminal) : i \in Int /\ i <= r
            BY <1>l, <3>1, <4>3 DEF Closes, Rows, StruckIsHalted
          <5>3. ReclaimStrikesOf(ops', op) = 0
            BY <5>1, <5>2, ConfirmedClears
          <5> QED
            BY <3>4, <5>3, TimingAssumption
        <4> QED
          BY <4>1, <4>2, <4>3
      <3>5. Struck'
        BY <3>4 DEF ReclaimStrikesOf
      <3> QED
        BY <3>3, <3>5
    <2> QED
      BY <1>1, <2>0, <2>1, <2>2, <2>3, CalmStep
  <1>2. (pc = "tx" => \A i \in DOMAIN ops : ops[i].op \in ReclaimOps
                                              => i <= cyc.row)'
    BY NewestAwaited
  <1> QED
    BY <1>1, <1>2 DEF StruckIsHalted

\* Without crashes, store failures and cleared halts no phase is started on top of
\* ReclaimStrikes unconfirmed ones.
THEOREM ReclaimBreakerIsBinding == Spec => ReclaimBreaker
  <1> DEFINE Budgets == /\ faults <= MaxFaults /\ crashes <= MaxCrashes
                        /\ clears <= MaxClears
  <1>0. TypeOK => /\ faults \in Nat /\ crashes \in Nat /\ clears \in Nat
                  /\ MaxFaults \in Nat /\ MaxCrashes \in Nat /\ MaxClears \in Nat
    BY WorldAssumption DEF TypeOK
  <1>1. Init => Budgets /\ StruckIsHalted
    <2> SUFFICES ASSUME Init PROVE Budgets /\ StruckIsHalted
      OBVIOUS
    <2>1. DOMAIN ops = {} /\ pc = "idle"
      BY DEF Init
    <2>2. Budgets
      BY WorldAssumption DEF Init
    <2>3. ASSUME NEW op PROVE ReclaimStrikesOf(ops, op) = 0
      <3>1. NewestTerminal(ops, op, ReclaimStrikes) = {}
        BY <2>1 DEF NewestTerminal, Newest, Rows
      <3>2. {i \in NewestTerminal(ops, op, ReclaimStrikes) :
                \A j \in NewestTerminal(ops, op, ReclaimStrikes) :
                    j >= i => ops[j].outcome \in Error} = {}
        BY <3>1
      <3> QED
        BY <3>2, FS_EmptySet DEF ReclaimStrikesOf, Strikes
    <2>4. \A op \in ReclaimOps : ~(ReclaimStrikesOf(ops, op) >= ReclaimStrikes)
      BY <2>3, TimingAssumption
    <2> QED
      BY <2>1, <2>2, <2>4 DEF StruckIsHalted
  <1>2. TypeOK /\ TypeOK' /\ KeeperInv /\ Budgets /\ StruckIsHalted /\ [Next]_vars
            => Budgets' /\ StruckIsHalted'
    <2> SUFFICES ASSUME TypeOK, TypeOK', KeeperInv, Budgets, StruckIsHalted,
                        [Next]_vars
                 PROVE  Budgets' /\ StruckIsHalted'
      OBVIOUS
    <2>0. /\ faults' \in Nat /\ crashes' \in Nat /\ clears' \in Nat
      BY DEF TypeOK
    <2>1. faults' <= faults /\ crashes' <= crashes /\ clears' <= clears
      BY FaultsFall, BudgetsFall
    <2>2. Budgets' /\ (Calm' => Calm)
      BY <1>0, <2>0, <2>1 DEF Calm
    <2> QED
      BY <2>2, StruckIsHaltedStep DEF KeeperInv
  <1>3. TypeOK /\ KeeperInv /\ Budgets /\ StruckIsHalted /\ [Next]_vars
           => [\A op \in ReclaimOps :
                 NewRow({op}) /\ NoFaultYet /\ crashes = MaxCrashes
                     /\ clears = MaxClears
                   => Strikes(ops, NewestTerminal(ops, op, ReclaimStrikes))
                          < ReclaimStrikes]_vars
    <2> SUFFICES ASSUME TypeOK, KeeperInv, Budgets, StruckIsHalted, [Next]_vars,
                        NEW op \in ReclaimOps, NewRow({op}), NoFaultYet,
                        crashes = MaxCrashes, clears = MaxClears
                 PROVE  ReclaimStrikesOf(ops, op) < ReclaimStrikes
      BY DEF ReclaimStrikesOf
    <2>1. PICK op1 \in ReclaimOps, ids \in SUBSET Channels : FireReclaim(op1, ids)
      <3>1. ~Rewrite
        BY RowTimes DEF Rewrite, NewRow
      <3>2. ASSUME NEW o, AppendRow(o) PROVE o = op
        BY <3>2 DEF AppendRow, NewRow
      <3> QED
        BY <3>1, <3>2, LedgerStep, KindsDisjoint DEF KeeperInv
    <2>2. "reclaim" \notin halts
      BY <2>1 DEF FireReclaim, KeeperInv, ScanUnhalted
    <2>3. Calm
      BY <1>0, FaultsFall DEF Calm, NoFaultYet
    <2>4. ~(ReclaimStrikesOf(ops, op) >= ReclaimStrikes)
      BY <2>2, <2>3 DEF StruckIsHalted
    <2>5. ReclaimStrikesOf(ops, op) \in Nat
      <3> DEFINE T == NewestTerminal(ops, op, ReclaimStrikes)
                 E == {i \in T : \A j \in T : j >= i => ops[j].outcome \in Error}
      <3>1. E \subseteq Rows(ops, {op}, Terminal)
        BY DEF NewestTerminal, Newest
      <3>2. IsFiniteSet(Rows(ops, {op}, Terminal))
        BY RowsFinite DEF TypeOK
      <3>3. Cardinality(E) \in Nat
        BY <3>1, <3>2, FS_Subset, FS_CardinalityType
      <3> QED
        BY <3>3 DEF ReclaimStrikesOf, Strikes
    <2> QED
      BY <2>4, <2>5, TimingAssumption
  <1>4. Spec => [](TypeOK /\ KeeperInv)
    BY KeeperInvariant
  <1> HIDE DEF Budgets
  <1> QED
    BY <1>1, <1>2, <1>3, <1>4, PTL DEF Spec, ReclaimBreaker

(***************************************************************************)
(* The keeper implements FundingPromise.                                   *)
(***************************************************************************)
Commitments == {[id |-> i, at |-> ops[i].ts] : i \in SpentTopups}
TopupRows   == Rows(ops, {"topup"}, Outcomes)
Executed    == sent \cap TopupRows

\* The instance counts as this module does.
LEMMA SameCount == \A S : Promise!Cardinality(S) = Cardinality(S)
  BY DEF Promise!Cardinality, Cardinality

\* Reading the abstract state off the ledger.
LEMMA CommitmentsRead ==
    /\ Promise!Ids(Commitments) = SpentTopups
    /\ \A h \in Commitments : h.id \in SpentTopups /\ h.at = ops[h.id].ts
    /\ \A i : {h \in Commitments : h.id # i}
                 = {[id |-> k, at |-> ops[k].ts] : k \in SpentTopups \ {i}}
  <1>1. Promise!Ids(Commitments) = {h.id : h \in Commitments}
    BY DEF Promise!Ids
  <1>2. \A h \in Commitments : \E i \in SpentTopups :
           h = [id |-> i, at |-> ops[i].ts]
    BY DEF Commitments
  <1>3. \A i \in SpentTopups : [id |-> i, at |-> ops[i].ts] \in Commitments
    BY DEF Commitments
  <1>4. \A h \in Commitments : h.id \in SpentTopups /\ h.at = ops[h.id].ts
    BY <1>2
  <1>5. {h.id : h \in Commitments} = SpentTopups
    <2>1. \A i \in SpentTopups : \E h \in Commitments : h.id = i
      BY <1>3
    <2> QED
      BY <1>4, <2>1
  <1>6. ASSUME NEW i
        PROVE  {h \in Commitments : h.id # i}
                   = {[id |-> k, at |-> ops[k].ts] : k \in SpentTopups \ {i}}
    BY DEF Commitments
  <1> QED
    BY <1>1, <1>4, <1>5, <1>6

\* The deposit rows, whatever their outcome.
LEMMA TopupRowsAre ==
    ASSUME TypeOK
    PROVE  /\ TopupRows = {i \in DOMAIN ops : ops[i].op = "topup"}
           /\ SpentTopups \subseteq TopupRows
           /\ \A i \in DOMAIN ops : ops[i].outcome \in Outcomes
  <1>1. \A i \in DOMAIN ops : ops[i] \in Row
    BY DEF TypeOK
  <1>2. \A i \in DOMAIN ops : ops[i].outcome \in Outcomes
    BY <1>1 DEF Row
  <1> QED
    BY <1>2 DEF TopupRows, SpentTopups, Rows, Outcomes

\* Outcomes after a step are outcomes.
LEMMA OutcomesNext ==
    ASSUME TypeOK'
    PROVE  \A i \in DOMAIN ops' : ops'[i].outcome \in Outcomes
  <1>1. \A i \in DOMAIN ops' : ops'[i] \in Row
    <2>1. ops' \in Seq(Row)
      BY DEF TypeOK
    <2> QED
      BY <2>1
  <1> QED
    BY <1>1 DEF Row

\* The deposit rows after a step.
LEMMA TopupRowsNext ==
    ASSUME TypeOK'
    PROVE  TopupRows' = {i \in DOMAIN ops' : ops'[i].op = "topup"}
  BY OutcomesNext DEF TopupRows, Rows

\* Only a tick moves the clock, and a tick moves nothing else the promise reads.
LEMMA ClockOrLedger ==
    ASSUME TypeOK, [Next]_vars
    PROVE  now' = now \/ (now' = now + 1 /\ ops' = ops /\ sent' = sent)
  BY DEF Next, KeeperStep, vars, CycleStart, Settle, ReclaimGate,
         ReclaimDeclined, TopupRefused, TopupFired, FireReclaim, ManualFired,
         ReplyLost, CliBroadcasts, ReclaimRuns, JobSucceeds, JobRefused,
         JobFails, LandsLate, StatusWritten, ChannelOpens, ChannelSettles,
         Crash, Shutdown, ClearHalt, Tick

\* A step broadcasts for at most one request, and then leaves the ledger alone.
LEMMA SentShape ==
    ASSUME TypeOK, [Next]_vars
    PROVE  \/ sent' = sent
           \/ ops' = ops /\ \E j \in jobs : sent' = sent \cup {j.row}
  <1>1. Forgets => sent' = sent
    BY DEF Forgets
  <1>2. ASSUME NEW j \in jobs, Moves(j)
        PROVE  \/ sent' = sent
               \/ ops' = ops /\ \E k \in jobs : sent' = sent \cup {k.row}
    BY <1>2 DEF Moves
  <1>3. ASSUME NEW i, NEW op, Accepts(i, op)
        PROVE  sent' = sent
    BY <1>3 DEF Accepts
  <1> QED
    BY <1>1, <1>2, <1>3, JobsShape

\* The number of commitments in the window is at most that of spent rows.
LEMMA CommitmentsCounted ==
    ASSUME TypeOK, NEW t \in Int
    PROVE  LET C == {h \in Commitments : h.at >= t}
               S == SpentSince(ops, t)
           IN /\ Cardinality(C) \in Nat /\ Cardinality(S) \in Nat
              /\ Cardinality(C) <= Cardinality(S)
  <1> DEFINE C == {h \in Commitments : h.at >= t}
             S == SpentSince(ops, t)
             f == [i \in S |-> [id |-> i, at |-> ops[i].ts]]
  <1>1. IsFiniteSet(S) /\ Cardinality(S) \in Nat
    <2>1. S \subseteq SpentTopups
      BY DEF SpentSince, SpentTopups
    <2>2. IsFiniteSet(SpentTopups)
      BY RowsFinite DEF TypeOK, SpentTopups
    <2> QED
      BY <2>1, <2>2, FS_Subset, FS_CardinalityType
  <1>2. f \in Surjection(S, C)
    <2>1. S = {i \in SpentTopups : ops[i].ts >= t}
      BY DEF SpentSince, SpentTopups
    <2>2. f \in [S -> C]
      BY <2>1 DEF Commitments
    <2>3. \A h \in C : \E i \in S : f[i] = h
      BY <2>1 DEF Commitments
    <2> QED
      BY <2>2, <2>3 DEF Surjection
  <1>3. IsFiniteSet(C) /\ Cardinality(C) <= Cardinality(S)
    BY <1>1, <1>2, FS_Surjection
  <1> QED
    BY <1>1, <1>3, FS_CardinalityType

\* Rows that stay as spent as they were leave the promise as it was.
LEMMA SameCommitments ==
    ASSUME SpentTopups' = SpentTopups,
           \A i \in SpentTopups : ops'[i].ts = ops[i].ts
    PROVE  Commitments' = Commitments
  BY DEF Commitments

\* The initial ledger is the promise with nothing committed.
THEOREM PromiseInit == Init => Promise!Init
  <1> SUFFICES ASSUME Init PROVE Promise!Init
    OBVIOUS
  <1>1. now = 0 /\ sent = {} /\ DOMAIN ops = {}
    BY DEF Init
  <1>2. SpentTopups = {}
    BY <1>1 DEF SpentTopups, Rows
  <1> QED
    BY <1>1, <1>2 DEF Promise!Init

\* Every step of the keeper is a Commit, an Execute, a Release or a Tick of the
\* promise, or leaves it alone.
THEOREM PromiseStep ==
    TypeOK /\ TypeOK' /\ KeeperInv /\ [Next]_vars
        => [Promise!Next]_(Promise!vars)
  <1> SUFFICES ASSUME TypeOK, TypeOK', KeeperInv, [Next]_vars
               PROVE  Promise!Next \/ UNCHANGED Promise!vars
    OBVIOUS
  <1>0. AwaitedRows /\ TopupNeverOk /\ JobsBacked /\ JobsUnique /\ NeverWrittenOff
    BY DEF KeeperInv
  <1>l. Len(ops) \in Nat /\ DOMAIN ops = 1 .. Len(ops)
        /\ \A i \in 1 .. Len(ops) : ops[i].ts \in Nat
    BY RowTimes
  <1>u. UNCHANGED <<now, Commitments, Executed>> => UNCHANGED Promise!vars
    BY DEF Promise!vars, Commitments, Executed, TopupRows
  <1>r. Rewrite => TopupRows' = TopupRows
    BY TopupRowsAre, TopupRowsNext DEF Rewrite
  \* Time passes.
  <1>1. CASE now' # now
    <2>1. now' = now + 1 /\ ops' = ops /\ sent' = sent
      BY <1>1, ClockOrLedger
    <2>2. Promise!Tick
      BY <2>1 DEF Promise!Tick, SpentTopups
    <2> QED
      BY <2>2 DEF Promise!Next
  \* A deposit is intended.
  <1>2. CASE now' = now /\ TopupFired /\ AppendRow("topup")
    <2>n. PICK n \in Nat : n = Len(ops) + 1
      BY <1>l
    <2>1. /\ SpentTopups' = SpentTopups \cup {n}
          /\ SpentTopups \subseteq 1 .. Len(ops)
          /\ \A i \in 1 .. Len(ops) : ops'[i] = ops[i]
          /\ ops'[n].ts = now /\ Len(ops') = n
          /\ n \in 1 .. MaxOps
      BY <1>2, <1>l, <2>n, AppendSpent, KindsDisjoint, WorldAssumption
      DEF AppendRow, TopupFired
    <2>2. Commitments' = Commitments \cup {[id |-> n, at |-> now]}
      <3>1. \A i \in SpentTopups : ops'[i].ts = ops[i].ts
        BY <2>1
      <3> QED
        BY <2>1, <3>1 DEF Commitments
    <2>3. Executed' = Executed
      <3>1. sent' = sent
        BY <1>2 DEF TopupFired
      <3>2. n \notin sent
        BY <1>0, <1>l, <2>n DEF NeverWrittenOff
      <3>3. TopupRows' = TopupRows \cup {n}
        BY <1>2, <1>l, <2>n, TopupRowsAre, TopupRowsNext DEF AppendRow
      <3> QED
        BY <3>1, <3>2, <3>3 DEF Executed
    <2>4. n \notin Promise!Ids(Commitments)
      BY <1>l, <2>n, <2>1, CommitmentsRead
    <2>t. /\ now \in Nat /\ Window \in Nat /\ Cooldown \in Nat
          /\ Cooldown <= Window /\ Amount \in Nat /\ Cap \in Nat
      BY KnobsAssumption DEF TypeOK
    <2>5. \A h \in Commitments : now - h.at >= Cooldown
      <3>1. ASSUME NEW i \in SpentTopups
            PROVE  now - ops[i].ts >= Cooldown
        <4>1. CASE ops[i].ts >= now - Window
          <5>1. i \in SpentSince(ops, now - Window)
            BY <4>1 DEF SpentTopups, SpentSince
          <5>2. ~(now - ops[i].ts < Cooldown)
            BY <1>2, <5>1 DEF TopupFired, CoolingDown, AnyWithin
          <5> QED
            BY <1>l, <2>t, <2>1, <5>2
        <4>2. CASE ~(ops[i].ts >= now - Window)
          BY <1>l, <2>t, <2>1, <4>2
        <4> QED
          BY <4>1, <4>2
      <3> QED
        BY <3>1, CommitmentsRead
    <2>6. Amount * (Cardinality({h \in Commitments : h.at >= now - Window}) + 1)
              <= Cap
      <3> DEFINE c == Cardinality({h \in Commitments : h.at >= now - Window})
                 d == Cardinality(SpentSince(ops, now - Window))
      <3>1. c \in Nat /\ d \in Nat /\ c <= d
        <4>1. now - Window \in Int
          BY <2>t
        <4> QED
          BY <4>1, CommitmentsCounted
      <3>2. ~(Amount * d + Amount > Cap)
        BY <1>2 DEF TopupFired, CapFull, SpentUsdc
      <3> HIDE DEF c, d
      <3>3. Amount * (d + 1) = Amount * d + Amount /\ Amount * d \in Nat
        BY <2>t, <3>1
      <3>4. Amount * (c + 1) <= Amount * (d + 1)
        BY <2>t, <3>1
      <3>5. Amount * (c + 1) \in Nat
        BY <2>t, <3>1
      <3>6. Amount * (c + 1) <= Cap
        BY <2>t, <3>2, <3>3, <3>4, <3>5
      <3> QED
        BY <3>6 DEF c
    <2>7. Promise!Commit(n)
      <3>1. now' = now
        BY <1>2
      <3>2. /\ n \notin Promise!Ids(Commitments)
            /\ \A h \in Commitments : now - h.at >= Cooldown
            /\ Amount * (Cardinality({h \in Commitments : h.at >= now - Window})
                             + 1) <= Cap
            /\ Commitments' = Commitments \cup {[id |-> n, at |-> now]}
            /\ UNCHANGED <<now, Executed>>
            => Promise!Commit(n)
        BY SameCount DEF Promise!Commit, Commitments, Executed, TopupRows
      <3> QED
        BY <3>1, <3>2, <2>2, <2>3, <2>4, <2>5, <2>6
    <2> QED
      BY <2>1, <2>7 DEF Promise!Next
  \* Another row is added.
  <1>3. ASSUME NEW op \in OpKinds \ {"topup"}, AppendRow(op), now' = now
        PROVE  UNCHANGED Promise!vars
    <2>1. SpentTopups' = SpentTopups /\ \A i \in SpentTopups : ops'[i].ts = ops[i].ts
      BY <1>3, AppendSpent
    <2>2. TopupRows' = TopupRows
      <3>1. /\ DOMAIN ops' = DOMAIN ops \cup {Len(ops) + 1}
            /\ ops'[Len(ops) + 1].op # "topup"
            /\ \A i \in DOMAIN ops : ops'[i] = ops[i]
        BY <1>3, <1>l DEF AppendRow
      <3> QED
        BY <3>1, TopupRowsAre, TopupRowsNext
    <2>3. sent' = sent
      BY <1>3, SentShape DEF AppendRow
    <2> QED
      BY <1>3, <1>u, <2>1, <2>2, <2>3, SameCommitments DEF Executed
  \* A deposit is written off: it was refused, and never sent.
  <1>4. ASSUME NEW i \in TopupRows, WrittenOff(i), Rewrite, now' = now
        PROVE  Promise!Next
    <2>1. PICK j \in jobs : JobRefused(j) /\ j.row = i
      BY <1>0, <1>4, OnlyRefusalsWriteOff
    <2>2. sent' = sent /\ i \notin sent /\ j.stage = "queued"
      BY <1>0, <1>l, <1>4, <2>1 DEF JobRefused, JobsUnique, WrittenOff
    <2>3. \A k : WrittenOff(k) => k = i
      <3>1. SUFFICES ASSUME NEW k, WrittenOff(k) PROVE k = i
        OBVIOUS
      <3>2. PICK m \in jobs : JobRefused(m) /\ m.row = k
        BY <1>0, <3>1, OnlyRefusalsWriteOff
      <3>3. jobs' = jobs \ {j} /\ jobs' = jobs \ {m}
        BY <2>1, <3>2 DEF JobRefused
      <3> QED
        BY <2>1, <3>2, <3>3
    <2>4. SpentTopups' = SpentTopups \ {i} /\ i \in SpentTopups
      <3>1. \A k \in DOMAIN ops : ops'[k].outcome \in Outcomes
        BY <1>4, OutcomesNext DEF Rewrite
      <3>2. \A k \in TopupRows : k \in SpentTopups <=> ops[k].outcome # "failed"
        BY <1>0, TopupRowsAre
        DEF TopupNeverOk, SpentTopups, Rows, Outcomes, Spent, Terminal
      <3>3. TopupNeverOk'
        BY <1>0, <1>4, RewriteSpent
      <3>4. \A k \in TopupRows : k \in SpentTopups' <=> ops'[k].outcome # "failed"
        BY <1>4, <3>1, <3>3, TopupRowsAre
        DEF TopupNeverOk, SpentTopups, Rows, Outcomes, Spent, Terminal, Rewrite
      <3>5. SpentTopups' \subseteq SpentTopups /\ SpentTopups \subseteq TopupRows
        BY <1>0, <1>4, RewriteSpent, TopupRowsAre
      <3> QED
        BY <1>4, <2>3, <3>2, <3>4, <3>5, TopupRowsAre DEF WrittenOff
    <2>5. Commitments' = {h \in Commitments : h.id # i}
      <3>1. \A k \in SpentTopups : ops'[k].ts = ops[k].ts
        BY <1>4, TopupRowsAre DEF Rewrite
      <3> QED
        BY <2>4, <3>1, CommitmentsRead DEF Commitments
    <2>6. Executed' = Executed /\ i \notin Executed
      BY <1>r, <1>4, <2>2 DEF Executed
    <2>7. i \in Promise!Ids(Commitments)
      BY <2>4, CommitmentsRead
    <2>8. Promise!Release(i)
      BY <1>4, <2>5, <2>6, <2>7
      DEF Promise!Release, Commitments, Executed, TopupRows
    <2> QED
      BY <2>7, <2>8 DEF Promise!Next, Commitments
  \* Otherwise spent rows stay spent, and at most a broadcast happens.
  <1>5. ASSUME Rewrite, \A i \in TopupRows : ~WrittenOff(i), now' = now
        PROVE  Promise!Next \/ UNCHANGED Promise!vars
    <2>1. SpentTopups' = SpentTopups
      <3>1. \A k \in DOMAIN ops : ops'[k].outcome \in Outcomes
        BY <1>5, OutcomesNext DEF Rewrite
      <3>2. TopupNeverOk' /\ SpentTopups' \subseteq SpentTopups
        BY <1>0, <1>5, RewriteSpent
      <3>3. ASSUME NEW k \in SpentTopups PROVE k \in SpentTopups'
        <4>1. /\ k \in TopupRows /\ k \in DOMAIN ops /\ ops[k].op = "topup"
              /\ ops[k].outcome # "failed"
          BY TopupRowsAre DEF SpentTopups, Rows, Spent
        <4>2. k \in DOMAIN ops' /\ ops'[k].op = "topup"
          BY <1>5, <4>1 DEF Rewrite
        <4>3. ops'[k].outcome # "failed" /\ ops'[k].outcome # "ok"
          BY <1>5, <3>2, <4>1, <4>2 DEF WrittenOff, TopupNeverOk
        <4> QED
          BY <3>1, <4>1, <4>2, <4>3
          DEF SpentTopups, Rows, Outcomes, Spent, Terminal
      <3> QED
        BY <3>2, <3>3
    <2>2. Commitments' = Commitments
      BY <1>5, <2>1, TopupRowsAre, SameCommitments DEF Rewrite
    <2>3. CASE sent' = sent
      BY <1>r, <1>u, <1>5, <2>2, <2>3 DEF Executed
    <2>4. ASSUME NEW j \in jobs, sent' = sent \cup {j.row}, ops' = ops
          PROVE  Promise!Next \/ UNCHANGED Promise!vars
      <3>1. CASE j.row \notin TopupRows
        BY <1>r, <1>u, <1>5, <2>2, <2>4, <3>1 DEF Executed
      <3>2. CASE j.row \in TopupRows
        <4>1. j.row \in DOMAIN ops /\ j.row # 0 /\ ops[j.row].op = "topup"
          BY <1>l, <3>2, TopupRowsAre
        <4>2. ops[j.row].outcome # "failed" /\ ops[j.row].outcome # "ok"
          BY <1>0, <4>1 DEF JobsBacked, TopupNeverOk
        <4>3. j.row \in SpentTopups
          BY <4>1, <4>2, TopupRowsAre
          DEF SpentTopups, Rows, Outcomes, Spent, Terminal
        <4>4. j.row \in Promise!Ids(Commitments)
          BY <4>3, CommitmentsRead
        <4>5. Executed' = Executed \cup {j.row}
          BY <1>r, <1>5, <2>4, <3>2 DEF Executed
        <4>6. Promise!Execute(j.row)
          BY <1>5, <2>2, <4>4, <4>5
          DEF Promise!Execute, Commitments, Executed, TopupRows
        <4> QED
          BY <4>4, <4>6 DEF Promise!Next, Commitments
      <3> QED
        BY <3>1, <3>2
    <2> QED
      BY <2>3, <2>4, SentShape
  <1> QED
    BY <1>0, <1>1, <1>2, <1>3, <1>4, <1>5, LedgerStep, KindsDisjoint

\* Whatever fails, the keeper spends as FundingPromise allows.
THEOREM ImplementsPromise == Spec => KeepsPromise
  <1>1. Spec => [](TypeOK /\ KeeperInv)
    BY KeeperInvariant
  <1> QED
    BY <1>1, PromiseInit, PromiseStep, PTL DEF Spec, KeepsPromise, Promise!Spec

=============================================================================
