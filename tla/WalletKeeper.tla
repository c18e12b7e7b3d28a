---------------------------- MODULE WalletKeeper ----------------------------
(***************************************************************************)
(* The wallet keeper (wallet_keeper.py) of one AntSeed buyer proxy, with    *)
(* what it acts on: the wallet_ops ledger (WalletLedger), the buyer_status  *)
(* row the sidecar writes, the sidecar's control server, the on-chain       *)
(* escrow and its payment channels, and the dashboard handler that fires    *)
(* manual wallet operations from the same process.                          *)
(*                                                                         *)
(* The keeper is one asyncio task.  Its code between two awaits is split    *)
(* at the functions of one cycle, so that a crash may fall between them:    *)
(*                                                                         *)
(*   idle -> settle -> reclaim -> (scan -> (tx ->)) topup -> (deposit ->)   *)
(*   idle,  where scan, tx and deposit are the awaits on the sidecar.       *)
(*                                                                         *)
(* Simplifications.                                                        *)
(*  - Knobs are constants: a cycle reads them once (load_knobs).            *)
(*  - Any store call may fail; a step in which at least one of its calls    *)
(*    fails costs one unit of `faults'.                                     *)
(*  - The two chain readings of the untrusted RPC (hot wallet USDC, gas) are*)
(*    any reading at all: they only veto.                                   *)
(*  - Sidecar and keeper share one clock; the skew allowance is left out.   *)
(*  - The HTTP outcome is the `attempted' claim of control.js: an answer is *)
(*    "ok", "refused" (attempted = false) or "inconclusive".                *)
(***************************************************************************)
EXTENDS WalletLedger

CONSTANTS
    \* operator knobs
    Amount,           \* antseed.topup_amount_usdc
    Cap,              \* antseed.topup_daily_cap_usdc
    Trigger,          \* antseed.topup_trigger_usdc
    MinAvail,         \* antseed.min_available_usdc, the offer tourniquet
    ReclaimMin,       \* antseed.reclaim_min_usdc
    Cooldown,         \* antseed.topup_cooldown_s
    \* constants of the code
    Window,           \* the 86400 s of the daily cap
    SettleAfter, StatusMaxAge, BackoffBase, BackoffCap, ReclaimCooldown,
    PumpStrikes, ErrorStrikes, ReclaimStrikes, MaxTx,
    \* the sidecar and the chain
    DepositBudget,    \* worst case of one deposit or withdrawal request, and of
    ReclaimBudget,    \* one reclaim phase, queue wait included
    Channels,         \* payment channels
    ChannelAmt,       \* USDC one channel reserves
    Landings,         \* subset of BOOLEAN: may a broadcast deposit reach the escrow
    Honours,          \* subset of BOOLEAN: does the sidecar honour an id list
    ResvReported,     \* subset of BOOLEAN: does the status carry the reserve
    ManualKinds,      \* manual operations the dashboard may fire
    \* bounds of the model
    MaxTime, MaxOps, MaxFaults, MaxCrashes, MaxClears, InitAvail,
    InitOperator      \* subset of BOOLEAN: is the operator role assigned already

ASSUME KnobsAssumption ==
    /\ Amount \in Nat \ {0} /\ Cap \in Nat /\ Amount <= Cap
    /\ Trigger \in Nat /\ MinAvail \in Nat /\ MinAvail < Trigger
    /\ ReclaimMin \in Nat
    /\ Cooldown \in Nat /\ Window \in Nat /\ Cooldown <= Window
ASSUME TimingAssumption ==
    /\ SettleAfter \in Nat /\ StatusMaxAge \in Nat /\ ReclaimCooldown \in Nat
    /\ BackoffBase \in Nat /\ BackoffCap \in Nat
    /\ DepositBudget \in Nat /\ ReclaimBudget \in Nat
    /\ PumpStrikes \in Nat \ {0} /\ ErrorStrikes \in Nat \ {0}
    /\ ReclaimStrikes \in Nat \ {0} /\ MaxTx \in Nat \ {0}
\* A deposit request is over (190 s at the sidecar, 210 s for the client) before
\* the shortest backoff (300 s) is.  That doubling yields a positive number is
\* arithmetic; it is assumed because the provers do not interpret `^'.
ASSUME BackoffAssumption ==
    /\ DepositBudget < BackoffBase /\ DepositBudget < BackoffCap
    /\ \A k \in 1 .. ErrorStrikes : 2 ^ (k - 1) \in Nat \ {0}
ASSUME WorldAssumption ==
    /\ IsFiniteSet(Channels) /\ ChannelAmt \in Nat
    /\ Landings \subseteq BOOLEAN /\ Honours \subseteq BOOLEAN
    /\ ResvReported \subseteq BOOLEAN /\ ManualKinds \subseteq ManualOps
    /\ MaxTime \in Nat /\ MaxOps \in Nat /\ MaxFaults \in Nat
    /\ MaxCrashes \in Nat /\ MaxClears \in Nat /\ InitAvail \in Nat
    /\ InitOperator \subseteq BOOLEAN

VARIABLES
    now,              \* clock, in ticks
    ops,              \* the wallet_ops rows
    halts,            \* the persisted halt kinds, a subset of {"topup", "reclaim"}
    status,           \* the buyer_status row: [avail, resv, at]
    pc, cyc,          \* where the keeper's cycle is, and its locals
    manual,           \* the dashboard request awaiting the sidecar: its row, or
                      \* Nobody; 0 is a request that was fired without a row
    jobs,             \* control requests the sidecar has accepted
    sent,             \* rows whose transaction was broadcast
    avail, chan,      \* escrow: spendable part, state of every channel
    operatorSelf,     \* is the buyer its own deposits operator
    faults, crashes, clears, \* budgets left
    reviewed          \* rows already closed when the operator last cleared a halt

keeper == <<pc, cyc>>
chain  == <<avail, chan, operatorSelf>>
vars   == <<now, ops, halts, status, pc, cyc, manual, jobs, sent, avail, chan,
            operatorSelf, faults, crashes, clears, reviewed>>

\* The keeper and the dashboard share one event loop: a handler runs while the
\* keeper is at an await.  The sidecar and the chain run beside it, but what
\* they change the keeper reads only at its awaits, so their steps commute with
\* its code in between and are taken at the awaits too.
Yielded == pc \in {"idle", "scan", "tx", "deposit"}

Nobody == -1
PCs    == {"idle", "settle", "reclaim", "scan", "tx", "topup", "deposit"}
NoCycle == [avail |-> 0, resv |-> 0, at |-> 0, verdict |-> "none",
            row |-> Nobody, ids |-> {}]

Init ==
    /\ now = 0 /\ ops = <<>> /\ halts = {}
    /\ status = [avail |-> InitAvail, resv |-> 0, at |-> 0]
    /\ pc = "idle" /\ cyc = NoCycle /\ manual = Nobody
    /\ jobs = {} /\ sent = {}
    /\ avail = InitAvail /\ chan = [c \in Channels |-> "none"]
    /\ operatorSelf \in InitOperator
    /\ faults = MaxFaults /\ crashes = MaxCrashes /\ clears = MaxClears
    /\ reviewed = {}

\* A step in which some store call failed, if b.
Faulty(b) == IF b THEN faults > 0 /\ faults' = faults - 1
                  ELSE UNCHANGED faults

(***************************************************************************)
(* The sidecar's job list.  A job is [row, op, ids, stage, echo, born].     *)
(***************************************************************************)
Job(i, op, ids) == [row |-> i, op |-> op, ids |-> ids, stage |-> "queued",
                    echo |-> TRUE, born |-> now]

(***************************************************************************)
(* Breakers and clocks, read from the ledger.                              *)
(***************************************************************************)
\* PUMP_EFFECTIVE_FRACTION = 0.8 of the amount, on the escrow sum when both
\* ends have a reserve reading and on the spendable half otherwise.
Gained(i) ==
    IF ops[i].preResv # NoReading /\ cyc.resv # NoReading
    THEN (cyc.avail + cyc.resv) - (ops[i].preAvail + ops[i].preResv)
    ELSE cyc.avail - ops[i].preAvail
Effective(i) == 10 * Gained(i) >= 8 * Amount

\* Mutant of PumpTripped: off by one.
PumpTripsLate(rows) ==
    LET S == NewestSettled(rows, "topup", PumpStrikes)
    IN Cardinality(S) > PumpStrikes
       /\ \A i \in S : rows[i].outcome = "ineffective"

PumpTripped(rows) ==
    LET S == NewestSettled(rows, "topup", PumpStrikes)
    IN Cardinality(S) >= PumpStrikes
       /\ \A i \in S : rows[i].outcome = "ineffective"

\* Mutant of ErrorStrikesOf: only refusals are strikes.
RefusalStrikesOf(rows, op, limit) ==
    LET T == NewestTerminal(rows, op, limit)
    IN Cardinality({i \in T : \A j \in T : j >= i => rows[j].outcome = "failed"})

ErrorStrikesOf(rows, op, limit) ==
    Strikes(rows, NewestTerminal(rows, op, limit))

LesserOf(a, b) == IF a < b THEN a ELSE b
GreaterOf(a, b) == IF a < b THEN b ELSE a

\* Mutant of Backoff: no floor under the knob, "0 doubled is still 0".
BackoffUnfloored(strikes) == LesserOf(Cooldown * 2 ^ (strikes - 1), BackoffCap)

Backoff(strikes) ==
    LesserOf(GreaterOf(Cooldown, BackoffBase) * 2 ^ (strikes - 1), BackoffCap)

\* Mutants of Halted: the cycle's own verdict instead of the persisted flag; the
\* reclaim flag forgotten.
HaltedThisCycle(kind) == cyc.verdict # "none"
TopupHaltedOnly(kind) == kind = "topup" /\ kind \in halts

\* wallet_halted; wallet_halt keeps one halt row of a kind, so a set is enough.
Halted(kind) == kind \in halts

\* Mutant of CoolingDown: only answered deposits set the clock.
CoolingDownOnFired ==
    AnyWithin(ops, {i \in SpentSince(ops, now - Window) :
                        ops[i].outcome = "fired"}, now, Cooldown)

\* _retry_gate, given what the two reads returned.
CoolingDown == AnyWithin(ops, SpentSince(ops, now - Window), now, Cooldown)
BackingOff ==
    LET T == NewestTerminal(ops, "topup", ErrorStrikes)
        k == Strikes(ops, T)
    IN k > 0 /\ \A i \in T : (\A j \in T : j <= i)
                                 => now - ops[i].upd < Backoff(k)

SpentUsdc == Amount * Cardinality(SpentSince(ops, now - Window))

\* Mutant of CapFull: the deposit about to be made is not counted.
CapExceeded == SpentUsdc > Cap

\* Full amount or nothing.
CapFull == SpentUsdc + Amount > Cap

\* Mutant of CappedStrikes: the error breaker's own length.
UncappedStrikes == ErrorStrikes

\* The capped-strike halt of _maybe_topup: the breaker is as short as the
\* number of full deposits the cap ever admits.
CappedStrikes == LesserOf(ErrorStrikes, GreaterOf(1, Cap \div Amount))

(***************************************************************************)
(* One cycle.                                                              *)
(***************************************************************************)
\* cycle_provider up to and including _reconcile_orphans.  An absent or stale
\* status ends the cycle at once (no step).
CycleStart ==
    /\ pc = "idle"
    /\ status.avail # NoReading /\ now - status.at <= StatusMaxAge
    /\ LET orphans == {i \in Open(ops, OpKinds \ {"topup"}) :
                          ops[i].outcome = "pending"}
       IN \E closed \in SUBSET orphans :
            /\ ops' = Finish(ops, closed, "unknown", now)
            /\ Faulty(closed # orphans)
    /\ pc' = "settle"
    /\ cyc' = [NoCycle EXCEPT !.avail = status.avail, !.resv = status.resv,
                              !.at = status.at]
    /\ UNCHANGED <<now, halts, status, manual, jobs, sent, chain, crashes,
                   clears, reviewed>>

\* _settle_topups: close orphaned deposits as unknown, score the ones that are
\* old enough, then read both breakers.
Settle ==
    /\ pc = "settle"
    /\ LET pend == {i \in Open(ops, {"topup"}) : ops[i].outcome = "pending"}
           due  == {i \in Open(ops, {"topup"}) \ pend :
                        now - ops[i].upd >= SettleAfter}
       IN \E closed \in SUBSET (pend \cup due),
             broken \in SUBSET {"settled", "terminal", "halt"} :
            LET good  == {i \in closed \cap due : Effective(i)}
                rows  == Finish(Finish(Finish(ops,
                             closed \cap pend, "unknown", now),
                             good, "effective", now),
                             (closed \cap due) \ good, "ineffective", now)
                pump  == "settled" \notin broken /\ PumpTripped(rows)
                error == "terminal" \notin broken
                         /\ ErrorStrikesOf(rows, "topup", ErrorStrikes)
                                >= ErrorStrikes
            IN /\ ops' = rows
               /\ cyc' = [cyc EXCEPT !.verdict =
                             IF pump THEN "pump_halt"
                             ELSE IF error THEN "error_halt" ELSE "none"]
               /\ halts' = IF (pump \/ error) /\ "halt" \notin broken
                           THEN halts \cup {"topup"} ELSE halts
               /\ Faulty(closed # pend \cup due \/ broken # {})
    /\ pc' = "reclaim"
    /\ UNCHANGED <<now, status, manual, jobs, sent, chain, crashes, clears,
                   reviewed>>

\* _maybe_reclaim up to the scan: halt, shortness or ratchet, reserve, wedge
\* test, gas veto.
Short     == cyc.avail < Trigger
Ratcheted == cyc.resv # NoReading
             /\ cyc.resv >= 2 * GreaterOf(cyc.avail, Trigger)
ReclaimGate ==
    /\ pc = "reclaim"
    /\ \E wedged, lowGas, unreadable \in BOOLEAN :
         /\ cyc.avail < MinAvail => wedged
         /\ pc' = IF /\ ~Halted("reclaim") /\ ~unreadable
                     /\ Short \/ Ratcheted
                     /\ cyc.resv # NoReading /\ cyc.resv > ReclaimMin
                     /\ wedged /\ ~lowGas
                  THEN "scan" ELSE "topup"
         /\ Faulty(unreadable)
    /\ UNCHANGED <<now, ops, halts, status, cyc, manual, jobs, sent, chain,
                   crashes, clears, reviewed>>

\* The channels one phase names: all the worthwhile ones, at most MaxTx.
Batch(S, ids) == /\ ids \subseteq S /\ ids # {}
                 /\ Cardinality(ids) = LesserOf(Cardinality(S), MaxTx)

\* The phase a scan calls for; getOperator is read best-effort, so a buyer that
\* is its own operator may look as if it were not.
PhaseOf(op, ids, seenSelf) ==
    LET closing == {c \in Channels : chan[c] = "closing"}
        open    == {c \in Channels : chan[c] = "open"}
    IN \/ ~seenSelf /\ op = "reclaim_set_operator" /\ ids = {}
       \/ seenSelf /\ op = "reclaim_withdraw" /\ Batch(closing, ids)
       \/ seenSelf /\ op = "reclaim_request_close" /\ closing = {}
          /\ Batch(open, ids)

\* Mutant of ReclaimCoolingDown: refused phases do not set the clock.
ReclaimCoolingDownOnSpent ==
    AnyWithin(ops, Rows(ops, ReclaimOps, Spent), now, ReclaimCooldown)

\* _last_reclaim_ts within RECLAIM_COOLDOWN_S.
ReclaimCoolingDown ==
    AnyWithin(ops, Rows(ops, ReclaimOps, Outcomes), now, ReclaimCooldown)

\* The scan answered: cooldown, then one phase, its intent row first.
FireReclaim(op, ids) ==
    /\ pc = "scan" /\ Len(ops) < MaxOps
    /\ ~ReclaimCoolingDown
    /\ \E seenSelf \in {operatorSelf, FALSE} : PhaseOf(op, ids, seenSelf)
    /\ ops' = Begin(ops, op, cyc.avail, cyc.resv, now)
    /\ jobs' = jobs \cup {Job(Len(ops) + 1, op, ids)}
    /\ cyc' = [cyc EXCEPT !.row = Len(ops) + 1, !.ids = ids]
    /\ pc' = "tx"
    /\ UNCHANGED <<now, halts, status, manual, sent, chain, faults, crashes,
                   clears, reviewed>>

\* The scan failed or was malformed, nothing is eligible, the cooldown holds,
\* or the intent could not be persisted: no transaction this cycle.
ReclaimDeclined ==
    /\ pc = "scan"
    /\ pc' = "topup"
    /\ UNCHANGED <<now, ops, halts, status, cyc, manual, jobs, sent, chain,
                   faults, crashes, clears, reviewed>>

\* _maybe_topup, ending without a deposit: any gate may refuse, and the hot
\* wallet reading, absent or low, may always veto.  The capped-strike halt is
\* the one refusal that writes.
TopupRefused ==
    /\ pc = "topup"
    /\ \E broken \in SUBSET {"gates", "strikes", "halt"} :
         LET stall == /\ cyc.verdict = "none" /\ cyc.avail < Trigger
                      /\ ~Halted("topup")
                      /\ ~CoolingDown /\ ~BackingOff /\ CapFull
                      /\ broken \cap {"gates", "strikes"} = {}
                      /\ ErrorStrikesOf(ops, "topup", ErrorStrikes)
                             >= CappedStrikes
         IN /\ halts' = IF stall /\ "halt" \notin broken
                        THEN halts \cup {"topup"} ELSE halts
            /\ Faulty(broken # {})
    /\ pc' = "idle" /\ cyc' = NoCycle
    /\ UNCHANGED <<now, ops, status, manual, jobs, sent, chain, crashes,
                   clears, reviewed>>

\* _maybe_topup, all gates passed: the intent row, then the deposit request.
\* Only wallet_ops_terminal fails towards spending (no strikes, no backoff).
TopupFired ==
    /\ pc = "topup" /\ Len(ops) < MaxOps
    /\ cyc.verdict = "none"
    /\ cyc.avail < Trigger
    /\ ~Halted("topup")
    /\ ~CoolingDown
    /\ Faulty(BackingOff)
    /\ ~CapFull
    /\ ops' = Begin(ops, "topup", cyc.avail, cyc.resv, now)
    /\ jobs' = jobs \cup {Job(Len(ops) + 1, "topup", {})}
    /\ cyc' = [cyc EXCEPT !.row = Len(ops) + 1]
    /\ pc' = "deposit"
    /\ UNCHANGED <<now, halts, status, manual, sent, chain, crashes, clears,
                   reviewed>>

(***************************************************************************)
(* The dashboard: shim._wallet_mutate.  It fires even when its row could    *)
(* not be written (row 0).                                                 *)
(***************************************************************************)
ManualFired(op) ==
    /\ Yielded
    /\ manual = Nobody /\ Len(ops) < MaxOps
    /\ \E logged \in BOOLEAN :
         LET i == IF logged THEN Len(ops) + 1 ELSE 0
         IN /\ ops' = IF logged THEN Begin(ops, op, NoReading, NoReading, now)
                                ELSE ops
            /\ jobs' = jobs \cup {Job(i, op, {})}
            /\ manual' = i
            /\ Faulty(~logged)
    /\ UNCHANGED <<now, halts, status, keeper, sent, chain, crashes, clears,
                   reviewed>>

(***************************************************************************)
(* Replies.  The code from the end of the await to the next await.         *)
(***************************************************************************)
\* Mutants of OutcomeFor: the verdict stored as it came; every failure called a
\* refusal (the behaviour the `attempted' claim replaced).
RawVerdict(v) == v
FailedUnlessOk(v) == IF v = "ok" THEN "fired" ELSE "failed"

\* WalletKeeper._outcome_for
OutcomeFor(v) == IF v = "ok" THEN "fired"
                 ELSE IF v = "refused" THEN "failed" ELSE "unknown"

\* Mutant of ClosedOutcome: every failure called a refusal.
ClosedFailedUnlessOk(v) == IF v = "ok" THEN "ok" ELSE "failed"

\* ... and for the operations that have no settlement pass.
ClosedOutcome(v) == IF v = "ok" THEN "ok" ELSE OutcomeFor(v)

\* _maybe_topup after the call: one write, then the cycle is over.
DepositHeard(v) ==
    /\ \E wrote \in BOOLEAN :
         /\ ops' = IF wrote THEN Finish(ops, {cyc.row}, OutcomeFor(v), now)
                            ELSE ops
         /\ Faulty(~wrote)
    /\ pc' = "idle" /\ cyc' = NoCycle
    /\ UNCHANGED <<halts, manual>>

\* _fire_reclaim_phase after the call: close the row, check that the id list
\* was honoured, count strikes.
TxHeard(v, echo) ==
    /\ \E broken \in SUBSET {"finish", "strikes", "halt"} :
         LET rows == IF "finish" \in broken THEN ops
                     ELSE Finish(ops, {cyc.row}, ClosedOutcome(v), now)
             trip == IF v = "ok" THEN ~echo
                     ELSE "strikes" \notin broken
                          /\ ErrorStrikesOf(rows, ops[cyc.row].op,
                                            ReclaimStrikes) >= ReclaimStrikes
         IN /\ ops' = rows
            /\ halts' = IF trip /\ "halt" \notin broken
                        THEN halts \cup {"reclaim"} ELSE halts
            /\ Faulty(broken # {})
    /\ pc' = "topup"
    /\ cyc' = [cyc EXCEPT !.row = Nobody, !.ids = {}]
    /\ UNCHANGED manual

\* _wallet_mutate after the call.
ManualHeard(v) ==
    /\ \E wrote \in BOOLEAN :
         /\ ops' = IF wrote /\ manual # 0
                   THEN Finish(ops, {manual}, ClosedOutcome(v), now) ELSE ops
         /\ Faulty(~wrote)
    /\ manual' = Nobody
    /\ UNCHANGED <<halts, keeper>>

Awaited(i) == \/ pc \in {"deposit", "tx"} /\ cyc.row = i
              \/ manual = i

\* Whoever awaits row i hears v; nobody may be awaiting it any more.
Heard(i, v, echo) ==
    \/ pc = "deposit" /\ cyc.row = i /\ DepositHeard(v)
    \/ pc = "tx" /\ cyc.row = i /\ TxHeard(v, echo)
    \/ manual = i /\ ManualHeard(v)
    \/ ~Awaited(i) /\ UNCHANGED <<ops, halts, keeper, manual, faults>>

\* A reply that never arrives: timeout, reset, unreadable body.  The job goes on.
ReplyLost(i) ==
    /\ Yielded
    /\ Awaited(i)
    /\ Heard(i, "inconclusive", TRUE)
    /\ UNCHANGED <<now, status, jobs, sent, chain, crashes, clears, reviewed>>

(***************************************************************************)
(* The sidecar (control.js, reclaim.mjs) and the chain.                    *)
(***************************************************************************)
InSidecar == {j \in jobs : j.stage # "mempool"}

\* The server's budget for one mutation.
Budget(op) == IF op \in ReclaimOps THEN ReclaimBudget ELSE DepositBudget

\* Mutations run one at a time.
MayRun(j) == Yielded /\ j.stage = "queued" /\ \A k \in jobs : k.stage # "broadcast"

\* A deposit or withdrawal: the CLI broadcasts.
CliBroadcasts(j) ==
    /\ j.op \notin ReclaimOps /\ MayRun(j)
    /\ jobs' = (jobs \ {j}) \cup {[j EXCEPT !.stage = "broadcast"]}
    /\ sent' = sent \cup {j.row}
    /\ UNCHANGED <<now, ops, halts, status, keeper, manual, chain, faults,
                   crashes, clears, reviewed>>

\* reclaim.mjs: the phase acts on channels in one state, and leaves those it
\* acts on in the next.
Acts(op) == IF op = "reclaim_withdraw" THEN "closing" ELSE "open"
Leaves(op) == IF op = "reclaim_withdraw" THEN "none" ELSE "closing"

\* One transaction per selected channel, each may revert; an old sidecar ignores
\* the selection and acts on every eligible channel.
ReclaimRuns(j) ==
    /\ j.op \in ReclaimOps /\ MayRun(j)
    /\ \E honours \in Honours :
         /\ jobs' = (jobs \ {j}) \cup
                {[j EXCEPT !.stage = "broadcast",
                           !.echo = honours \/ j.ids = {}]}
         /\ \/ j.op = "reclaim_set_operator"
               /\ operatorSelf' = TRUE /\ UNCHANGED <<avail, chan>>
            \/ /\ j.op # "reclaim_set_operator"
               /\ \E acted \in SUBSET {c \in IF honours THEN j.ids ELSE Channels :
                                           chan[c] = Acts(j.op)} :
                    /\ chan' = [c \in Channels |->
                                  IF c \in acted THEN Leaves(j.op) ELSE chan[c]]
                    /\ avail' = IF j.op = "reclaim_withdraw"
                                THEN avail + ChannelAmt * Cardinality(acted)
                                ELSE avail
               /\ UNCHANGED operatorSelf
    /\ sent' = sent \cup {j.row}
    /\ UNCHANGED <<now, ops, halts, status, keeper, manual, faults, crashes,
                   clears, reviewed>>

\* What a confirmed deposit or withdrawal does to the escrow.
Landed(j) ==
    \/ j.op \in {"topup", "deposit_manual"}
       /\ \E lands \in Landings : avail' = IF lands THEN avail + Amount ELSE avail
    \/ j.op = "withdraw_manual" /\ avail' = avail - LesserOf(avail, Amount)
    \/ j.op \in ReclaimOps /\ UNCHANGED avail

\* The status a CLI run reports; the reserve column may be absent.
Reading(a, c) ==
    {[avail |-> a, resv |-> IF r THEN ChannelAmt * Cardinality({x \in Channels :
                                     c[x] # "none"}) ELSE NoReading, at |-> now]
        : r \in ResvReported}

\* A job that succeeded: confirmed on chain, buyer_status rewritten (a failed
\* write is swallowed), 200.
JobSucceeds(j) ==
    /\ Yielded
    /\ j.stage = "broadcast"
    /\ jobs' = jobs \ {j}
    /\ Landed(j)
    /\ status' \in {status} \cup
           IF j.op \in {"reclaim_set_operator", "reclaim_request_close"}
           THEN {} ELSE Reading(avail', chan)
    /\ Heard(j.row, "ok", j.echo)
    /\ UNCHANGED <<now, sent, chan, operatorSelf, crashes, clears, reviewed>>

\* 429 from the queue, 400, or a CLI failure that is provably pre-RPC.
JobRefused(j) ==
    /\ Yielded
    /\ j.stage = "queued"
    /\ jobs' = jobs \ {j}
    /\ Heard(j.row, "refused", j.echo)
    /\ UNCHANGED <<now, status, sent, chain, crashes, clears, reviewed>>

\* 502 or 504: the run failed or was killed, before or after broadcasting.  A
\* broadcast deposit stays in the mempool.
JobFails(j) ==
    /\ Yielded
    /\ j.stage \in {"queued", "broadcast"}
    /\ j.stage = "queued" => MayRun(j)
    /\ jobs' = (jobs \ {j}) \cup
           IF j.stage = "broadcast" /\ j.op \notin ReclaimOps
           THEN {[j EXCEPT !.stage = "mempool"]} ELSE {}
    /\ Heard(j.row, "inconclusive", j.echo)
    /\ UNCHANGED <<now, status, sent, chain, crashes, clears, reviewed>>

\* A transaction whose CLI was killed is mined after all.
LandsLate(j) ==
    /\ Yielded
    /\ j.stage = "mempool"
    /\ jobs' = jobs \ {j}
    /\ Landed(j)
    /\ UNCHANGED <<now, ops, halts, status, keeper, manual, sent, chan,
                   operatorSelf, faults, crashes, clears, reviewed>>

\* The poll loop of the sidecar rewrites buyer_status.
StatusWritten ==
    /\ Yielded
    /\ status' \in Reading(avail, chan) /\ status' # status
    /\ UNCHANGED <<now, ops, halts, keeper, manual, jobs, sent, chain, faults,
                   crashes, clears, reviewed>>

\* Routed traffic reserves a channel out of the spendable escrow ...
ChannelOpens(c) ==
    /\ Yielded
    /\ chan[c] = "none" /\ avail >= ChannelAmt
    /\ chan' = [chan EXCEPT ![c] = "open"] /\ avail' = avail - ChannelAmt
    /\ UNCHANGED <<now, ops, halts, status, keeper, manual, jobs, sent,
                   operatorSelf, faults, crashes, clears, reviewed>>

\* ... and the seller settles it: the escrow has paid.
ChannelSettles(c) ==
    /\ Yielded
    /\ chan[c] # "none"
    /\ chan' = [chan EXCEPT ![c] = "none"]
    /\ UNCHANGED <<now, ops, halts, status, keeper, manual, jobs, sent, avail,
                   operatorSelf, faults, crashes, clears, reviewed>>

(***************************************************************************)
(* Restarts, the operator, time.                                           *)
(***************************************************************************)
\* The process dies: intent rows stay pending, the sidecar goes on.
Crash ==
    /\ crashes > 0 /\ crashes' = crashes - 1
    /\ pc # "idle" \/ manual # Nobody
    /\ pc' = "idle" /\ cyc' = NoCycle /\ manual' = Nobody
    /\ UNCHANGED <<now, ops, halts, status, jobs, sent, chain, faults, clears,
                   reviewed>>

\* Shutdown cancels the task at its await: the keeper's row is closed as
\* unknown on the way out, the dashboard's is not.
Shutdown ==
    /\ crashes > 0 /\ crashes' = crashes - 1
    /\ pc \in {"deposit", "tx"}
    /\ ops' = Finish(ops, {cyc.row}, "unknown", now)
    /\ pc' = "idle" /\ cyc' = NoCycle /\ manual' = Nobody
    /\ UNCHANGED <<now, halts, status, jobs, sent, chain, faults, clears,
                   reviewed>>

\* POST /x/wallet/clear-halt
ClearHalt(kind) ==
    /\ Yielded
    /\ clears > 0 /\ clears' = clears - 1
    /\ kind \in halts /\ halts' = halts \ {kind}
    /\ reviewed' = Rows(ops, OpKinds, Terminal)
    /\ UNCHANGED <<now, ops, status, keeper, manual, jobs, sent, chain, faults,
                   crashes>>

\* The keeper's code runs between ticks; a job is over within its budget.
Tick ==
    /\ now < MaxTime
    /\ Yielded
    /\ \A j \in InSidecar : now - j.born < Budget(j.op)
    /\ now' = now + 1
    /\ UNCHANGED <<ops, halts, status, keeper, manual, jobs, sent, chain,
                   faults, crashes, clears, reviewed>>

KeeperStep ==
    \/ CycleStart \/ Settle \/ ReclaimGate \/ ReclaimDeclined
    \/ TopupRefused \/ TopupFired
    \/ \E op \in ReclaimOps, ids \in SUBSET Channels : FireReclaim(op, ids)

Next ==
    \/ KeeperStep
    \/ \E op \in ManualKinds : ManualFired(op)
    \/ \E i \in 0 .. Len(ops) : ReplyLost(i)
    \/ \E j \in jobs : \/ CliBroadcasts(j) \/ ReclaimRuns(j) \/ JobSucceeds(j)
                       \/ JobRefused(j) \/ JobFails(j) \/ LandsLate(j)
    \/ StatusWritten
    \/ \E c \in Channels : ChannelOpens(c) \/ ChannelSettles(c)
    \/ Crash \/ Shutdown
    \/ \E kind \in {"topup", "reclaim"} : ClearHalt(kind)
    \/ Tick

Spec == Init /\ [][Next]_vars

(***************************************************************************)
(* Properties.                                                             *)
(***************************************************************************)
CycleType == [avail : Int, resv : Int, at : Nat,
              verdict : {"none", "pump_halt", "error_halt"},
              row : Int, ids : SUBSET Channels]
JobType   == [row : Nat, op : OpKinds, ids : SUBSET Channels,
              stage : {"queued", "broadcast", "mempool"}, echo : BOOLEAN,
              born : Nat]

\* Every variable has its type: the rows, the keeper's locals, the jobs of the
\* sidecar and the escrow, which never goes negative.
TypeOK ==
    /\ now \in Nat /\ ops \in Seq(Row) /\ halts \subseteq {"topup", "reclaim"}
    /\ status \in [avail : Int, resv : Int, at : Nat]
    /\ pc \in PCs /\ cyc \in CycleType /\ manual \in Int
    /\ jobs \subseteq JobType /\ sent \subseteq Nat
    /\ avail \in Nat /\ chan \in [Channels -> {"none", "open", "closing"}]
    /\ operatorSelf \in BOOLEAN
    /\ faults \in Nat /\ crashes \in Nat /\ clears \in Nat
    /\ reviewed \subseteq Nat

\* The row of a transaction that was broadcast never says `failed', the outcome
\* that costs neither the cap nor the cooldown: across timeouts, crashes, store
\* failures and the sidecar's own verdicts (wallet_keeper._outcome_for,
\* control.js `attempted').  Row 0 stands for a broadcast without a row.
NeverWrittenOff ==
    \A i \in sent \ {0} : i \in DOMAIN ops /\ ops[i].outcome # "failed"

\* Every broadcast has a row: "the caller must then abort: an unlogged on-chain
\* spend is worse than a missed top-up" (host_store.wallet_op_begin).
SpendIsLogged == 0 \notin sent

SpentTopups == Rows(ops, {"topup"}, Spent)

\* In any rolling window the deposits that may have spent stay within the daily
\* cap, whatever reads and writes failed and however often the keeper
\* restarted (_maybe_topup over wallet_op_spend_since).
CapHolds ==
    \A i \in SpentTopups :
        Amount * Cardinality({j \in SpentTopups :
                                j <= i /\ ops[j].ts >= ops[i].ts - Window}) <= Cap

\* Two deposits that may have spent are at least the cooldown knob apart, across
\* restarts and store failures (_retry_gate).
CooldownHolds ==
    \A i, j \in SpentTopups : i < j => ops[j].ts - ops[i].ts >= Cooldown

\* Two reclaim phases, whatever became of them, are one challenge window apart
\* (_maybe_reclaim over wallet_ops_last_ts, which fails closed).
ReclaimSpaced ==
    \A i, j \in Rows(ops, ReclaimOps, Outcomes) :
        i < j => ops[j].ts - ops[i].ts >= ReclaimCooldown

NewRow(kinds) == Len(ops') > Len(ops) /\ ops'[Len(ops')].op \in kinds
\* No store call has failed up to and including this step.
NoFaultYet    == faults' = MaxFaults

\* With a cooldown knob shorter than a control request (it may be zero), the
\* keeper still never asks for a deposit while an
\* earlier one may still be queued or running at the sidecar: the error backoff
\* outlasts every control request it gave up on ("never re-fire on top of a
\* possible in-flight deposit").
NoOverlap ==
    [][NewRow({"topup"}) /\ NoFaultYet
         => \A j \in InSidecar : j.op # "topup"]_vars

\* With a readable store, no deposit is started on top of two measured misses or
\* three unmeasurable ones (_settle_topups), even in the cycle that finds them,
\* even after a restart, even if the operator just cleared the flag.
BreakersBind ==
    [][NewRow({"topup"}) /\ NoFaultYet
         => /\ \/ Cardinality(Rows(ops, {"topup"}, Settled)) < PumpStrikes
               \/ \E i \in NewestSettled(ops, "topup", PumpStrikes) :
                      ops[i].outcome = "effective"
            /\ Strikes(ops, NewestTerminal(ops, "topup", ErrorStrikes))
                   < ErrorStrikes]_vars

\* A persisted halt stops its kind of transaction, and only its kind, whatever
\* store reads fail (wallet_halted reads TRUE on an error).
HaltsBind ==
    [][/\ NewRow({"topup"}) => "topup" \notin halts
       /\ NewRow(ReclaimOps) => "reclaim" \notin halts]_vars

\* Without crashes and store failures a reclaim phase is not started again after
\* ReclaimStrikes consecutive phases that could not be confirmed.
ReclaimBreaker ==
    [][\A op \in ReclaimOps :
         NewRow({op}) /\ NoFaultYet /\ crashes = MaxCrashes /\ clears = MaxClears
           => Strikes(ops, NewestTerminal(ops, op, ReclaimStrikes))
                  < ReclaimStrikes]_vars

\* A row the keeper closed never changes its outcome again ("Outcomes that will
\* never change again", host_store.WALLET_OP_TERMINAL_OUTCOMES).
KeeperRowsFinal ==
    [][\A i \in Rows(ops, OpKinds \ ManualOps, Terminal) :
         ops'[i].outcome = ops[i].outcome]_vars

\* A deposit is judged on a status reading taken after it fired (SETTLE_AFTER_S
\* and "no fresh reading yet").
ScoredOnFreshReading ==
    [][\A i \in Rows(ops, {"topup"}, {"fired"}) :
         ops'[i].outcome \in Settled => cyc.at >= ops[i].upd]_vars

\* Once an operator has cleared a halt, it comes back only on evidence that was
\* not there when it was cleared ("there is a way back").
ClearedHaltNeedsEvidence ==
    [][halts' \ halts # {}
         => ~ Rows(ops', OpKinds, Terminal) \subseteq reviewed]_vars

\* The keeper implements FundingPromise: a commitment is a deposit row that
\* counts as spent, an execution is its broadcast.
Promise == INSTANCE FundingPromise WITH
             RequestIds <- 1 .. MaxOps,
             held <- {[id |-> i, at |-> ops[i].ts] : i \in SpentTopups},
             executed <- sent \cap Rows(ops, {"topup"}, Outcomes)
KeepsPromise == Promise!Spec

(***************************************************************************)
(* Fairness: the keeper loop runs for ever, the sidecar ends every job, its  *)
(* poll loop rewrites the status, time passes while the keeper sleeps.     *)
(***************************************************************************)
Fairness ==
    /\ WF_vars(KeeperStep)
    /\ SF_vars(StatusWritten)
    /\ SF_vars(\E j \in jobs : JobSucceeds(j) \/ JobRefused(j) \/ JobFails(j))
    /\ SF_vars(Tick)

FairSpec == Spec /\ Fairness

Pending(i) == i \in DOMAIN ops /\ ops[i].outcome = "pending"

\* No intent row stays `pending' for ever: it is answered, timed out, cancelled
\* or reconciled by a later cycle, the dashboard's rows included.
PendingResolved == \A i \in 1 .. MaxOps : Pending(i) ~> ~Pending(i)

CapAdmits == Cardinality(SpentSince(ops, now - Window)) < Cap \div Amount

\* The escrow is short, the cap is used up, and no deposit of the window could
\* be measured; enough model time is left for the error backoff to pass.
Wedged ==
    /\ avail < Trigger /\ ~CapAdmits
    /\ Open(ops, {"topup"}) = {}
    /\ \A i \in SpentSince(ops, now - Window) : ops[i].outcome = "unknown"
    /\ now + GreaterOf(Cooldown, BackoffCap) <= MaxTime

\* A wedged keeper says so: a halt is raised (unless the window rolls or the
\* escrow recovers) instead of a silent day-long stall, even though the cap left
\* fewer attempts than the error breaker has strikes (_maybe_topup).
WedgedIsAlarmed == Wedged ~> ("topup" \in halts \/ CapAdmits \/ avail >= Trigger)

=============================================================================
