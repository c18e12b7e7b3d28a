---------------------------- MODULE WalletLedger ----------------------------
(***************************************************************************)
(* The wallet_ops table of host_store.py for ONE buyer proxy: the audit    *)
(* trail, the rate-cap ledger and the breakers' evidence at once.  Rows    *)
(* are numbered by their position (the serial id of the table); a row is   *)
(* never removed.  Halt rows ("halt:<kind>") are kept apart, as the set of *)
(* halted kinds, because wallet_halt de-duplicates them and                *)
(* wallet_clear_halt deletes them.                                         *)
(*                                                                         *)
(* Simplifications: `reason', `detail' and the post_* columns are audit    *)
(* text no decision reads; every keeper deposit has the knob's amount, so  *)
(* a sum of amounts is a number of rows times Amount.                      *)
(***************************************************************************)
EXTENDS Integers, Sequences, FiniteSets

\* `op' values.  "topup" is the keeper's deposit; the manual ones are written
\* by the dashboard handler (shim._wallet_mutate).
ReclaimOps == {"reclaim_set_operator", "reclaim_request_close",
               "reclaim_withdraw"}
ManualOps  == {"deposit_manual", "withdraw_manual"}
OpKinds    == {"topup"} \cup ReclaimOps \cup ManualOps

Spent    == {"pending", "fired", "effective", "ineffective", "unknown"}
Settled  == {"effective", "ineffective"}
Terminal == {"effective", "ineffective", "ok", "failed", "unknown"}
Error    == {"failed", "unknown"}
Outcomes == Spent \cup Terminal

\* A reading of an escrow column that the buyer did not report.
NoReading == -1

Row == [op : OpKinds, outcome : Outcomes, ts : Nat, upd : Nat,
        preAvail : Int, preResv : Int]

(***************************************************************************)
(* Writes.                                                                 *)
(***************************************************************************)
\* wallet_op_begin: append the intent, `pending', both stamps now.
Begin(log, op, avail, resv, t) ==
    Append(log, [op |-> op, outcome |-> "pending", ts |-> t, upd |-> t,
                 preAvail |-> avail, preResv |-> resv])

\* wallet_op_finish on every row of S: outcome and updated_at are overwritten,
\* whatever they were.
Finish(log, S, outcome, t) ==
    [i \in DOMAIN log |->
        IF i \in S THEN [log[i] EXCEPT !.outcome = outcome, !.upd = t]
                   ELSE log[i]]

(***************************************************************************)
(* Reads.                                                                  *)
(***************************************************************************)
Rows(log, kinds, outs) ==
    {i \in DOMAIN log : log[i].op \in kinds /\ log[i].outcome \in outs}

\* Mutants of Open: rows closed as unknown are still open; a row whose answer
\* never came is not.
OpenOrUnknown(log, kinds) == Rows(log, kinds, {"pending", "fired", "unknown"})
OpenFired(log, kinds)     == Rows(log, kinds, {"fired"})

\* wallet_ops_open
Open(log, kinds) == Rows(log, kinds, {"pending", "fired"})

\* The newest n rows of the set S (ORDER BY id DESC LIMIT n).
Newest(S, n) == {i \in S : Cardinality({j \in S : j > i}) < n}

NewestSettled(log, op, n)  == Newest(Rows(log, {op}, Settled), n)
NewestTerminal(log, op, n) == Newest(Rows(log, {op}, Terminal), n)

\* WalletKeeper._consecutive over a newest-first list: the length of its run
\* of error outcomes.
Strikes(log, T) ==
    Cardinality({i \in T : \A j \in T : j >= i => log[j].outcome \in Error})

\* Mutant of SpentSince: an unmeasured deposit is free.
MeasuredSince(log, since) ==
    {i \in Rows(log, {"topup"}, Spent \ {"unknown"}) : log[i].ts >= since}

\* wallet_op_spend_since: the spent rows whose intent is not older than `since'.
SpentSince(log, since) ==
    {i \in Rows(log, {"topup"}, Spent) : log[i].ts >= since}

\* max(ts) over a set of rows is within d of t.
AnyWithin(log, S, t, d) == \E i \in S : t - log[i].ts < d

=============================================================================
