---------------------------- MODULE FundingGate ----------------------------
(***************************************************************************)
(* What keeps the marketplace provider out of ranking when its escrow        *)
(* cannot pay (sources/antseed.py, sources/__init__.py, config.live.lua): the *)
(* sidecar writes the escrow it read to a row of the store; a refresh task   *)
(* of the router turns the row into the credits that the policy envelope     *)
(* wants, and a restart begins with credits from the row.  The offers are    *)
(* suppressed besides while the row says there is no money, but that check   *)
(* lets an unreadable row pass, and is left out.                           *)
(*                                                                         *)
(* Money is 1 (one channel reserve or more) or 0.  The task's period and     *)
(* the time limits of its calls bound how long it takes to come round; the  *)
(* router's process may be down for any time.                              *)
(***************************************************************************)
EXTENDS Integers

CONSTANTS Stale,    \* STALE_AFTER_S
          Skew,     \* CLOCK_SKEW_ALLOWANCE_S
          Poll,     \* poll_interval_s, with its jitter
          CallTime, \* time limits of one refresh's calls
          MaxTime   \* bound

VARIABLES now,
          escrow,   \* what the escrow holds
          row,      \* the status row: its stamp and amount, or NoRow
          credits,  \* of the provider, in the router's metrics
          task,     \* the refresh task: down, asleep or refreshing
          balance,  \* what the refresh has read
          since,    \* when the task last changed
          written,  \* ghost: when a row that said 1 was last written
          excused   \* ghost: a row from further ahead than the allowance, a failed tick

vars == <<now, escrow, row, credits, task, balance, since, written, excused>>

NoRow   == [at |-> 0, available |-> -1]
Unread  == -1   \* as_float: absent or unreadable is not zero
Balance == {0, 1}

Init == /\ now = 0 /\ escrow \in Balance /\ row = NoRow
        /\ credits = 0 /\ task = "down" /\ balance = 0 /\ since = 0 /\ written = -1
        /\ excused = FALSE

(***************************************************************************)
(* The escrow and the sidecar                                              *)
(***************************************************************************)
Settle == /\ escrow' = 1 - escrow
          /\ UNCHANGED <<now, row, credits, task, balance, since, written, excused>>

\* The row is stamped by the clock of the sidecar, which may be ahead; or the
\* amount was not readable.
WriteRow == /\ \E ahead \in 0..(Skew + 1), amount \in {escrow, Unread} :
                 /\ row' = [at |-> now + ahead, available |-> amount]
                 /\ written' = IF amount = 1 THEN now ELSE written
                 /\ excused' = (excused \/ ahead > Skew)
            /\ UNCHANGED <<now, escrow, credits, task, balance, since>>

(***************************************************************************)
(* The router                                                              *)
(***************************************************************************)
\* A stamp further ahead than the allowance is no stamp.
IsFresh == row # NoRow /\ row.at - now <= Skew /\ now - row.at <= Stale

Provable == IF IsFresh /\ row.available = 1 THEN 1 ELSE 0

\* credits_seed: a start publishes the row's amount, if it is fresh.
Start == /\ task = "down"
         /\ task' = "asleep" /\ since' = now
         /\ credits' \in {0, Provable}   \* the store may not answer
         /\ UNCHANGED <<now, escrow, row, balance, written, excused>>

Stop == /\ task # "down" /\ task' = "down" /\ since' = now /\ credits' = 0
        /\ UNCHANGED <<now, escrow, row, balance, written, excused>>

\* Mutant of Read: a row that proves nothing publishes nothing.
ReadOrSkip == /\ task = "asleep" /\ task' = "refreshing" /\ since' = now
              /\ balance' = IF IsFresh /\ row.available # Unread
                            THEN row.available ELSE credits
              /\ UNCHANGED <<now, escrow, row, credits, written, excused>>

\* balances: a missing, unreadable or stale row is no money.
Read == /\ task = "asleep" /\ task' = "refreshing" /\ since' = now
        /\ balance' \in {0, Provable}
        /\ UNCHANGED <<now, escrow, row, credits, written, excused>>

\* push_credits, after the wallet was looked up on the chain.
Push == /\ task = "refreshing"
        /\ credits' = balance /\ task' = "asleep" /\ since' = now
        /\ UNCHANGED <<now, escrow, row, balance, written, excused>>

\* refresh_once: what raises before the push leaves the credits as they were.
TickFails == /\ task = "refreshing" /\ task' = "asleep" /\ since' = now
             /\ excused' = TRUE
             /\ UNCHANGED <<now, escrow, row, credits, balance, written>>

Due == \/ task = "asleep" /\ now - since >= Poll
       \/ task = "refreshing" /\ now - since >= CallTime

Tick == /\ now < MaxTime /\ ~Due /\ now' = now + 1
        /\ UNCHANGED <<escrow, row, credits, task, balance, since, written, excused>>

Next == Settle \/ WriteRow \/ Start \/ Stop \/ Read \/ Push \/ TickFails \/ Tick

Spec == Init /\ [][Next]_vars

(***************************************************************************)
(* What must hold                                                          *)
(***************************************************************************)
\* policy_envelope: credits >= 1.0
Eligible == credits = 1

\* The provider is ranked only on money that was seen to be there a bounded time
\* ago: a sidecar that died, an unreadable amount and a restart all close the
\* gate.  A stamp from further ahead proves nothing until its time comes, and
\* then proves what is long past; and a tick that failed left the last credits
\* for another round: the excuses.
MoneyProvenUnlessExcused == Eligible /\ ~excused =>
    written >= 0 /\ now - written <= Stale + Skew + Poll + CallTime + CallTime
=============================================================================
