--------------------------- MODULE FundingPromise ---------------------------
(***************************************************************************)
(* What the wallet keeper promises about deposits, whatever fails: money    *)
(* leaves the wallet only under a commitment made beforehand, commitments   *)
(* are spaced by the cooldown and bounded by the daily cap, and one is      *)
(* taken back only if its transaction was not, and never will be, sent.     *)
(*                                                                         *)
(* This is the contract the comments of host_store.py (wallet_ops) and of   *)
(* wallet_keeper.py state; WalletKeeper implements it.                      *)
(***************************************************************************)
EXTENDS Integers, FiniteSets

CONSTANTS RequestIds, \* names of requests
          Amount,    \* USDC of one deposit
          Cap,       \* USDC that may be committed in one window
          Window,    \* length of the rolling window
          Cooldown   \* least time between two commitments

VARIABLES now,       \* clock
          held,      \* commitments: records [id, at]
          executed   \* ids whose transaction was sent

vars == <<now, held, executed>>

Ids(S) == {h.id : h \in S}

Init == now = 0 /\ held = {} /\ executed = {}

Commit(id) ==
    /\ id \notin Ids(held)
    /\ \A h \in held : now - h.at >= Cooldown
    /\ Amount * (Cardinality({h \in held : h.at >= now - Window}) + 1) <= Cap
    /\ held' = held \cup {[id |-> id, at |-> now]}
    /\ UNCHANGED <<now, executed>>

Execute(id) ==
    /\ id \in Ids(held)
    /\ executed' = executed \cup {id}
    /\ UNCHANGED <<now, held>>

Release(id) ==
    /\ id \in Ids(held) \ executed
    /\ held' = {h \in held : h.id # id}
    /\ UNCHANGED <<now, executed>>

Tick == now' = now + 1 /\ UNCHANGED <<held, executed>>

Next == \/ \E id \in RequestIds : Commit(id)
        \/ \E id \in Ids(held) : Execute(id) \/ Release(id)
        \/ Tick

Spec == Init /\ [][Next]_vars

=============================================================================
