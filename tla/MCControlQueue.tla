--------------------------- MODULE MCControlQueue ---------------------------
(***************************************************************************)
(* Model values for ControlQueue.  One tick is about a minute: the wait     *)
(* budget, a deposit and a status refresh are one tick each, a reclaim      *)
(* phase outlasts the wait budget.                                         *)
(***************************************************************************)
EXTENDS ControlQueue

CONSTANTS topup, sweep, second

Mixed == {topup, sweep, second}
MixedVerb == [q \in Mixed |->
                IF q = topup THEN "deposit"
                ELSE IF q = sweep THEN "reclaim/withdraw"
                                  ELSE "reclaim/request-close"]
Durations == [q \in Mixed |-> IF q = topup THEN 1 ELSE 3]
=============================================================================
