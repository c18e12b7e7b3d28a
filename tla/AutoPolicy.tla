----------------------------- MODULE AutoPolicy -----------------------------
(***************************************************************************)
(* Choosing a tenant's policy for one request: a paid decision service is   *)
(* asked which of the authorized policies fits the task, and what it says   *)
(* is a proposal.  While it thinks, providers fail and recover, so that a   *)
(* policy that had a candidate when it was offered may have none when it is *)
(* chosen.  Every failure falls back to the policy "general".               *)
(*                                                                         *)
(* A tick is some fraction of the decision's deadline.                     *)
(***************************************************************************)
EXTENDS Integers, FiniteSets

CONSTANTS Policies, General,
          MaxRetries,   \* of JevDecisionProvider
          Deadline      \* decision_timeout_ms

VARIABLES mode,       \* off, shadow, active; sampled is outside or active
          legal,      \* policies that have a candidate now
          shown,      \* legal_choice_ids
          phase,      \* start, asking, sending, pausing, proposed, then chosen or refused
          attempts,
          unmetered,  \* had_unmetered_attempt
          selected,
          cost,       \* trace.cost_usd
          now,        \* since the decision was asked for
          billed,     \* ghost: what the service charged
          advice      \* ghost: what it said, and whether surely enough

vars == <<mode, legal, shown, phase, attempts, unmetered, selected, cost, now, billed, advice>>

Unknown == -1
Prices == {0, 1}
NoAdvice == [choice |-> General, sure |-> FALSE]
Over == {"chosen", "refused"}

Init == /\ mode \in {"off", "shadow", "outside", "active"}
        /\ legal \in SUBSET Policies /\ shown = {} /\ phase = "start"
        /\ attempts = 0 /\ unmetered = FALSE /\ selected = General
        /\ cost = 0 /\ now = 0 /\ billed = 0 /\ advice = NoAdvice

(* Breakers, limits and offers change under a request that waits.          *)
Shift == /\ phase \notin Over
         /\ legal' \in SUBSET Policies
         /\ UNCHANGED <<mode, shown, phase, attempts, unmetered, selected, cost, now, billed, advice>>

(* From the time the service is asked until it answers the cost is not     *)
(* known: a timeout or a cancellation may be billed.                       *)
Start ==
    /\ phase = "start"
    /\ shown' = legal
    /\ CASE General \notin legal -> phase' = "refused" /\ UNCHANGED cost
         [] General \in legal /\ (mode \in {"off", "outside"} \/ Cardinality(legal) = 1) ->
              phase' = "proposed" /\ UNCHANGED cost
         [] OTHER -> phase' = "asking" /\ cost' = Unknown
    /\ UNCHANGED <<mode, legal, attempts, unmetered, selected, now, billed, advice>>

(* What is refused before it is sent costs nothing: no credentials, too     *)
(* long a task, no time left.                                              *)
Unsent ==
    /\ phase = "asking" /\ phase' = "proposed" /\ cost' = 0
    /\ UNCHANGED <<mode, legal, shown, attempts, unmetered, selected, now, billed, advice>>

Send ==
    /\ phase \in {"asking", "pausing"} /\ now < Deadline
    /\ phase' = "sending" /\ attempts' = attempts + 1
    /\ UNCHANGED <<mode, legal, shown, unmetered, selected, cost, now, billed, advice>>

(* An attempt that broke may have been charged: it is tried again, or the   *)
(* cost stays unknown.                                                     *)
AttemptFails ==
    /\ phase = "sending"
    /\ \E price \in Prices : billed' = billed + price
    /\ \/ /\ attempts <= MaxRetries
          /\ unmetered' = TRUE /\ phase' = "pausing"
       \/ /\ phase' = "proposed"
          /\ UNCHANGED unmetered
    /\ UNCHANGED <<mode, legal, shown, attempts, selected, cost, now, advice>>

(* The price a response states is the whole cost only if no attempt before  *)
(* it went unmetered.                                                      *)
LastPrice(stated) == stated
CostOf(stated) == IF unmetered THEN Unknown ELSE stated

(* A valid answer is followed only in the active mode, when it is sure.     *)
Answered ==
    /\ phase = "sending" /\ phase' = "proposed"
    /\ \E price \in Prices, told \in BOOLEAN :
           /\ billed' = billed + price
           /\ cost' = CostOf(IF told THEN price ELSE Unknown)
    /\ \/ \E choice \in shown, sure \in BOOLEAN :
              /\ advice' = [choice |-> choice, sure |-> sure]
              /\ selected' = IF mode = "active" /\ sure THEN choice ELSE General
       \/ UNCHANGED <<selected, advice>>           \* an invalid answer
    /\ UNCHANGED <<mode, legal, shown, attempts, unmetered, now>>

TimedOut ==
    /\ phase \in {"sending", "pausing"} /\ now >= Deadline
    /\ phase' = "proposed"
    /\ \E price \in Prices : billed' = billed + (IF phase = "sending" THEN price ELSE 0)
    /\ UNCHANGED <<mode, legal, shown, attempts, unmetered, selected, cost, now, advice>>

(* The proposal is ranked again, and general when it has no candidate left. *)
Choose ==
    /\ phase = "proposed"
    /\ CASE selected \in legal -> phase' = "chosen" /\ UNCHANGED selected
         [] selected \notin legal /\ General \in legal ->
              phase' = "chosen" /\ selected' = General
         [] OTHER -> phase' = "refused" /\ selected' = General
    /\ UNCHANGED <<mode, legal, shown, attempts, unmetered, cost, now, billed, advice>>

Tick ==
    /\ phase \in {"asking", "sending", "pausing"} /\ now < Deadline
    /\ now' = now + 1
    /\ UNCHANGED <<mode, legal, shown, phase, attempts, unmetered, selected, cost, billed, advice>>

Next == \/ Shift \/ Start \/ Unsent \/ Send \/ AttemptFails \/ Answered
        \/ TimedOut \/ Choose \/ Tick

Spec == Init /\ [][Next]_vars

-----------------------------------------------------------------------------
(* The cost of a decision is what was charged for all its attempts, or is   *)
(* said to be unknown: no retry, timeout or unusable answer makes it free.  *)
CostTold == (phase \in Over /\ cost # Unknown) => cost = billed

(* The policy that is run has a candidate at that moment; one other than    *)
(* general was moreover offered to the service, which was sure of it, and   *)
(* the roll-out lets it decide.                                            *)
ChosenRuns ==
    phase = "chosen" =>
        /\ selected \in legal
        /\ selected # General =>
              mode = "active" /\ selected \in shown /\ advice = [choice |-> selected, sure |-> TRUE]

PolicyHolds == CostTold /\ ChosenRuns
=============================================================================
