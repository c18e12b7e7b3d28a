------------------------------- MODULE Ingress -------------------------------
(***************************************************************************)
(* A consumer call in the ingress (auth_proxy.py, proxy), from its admission *)
(* checks to the end of its answer: the reservation on its key's budget,    *)
(* the permit of the bounded upstream section with its small queue, the     *)
(* forwarded request with a buffered answer or a stream read by a pump      *)
(* task, and _finish, which settles and gives the permit back.              *)
(*                                                                         *)
(* Each replica is one process with one event loop: what a handler does     *)
(* between two awaits is one step.  Each call belongs to one replica; all   *)
(* share the store of SubjectBudget.  Its process may crash.  A cut call is *)
(* one whose pump was cancelled by its drain timer while it was closing the *)
(* upstream stream: the rest of its finally block never runs.               *)
(*                                                                         *)
(* Simplifications: a stream is what the pump has learnt from its tail so   *)
(* far; the queue to the client is left out (a reader that stalls leaves);  *)
(* the semaphore wakes its waiters in any order.  What the checks before    *)
(* the reservation decide is a choice: KeyAdmin, ControlPlane and           *)
(* RateBucket model it.                                                    *)
(***************************************************************************)
EXTENDS BudgetState, Functions

CONSTANTS Replicas,
          Home,       \* the replica that serves each call
          Budgeted,   \* the calls whose key has a monthly budget
          Streamed,   \* the calls that the upstream may answer with a stream
          Permits,    \* MAX_INFLIGHT_REQUESTS
          MaxPending, \* MAX_PENDING_REQUESTS
          Unknown     \* a cost the upstream did not report

ASSUME IngressAssumption == /\ Home \in [Calls -> Replicas] /\ Budgeted \subseteq Calls /\ Streamed \subseteq Calls
                            /\ Permits \in Nat \ {0} /\ MaxPending \in Nat
                            /\ Unknown \notin Nat

VARIABLES pc,        \* where each call is
          gone,      \* its client left (client_gone_at)
          armed,     \* its drain timer is set
          reported,  \* the cost its stream has carried, or Unknown
          free,      \* permits of each replica's semaphore
          active,    \* _active_requests
          pending,   \* _pending_requests
          resend     \* ghost: a reservation that committed unacknowledged

budget == <<now, spent, row, expires, job, cost, tries, over, faults>>
answer == <<gone, armed, reported>>
permits == <<free, active, pending>>
vars == <<budget, pc, answer, permits, resend>>

Store == INSTANCE SubjectBudget

\* A woken call was handed a permit, a lapsed one was cancelled as it waited:
\* neither has run since.
Queued == {"waiting", "woken", "lapsed"}
Stages == {"new", "admitted", "forwarding", "streaming",
           "drained", "broken", "over", "cut", "dead"} \cup Queued
Holding == {"forwarding", "streaming", "drained", "broken", "cut"}

At(p, stages) == {c \in Calls : Home[c] = p /\ pc[c] \in stages}

Init == /\ Store!Init
        /\ pc = [c \in Calls |-> "new"]
        /\ gone = [c \in Calls |-> FALSE] /\ armed = [c \in Calls |-> FALSE]
        /\ reported = [c \in Calls |-> Unknown]
        /\ free = [p \in Replicas |-> Permits]
        /\ active = [p \in Replicas |-> 0] /\ pending = [p \in Replicas |-> 0]
        /\ resend = {}

GoTo(c, stage) == pc' = [pc EXCEPT ![c] = stage]

\* _settle_reservation: once, and only for a call with a reservation.
SettleReservation(c, amount) ==
    IF c \in Budgeted THEN Store!Submit(c, amount) ELSE UNCHANGED budget

(***************************************************************************)
(* Admission; the budget reservation is its last step before the permit    *)
(***************************************************************************)
\* A check that comes before the reservation ends the call: its path, key,
\* published route, rate or consumer budget, one of their stores that is down,
\* or a metadata probe, which is answered here.
TurnedAway(c) ==
    /\ pc[c] = "new" /\ GoTo(c, "over")
    /\ UNCHANGED <<budget, answer, permits, resend>>

Reserve(c) ==
    /\ pc[c] = "new"
    /\ IF c \in Budgeted
       THEN /\ Store!Reserve(c)
            /\ \/ /\ GoTo(c, IF Store!Admits THEN "admitted" ELSE "over")
                  /\ UNCHANGED <<faults, resend>>
               \/ /\ faults > 0 /\ faults' = faults - 1    \* committed, answered 503
                  /\ GoTo(c, "over") /\ resend' = resend \cup {c}
       ELSE GoTo(c, "admitted") /\ UNCHANGED <<budget, resend>>
    /\ UNCHANGED <<answer, permits>>

(***************************************************************************)
(* _capacity_acquire and _capacity_release                                 *)
(***************************************************************************)
\* asyncio.Semaphore.locked: no permit, or somebody is in line for one, woken or
\* not; who was cancelled no longer counts.
Locked(p) == free[p] = 0 \/ At(p, {"waiting", "woken"}) # {}

QueueFull(p) == pending[p] >= MaxPending

AcquireFree(c) ==
    LET p == Home[c] IN
    /\ pc[c] = "admitted" /\ ~Locked(p) /\ GoTo(c, "forwarding")
    /\ free' = [free EXCEPT ![p] = @ - 1] /\ active' = [active EXCEPT ![p] = @ + 1]
    /\ UNCHANGED <<budget, answer, pending, resend>>

Queue(c) ==
    LET p == Home[c] IN
    /\ pc[c] = "admitted" /\ Locked(p) /\ ~QueueFull(p) /\ GoTo(c, "waiting")
    /\ pending' = [pending EXCEPT ![p] = @ + 1]
    /\ UNCHANGED <<budget, answer, free, active, resend>>

\* Mutant of Shed: a call that never ran has nothing to settle.
ShedUnsettled(c) ==
    /\ pc[c] = "admitted" /\ Locked(Home[c]) /\ QueueFull(Home[c]) /\ GoTo(c, "over")
    /\ UNCHANGED <<budget, answer, permits, resend>>

Shed(c) ==
    /\ pc[c] = "admitted" /\ Locked(Home[c]) /\ QueueFull(Home[c]) /\ GoTo(c, "over")
    /\ SettleReservation(c, 0) /\ UNCHANGED <<answer, permits, resend>>

\* Call c goes on, and its replica's semaphore has f permits: n of them go to
\* waiters, as far as there are any, which have yet to run.
HandOut(c, stage, f, n) ==
    LET p == Home[c]
        waiting == At(p, {"waiting"})
    IN \E S \in SUBSET waiting :
         /\ Cardinality(S) <= n /\ (Cardinality(S) < n => S = waiting)
         /\ pc' = [d \in Calls |-> IF d = c THEN stage ELSE IF d \in S THEN "woken" ELSE pc[d]]
         /\ free' = [free EXCEPT ![p] = f - Cardinality(S)]

\* release() wakes one waiter.
Release(c) == HandOut(c, "over", free[Home[c]] + 1, 1)

\* Who leaves the line, with its permit or cancelled, wakes as many as there are
\* permits: those who came while it had yet to run.
LeaveLine(c, stage, f) ==
    /\ HandOut(c, stage, f, f)
    /\ pending' = [pending EXCEPT ![Home[c]] = @ - 1]

Resume(c) ==
    /\ pc[c] = "woken" /\ LeaveLine(c, "forwarding", free[Home[c]])
    /\ active' = [active EXCEPT ![Home[c]] = @ + 1]
    /\ UNCHANGED <<budget, answer, resend>>

\* CAPACITY_QUEUE_TIMEOUT_S passes, or the handler is cancelled.  The future of a
\* waiter is cancelled at once and its handler runs later, as that of a call that
\* was just woken, which puts its permit back.
Lapse(c) ==
    /\ pc[c] = "waiting" /\ GoTo(c, "lapsed")
    /\ UNCHANGED <<budget, answer, permits, resend>>

GiveUp(c) ==
    /\ \/ pc[c] = "lapsed" /\ LeaveLine(c, "over", free[Home[c]])
       \/ pc[c] = "woken" /\ LeaveLine(c, "over", free[Home[c]] + 1)
    /\ SettleReservation(c, 0)
    /\ UNCHANGED <<answer, active, resend>>

(***************************************************************************)
(* _finish: a call without a known cost that was not refused books its      *)
(* reservation, and the permit is released whatever happened before.        *)
(***************************************************************************)
\* Mutant of Charge: what the call cost comes on top of what it reserved.
ChargeOnTop(k, bad) == IF k # Unknown THEN k + Amount ELSE IF bad THEN 0 ELSE Amount

Charge(k, bad) == IF k # Unknown THEN k ELSE IF bad THEN 0 ELSE Amount

Finish(c, k, bad) ==
    /\ SettleReservation(c, Charge(k, bad))
    /\ Release(c)
    /\ active' = [active EXCEPT ![Home[c]] = @ - 1] /\ UNCHANGED <<pending, resend>>

(***************************************************************************)
(* The forwarded request                                                   *)
(***************************************************************************)
\* The upstream cannot be reached, or answers in one piece.
Buffered(c) ==
    /\ pc[c] = "forwarding"
    /\ \E k \in Owed \cup {Unknown}, bad \in BOOLEAN :
         Finish(c, k, bad)
    /\ UNCHANGED answer

StartStream(c) ==
    /\ pc[c] = "forwarding" /\ c \in Streamed /\ GoTo(c, "streaming")
    /\ UNCHANGED <<budget, answer, permits, resend>>

\* The pump reads a chunk that carries the cost.
UsageChunk(c) ==
    /\ pc[c] = "streaming" /\ reported[c] = Unknown
    /\ \E k \in Owed : reported' = [reported EXCEPT ![c] = k]
    /\ UNCHANGED <<budget, pc, gone, armed, permits, resend>>

\* The loop ends: the stream was read to its end, or broke off, or the client
\* is gone and STREAM_DRAIN_MAX_BYTES is reached.  The pump goes on to close it.
StreamEnds(c) ==
    /\ pc[c] = "streaming"
    /\ GoTo(c, "drained") \/ GoTo(c, "broken")
    /\ UNCHANGED <<budget, answer, permits, resend>>

\* _client_left: the client disconnects or stalls.  From now on the pump only
\* drains, and is cancelled after STREAM_DRAIN_TIMEOUT_S.
ClientLeft(c) ==
    /\ pc[c] \in {"streaming", "drained", "broken"} /\ ~gone[c]
    /\ gone' = [gone EXCEPT ![c] = TRUE] /\ armed' = [armed EXCEPT ![c] = TRUE]
    /\ UNCHANGED <<budget, pc, reported, permits, resend>>

\* pump.cancel: caught in the loop, and not while the stream is being closed.
DrainTimeout(c) ==
    /\ armed[c] /\ armed' = [armed EXCEPT ![c] = FALSE]
    /\ GoTo(c, IF pc[c] = "streaming" THEN "broken" ELSE "cut")
    /\ UNCHANGED <<budget, gone, reported, permits, resend>>

\* The locals of a handler that is over; its timer still fires, to no effect.
Forget(S) ==
    /\ gone' = [c \in Calls |-> c \notin S /\ gone[c]]
    /\ armed' = [c \in Calls |-> c \notin S /\ armed[c]]
    /\ reported' = [c \in Calls |-> IF c \in S THEN Unknown ELSE reported[c]]

\* _account: a stream whose client left before its end is never booked as free.
Accounted(c) ==
    IF gone[c] /\ pc[c] = "broken" /\ reported[c] = Unknown
    THEN Amount ELSE reported[c]

Closed(c) ==
    /\ pc[c] \in {"drained", "broken"}
    /\ Finish(c, Accounted(c), FALSE) /\ Forget({c})

(***************************************************************************)
(* Store, clock and crashes                                                *)
(***************************************************************************)
SettleStep(c) == Store!Settle(c) /\ UNCHANGED <<pc, answer, permits, resend>>

SettleFails(c) == Store!SettleFails(c) /\ UNCHANGED <<pc, answer, permits, resend>>

Background == (Store!Tick \/ Store!Prune) /\ UNCHANGED <<pc, answer, permits, resend>>

\* A replica dies with its calls, permits and settles, and starts again.
Crash(p) ==
    LET lost == At(p, Stages \ {"new", "over"}) IN
    /\ faults > 0 /\ faults' = faults - 1
    /\ Store!LoseJobs({c \in Calls : Home[c] = p})
    /\ pc' = [c \in Calls |-> IF c \in lost THEN "dead" ELSE pc[c]]
    /\ Forget(lost)
    /\ free' = [free EXCEPT ![p] = Permits]
    /\ active' = [active EXCEPT ![p] = 0] /\ pending' = [pending EXCEPT ![p] = 0]
    /\ UNCHANGED <<now, spent, row, expires, cost, tries, over, resend>>

Step(c) == \/ TurnedAway(c) \/ Reserve(c) \/ AcquireFree(c) \/ Queue(c) \/ Shed(c)
           \/ Resume(c) \/ Lapse(c) \/ GiveUp(c) \/ Buffered(c) \/ StartStream(c) \/ UsageChunk(c)
           \/ StreamEnds(c) \/ ClientLeft(c) \/ DrainTimeout(c) \/ Closed(c)
           \/ SettleStep(c) \/ SettleFails(c)

Next == Background \/ (\E c \in Calls : Step(c)) \/ \E p \in Replicas : Crash(p)

Spec == Init /\ [][Next]_vars

(***************************************************************************)
(* Properties                                                              *)
(***************************************************************************)
TypeOK == /\ Store!TypeOK
          /\ pc \in [Calls -> Stages]
          /\ gone \in [Calls -> BOOLEAN] /\ armed \in [Calls -> BOOLEAN]
          /\ reported \in [Calls -> Owed \cup {Unknown}]
          /\ free \in [Replicas -> 0..Permits] /\ active \in [Replicas -> 0..Permits]
          /\ pending \in [Replicas -> 0..MaxPending]
          /\ resend \subseteq Budgeted

(* The ingress uses the store only as its service allows: the specification *)
(* of the store, where TLC tries first whether a step concerns it at all.   *)
StoreService == Store!Init /\ [][UNCHANGED budget \/ Store!Next]_budget

(* The semaphore and the two counters that health, metrics and autoscaling  *)
(* read agree with where the calls really are, after every timeout, every   *)
(* permit handed to a waiter that gives up, every disconnect and every      *)
(* crash.  Nobody waits beside a free permit but behind a call that was     *)
(* woken before and has yet to run, which will pass it on                   *)
(* (_capacity_acquire, _capacity_release).                                 *)
PermitsAgree == \A p \in Replicas :
    /\ active[p] = Cardinality(At(p, Holding))
    /\ pending[p] = Cardinality(At(p, Queued))
    /\ free[p] + active[p] + Cardinality(At(p, {"woken"})) = Permits
    /\ free[p] > 0 /\ At(p, {"waiting"}) # {} => At(p, {"woken"}) # {}

(* "From here on every exit path must settle it": a call that is over has   *)
(* no permit, and its reservation is settled or will be, unless the process *)
(* or the store failed, or its pump was cut.                                *)
ExitsSettleUnlessCut == \A c \in Calls :
    /\ pc[c] = "over" /\ row[c] # "absent" => job[c] # "none" \/ c \in resend
    /\ job[c] = "none" /\ row[c] \in {"live", "swept"} =>
         pc[c] \in (Stages \ {"new", "over"}) \/ c \in resend

(* A call of the ingress leaves neither its permit nor its reservation       *)
(* behind, however it ends (proxy, _finish, _capacity_release).             *)
IngressHolds == PermitsAgree /\ ExitsSettleUnlessCut

(* What the subject has spent is the cost of each settled call, once each,  *)
(* whatever settles were retried after a commit nobody heard of, came after *)
(* the sweep, or were given up (settle_subject_budget, "idempotent").       *)
BookedOnce == spent = SumFunctionOnSet(cost, {c \in Calls : row[c] = "consumed"})
=============================================================================
