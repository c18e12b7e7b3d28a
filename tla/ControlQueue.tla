---------------------------- MODULE ControlQueue ----------------------------
(***************************************************************************)
(* The control server of the AntSeed sidecar (antseed/control.js) and its   *)
(* mutation queue (antseed/queue.js), with the HTTP clients that call it:   *)
(* the wallet keeper (wallet_keeper._control_post) and the dashboard        *)
(* (shim._wallet_mutate).                                                  *)
(*                                                                         *)
(* The server is a Node event loop.  serialize(fn, onTimeout) appends a link*)
(* to a promise chain and arms a timer; whichever of the timer and the link's*)
(* gate comes first decides the request.  Gates are microtasks: a gate whose *)
(* predecessors have settled runs before the loop takes up anything else.   *)
(*                                                                         *)
(* Time is kept as countdowns: the time each request may still spend in its *)
(* present phase, and the patience of its client.                          *)
(*                                                                         *)
(* Simplifications: a request is named by its client and sent once; bodies  *)
(* and ids are valid (a malformed one is refused before the queue); a       *)
(* process killed on its timeout dies.                                     *)
(***************************************************************************)
EXTENDS Integers, Sequences, FiniteSets

CONSTANTS
    Requests,
    Verb,           \* what each request asks for
    OpTimeout,      \* DEPOSIT_TIMEOUT_MS or RECLAIM_TX_TIMEOUT_MS, by request
    WaitBudget,     \* QUEUE_WAIT_BUDGET_MS
    RefreshTimeout, \* STATUS_TIMEOUT_MS + DB_TIMEOUT_MS
    Transit,        \* longest time from writing a request to reading its body
    Slack,          \* CONTROL_SLACK_S
    MaxResets,      \* connections that may break, answers that may be lost
    MaxCrashes      \* restarts of the sidecar

Verbs == {"deposit", "reclaim/request-close", "reclaim/withdraw"}

ASSUME QueueAssumption ==
    /\ IsFiniteSet(Requests)
    /\ Verb \in [Requests -> Verbs]
    /\ OpTimeout \in [Requests -> Nat \ {0}]
    /\ WaitBudget \in Nat \ {0} /\ RefreshTimeout \in Nat \ {0}
    /\ Transit \in Nat \ {0} /\ Slack \in Nat /\ Transit < Slack
    /\ MaxResets \in Nat /\ MaxCrashes \in Nat

VARIABLES
    call,      \* the client's side of each request
    verdict,   \* what the client may record about it
    patience,  \* time left before the client gives up
    phase,     \* the server's side
    left,      \* time left in that phase
    order,     \* requests on the promise chain, in the order they joined it
    forked,    \* requests whose CLI or reclaim script was started
    onchain,   \* requests that broadcast a transaction
    resets, crashes

vars == <<call, verdict, patience, phase, left, order, forked, onchain,
          resets, crashes>>

Calls    == {"idle", "sent", "answered", "timedout", "broken"}
Verdicts == {"none", "ok", "refused", "inconclusive"}
Phases   == {"none", "waiting", "refused", "op", "refresh", "refreshFailed",
             "done", "lost"}
Running  == {"op", "refresh", "refreshFailed"}

Init ==
    /\ call = [q \in Requests |-> "idle"]
    /\ verdict = [q \in Requests |-> "none"]
    /\ patience = [q \in Requests |-> 0]
    /\ phase = [q \in Requests |-> "none"]
    /\ left = [q \in Requests |-> 0]
    /\ order = <<>> /\ forked = {} /\ onchain = {}
    /\ resets = MaxResets /\ crashes = MaxCrashes

(***************************************************************************)
(* Clients.                                                                *)
(***************************************************************************)
\* DEPOSIT_TIMEOUT_S, RECLAIM_TX_TIMEOUT_S
ClientTimeout(q) == WaitBudget + OpTimeout[q] + RefreshTimeout + Slack

\* The client stops waiting: answered, timed out or cut off.
Concludes(q, how, v) ==
    IF call[q] = "sent"
    THEN /\ call' = [call EXCEPT ![q] = how]
         /\ verdict' = [verdict EXCEPT ![q] = v]
         /\ patience' = [patience EXCEPT ![q] = 0]
    ELSE UNCHANGED <<call, verdict, patience>>

Send(q) ==
    /\ call[q] = "idle"
    /\ call' = [call EXCEPT ![q] = "sent"]
    /\ patience' = [patience EXCEPT ![q] = ClientTimeout(q)]
    /\ left' = [left EXCEPT ![q] = Transit]
    /\ UNCHANGED <<verdict, phase, order, forked, onchain, resets, crashes>>

\* The HTTP timeout: "attempted" is assumed.
GivesUp(q) ==
    /\ call[q] = "sent" /\ patience[q] = 0
    /\ Concludes(q, "timedout", "inconclusive")
    /\ UNCHANGED <<phase, left, order, forked, onchain, resets, crashes>>

\* A connection that resets; the server does not notice.
ConnectionBreaks(q) ==
    /\ call[q] = "sent"
    /\ resets > 0 /\ resets' = resets - 1
    /\ Concludes(q, "broken", "inconclusive")
    /\ UNCHANGED <<phase, left, order, forked, onchain, crashes>>

\* The server writes its answer, which may be lost on the way.
Reply(q, v) ==
    \/ Concludes(q, "answered", v) /\ UNCHANGED resets
    \/ /\ call[q] = "sent"
       /\ resets > 0 /\ resets' = resets - 1
       /\ UNCHANGED <<call, verdict, patience>>

(***************************************************************************)
(* The queue.                                                              *)
(***************************************************************************)
Before(p, q) == \E i, j \in DOMAIN order : i < j /\ order[i] = p /\ order[j] = q

\* Mutants of Settled: a link does not wait for its fn; a refused link wedges
\* the chain.
SettledOnceRunning(p) == phase[p] \in {"refused", "done"} \cup Running
SettledOnceServed(p)  == phase[p] = "done"

\* The link of p has settled: its gate returned, or its fn is over.
Settled(p) == phase[p] \in {"refused", "done"}

\* Mutant of Undecided: the gate does not look whether the timer was first.
NotYetRun(q) == phase[q] \in {"waiting", "refused"} /\ q \notin forked

\* Neither the timer nor the gate has decided q.
Undecided(q) == phase[q] = "waiting"

\* The gate of q is on the microtask queue.
AtGate(q) == Undecided(q) /\ \A p \in Requests : Before(p, q) => Settled(p)
LoopIdle  == \A q \in Requests : ~AtGate(q)

\* The body was read: serialize() appends the link and arms the timer.  What a
\* client that has gone away sent may still arrive.
Enqueue(q) ==
    /\ call[q] # "idle" /\ phase[q] = "none" /\ LoopIdle
    /\ phase' = [phase EXCEPT ![q] = "waiting"]
    /\ left' = [left EXCEPT ![q] = WaitBudget]
    /\ order' = Append(order, q)
    /\ UNCHANGED <<call, verdict, patience, forked, onchain, resets, crashes>>

\* gate(): the timer is cleared, fn starts the child process.
Gate(q) ==
    /\ AtGate(q)
    /\ phase' = [phase EXCEPT ![q] = "op"]
    /\ left' = [left EXCEPT ![q] = OpTimeout[q]]
    /\ forked' = forked \cup {q}
    /\ UNCHANGED <<call, verdict, patience, order, onchain, resets, crashes>>

\* Mutant of TimerDue: the wait is checked when the turn comes, not by a timer.
DueAtDequeue(q) ==
    /\ phase[q] = "waiting" /\ left[q] = 0
    /\ \A p \in Requests : Before(p, q) => Settled(p)

\* The wait budget of q has elapsed.
TimerDue(q) == phase[q] = "waiting" /\ left[q] = 0

\* The timer fires first: 429, "nothing was executed".
TimerFires(q) ==
    /\ TimerDue(q) /\ LoopIdle
    /\ phase' = [phase EXCEPT ![q] = "refused"]
    /\ Reply(q, "refused")
    /\ UNCHANGED <<left, order, forked, onchain, crashes>>

(***************************************************************************)
(* fn: the child process, then the status refresh, then the answer.        *)
(***************************************************************************)
\* The CLI broadcasts; one that outlived a crashed server still may.
Broadcasts(q) ==
    /\ q \in forked \ onchain /\ phase[q] \in {"op", "lost"}
    /\ onchain' = onchain \cup {q}
    /\ UNCHANGED <<call, verdict, patience, phase, left, order, forked, resets,
                   crashes>>

Answers(q, v) ==
    /\ phase' = [phase EXCEPT ![q] = "done"]
    /\ left' = [left EXCEPT ![q] = 0]
    /\ Reply(q, v)
    /\ UNCHANGED <<order, forked, onchain, crashes>>

Refreshes(q, next) ==
    /\ phase' = [phase EXCEPT ![q] = next]
    /\ left' = [left EXCEPT ![q] = RefreshTimeout]
    /\ UNCHANGED <<call, verdict, patience, order, forked, onchain, resets,
                   crashes>>

\* Exit code 0: a deposit, and a reclaim withdrawal, refresh the status first.
OpSucceeds(q) ==
    /\ phase[q] = "op" /\ LoopIdle
    /\ IF Verb[q] = "reclaim/request-close" THEN Answers(q, "ok")
                                            ELSE Refreshes(q, "refresh")

\* Mutant of PreRpc: every non-zero exit is called pre-RPC.
AnyExit(q) == Verb[q] = "deposit"

\* classifyCliFailure found a recognised failure shape from before the first
\* RPC call; reclaim phases are never classified.
PreRpc(q) == Verb[q] = "deposit" /\ q \notin onchain

\* 502 with attempted = false ...
OpRefuses(q) ==
    /\ phase[q] = "op" /\ LoopIdle /\ PreRpc(q)
    /\ Answers(q, "refused")

\* ... or true: the child failed, or was killed on its timeout (504).  A reclaim
\* withdrawal whose script still printed its envelope refreshes first.
OpFails(q) ==
    /\ phase[q] = "op" /\ LoopIdle
    /\ \/ Answers(q, "inconclusive")
       \/ Verb[q] = "reclaim/withdraw" /\ Refreshes(q, "refreshFailed")

\* Mutant of OpDue: execFile without its timeout.
NeverDue(q) == FALSE

\* execFile's timeout.
OpDue(q) == phase[q] = "op" /\ left[q] = 0

\* refreshStatus returned, whatever became of the write.
RefreshEnds(q) ==
    /\ LoopIdle
    /\ \/ phase[q] = "refresh" /\ Answers(q, "ok")
       \/ phase[q] = "refreshFailed" /\ Answers(q, "inconclusive")

\* The server dies: the chain is gone, requests in the socket with it.
Crash ==
    /\ crashes > 0 /\ crashes' = crashes - 1
    /\ phase' = [q \in Requests |->
                   IF call[q] # "idle" /\ phase[q] \notin {"refused", "done"}
                   THEN "lost" ELSE phase[q]]
    /\ call' = [q \in Requests |-> IF call[q] = "sent" THEN "broken" ELSE call[q]]
    /\ verdict' = [q \in Requests |->
                     IF call[q] = "sent" THEN "inconclusive" ELSE verdict[q]]
    /\ left' = [q \in Requests |-> 0] /\ patience' = [q \in Requests |-> 0]
    /\ order' = <<>>
    /\ UNCHANGED <<forked, onchain, resets>>

(***************************************************************************)
(* Time.  A deadline that has come is served before time goes on.          *)
(***************************************************************************)
Undelivered(q) == call[q] = "sent" /\ phase[q] = "none"
Urgent(q) ==
    \/ TimerDue(q) \/ OpDue(q)
    \/ left[q] = 0 /\ (Undelivered(q) \/ phase[q] \in {"refresh", "refreshFailed"})
    \/ call[q] = "sent" /\ patience[q] = 0
Active(q) == call[q] = "sent" \/ phase[q] \in {"waiting"} \cup Running

CountDown(n) == IF n > 0 THEN n - 1 ELSE 0

Tick ==
    /\ LoopIdle
    /\ \E q \in Requests : Active(q)
    /\ \A q \in Requests : ~Urgent(q)
    /\ left' = [q \in Requests |-> CountDown(left[q])]
    /\ patience' = [q \in Requests |-> CountDown(patience[q])]
    /\ UNCHANGED <<call, verdict, phase, order, forked, onchain, resets, crashes>>

ServerStep(q) == \/ Enqueue(q) \/ Gate(q) \/ TimerFires(q) \/ Broadcasts(q)
                 \/ OpSucceeds(q) \/ OpRefuses(q) \/ OpFails(q) \/ RefreshEnds(q)

Next ==
    \/ \E q \in Requests : \/ Send(q) \/ GivesUp(q) \/ ConnectionBreaks(q)
                           \/ ServerStep(q)
    \/ Crash
    \/ Tick

Spec == Init /\ [][Next]_vars

\* The event loop turns, timers fire, the clock runs; nothing else is promised:
\* a child ends because it is killed.
Fairness ==
    /\ WF_vars(Tick)
    /\ \A q \in Requests :
          /\ WF_vars(Gate(q)) /\ WF_vars(TimerFires(q)) /\ WF_vars(GivesUp(q))
          /\ WF_vars(Undelivered(q) /\ Enqueue(q))
          /\ WF_vars(OpDue(q) /\ OpFails(q)) /\ WF_vars(RefreshEnds(q))

FairSpec == Spec /\ Fairness

(***************************************************************************)
(* Properties.                                                             *)
(***************************************************************************)
\* Every variable has its type.
TypeOK ==
    /\ call \in [Requests -> Calls] /\ verdict \in [Requests -> Verdicts]
    /\ patience \in [Requests -> Nat] /\ phase \in [Requests -> Phases]
    /\ left \in [Requests -> Nat] /\ order \in Seq(Requests)
    /\ forked \subseteq Requests /\ onchain \subseteq Requests
    /\ resets \in Nat /\ crashes \in Nat

\* Wallet mutations are serial: at most one holds the CLI ("two concurrent
\* deposits would race the buyer's sqlite store and its nonce", queue.js), and
\* none overtakes one that is still waiting.
Serialized ==
    /\ \A p, q \in Requests : phase[p] \in Running /\ phase[q] \in Running => p = q
    /\ \A p, q \in Requests : Before(p, q) /\ phase[q] \in Running
                                 => phase[p] # "waiting"

\* "The refusal is a proof of non-execution, not a guess" (queue.js): what a
\* client was told was not attempted is not on chain, then or later.
RefusalIsProof == \A q \in Requests : verdict[q] = "refused" => q \notin onchain

\* No client gives up on a request the server is still holding or executing: the
\* published budgets bound the answer (control.js BUDGETS_MS, wallet_keeper.py
\* DEPOSIT_TIMEOUT_S), because the wait timer is armed at enqueue.
NeverOutrun ==
    \A q \in Requests : call[q] = "timedout"
                            => phase[q] \notin {"waiting"} \cup Running

\* A request is refused only because another holds the queue: neither a refused
\* nor a failed mutation wedges those behind it.
RefusedOnlyWhenBusy ==
    [][\A q \in Requests :
         phase[q] = "waiting" /\ phase'[q] = "refused"
           => \E p \in Requests : phase[p] \in Running]_vars

\* Every request the server took up comes to an end, a child that hangs included.
Concluded ==
    \A q \in Requests : phase[q] \in {"waiting"} \cup Running
                            ~> phase[q] \in {"refused", "done", "lost"}
=============================================================================
