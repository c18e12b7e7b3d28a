------------------------ MODULE ControlQueue_proofs ------------------------
(***************************************************************************)
(* The mutation queue of the sidecar: type correctness, serial execution,   *)
(* refusals as proofs of non-execution, and client budgets that exceed the  *)
(* server's, for every number of requests and every choice of durations.    *)
(***************************************************************************)
EXTENDS ControlQueue, FoldTheorems

USE DEF Calls, Verdicts, Phases, Running

\* Requests the server has accepted and not let go of.
Live(q) == phase[q] \in {"waiting"} \cup Running

\* The chain names each request once, every live request is on it, and no
\* request joins before it was delivered; a restart clears it.
ChainInv ==
    /\ \A i, j \in DOMAIN order : order[i] = order[j] => i = j
    /\ \A i \in DOMAIN order : phase[order[i]] \notin {"none", "lost"}
    /\ \A q \in Requests : Live(q) => \E i \in DOMAIN order : order[i] = q

\* Whatever precedes a running request on the chain has settled.
TurnInv == \A p, q \in Requests :
             Before(p, q) /\ phase[q] \in Running => Settled(p)

\* Nothing runs before its gate; what was refused is not on chain and can no
\* longer get there.
RefusalInv ==
    /\ onchain \subseteq forked
    /\ \A q \in Requests : phase[q] \in {"none", "waiting", "refused"} => q \notin forked
    /\ \A q \in Requests : verdict[q] = "refused"
                             => phase[q] \in {"refused", "done"} /\ q \notin onchain

\* What the server may still need, in each phase of a request.
Needs(q) ==
    CASE phase[q] = "none" -> left[q] + WaitBudget + OpTimeout[q] + RefreshTimeout
                                + (Slack - Transit)
      [] phase[q] = "waiting" -> left[q] + OpTimeout[q] + RefreshTimeout + 1
      [] phase[q] = "op" -> left[q] + RefreshTimeout + 1
      [] phase[q] \in {"refresh", "refreshFailed"} -> left[q] + 1
      [] OTHER -> 0

\* A waiting client has more patience than the server may still need.
PatienceInv ==
    /\ \A q \in Requests : call[q] = "sent" => patience[q] >= Needs(q)
    /\ \A q \in Requests : call[q] = "timedout"
                             => phase[q] \in {"refused", "done", "lost"}
    /\ \A q \in Requests : call[q] = "idle" => phase[q] = "none"

QueueInv == ChainInv /\ TurnInv /\ RefusalInv /\ PatienceInv

(***************************************************************************)
(* Types.                                                                  *)
(***************************************************************************)
\* The control server starts well typed.
THEOREM InitType == Init => TypeOK
  BY QueueAssumption DEF Init, TypeOK

\* The three timeouts of a client add up to a natural number.
LEMMA TimeoutType == ASSUME NEW q \in Requests PROVE ClientTimeout(q) \in Nat
  BY QueueAssumption DEF ClientTimeout

\* Concluding a call keeps the client's side typed.
LEMMA ConcludesType ==
    ASSUME TypeOK, NEW q \in Requests, NEW v \in Verdicts, NEW how \in Calls,
           Concludes(q, how, v)
    PROVE  /\ call' \in [Requests -> Calls] /\ verdict' \in [Requests -> Verdicts]
           /\ patience' \in [Requests -> Nat]
  <1>1. CASE call[q] = "sent"
    <2>1. /\ call' = [call EXCEPT ![q] = how] /\ verdict' = [verdict EXCEPT ![q] = v]
          /\ patience' = [patience EXCEPT ![q] = 0]
      BY <1>1 DEF Concludes
    <2> QED
      BY <2>1 DEF TypeOK
  <1>2. CASE call[q] # "sent"
    BY <1>2 DEF TypeOK, Concludes
  <1> QED
    BY <1>1, <1>2

\* So does an answer, delivered or lost.
LEMMA ReplyType ==
    ASSUME TypeOK, NEW q \in Requests, NEW v \in Verdicts, Reply(q, v)
    PROVE  /\ call' \in [Requests -> Calls] /\ verdict' \in [Requests -> Verdicts]
           /\ patience' \in [Requests -> Nat] /\ resets' \in Nat
  <1>1. CASE Concludes(q, "answered", v) /\ UNCHANGED resets
    BY <1>1, ConcludesType DEF TypeOK
  <1>2. CASE ~(Concludes(q, "answered", v) /\ UNCHANGED resets)
    BY <1>2 DEF Reply, TypeOK
  <1> QED
    BY <1>1, <1>2

\* Every step of clients, queue and children keeps the types.
THEOREM NextType == TypeOK /\ [Next]_vars => TypeOK'
  <1> SUFFICES ASSUME TypeOK, [Next]_vars PROVE TypeOK'
    OBVIOUS
  <1>1. ASSUME NEW q \in Requests, Send(q) PROVE TypeOK'
    BY <1>1, TimeoutType, QueueAssumption DEF TypeOK, Send
  <1>2. ASSUME NEW q \in Requests, GivesUp(q) PROVE TypeOK'
    BY <1>2, ConcludesType DEF TypeOK, GivesUp
  <1>3. ASSUME NEW q \in Requests, ConnectionBreaks(q) PROVE TypeOK'
    BY <1>3, ConcludesType DEF TypeOK, ConnectionBreaks
  <1>4. ASSUME NEW q \in Requests, Enqueue(q) PROVE TypeOK'
    BY <1>4, QueueAssumption DEF TypeOK, Enqueue
  <1>5. ASSUME NEW q \in Requests, Gate(q) PROVE TypeOK'
    BY <1>5, QueueAssumption DEF TypeOK, Gate
  <1>6. ASSUME NEW q \in Requests, TimerFires(q) PROVE TypeOK'
    BY <1>6, ReplyType DEF TypeOK, TimerFires
  <1>7. ASSUME NEW q \in Requests, Broadcasts(q) PROVE TypeOK'
    BY <1>7 DEF TypeOK, Broadcasts
  <1>a. ASSUME NEW q \in Requests, NEW v \in Verdicts, Answers(q, v) PROVE TypeOK'
    BY <1>a, ReplyType DEF TypeOK, Answers
  <1>r. ASSUME NEW q \in Requests, NEW n \in Phases, Refreshes(q, n) PROVE TypeOK'
    BY <1>r, QueueAssumption DEF TypeOK, Refreshes
  <1>8. ASSUME NEW q \in Requests, OpSucceeds(q) PROVE TypeOK'
    BY <1>8, <1>a, <1>r DEF OpSucceeds
  <1>9. ASSUME NEW q \in Requests, OpRefuses(q) PROVE TypeOK'
    BY <1>9, <1>a DEF OpRefuses
  <1>10. ASSUME NEW q \in Requests, OpFails(q) PROVE TypeOK'
    BY <1>10, <1>a, <1>r DEF OpFails
  <1>11. ASSUME NEW q \in Requests, RefreshEnds(q) PROVE TypeOK'
    BY <1>11, <1>a DEF RefreshEnds
  <1>12. CASE Crash
    BY <1>12 DEF TypeOK, Crash
  <1>13. CASE Tick
    BY <1>13 DEF TypeOK, Tick, CountDown
  <1>14. CASE UNCHANGED vars
    BY <1>14 DEF TypeOK, vars
  <1> QED
    BY <1>1, <1>2, <1>3, <1>4, <1>5, <1>6, <1>7, <1>8, <1>9, <1>10, <1>11,
       <1>12, <1>13, <1>14
    DEF Next, ServerStep

\* Every variable keeps its type in every reachable state of the control server.
THEOREM QueueTypeCorrect == Spec => []TypeOK
  BY InitType, NextType, PTL DEF Spec

(***************************************************************************)
(* The chain.                                                              *)
(***************************************************************************)
\* q goes to phase x, and the chain stays as it is.
Moves(q, x) == phase' = [phase EXCEPT ![q] = x] /\ order' = order

\* What each handler of the server does to phase and chain.
LEMMA HandlerMoves ==
    ASSUME TypeOK, NEW q \in Requests
    PROVE  /\ Gate(q) => Moves(q, "op")
           /\ TimerFires(q) => Moves(q, "refused")
           /\ \A v : Answers(q, v) => Moves(q, "done")
           /\ \A n : Refreshes(q, n) => Moves(q, n)
  BY DEF Gate, TimerFires, Answers, Refreshes, Moves

\* A move keeps the chain complete.
LEMMA ChainMove ==
    ASSUME TypeOK, ChainInv, NEW q \in Requests, NEW x \in Phases \ {"none", "lost"},
           Moves(q, x), x \in {"waiting"} \cup Running => Live(q)
    PROVE  ChainInv'
  <1>1. /\ order' = order /\ phase'[q] = x
        /\ \A r \in Requests : r # q => phase'[r] = phase[r]
    BY DEF TypeOK, Moves
  <1>2. \A i \in DOMAIN order : order[i] \in Requests
    BY DEF TypeOK
  <1>3. \A i \in DOMAIN order' : phase'[order'[i]] \notin {"none", "lost"}
    BY <1>1, <1>2 DEF ChainInv
  <1>4. \A r \in Requests : Live(r)' => Live(r)
    BY <1>1 DEF Live
  <1> QED
    BY <1>1, <1>3, <1>4 DEF ChainInv

\* A move keeps the turns: fn starts only at its gate and ends settled.
LEMMA TurnMove ==
    ASSUME TypeOK, TurnInv, NEW q \in Requests, NEW x \in Phases,
           Moves(q, x), x \in Running => phase[q] \in Running \/ AtGate(q),
           Settled(q) => x \in {"refused", "done"}
    PROVE  TurnInv'
  <1>1. /\ phase'[q] = x
        /\ \A r \in Requests : r # q => phase'[r] = phase[r]
    BY DEF TypeOK, Moves
  <1>2. \A p, r : Before(p, r)' <=> Before(p, r)
    BY DEF Moves, Before
  <1>3. \A r \in Requests : Settled(r) => Settled(r)'
    BY <1>1 DEF Settled
  <1>4. \A p, r \in Requests : Before(p, r) /\ phase'[r] \in Running => Settled(p)
    BY <1>1 DEF TurnInv, AtGate
  <1> QED
    BY <1>2, <1>3, <1>4 DEF TurnInv

\* A new link goes to the end of the chain.
LEMMA EnqueueChain ==
    ASSUME TypeOK, ChainInv, TurnInv, NEW q \in Requests, Enqueue(q)
    PROVE  ChainInv' /\ TurnInv'
  <1> DEFINE n == Len(order)
  <1>1. /\ n \in Nat /\ DOMAIN order = 1 .. n /\ DOMAIN order' = 1 .. n + 1
        /\ order'[n + 1] = q /\ \A i \in 1 .. n : order'[i] = order[i]
    BY DEF TypeOK, Enqueue
  <1>2. /\ phase'[q] = "waiting" /\ phase[q] = "none"
        /\ \A r \in Requests : r # q => phase'[r] = phase[r]
    BY DEF TypeOK, Enqueue
  <1>3. \A i \in 1 .. n : order[i] \in Requests /\ order[i] # q
    <2>1. order \in Seq(Requests)
      BY DEF TypeOK
    <2>2. \A i \in 1 .. n : order[i] \in Requests
      BY <2>1, <1>1
    <2>3. \A i \in 1 .. n : phase[order[i]] \notin {"none", "lost"}
      BY <1>1 DEF ChainInv
    <2> QED
      BY <2>2, <2>3, <1>2
  <1>4. \A i, j \in 1 .. n + 1 : order'[i] = order'[j] => i = j
    <2> TAKE i, j \in 1 .. n + 1
    <2>1. (i \in 1 .. n \/ i = n + 1) /\ (j \in 1 .. n \/ j = n + 1)
      BY <1>1
    <2> QED
      BY <2>1, <1>1, <1>3 DEF ChainInv
  <1>5. \A i \in 1 .. n + 1 : phase'[order'[i]] \notin {"none", "lost"}
    <2> TAKE i \in 1 .. n + 1
    <2>1. CASE i = n + 1
      BY <2>1, <1>1, <1>2
    <2>2. CASE i \in 1 .. n
      BY <2>2, <1>1, <1>2, <1>3 DEF ChainInv
    <2> QED
      BY <2>1, <2>2, <1>1
  <1>6. ASSUME NEW r \in Requests, Live(r)' PROVE \E i \in 1 .. n + 1 : order'[i] = r
    <2>1. CASE r = q
      BY <2>1, <1>1
    <2>2. CASE r # q
      <3>1. Live(r)
        BY <1>6, <2>2, <1>2 DEF Live
      <3>2. PICK i \in 1 .. n : order[i] = r
        BY <3>1, <1>1 DEF ChainInv
      <3> QED
        BY <3>2, <1>1
    <2> QED
      BY <2>1, <2>2
  <1>7. ChainInv'
    BY <1>1, <1>4, <1>5, <1>6 DEF ChainInv
  <1>8. ASSUME NEW p \in Requests, NEW r \in Requests, Before(p, r)',
               phase'[r] \in Running
        PROVE  Settled(p)'
    <2>1. r # q
      BY <1>2, <1>8
    <2>2. PICK i, j \in 1 .. n + 1 : i < j /\ order'[i] = p /\ order'[j] = r
      BY <1>8, <1>1 DEF Before
    <2>3. i \in 1 .. n /\ j \in 1 .. n
      BY <2>1, <2>2, <1>1
    <2>4. Before(p, r) /\ p # q
      BY <2>2, <2>3, <1>1, <1>3 DEF Before
    <2>5. phase[r] \in Running
      BY <1>8, <2>1, <1>2
    <2>6. Settled(p)
      BY <2>4, <2>5 DEF TurnInv
    <2> QED
      BY <2>4, <2>6, <1>2 DEF Settled
  <1> QED
    BY <1>7, <1>8 DEF TurnInv

\* A restart leaves an empty chain and nothing live.
LEMMA CrashChain ==
    ASSUME TypeOK, PatienceInv, Crash
    PROVE  ChainInv' /\ TurnInv'
  <1>1. order' = <<>> /\ DOMAIN order' = {}
    BY DEF Crash
  <1>2. \A q \in Requests : ~Live(q)'
    BY DEF Crash, Live, PatienceInv
  <1> QED
    BY <1>1, <1>2 DEF ChainInv, TurnInv, Before

\* No step breaks the chain or lets a request overtake.
LEMMA ChainStep ==
    ASSUME TypeOK, ChainInv, TurnInv, PatienceInv, [Next]_vars
    PROVE  ChainInv' /\ TurnInv'
  <1>u. ASSUME UNCHANGED <<phase, order>> PROVE ChainInv' /\ TurnInv'
    BY <1>u DEF ChainInv, TurnInv, Live, Before, Settled
  <1>m. ASSUME NEW q \in Requests, NEW x \in Phases \ {"none", "lost"}, Moves(q, x),
               Live(q), x \in Running => phase[q] \in Running \/ AtGate(q)
        PROVE  ChainInv' /\ TurnInv'
    BY <1>m, ChainMove, TurnMove DEF Live, Settled
  <1>1. ASSUME NEW q \in Requests, Send(q) \/ GivesUp(q) \/ ConnectionBreaks(q)
                                   \/ Broadcasts(q)
        PROVE  ChainInv' /\ TurnInv'
    BY <1>1, <1>u DEF Send, GivesUp, ConnectionBreaks, Broadcasts
  <1>2. ASSUME NEW q \in Requests, Gate(q) PROVE ChainInv' /\ TurnInv'
    BY <1>2, <1>m, HandlerMoves DEF Gate, AtGate, Undecided, Live
  <1>3. ASSUME NEW q \in Requests, TimerFires(q) PROVE ChainInv' /\ TurnInv'
    BY <1>3, <1>m, HandlerMoves DEF TimerFires, TimerDue, Live
  <1>4. ASSUME NEW q \in Requests, NEW v, Answers(q, v), phase[q] \in Running
        PROVE  ChainInv' /\ TurnInv'
    BY <1>4, <1>m, HandlerMoves DEF Live
  <1>5. ASSUME NEW q \in Requests, NEW n \in Running, Refreshes(q, n),
               phase[q] \in Running
        PROVE  ChainInv' /\ TurnInv'
    BY <1>5, <1>m, HandlerMoves DEF Live
  <1>6. ASSUME NEW q \in Requests,
               OpSucceeds(q) \/ OpRefuses(q) \/ OpFails(q) \/ RefreshEnds(q)
        PROVE  ChainInv' /\ TurnInv'
    BY <1>6, <1>4, <1>5 DEF OpSucceeds, OpRefuses, OpFails, RefreshEnds
  <1>7. CASE Tick \/ UNCHANGED vars
    BY <1>7, <1>u DEF Tick, vars
  <1> QED
    BY <1>1, <1>2, <1>3, <1>6, <1>7, EnqueueChain, CrashChain
    DEF Next, ServerStep

(***************************************************************************)
(* Refusals.                                                               *)
(***************************************************************************)
\* A client that concludes records a verdict for its own request only.
LEMMA VerdictStep ==
    ASSUME TypeOK, NEW q \in Requests, NEW v \in Verdicts, NEW how \in Calls,
           Concludes(q, how, v) \/ Reply(q, v)
    PROVE  /\ \A r \in Requests : r # q => verdict'[r] = verdict[r]
           /\ verdict'[q] \in {v, verdict[q]}
  BY DEF TypeOK, Concludes, Reply

\* No step makes a refusal wrong: what was refused stays off the chain.
LEMMA RefusalStep ==
    ASSUME TypeOK, RefusalInv, PatienceInv, [Next]_vars
    PROVE  RefusalInv'
  <1>1. ASSUME NEW q \in Requests, Send(q) PROVE RefusalInv'
    BY <1>1 DEF RefusalInv, Send
  <1>2. ASSUME NEW q \in Requests, GivesUp(q) \/ ConnectionBreaks(q)
        PROVE  RefusalInv'
    <2>1. /\ phase' = phase /\ forked' = forked /\ onchain' = onchain
          /\ \A r \in Requests : verdict'[r] \in {verdict[r], "inconclusive"}
      BY <1>2, VerdictStep DEF GivesUp, ConnectionBreaks
    <2> QED
      BY <2>1 DEF RefusalInv
  <1>3. ASSUME NEW q \in Requests, Enqueue(q) PROVE RefusalInv'
    <2>1. /\ phase'[q] = "waiting" /\ phase[q] = "none"
          /\ \A r \in Requests : r # q => phase'[r] = phase[r]
          /\ verdict' = verdict /\ forked' = forked /\ onchain' = onchain
      BY <1>3 DEF TypeOK, Enqueue
    <2> QED
      BY <2>1 DEF RefusalInv
  <1>4. ASSUME NEW q \in Requests, Gate(q) PROVE RefusalInv'
    <2>1. /\ phase'[q] = "op" /\ phase[q] = "waiting"
          /\ \A r \in Requests : r # q => phase'[r] = phase[r]
          /\ verdict' = verdict /\ forked' = forked \cup {q} /\ onchain' = onchain
      BY <1>4 DEF TypeOK, Gate, AtGate, Undecided
    <2> QED
      BY <2>1 DEF RefusalInv
  <1>5. ASSUME NEW q \in Requests, TimerFires(q) PROVE RefusalInv'
    <2>1. /\ phase'[q] = "refused" /\ phase[q] = "waiting"
          /\ \A r \in Requests : r # q => phase'[r] = phase[r]
          /\ forked' = forked /\ onchain' = onchain
      BY <1>5 DEF TypeOK, TimerFires, TimerDue
    <2>2. \A r \in Requests : r # q => verdict'[r] = verdict[r]
      BY <1>5, VerdictStep DEF TimerFires
    <2> QED
      BY <2>1, <2>2 DEF RefusalInv
  <1>6. ASSUME NEW q \in Requests, Broadcasts(q) PROVE RefusalInv'
    <2>1. /\ phase' = phase /\ forked' = forked /\ verdict' = verdict
          /\ onchain' = onchain \cup {q} /\ q \in forked
          /\ phase[q] \in {"op", "lost"}
      BY <1>6 DEF Broadcasts
    <2> QED
      BY <2>1 DEF RefusalInv
  <1>7. ASSUME NEW q \in Requests, NEW v \in Verdicts, Answers(q, v),
               phase[q] \in Running, v = "refused" => q \notin onchain
        PROVE  RefusalInv'
    <2>1. /\ phase'[q] = "done"
          /\ \A r \in Requests : r # q => phase'[r] = phase[r]
          /\ forked' = forked /\ onchain' = onchain
      BY <1>7 DEF TypeOK, Answers
    <2>2. /\ \A r \in Requests : r # q => verdict'[r] = verdict[r]
          /\ verdict'[q] \in {v, verdict[q]}
      BY <1>7, VerdictStep DEF Answers
    <2> QED
      BY <1>7, <2>1, <2>2 DEF RefusalInv
  <1>8. ASSUME NEW q \in Requests, NEW n \in Running, Refreshes(q, n),
               phase[q] \in Running
        PROVE  RefusalInv'
    <2>1. /\ phase'[q] = n
          /\ \A r \in Requests : r # q => phase'[r] = phase[r]
          /\ forked' = forked /\ onchain' = onchain /\ verdict' = verdict
      BY <1>8 DEF TypeOK, Refreshes
    <2> QED
      BY <1>8, <2>1 DEF RefusalInv
  <1>9. ASSUME NEW q \in Requests,
               OpSucceeds(q) \/ OpRefuses(q) \/ OpFails(q) \/ RefreshEnds(q)
        PROVE  RefusalInv'
    BY <1>9, <1>7, <1>8 DEF OpSucceeds, OpRefuses, OpFails, RefreshEnds, PreRpc
  <1>10. CASE Crash
    <2>1. /\ forked' = forked /\ onchain' = onchain
          /\ \A r \in Requests : phase'[r] = phase[r] \/ phase'[r] = "lost"
          /\ \A r \in Requests : phase[r] \in {"refused", "done"} => phase'[r] = phase[r]
          /\ \A r \in Requests : verdict'[r] \in {verdict[r], "inconclusive"}
      BY <1>10 DEF Crash
    <2> QED
      BY <2>1 DEF RefusalInv
  <1>11. CASE Tick \/ UNCHANGED vars
    BY <1>11 DEF RefusalInv, Tick, vars
  <1> QED
    BY <1>1, <1>2, <1>3, <1>4, <1>5, <1>6, <1>9, <1>10, <1>11
    DEF Next, ServerStep

(***************************************************************************)
(* Budgets.                                                                *)
(***************************************************************************)
\* The durations are positive numbers, and the slack exceeds the transit time.
LEMMA Durations ==
    /\ WaitBudget \in Nat /\ RefreshTimeout \in Nat /\ Transit \in Nat
    /\ Slack \in Nat /\ Slack - Transit >= 1
    /\ \A q \in Requests : OpTimeout[q] \in Nat
  BY QueueAssumption

\* A client still waiting after an answer to somebody was waiting as patiently.
LEMMA CallStep ==
    ASSUME TypeOK, NEW q \in Requests, NEW v \in Verdicts, NEW how \in Calls \ {"idle", "sent"},
           Concludes(q, how, v) \/ (how = "answered" /\ Reply(q, v))
    PROVE  \A r \in Requests :
             /\ call'[r] = "sent" => call[r] = "sent" /\ patience'[r] = patience[r]
             /\ call'[r] = "idle" => call[r] = "idle"
             /\ call'[r] = "timedout" => call[r] = "timedout"
                                         \/ (r = q /\ how = "timedout")
  BY DEF TypeOK, Concludes, Reply

\* The invariant of one request.
Patient(q) ==
    /\ call[q] = "sent" => patience[q] >= Needs(q)
    /\ call[q] = "timedout" => phase[q] \in {"refused", "done", "lost"}
    /\ call[q] = "idle" => phase[q] = "none"

\* A request neither of whose sides is touched stays patient.
LEMMA Untouched ==
    ASSUME NEW r, Patient(r), phase'[r] = phase[r], left'[r] = left[r],
           call'[r] = call[r], patience'[r] = patience[r]
    PROVE  Patient(r)'
  BY DEF Patient, Needs

\* Time is taken from what the server may still need as fast as from the
\* client's patience.
LEMMA TickPatience ==
    ASSUME TypeOK, PatienceInv, Tick
    PROVE  PatienceInv'
  <1> SUFFICES ASSUME NEW q \in Requests PROVE Patient(q)'
    BY DEF PatienceInv, Patient
  <1>1. Patient(q) /\ ~Urgent(q)
    BY DEF PatienceInv, Patient, Tick
  <1>2. /\ call' = call /\ phase' = phase
        /\ left'[q] = CountDown(left[q]) /\ patience'[q] = CountDown(patience[q])
        /\ left[q] \in Nat /\ patience[q] \in Nat /\ phase[q] \in Phases
    BY DEF TypeOK, Tick
  <1>3. CASE call[q] = "sent"
    <2>1. patience[q] > 0 /\ patience'[q] = patience[q] - 1
      BY <1>1, <1>2, <1>3 DEF Urgent, CountDown
    <2>2. phase[q] \in {"none", "waiting", "op", "refresh", "refreshFailed"}
            => left[q] > 0 /\ left'[q] = left[q] - 1
      BY <1>1, <1>2, <1>3 DEF Urgent, CountDown, Undelivered, TimerDue, OpDue
    <2>3. patience'[q] >= Needs(q)'
      BY <1>1, <1>2, <1>3, <2>1, <2>2, Durations DEF Needs, Patient
    <2> QED
      BY <1>2, <1>3, <2>3 DEF Patient
  <1>4. CASE call[q] # "sent"
    BY <1>1, <1>2, <1>4 DEF Patient
  <1> QED
    BY <1>3, <1>4

\* No step leaves a client less patience than the server may still need.
LEMMA PatienceStep ==
    ASSUME TypeOK, PatienceInv, [Next]_vars
    PROVE  PatienceInv'
  <1>p. \A r \in Requests : Patient(r)
    BY DEF PatienceInv, Patient
  <1>g. ASSUME \A r \in Requests : Patient(r)' PROVE PatienceInv'
    BY <1>g DEF PatienceInv, Patient
  <1>t. \A r \in Requests : left[r] \in Nat /\ patience[r] \in Nat
                            /\ phase[r] \in Phases /\ call[r] \in Calls
    BY DEF TypeOK
  <1>1. ASSUME NEW q \in Requests, Send(q) PROVE PatienceInv'
    <2>1. /\ phase' = phase /\ phase[q] = "none"
          /\ call'[q] = "sent" /\ left'[q] = Transit
          /\ patience'[q] = ClientTimeout(q)
          /\ \A r \in Requests : r # q => /\ call'[r] = call[r] /\ left'[r] = left[r]
                                          /\ patience'[r] = patience[r]
      BY <1>1, <1>p DEF TypeOK, Send, Patient
    <2>2. Patient(q)'
      BY <2>1, Durations DEF Patient, Needs, ClientTimeout
    <2> QED
      BY <2>1, <2>2, <1>p, <1>g, Untouched
  <1>2. ASSUME NEW q \in Requests, GivesUp(q) PROVE PatienceInv'
    <2>1. /\ phase' = phase /\ left' = left /\ call[q] = "sent" /\ patience[q] = 0
      BY <1>2 DEF GivesUp
    <2>2. phase[q] \in {"refused", "done", "lost"}
      BY <2>1, <1>p, <1>t, Durations DEF Patient, Needs
    <2>3. \A r \in Requests :
             /\ call'[r] = "sent" => call[r] = "sent" /\ patience'[r] = patience[r]
             /\ call'[r] = "idle" => call[r] = "idle"
             /\ call'[r] = "timedout" => call[r] = "timedout" \/ r = q
      BY <1>2, CallStep DEF GivesUp
    <2> QED
      BY <2>1, <2>2, <2>3, <1>p, <1>g DEF Patient, Needs
  <1>3. ASSUME NEW q \in Requests, ConnectionBreaks(q) PROVE PatienceInv'
    <2>1. \A r \in Requests :
             /\ call'[r] = "sent" => call[r] = "sent" /\ patience'[r] = patience[r]
             /\ call'[r] = "idle" => call[r] = "idle"
             /\ call'[r] = "timedout" => call[r] = "timedout"
      BY <1>3, CallStep DEF ConnectionBreaks
    <2>2. phase' = phase /\ left' = left
      BY <1>3 DEF ConnectionBreaks
    <2> QED
      BY <2>1, <2>2, <1>p, <1>g DEF Patient, Needs
  <1>4. ASSUME NEW q \in Requests, Enqueue(q) PROVE PatienceInv'
    <2>1. /\ phase[q] = "none" /\ phase'[q] = "waiting" /\ left'[q] = WaitBudget
          /\ call[q] # "idle" /\ call' = call /\ patience' = patience
          /\ \A r \in Requests : r # q => phase'[r] = phase[r] /\ left'[r] = left[r]
      BY <1>4 DEF TypeOK, Enqueue
    <2>2. call[q] # "timedout"
      BY <2>1, <1>p DEF Patient
    <2>3. call[q] = "sent" => patience[q] >= left[q] + WaitBudget + OpTimeout[q]
                                + RefreshTimeout + (Slack - Transit)
      BY <2>1, <1>p DEF Patient, Needs
    <2>4. Patient(q)'
      BY <2>1, <2>2, <2>3, <1>t, Durations DEF Patient, Needs
    <2> QED
      BY <2>1, <2>4, <1>p, <1>g, Untouched
  <1>5. ASSUME NEW q \in Requests, Gate(q) PROVE PatienceInv'
    <2>1. /\ phase[q] = "waiting" /\ phase'[q] = "op" /\ left'[q] = OpTimeout[q]
          /\ call' = call /\ patience' = patience
          /\ \A r \in Requests : r # q => phase'[r] = phase[r] /\ left'[r] = left[r]
      BY <1>5 DEF TypeOK, Gate, AtGate, Undecided
    <2>2. call[q] # "timedout" /\ call[q] # "idle"
      BY <2>1, <1>p DEF Patient
    <2>3. call[q] = "sent" => patience[q] >= left[q] + OpTimeout[q] + RefreshTimeout + 1
      BY <2>1, <1>p DEF Patient, Needs
    <2>4. Patient(q)'
      BY <2>1, <2>2, <2>3, <1>t, Durations DEF Patient, Needs
    <2> QED
      BY <2>1, <2>4, <1>p, <1>g, Untouched
  <1>e. ASSUME NEW q \in Requests, NEW v \in Verdicts, NEW x \in {"refused", "done"},
               Reply(q, v), phase[q] # "none", phase' = [phase EXCEPT ![q] = x],
               \A r \in Requests : r # q => left'[r] = left[r]
        PROVE  PatienceInv'
    <2>1. phase'[q] = x /\ \A r \in Requests : r # q => phase'[r] = phase[r]
      BY <1>e DEF TypeOK
    <2>2. \A r \in Requests :
             /\ call'[r] = "sent" => call[r] = "sent" /\ patience'[r] = patience[r]
             /\ call'[r] = "idle" => call[r] = "idle"
             /\ call'[r] = "timedout" => call[r] = "timedout"
      BY <1>e, CallStep
    <2>3. Patient(q)'
      BY <2>1, <2>2, <1>e, <1>p, <1>t DEF Patient, Needs
    <2>4. \A r \in Requests : r # q => Patient(r)'
      BY <2>1, <2>2, <1>e, <1>p DEF Patient, Needs
    <2> QED
      BY <2>3, <2>4, <1>g
  <1>6. ASSUME NEW q \in Requests, TimerFires(q) PROVE PatienceInv'
    BY <1>6, <1>e DEF TimerFires, TimerDue
  <1>7. ASSUME NEW q \in Requests, NEW v \in Verdicts, Answers(q, v),
               phase[q] \in Running
        PROVE  PatienceInv'
    <2>1. \A r \in Requests : r # q => left'[r] = left[r]
      BY <1>7 DEF TypeOK, Answers
    <2> QED
      BY <2>1, <1>7, <1>e DEF Answers
  <1>8. ASSUME NEW q \in Requests, NEW n \in {"refresh", "refreshFailed"},
               Refreshes(q, n), phase[q] = "op"
        PROVE  PatienceInv'
    <2>1. /\ phase'[q] = n /\ left'[q] = RefreshTimeout
          /\ call' = call /\ patience' = patience
          /\ \A r \in Requests : r # q => phase'[r] = phase[r] /\ left'[r] = left[r]
      BY <1>8 DEF TypeOK, Refreshes
    <2>2. call[q] # "timedout" /\ call[q] # "idle"
      BY <1>8, <1>p DEF Patient
    <2>3. call[q] = "sent" => patience[q] >= left[q] + RefreshTimeout + 1
      BY <1>8, <1>p DEF Patient, Needs
    <2>4. Patient(q)'
      BY <1>8, <2>1, <2>2, <2>3, <1>t, Durations DEF Patient, Needs
    <2> QED
      BY <2>1, <2>4, <1>p, <1>g, Untouched
  <1>9. ASSUME NEW q \in Requests,
               OpSucceeds(q) \/ OpRefuses(q) \/ OpFails(q) \/ RefreshEnds(q)
        PROVE  PatienceInv'
    BY <1>9, <1>7, <1>8 DEF OpSucceeds, OpRefuses, OpFails, RefreshEnds
  <1>10. ASSUME NEW q \in Requests, Broadcasts(q) PROVE PatienceInv'
    BY <1>10, <1>p, <1>g, Untouched DEF Broadcasts
  <1>11. CASE Crash
    <2>1. \A r \in Requests :
             /\ call'[r] # "sent"
             /\ call'[r] = "timedout" => call[r] = "timedout"
             /\ call'[r] = "idle" => call[r] = "idle"
             /\ phase'[r] = IF call[r] # "idle" /\ phase[r] \notin {"refused", "done"}
                            THEN "lost" ELSE phase[r]
      BY <1>11 DEF Crash
    <2> QED
      BY <2>1, <1>p, <1>g DEF Patient
  <1>12. CASE UNCHANGED vars
    BY <1>12, <1>p, <1>g, Untouched DEF vars
  <1> QED
    BY <1>1, <1>2, <1>3, <1>4, <1>5, <1>6, <1>9, <1>10, <1>11, <1>12,
       TickPatience
    DEF Next, ServerStep

(***************************************************************************)
(* The theorems.                                                           *)
(***************************************************************************)
\* The empty server satisfies the inductive invariant.
THEOREM InitQueueInv == Init => QueueInv
  BY DEF Init, QueueInv, ChainInv, TurnInv, RefusalInv, PatienceInv, Live, Before

\* The inductive invariant holds in every reachable state of server and clients.
THEOREM QueueInvariant == Spec => [](TypeOK /\ QueueInv)
  <1>1. Init => TypeOK /\ QueueInv
    BY InitType, InitQueueInv
  <1>2. (TypeOK /\ QueueInv) /\ [Next]_vars => (TypeOK /\ QueueInv)'
    BY NextType, ChainStep, RefusalStep, PatienceStep DEF QueueInv
  <1> QED
    BY <1>1, <1>2, PTL DEF Spec

\* Wallet mutations are serial and in order, however many are queued.
THEOREM MutationsAreSerial == Spec => []Serialized
  <1>1. TypeOK /\ QueueInv => Serialized
    <2> SUFFICES ASSUME TypeOK, QueueInv PROVE Serialized
      OBVIOUS
    <2>0. DOMAIN order = 1 .. Len(order) /\ Len(order) \in Nat
      BY DEF TypeOK
    <2>1. ASSUME NEW p \in Requests, NEW q \in Requests, phase[p] \in Running,
                 phase[q] \in Running, p # q
          PROVE  FALSE
      <3>1. PICK i \in DOMAIN order : order[i] = p
        BY <2>1 DEF QueueInv, ChainInv, Live
      <3>2. PICK j \in DOMAIN order : order[j] = q
        BY <2>1 DEF QueueInv, ChainInv, Live
      <3>3. i < j \/ j < i
        BY <3>1, <3>2, <2>1, <2>0
      <3>4. Before(p, q) \/ Before(q, p)
        BY <3>1, <3>2, <3>3 DEF Before
      <3>5. Settled(p) \/ Settled(q)
        BY <3>4, <2>1 DEF QueueInv, TurnInv
      <3> QED
        BY <3>5, <2>1 DEF Settled
    <2>2. \A p, q \in Requests : Before(p, q) /\ phase[q] \in Running
                                   => phase[p] # "waiting"
      BY DEF QueueInv, TurnInv, Settled
    <2> QED
      BY <2>1, <2>2 DEF Serialized
  <1> QED
    BY <1>1, QueueInvariant, PTL

\* What a client was told was not attempted is never on chain.
THEOREM RefusalsAreProofs == Spec => []RefusalIsProof
  <1>1. QueueInv => RefusalIsProof
    BY DEF QueueInv, RefusalInv, RefusalIsProof
  <1> QED
    BY <1>1, QueueInvariant, PTL

\* Whatever the durations, no client gives up on a request the server still holds.
THEOREM BudgetsSuffice == Spec => []NeverOutrun
  <1>1. QueueInv => NeverOutrun
    BY DEF QueueInv, PatienceInv, NeverOutrun
  <1> QED
    BY <1>1, QueueInvariant, PTL

\* A timer comes first only because a mutation runs: the first link that has not
\* settled is not at its gate.
LEMMA SomebodyRuns ==
    ASSUME TypeOK, ChainInv, LoopIdle, NEW q \in Requests, phase[q] = "waiting"
    PROVE  \E p \in Requests : phase[p] \in Running
  <1> DEFINE S == {i \in DOMAIN order : ~Settled(order[i])}
  <1>1. /\ S \subseteq Nat /\ DOMAIN order \subseteq Nat
        /\ \A i \in DOMAIN order : order[i] \in Requests
    BY DEF TypeOK
  <1>2. S # {}
    BY DEF ChainInv, Live, Settled
  <1>3. PICK i \in S : \A j \in S : i <= j
    <2> HIDE DEF S
    <2> QED
      BY <1>1, <1>2, LeastNumber
  <1>4. ASSUME NEW p \in Requests, Before(p, order[i]) PROVE Settled(p)
    <2>1. PICK j, k \in DOMAIN order : j < k /\ order[j] = p /\ order[k] = order[i]
      BY <1>4 DEF Before
    <2>2. k = i /\ j \in Nat /\ i \in Nat
      <3>1. i \in DOMAIN order
        OBVIOUS
      <3>2. k = i
        BY <2>1, <3>1 DEF ChainInv
      <3> QED
        BY <2>1, <3>1, <3>2, <1>1
    <2>3. j \notin S
      BY <2>1, <2>2, <1>3
    <2> QED
      BY <2>1, <2>3
  <1>5. phase[order[i]] # "waiting"
    BY <1>1, <1>4 DEF LoopIdle, AtGate, Undecided
  <1>6. phase[order[i]] \in Phases \ {"none", "lost", "waiting", "refused", "done"}
    BY <1>1, <1>5 DEF TypeOK, ChainInv, Settled
  <1> QED
    BY <1>1, <1>6

\* A waiting request is refused by its timer alone.
LEMMA RefusedByTimer ==
    ASSUME TypeOK, [Next]_vars, NEW q \in Requests,
           phase[q] = "waiting", phase'[q] = "refused"
    PROVE  LoopIdle
  <1>1. CASE UNCHANGED phase
    BY <1>1
  <1>2. ASSUME NEW p \in Requests, NEW x \in Phases \ {"refused"}, Moves(p, x)
        PROVE  FALSE
    BY <1>2 DEF Moves, TypeOK
  <1>3. ASSUME NEW p \in Requests, Send(p) \/ GivesUp(p) \/ ConnectionBreaks(p)
                                   \/ Broadcasts(p)
        PROVE  FALSE
    BY <1>3 DEF Send, GivesUp, ConnectionBreaks, Broadcasts
  <1>4. ASSUME NEW p \in Requests, Enqueue(p) PROVE FALSE
    BY <1>4 DEF Enqueue, TypeOK
  <1>5. ASSUME NEW p \in Requests, Gate(p) PROVE FALSE
    BY <1>5, <1>2, HandlerMoves
  <1>6. ASSUME NEW p \in Requests,
               OpSucceeds(p) \/ OpRefuses(p) \/ OpFails(p) \/ RefreshEnds(p)
        PROVE  FALSE
    <2>1. \/ \E v : Answers(p, v)
          \/ \E n \in {"refresh", "refreshFailed"} : Refreshes(p, n)
      BY <1>6 DEF OpSucceeds, OpRefuses, OpFails, RefreshEnds
    <2>2. Moves(p, "done") \/ \E n \in {"refresh", "refreshFailed"} : Moves(p, n)
      BY <2>1, HandlerMoves
    <2> QED
      BY <2>2, <1>2
  <1>7. ASSUME Crash PROVE FALSE
    BY <1>7 DEF Crash, TypeOK
  <1>8. ASSUME NEW p \in Requests, TimerFires(p) PROVE LoopIdle
    BY <1>8 DEF TimerFires
  <1>9. CASE Tick \/ UNCHANGED vars
    BY <1>9 DEF Tick, vars
  <1> QED
    BY <1>1, <1>3, <1>4, <1>5, <1>6, <1>7, <1>8, <1>9 DEF Next, ServerStep

\* A request is refused only while another mutation runs: none that was refused or
\* failed wedges those behind it (queue.js, serialize).
THEOREM RefusedBehindOthers == Spec => RefusedOnlyWhenBusy
  <1>1. TypeOK /\ QueueInv /\ [Next]_vars =>
          \A q \in Requests : phase[q] = "waiting" /\ phase'[q] = "refused"
                                => \E p \in Requests : phase[p] \in Running
    BY SomebodyRuns, RefusedByTimer DEF QueueInv
  <1> QED
    BY <1>1, QueueInvariant, PTL DEF Spec, RefusedOnlyWhenBusy
=============================================================================
