----------------------------- MODULE PeerLeases -----------------------------
(***************************************************************************)
(* The cap on calls in flight to one marketplace peer (provider_adapters/   *)
(* openai_compatible.py, _acquire_peer_capacity and _PeerCapacitySlot).     *)
(* With one process it is a semaphore, looked up by peer and dropped when   *)
(* it seems idle; across replicas it is a table of leases with an expiry    *)
(* (host_store.py), which a heartbeat of each call extends.                 *)
(*                                                                         *)
(* A store function runs in a worker thread and completes even if the call  *)
(* that waits for it is cancelled.  A call is cut when it is cancelled a    *)
(* second time, while it closes its HTTP client: the rest of its finally    *)
(* block does not run.                                                     *)
(*                                                                         *)
(* Simplifications: one peer and one cap; a lease id is its call; a process *)
(* that crashes is a call that ends without releasing; the event loop runs  *)
(* a heartbeat when it is due.                                             *)
(***************************************************************************)
EXTENDS Integers, FiniteSets

CONSTANTS Calls, Cap,
          TTL,      \* PEER_LEASE_TTL_S
          Beat,     \* heartbeat period, a third of it
          GateTTL,  \* _PEER_GATE_TTL
          MaxTime   \* bound on the clock

VARIABLES now,
          shared,   \* DISTRIBUTED_PEER_GATES
          call,     \* what each call is doing
          lease,    \* its row's expires_at, or NoRow
          beat,     \* its heartbeat: when it is due, or Off
          gate,     \* number of the semaphore _PEER_GATES holds, or 0 for none
          stamp,    \* its entry in _PEER_GATE_TIMESTAMPS
          mine,     \* the semaphore each call uses
          gates,    \* semaphores made so far
          over,     \* ghost: when each call ended
          lapsed,   \* ghost: calls with a failed renewal
          looked    \* ghost: when each call looked its semaphore up

rows == <<lease, beat, lapsed>>
local == <<gate, stamp, mine, gates, looked>>
vars == <<now, shared, call, rows, local, over>>

Stages == {"idle", "asking", "cancelled", "polling", "running", "closing",
           "releasing", "done", "cut"}
NoRow == -1
Off == -1

Init == /\ now = 0 /\ shared \in BOOLEAN
        /\ call = [c \in Calls |-> "idle"] /\ over = [c \in Calls |-> 0]
        /\ lease = [c \in Calls |-> NoRow] /\ beat = [c \in Calls |-> Off]
        /\ gate = 0 /\ stamp = 0 /\ gates = 0
        /\ mine = [c \in Calls |-> 0] /\ lapsed = {}
        /\ looked = [c \in Calls |-> 0]

GoTo(c, stage) == call' = [call EXCEPT ![c] = stage]
End(c, stage) == GoTo(c, stage) /\ over' = [over EXCEPT ![c] = now]

(***************************************************************************)
(* host_store.py: the table of leases                                      *)
(***************************************************************************)
\* Mutant of Unexpired: a row counts only until its next heartbeat is due.
NotDue == {c \in Calls : lease[c] # NoRow /\ lease[c] > now + TTL - Beat}

Unexpired == {c \in Calls : lease[c] # NoRow /\ lease[c] > now}

\* try_acquire_peer_lease: expired rows are deleted, the rest counted, all
\* under the peer's advisory lock.
Insert(c) ==
    lease' = [d \in Calls |-> IF d = c THEN now + TTL
                              ELSE IF d \in Unexpired THEN lease[d] ELSE NoRow]

Purge == lease' = [d \in Calls |-> IF d \in Unexpired THEN lease[d] ELSE NoRow]

(***************************************************************************)
(* Acquiring a lease                                                       *)
(***************************************************************************)
Ask(c) == /\ shared /\ call[c] \in {"idle", "polling"} /\ GoTo(c, "asking")
          /\ UNCHANGED <<now, shared, rows, local, over>>

Granted(c) ==
    /\ call[c] = "asking" /\ Cardinality(Unexpired) < Cap /\ Insert(c)
    /\ GoTo(c, "running") /\ beat' = [beat EXCEPT ![c] = now + Beat]
    /\ UNCHANGED <<now, shared, lapsed, local, over>>

\* No slot is free: poll again, or give up once PEER_GATE_WAIT_S is over.
Refused(c) ==
    /\ call[c] = "asking" /\ Cardinality(Unexpired) >= Cap /\ Purge
    /\ \/ GoTo(c, "polling") /\ UNCHANGED over
       \/ End(c, "done")
    /\ UNCHANGED <<now, shared, beat, lapsed, local>>

StoreFails(c) == /\ call[c] = "asking" /\ End(c, "done")
                 /\ UNCHANGED <<now, shared, rows, local>>

\* The request is cancelled while the thread asks; its answer goes nowhere.
Cancel(c) == /\ call[c] = "asking" /\ End(c, "cancelled")
             /\ UNCHANGED <<now, shared, rows, local>>

Orphan(c) ==
    /\ call[c] = "cancelled" /\ End(c, "done")
    /\ IF Cardinality(Unexpired) < Cap THEN Insert(c) ELSE Purge
    /\ UNCHANGED <<now, shared, beat, lapsed, local>>

(***************************************************************************)
(* The heartbeat, _renew_loop                                              *)
(***************************************************************************)
Renew(c) ==
    /\ beat[c] = now /\ lease[c] # NoRow
    /\ lease' = [lease EXCEPT ![c] = now + TTL]
    /\ beat' = [beat EXCEPT ![c] = now + Beat]
    /\ UNCHANGED <<now, shared, call, lapsed, local, over>>

\* The row is gone, or the store fails once: the loop returns for good.
RenewFails(c) ==
    /\ beat[c] = now /\ beat' = [beat EXCEPT ![c] = Off] /\ lapsed' = lapsed \cup {c}
    /\ UNCHANGED <<now, shared, call, lease, local, over>>

(***************************************************************************)
(* The semaphores of one process, _peer_gate                               *)
(***************************************************************************)
Users(g) == {c \in Calls : mine[c] = g /\ call[c] \in {"running", "closing", "cut"}}

Stale == gate # 0 /\ now - stamp > GateTTL

\* More than 256 gates are kept: those not asked for lately are dropped.
Evict == /\ ~shared /\ Stale /\ gate' = 0
         /\ UNCHANGED <<now, shared, call, rows, stamp, mine, gates, looked, over>>

Look(c) ==
    /\ ~shared /\ call[c] = "idle" /\ GoTo(c, "polling")
    /\ gates' = IF gate = 0 THEN gates + 1 ELSE gates
    /\ gate' = IF gate = 0 THEN gates' ELSE gate
    /\ stamp' = now /\ looked' = [looked EXCEPT ![c] = now]
    /\ mine' = [mine EXCEPT ![c] = gate']
    /\ UNCHANGED <<now, shared, rows, over>>

Enter(c) == /\ ~shared /\ call[c] = "polling" /\ Cardinality(Users(mine[c])) < Cap
            /\ GoTo(c, "running") /\ UNCHANGED <<now, shared, rows, local, over>>

Saturated(c) == /\ ~shared /\ call[c] = "polling" /\ End(c, "done")
                /\ UNCHANGED <<now, shared, rows, local>>

(***************************************************************************)
(* The call and its end                                                    *)
(***************************************************************************)
\* Answer, error, attempt deadline or cancellation: the client is closed first.
Finish(c) == /\ call[c] = "running" /\ GoTo(c, "closing")
             /\ UNCHANGED <<now, shared, rows, local, over>>

\* Mutant of StopBeat: the heartbeat goes on.
KeepBeat(c) == UNCHANGED beat

StopBeat(c) == beat' = [beat EXCEPT ![c] = Off]

\* _PeerCapacitySlot.release: the heartbeat is cancelled, then the row deleted.
Release(c) ==
    /\ call[c] = "closing" /\ StopBeat(c)
    /\ IF shared THEN GoTo(c, "releasing") /\ UNCHANGED over ELSE End(c, "done")
    /\ UNCHANGED <<now, shared, lease, lapsed, local>>

Deleted(c) ==
    /\ call[c] = "releasing" /\ End(c, "done")
    /\ lease' \in {lease, [lease EXCEPT ![c] = NoRow]}    \* the store may fail
    /\ UNCHANGED <<now, shared, beat, lapsed, local>>

Cut(c) == /\ call[c] = "closing" /\ End(c, "cut")
          /\ UNCHANGED <<now, shared, rows, local>>

Crash(c) == /\ call[c] \in {"running", "closing"} /\ shared /\ End(c, "done")
            /\ beat' = [beat EXCEPT ![c] = Off]
            /\ UNCHANGED <<now, shared, lease, lapsed, local>>

Tick == /\ now < MaxTime /\ now' = now + 1 /\ \A c \in Calls : beat[c] # now
        /\ UNCHANGED <<shared, call, rows, local, over>>

Next == \/ Tick \/ Evict
        \/ \E c \in Calls :
            \/ Ask(c) \/ Granted(c) \/ Refused(c) \/ StoreFails(c) \/ Cancel(c)
            \/ Orphan(c) \/ Renew(c) \/ RenewFails(c) \/ Look(c) \/ Enter(c)
            \/ Saturated(c) \/ Finish(c) \/ Release(c) \/ Deleted(c) \/ Cut(c) \/ Crash(c)

Spec == Init /\ [][Next]_vars

(***************************************************************************)
(* Properties                                                              *)
(***************************************************************************)
TypeOK == /\ now \in 0..MaxTime /\ shared \in BOOLEAN
          /\ call \in [Calls -> Stages] /\ over \in [Calls -> 0..MaxTime]
          /\ lease \in [Calls -> 0..MaxTime + TTL \cup {NoRow}]
          /\ beat \in [Calls -> 0..MaxTime + Beat \cup {Off}]
          /\ gate \in 0..gates /\ stamp \in 0..MaxTime
          /\ mine \in [Calls -> 0..gates] /\ lapsed \subseteq Calls
          /\ looked \in [Calls -> 0..MaxTime]

InFlight == {c \in Calls : call[c] \in {"running", "closing"}}

\* Calls of a single process that last longer than a semaphore is kept.
Outlived == {c \in Calls : ~shared /\ now - looked[c] > GateTTL}

(* The peer never serves more calls than its cap, on all replicas together, *)
(* but for calls whose renewal failed once and calls of a single process    *)
(* that last longer than a semaphore is kept.                              *)
CapHeldUnlessLapsed == Cardinality(InFlight \ (lapsed \cup Outlived)) <= Cap

(* A slot is never held for long without a call: what a call that is over   *)
(* left in the table - cancelled while it asked, or its delete failed, or   *)
(* its process died - expires within one TTL of its end.  A cut call's      *)
(* heartbeat keeps its lease for ever.                                     *)
LeaseEndsUnlessCut == \A c \in Calls :
    call[c] = "done" => beat[c] = Off /\ lease[c] <= over[c] + TTL
=============================================================================
