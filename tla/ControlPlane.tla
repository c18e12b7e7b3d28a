---------------------------- MODULE ControlPlane ----------------------------
(***************************************************************************)
(* The ingress's view of the external control plane (control_plane_client.  *)
(* py): what it answers about one API key, resolve_key, and about one        *)
(* tenant's provider credentials, tenant_env.  Both answers are cached for a *)
(* while, and for a grace period more when the control plane is unreachable. *)
(* A key is looked up by one request at a time, the leader; requests that    *)
(* come meanwhile follow it.  Credentials are looked up by everyone.         *)
(*                                                                         *)
(* The truth at the control plane changes: its versions are numbered, and   *)
(* the odd ones are negative (the key is revoked, the map is empty).  A      *)
(* request is answered by the version current when the control plane         *)
(* handles it, and the answer may come later, within the HTTP timeout.       *)
(*                                                                         *)
(* Simplifications: one process and one question, a key or a tenant's        *)
(* credentials: the two do not interact.  An exception of a leader is its    *)
(* cancellation; the cache of keys may drop the entry at any time, to make   *)
(* room for others.                                                         *)
(***************************************************************************)
EXTENDS Integers

CONSTANTS Requests,
          TTL, NegativeTTL, Grace,  \* RESOLVE_TTL_S, NEGATIVE_TTL_S, RESOLVE_STALE_GRACE_S
          CallTime,                 \* longest HTTP call
          MaxTime, MaxVersion       \* bounds: the clock, changes of the truth

VARIABLES now,
          truth,    \* version current at the control plane
          since,    \* when each version ceased to be current
          topic,    \* the question: key or env
          cache,    \* its entry: version and time stamp
          leader,   \* _resolve_inflight: the request that asks about the key
          req,      \* what each request is doing
          served    \* ghost: the newest version served so far, whether an older
                    \* one was served after it, and the stalest verdict served

vars == <<now, truth, since, topic, cache, leader, req, served>>

NoEntry == [version |-> -1, at |-> 0]
Nobody == "nobody"
Idle == [at |-> "idle"]
Asked == [at |-> "asked", from |-> now, old |-> cache]

Active(e) == e.version % 2 = 0

Init == /\ now = 0 /\ truth = 0 /\ since = [v \in 0..MaxVersion |-> MaxTime]
        /\ topic \in {"key", "env"} /\ cache = NoEntry /\ leader = Nobody
        /\ req = [r \in Requests |-> Idle]
        /\ served = [newest |-> 0, older |-> FALSE, late |-> 0]

\* A verdict is given to a caller: how long ago was it still the truth?
Serve(e) ==
    served' = [served EXCEPT
        !.newest = IF e.version > @ THEN e.version ELSE @,
        !.older = @ \/ e.version < served.newest,
        !.late = IF now - since[e.version] > @ THEN now - since[e.version] ELSE @]

\* _entry_ttl: only a key's verdict is kept shorter when it is negative.
EntryTTL(e) == IF topic = "key" /\ ~Active(e) THEN NegativeTTL ELSE TTL

Fresh(e) == e # NoEntry /\ now - e.at <= EntryTTL(e)

\* Within its grace, and for a key only if positive.
InGrace(e, t) ==
    e # NoEntry /\ (topic = "key" => Active(e)) /\ t - e.at <= TTL + Grace

(***************************************************************************)
(* A request                                                               *)
(***************************************************************************)
\* Served from the cache.
Hit(r) == /\ req[r] = Idle /\ Fresh(cache) /\ Serve(cache)
          /\ UNCHANGED <<now, truth, since, topic, cache, leader, req>>

\* Mutant of Leads: every request asks for itself.
Stampede == TRUE

Leads == topic = "env" \/ leader = Nobody

Lookup(r) ==
    /\ req[r] = Idle /\ ~Fresh(cache)
    /\ IF Leads
       THEN /\ req' = [req EXCEPT ![r] = Asked]
            /\ leader' = IF topic = "key" THEN r ELSE leader
       ELSE req' = [req EXCEPT ![r] = [at |-> "following"]] /\ UNCHANGED leader
    /\ UNCHANGED <<now, truth, since, topic, cache, served>>

\* The control plane handles the call; its answer is on the way.
Handle(r) == /\ req[r].at = "asked"
             /\ req' = [req EXCEPT ![r] = [at |-> "answered", from |-> req[r].from,
                                           old |-> req[r].old, version |-> truth]]
             /\ UNCHANGED <<now, truth, since, topic, cache, leader, served>>

\* The leader's result, or its exception, is the followers' too.
EndOf(r) ==
    /\ leader' = Nobody
    /\ req' = [x \in Requests |-> IF x = r \/ req[x].at = "following" THEN Idle ELSE req[x]]

\* What the fresh entry is stamped with: a key's with the time the answer was
\* parsed, a tenant's with the time the request began.
Stamp(from) == IF topic = "key" THEN now ELSE from

Answered(r) ==
    /\ req[r].at = "answered"
    /\ cache' = [version |-> req[r].version, at |-> Stamp(req[r].from)]
    /\ Serve(cache') /\ EndOf(r) /\ UNCHANGED <<now, truth, since, topic>>

\* No answer: the entry that the request saw when it began is used for a while
\* longer; a key's is dropped after that.
Unreachable(r) ==
    /\ req[r].at \in {"asked", "answered"}
    /\ IF InGrace(req[r].old, req[r].from)
       THEN Serve(req[r].old) /\ UNCHANGED cache
       ELSE UNCHANGED served /\ cache' = IF topic = "key" THEN NoEntry ELSE cache
    /\ EndOf(r) /\ UNCHANGED <<now, truth, since, topic>>

\* A cancelled leader takes its followers with it; a cancelled follower only
\* stops waiting.
Cancel(r) ==
    /\ req[r] # Idle
    /\ IF leader = r THEN EndOf(r)
                     ELSE req' = [req EXCEPT ![r] = Idle] /\ UNCHANGED leader
    /\ UNCHANGED <<now, truth, since, topic, cache, served>>

(***************************************************************************)
(* The rest of the world                                                   *)
(***************************************************************************)
Evict == /\ topic = "key" /\ cache # NoEntry /\ cache' = NoEntry
         /\ UNCHANGED <<now, truth, since, topic, leader, req, served>>

Change == /\ truth < MaxVersion /\ truth' = truth + 1
          /\ since' = [since EXCEPT ![truth] = now]
          /\ UNCHANGED <<now, topic, cache, leader, req, served>>

\* No call outlives the HTTP timeout.
Tick == /\ now < MaxTime /\ now' = now + 1
        /\ \A r \in Requests : req[r].at \in {"asked", "answered"} =>
                                 now - req[r].from < CallTime
        /\ UNCHANGED <<truth, since, topic, cache, leader, req, served>>

Next == \/ Evict \/ Change \/ Tick
        \/ \E r \in Requests : \/ Hit(r) \/ Lookup(r) \/ Handle(r)
                               \/ Answered(r) \/ Unreachable(r) \/ Cancel(r)

Spec == Init /\ [][Next]_vars

TypeOK == /\ now \in 0..MaxTime /\ truth \in 0..MaxVersion
          /\ since \in [0..MaxVersion -> 0..MaxTime]
          /\ cache \in [version : -1..MaxVersion, at : 0..MaxTime]
          /\ leader \in Requests \cup {Nobody}

(* The verdict on a key never goes back: once a request was told that it is *)
(* revoked, no later one is told what was true before, be it from the cache, *)
(* from an answer that was long under way, or in grace (resolve_key's       *)
(* single flight).                                                          *)
VerdictNeverGoesBack == topic = "key" => ~served.older

(* A verdict is no staler than TTL and grace and the calls that fetched it   *)
(* and that failed to renew it.                                             *)
RevocationTakesHold ==
    served.late <= TTL + Grace + CallTime + IF topic = "key" THEN CallTime ELSE 0
=============================================================================
