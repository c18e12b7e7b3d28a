------------------------------ MODULE KeyAdmin ------------------------------
(***************************************************************************)
(* The API keys of one consumer: the dashboard handlers that create,        *)
(* rotate and revoke them and change the consumer's status (auth_proxy.py,  *)
(* dashboard_create_key, dashboard_revoke_key, dashboard_update_consumer),  *)
(* the tables they write (host_store.py, set_consumer_keys), and the answer *)
(* every replica's _caller_auth gives from them.                            *)
(*                                                                         *)
(* A handler reads the records, edits its copy and writes the full set back *)
(* with targeted changes of the digest table: two transactions.  It awaits  *)
(* nothing in between, so one replica runs one handler at a time; handlers   *)
(* of different replicas interleave.  Whether its read failed is a module   *)
(* global (_issued_keys_load_failed) that worker threads of the same        *)
(* replica set as well.                                                    *)
(*                                                                         *)
(* Simplifications: one consumer; a key is its digest; the two local maps   *)
(* are one set; routes and limits travel with the record like the status.   *)
(***************************************************************************)
EXTENDS Integers

CONSTANTS Replicas, Keys,
          Provisioned, \* keys every replica is deployed with
          Grace,       \* grace period of a rotation
          MaxTime, MaxSaves   \* bounds: the clock, writes of the records

VARIABLES now,
          rec,      \* consumer_keys: status, and each key's state and deadline
          digests,  \* consumer_key_digests
          hashes,   \* CALLER_KEYS and CALLER_KEY_HASHES of each replica
          mirror,   \* its PVC copy, read at its next start
          edit,     \* the handler at work: what it does, to which key, its copy,
                    \* whether its read succeeded and whether the flag
                    \* _issued_keys_load_failed says so
          saves,    \* writes so far
          said,     \* ghost: what the operator was last told of each key
          saidLive, \* ghost: the status the operator was last told
          lost      \* ghost: what a handler overwrote that its copy did not show

store == <<rec, digests>>
local == <<hashes, mirror>>
ghosts == <<said, saidLive, lost>>
vars == <<now, store, local, edit, saves, ghosts>>

States == {"none", "active", "revoked"}
Never == -1
Record == [live : BOOLEAN, state : [Keys -> States], until : [Keys -> Int]]
Blank == [live |-> TRUE, state |-> [k \in Keys |-> "none"], until |-> [k \in Keys |-> Never]]
Kinds == {"create", "rotate", "revoke"} \X Keys
           \cup {"enable", "disable"} \X {CHOOSE k \in Keys : TRUE}
NoEdit == [kind |-> "idle"]

\* _normalize_consumer_record: keys of the local maps count as active.
View(p, r) == [r EXCEPT !.state = [k \in Keys |->
    IF r.state[k] = "none" /\ k \in hashes[p] THEN "active" ELSE r.state[k]]]

Init == /\ now = 0 /\ rec = Blank /\ digests = Provisioned
        /\ hashes = [p \in Replicas |-> Provisioned] /\ mirror = hashes
        /\ edit = [p \in Replicas |-> NoEdit] /\ saves = 0
        /\ said = [k \in Keys |-> IF k \in Provisioned THEN "issued" ELSE "none"]
        /\ saidLive = TRUE /\ lost = {}

\* _caller_auth: the owner from the local maps or the digest table, then the
\* consumer's status and the key's own record.
KeyAllows(r, k) == r.state[k] # "revoked" /\ (r.until[k] = Never \/ now < r.until[k])

\* consumer_for_digest, for a key the local maps do not have.
Resolves(p, k) == k \in hashes[p] \/ k \in digests

Accepts(p, k) == /\ Resolves(p, k)
                 /\ rec.live /\ KeyAllows(View(p, rec), k)

(***************************************************************************)
(* The handlers                                                            *)
(***************************************************************************)
\* _writable_consumer_records: a read that fails leaves the local view.
Load(p, kind, k) ==
    /\ edit[p] = NoEdit /\ saves < MaxSaves
    /\ kind \in {"create", "rotate"} => said[k] = "none"
    /\ \E ok \in BOOLEAN :
         edit' = [edit EXCEPT ![p] = [kind |-> kind, key |-> k, read |-> ok, flag |-> ok,
                                      copy |-> View(p, IF ok THEN rec ELSE Blank)]]
    /\ UNCHANGED <<now, store, local, saves, ghosts>>

\* Another thread of the replica reads the records meanwhile (_consumer_meta).
LoadElsewhere(p) ==
    /\ edit[p] # NoEdit /\ edit' = [edit EXCEPT ![p].flag = ~@]
    /\ UNCHANGED <<now, store, local, saves, ghosts>>

\* The read failed, the key is not the consumer's, or the write fails.
Refuse(p) == /\ edit[p] # NoEdit /\ edit' = [edit EXCEPT ![p] = NoEdit]
             /\ UNCHANGED <<now, store, local, saves, ghosts>>

\* A rotated key gets its deadline unless it has one.
Rotated(c, k) == c.state[k] = "active" /\ c.until[k] = Never

\* Mutant of Revoked: only the digest is deleted.
Unrecorded(c, k) == c

Revoked(c, k) == [c EXCEPT !.state[k] = "revoked"]

Issued(c, k, rotate) ==
    [c EXCEPT !.state[k] = "active",
              !.until = [j \in Keys |-> IF rotate /\ Rotated(c, j) THEN now + Grace
                                        ELSE c.until[j]]]

WithStatus(c, live) == [c EXCEPT !.live = live]

Edited(e) ==
    CASE e.kind \in {"create", "rotate"} -> Issued(e.copy, e.key, e.kind = "rotate")
      [] e.kind = "revoke" -> Revoked(e.copy, e.key)
      [] e.kind \in {"enable", "disable"} -> WithStatus(e.copy, e.kind = "enable")

\* The key set a create or a revoke leaves in a digest set.
WithKey(e, S) == CASE e.kind \in {"create", "rotate"} -> S \cup {e.key}
                   [] e.kind = "revoke" -> S \ {e.key}
                   [] OTHER -> S

\* What the operator reads in the answer.
Told(e) == [k \in Keys |->
    CASE k = e.key /\ e.kind = "revoke" -> "revoked"
      [] k = e.key /\ e.kind \in {"create", "rotate"} -> "issued"
      [] k # e.key /\ e.kind = "rotate" /\ said[k] = "issued" /\ Rotated(e.copy, k) -> "rotated"
      [] OTHER -> said[k]]

\* set_consumer_keys, then the local map and its mirror, which may fail.
Save(p) ==
    LET e == edit[p] IN
    /\ e # NoEdit /\ e.flag /\ saves < MaxSaves
    /\ edit' = [edit EXCEPT ![p] = NoEdit]
    /\ e.kind = "revoke" => e.copy.state[e.key] # "none"
    /\ rec' = Edited(e) /\ digests' = WithKey(e, digests)
    /\ hashes' = [hashes EXCEPT ![p] = WithKey(e, @)]
    /\ \/ mirror' = [mirror EXCEPT ![p] = hashes'[p]]
       \/ UNCHANGED mirror
    /\ saves' = saves + 1 /\ said' = Told(e)
    /\ saidLive' = IF e.kind \in {"enable", "disable"} THEN rec'.live ELSE saidLive
    /\ lost' = lost \cup {k \in Keys : \/ View(p, rec).state[k] # e.copy.state[k]
                                       \/ rec.until[k] # e.copy.until[k]}
                    \cup (IF rec.live = e.copy.live THEN {} ELSE {"status"})
    /\ UNCHANGED now

\* A new process: the map is the mirror, and its keys are put into the shared
\* resolver unless the store is down (startup, upsert_consumer_key_digests).
Restart(p) ==
    /\ edit' = [edit EXCEPT ![p] = NoEdit]
    /\ hashes' = [hashes EXCEPT ![p] = mirror[p]]
    /\ digests' \in {digests, digests \cup mirror[p]}
    /\ UNCHANGED <<now, rec, mirror, saves, ghosts>>

Tick == now < MaxTime /\ now' = now + 1 /\ UNCHANGED <<store, local, edit, saves, ghosts>>

Next == \/ Tick
        \/ \E p \in Replicas : \/ \E e \in Kinds : Load(p, e[1], e[2])
                               \/ LoadElsewhere(p) \/ Refuse(p) \/ Save(p) \/ Restart(p)

Spec == Init /\ [][Next]_vars

TypeOK == /\ now \in 0..MaxTime /\ rec \in Record /\ digests \subseteq Keys
          /\ hashes \in [Replicas -> SUBSET Keys] /\ mirror \in [Replicas -> SUBSET Keys]
          /\ \A p \in Replicas : edit[p] = NoEdit \/ edit[p].copy \in Record
          /\ saves \in 0..MaxSaves /\ lost \subseteq Keys \cup {"status"}

(* What the operator was told is what every replica answers, whatever       *)
(* replicas restart with an old map or miss the digest: a revoked key is    *)
(* refused, a rotated one is refused once its grace is over, an issued one  *)
(* is accepted while the consumer is active - unless a handler of another   *)
(* replica, or one whose failed read went unnoticed, overwrote it.          *)
VerdictsHoldUnlessLost == \A p \in Replicas, k \in Keys \ lost :
    /\ said[k] = "revoked" => ~Accepts(p, k)
    /\ said[k] = "rotated" /\ now >= rec.until[k] => ~Accepts(p, k)
    /\ said[k] = "issued" /\ "status" \notin lost => (Accepts(p, k) <=> saidLive)
=============================================================================
