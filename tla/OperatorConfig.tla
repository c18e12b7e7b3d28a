--------------------------- MODULE OperatorConfig ---------------------------
(***************************************************************************)
(* What the operator sets from the dashboard, and what the router makes of *)
(* it: the knob overrides and the operator-added providers, both kept in   *)
(* the host store as full sets that a writer replaces, and the provider    *)
(* keys, kept in an environment file.  A dashboard handler reads, changes  *)
(* and writes back, then asks the router to apply the change live; the     *)
(* router holds copies of all three, loaded when it starts.                *)
(*                                                                         *)
(* Two facts of the code make this hard.  A read of the store that fails   *)
(* returns the empty set, which the writer cannot tell from "nothing set"; *)
(* and the dashboard runs in several replicas, each request below being on *)
(* one of its own.  The router's reload runs in a thread of its pool.      *)
(***************************************************************************)
EXTENDS FiniteSets

CONSTANTS Requests,    \* the operator's requests, each made at most once
          Knobs,       \* names of the schema
          Values,      \* values a knob may be given
          Providers,   \* ids a provider may have
          Envs,        \* names of the key variables
          Keys,        \* key values
          Base,        \* provider -> its variable in the config file, or None
          None

VARIABLES
    knobs,       \* settings_overrides: knob -> value, None when not overridden
    overlay,     \* provider_overlays: provider -> its variable, None when absent
    file,        \* .env.secrets: variable -> key
    router,      \* the router's copies, and whether it is up
    task,        \* where each request is
    told,        \* ghost: what the operator was told was saved
    clobbered,   \* ghost: a full set was written back over a set not read
    excused      \* ghost: why the router may differ from what is stored

vars == <<knobs, overlay, file, router, task, told, clobbered, excused>>

Settings == [Knobs -> Values \cup {None}]
Catalogs == [Providers -> Envs \cup {None}]
Secrets == [Envs -> Keys \cup {None}]

Unset == [k \in Knobs |-> None]
Unlisted == [p \in Providers |-> None]
Keyless == [e \in Envs |-> None]
Free == [stage |-> "free"]

(* A provider that is already in the catalog is never overwritten.         *)
Installed(catalog, listed) ==
    [p \in Providers |-> IF catalog[p] # None THEN catalog[p] ELSE listed[p]]

(* The catalog a dashboard reads: the config file and the overlay.         *)
Merged(listed) == Installed(Base, listed)

(* A new provider's id is not in the catalog; its form is left out.        *)
NewTo(listed, p) == Merged(listed)[p] = None

(* A read answers with what is stored or, after any error, with nothing.   *)
Reads(stored, nothing) == {stored, nothing}

Init ==
    /\ knobs = Unset /\ overlay = Unlisted /\ file = Keyless
    /\ router = [up |-> TRUE, knobs |-> Unset, catalog |-> Merged(Unlisted), keys |-> Keyless]
    /\ task = [r \in Requests |-> Free]
    /\ told = [knobs |-> Unset, listed |-> {}]
    /\ clobbered = FALSE
    /\ excused = FALSE

InFlight == {r \in Requests : task[r].stage \notin {"free", "done"}}
Step(r, t) == task' = [task EXCEPT ![r] = t]
Finish(r) == task' = [task EXCEPT ![r] = [stage |-> "done"]]

(* Some other request of these kinds is under way.                         *)
Overlaps(r, kinds) == \E q \in InFlight \ {r} : task[q].kind \in kinds

-----------------------------------------------------------------------------
(* Knobs: dashboard_set_config.                                            *)

(* The set that replaces the stored one.                                   *)
OnlyChanged(seen, k, v) == [Unset EXCEPT ![k] = v]
Changed(seen, k, v) == [seen EXCEPT ![k] = v]

SetKnob(r, k, v) ==
    /\ task[r] = Free
    /\ \E seen \in Reads(knobs, Unset) :
           Step(r, [stage |-> "write", kind |-> "knob", name |-> k, val |-> v, seen |-> seen])
    /\ UNCHANGED <<knobs, overlay, file, router, told, clobbered, excused>>

WriteKnobs(r) ==
    LET t == task[r] IN
    /\ t.stage = "write" /\ t.kind = "knob"
    /\ \/ /\ knobs' = Changed(t.seen, t.name, t.val)
          /\ told' = [told EXCEPT !.knobs[t.name] = t.val]
          /\ clobbered' = (clobbered \/ t.seen # knobs)
          /\ Step(r, [stage |-> "apply", kind |-> "knob"])
       \/ /\ Finish(r)                         \* set_overrides failed: a 400
          /\ UNCHANGED <<knobs, told, clobbered>>
    /\ UNCHANGED <<overlay, file, router, excused>>

(* /x/config/reload: the router reads the store in one thread ...          *)
ReloadRead(r) ==
    /\ task[r].stage = "apply" /\ task[r].kind = "knob" /\ router.up
    /\ \E seen \in Reads(knobs, Unset) :
           /\ Step(r, [stage |-> "keep", kind |-> "knob", seen |-> seen])
           /\ excused' = (excused \/ seen # knobs)
    /\ UNCHANGED <<knobs, overlay, file, router, told, clobbered>>

(* ... and keeps what it read, whatever a later reload kept meanwhile.     *)
ReloadKeep(r) ==
    /\ task[r].stage = "keep" /\ router.up
    /\ router' = [router EXCEPT !.knobs = task[r].seen]
    /\ excused' = (excused \/ Overlaps(r, {"knob"}))
    /\ Finish(r)
    /\ UNCHANGED <<knobs, overlay, file, told, clobbered>>

-----------------------------------------------------------------------------
(* Providers: dashboard_add_provider.                                      *)

Upsert(e, key) == file' = [file EXCEPT ![e] = key]

(* The id must be new to the catalog as read; the key goes to the file     *)
(* first.  A variable another provider uses may be named: a key is given.  *)
AddProvider(r, p, e, key) ==
    /\ task[r] = Free
    /\ \E seen \in Reads(overlay, Unlisted) : NewTo(seen, p)
    /\ \/ /\ Upsert(e, key)
          /\ Step(r, [stage |-> "list", kind |-> "add", name |-> p, env |-> e, val |-> key])
       \/ Finish(r) /\ UNCHANGED file          \* the file cannot be written
    /\ UNCHANGED <<knobs, overlay, router, told, clobbered, excused>>

ReadList(r) ==
    LET t == task[r] IN
    /\ t.stage = "list"
    /\ \E seen \in Reads(overlay, Unlisted) :
           Step(r, [stage |-> "write", kind |-> "add", name |-> t.name,
                    env |-> t.env, val |-> t.val, seen |-> seen])
    /\ UNCHANGED <<knobs, overlay, file, router, told, clobbered, excused>>

(* When the list cannot be saved the request fails and its key stays in    *)
(* the file, where a provider that shares the variable will find it.       *)
WriteList(r) ==
    LET t == task[r] IN
    /\ t.stage = "write" /\ t.kind = "add"
    /\ \/ /\ overlay' = [t.seen EXCEPT ![t.name] = t.env]
          /\ told' = [told EXCEPT !.listed = @ \cup {t.name}]
          /\ clobbered' = (clobbered \/ t.seen # overlay)
          /\ Step(r, [stage |-> "apply", kind |-> "add", name |-> t.name,
                      env |-> t.env, val |-> t.val])
          /\ UNCHANGED excused
       \/ /\ Finish(r)
          /\ excused' = TRUE
          /\ UNCHANGED <<overlay, told, clobbered>>
    /\ UNCHANGED <<knobs, file, router>>

(* /x/providers: a provider the router already has is refused, key and     *)
(* all, and the operator is told that the change was not applied live.     *)
ApplyProvider(r) ==
    LET t == task[r] IN
    /\ t.stage = "apply" /\ t.kind = "add" /\ router.up
    /\ IF router.catalog[t.name] = None
       THEN /\ router' = [router EXCEPT !.keys[t.env] = t.val,
                 !.catalog = Installed(@, [Unlisted EXCEPT ![t.name] = t.env])]
            /\ excused' = (excused \/ Overlaps(r, {"add", "key"}))
       ELSE /\ excused' = TRUE
            /\ UNCHANGED router
    /\ Finish(r)
    /\ UNCHANGED <<knobs, overlay, file, told, clobbered>>

-----------------------------------------------------------------------------
(* Keys: dashboard_update_provider_key.  A blind read is a 404.            *)

ReplaceKey(r, p, key) ==
    /\ task[r] = Free
    /\ \E seen \in Reads(overlay, Unlisted) :
           LET e == Merged(seen)[p] IN
           /\ e # None
           /\ Upsert(e, key)
    /\ Step(r, [stage |-> "apply", kind |-> "key", name |-> p, val |-> key])
    /\ UNCHANGED <<knobs, overlay, router, told, clobbered, excused>>

(* /x/provider-key: the router finds the variable in its own catalog.      *)
ApplyKey(r) ==
    LET t == task[r]  e == router.catalog[t.name] IN
    /\ t.stage = "apply" /\ t.kind = "key" /\ router.up
    /\ IF e # None
       THEN /\ router' = [router EXCEPT !.keys[e] = t.val]
            /\ excused' = (excused \/ Overlaps(r, {"add", "key"}))
       ELSE /\ excused' = TRUE
            /\ UNCHANGED router
    /\ Finish(r)
    /\ UNCHANGED <<knobs, overlay, file, told, clobbered>>

(* The router does not answer (it is down, or ten seconds have passed).    *)
NotApplied(r) ==
    /\ task[r].stage \in {"apply", "keep"}
    /\ Finish(r)
    /\ excused' = TRUE
    /\ UNCHANGED <<knobs, overlay, file, router, told, clobbered>>

-----------------------------------------------------------------------------
(* The router starts again: settings and keys first, the overlay later     *)
(* (the model metadata is fetched in between), and then it serves.         *)

StartRouter ==
    /\ router.up
    /\ \E seen \in Reads(knobs, Unset) :
           /\ router' = [up |-> FALSE, knobs |-> seen, catalog |-> Merged(Unlisted),
                         keys |-> file]
           /\ excused' = (seen # knobs \/ InFlight # {})
    /\ UNCHANGED <<knobs, overlay, file, task, told, clobbered>>

RouterServes ==
    /\ ~router.up
    /\ \E seen \in Reads(overlay, Unlisted) :
           /\ router' = [router EXCEPT !.up = TRUE, !.catalog = Installed(@, seen)]
           /\ excused' = (excused \/ seen # overlay)
    /\ UNCHANGED <<knobs, overlay, file, task, told, clobbered>>

(* The providers a request may be routed to: before each ranking the host  *)
(* disables those without a key and enables those that have got one.       *)
Routable == {p \in Providers : /\ router.catalog[p] # None
                               /\ router.keys[router.catalog[p]] # None}

Next ==
    \/ \E r \in Requests :
          \/ \E k \in Knobs, v \in Values \cup {None} : SetKnob(r, k, v)
          \/ \E p \in Providers, e \in Envs, key \in Keys : AddProvider(r, p, e, key)
          \/ \E p \in Providers, key \in Keys : ReplaceKey(r, p, key)
          \/ WriteKnobs(r) \/ ReloadRead(r) \/ ReloadKeep(r)
          \/ ReadList(r) \/ WriteList(r) \/ ApplyProvider(r)
          \/ ApplyKey(r) \/ NotApplied(r)
    \/ StartRouter
    \/ RouterServes

Spec == Init /\ [][Next]_vars

-----------------------------------------------------------------------------
(* What was reported saved is still stored, as last written, however many  *)
(* requests and restarts came since; excused only when some writer put a   *)
(* full set back over one that had changed, or that it had failed to read. *)
SavedKept ==
    ~clobbered => /\ knobs = told.knobs
                  /\ \A p \in told.listed : overlay[p] # None

(* When nothing is under way the router runs with what is stored: the same *)
(* knobs, the same providers, and for each of them the key in the file; and *)
(* every provider reported saved has one and is not disabled for want of it. *)
(* Excused, until the next restart, when the operator was told that the    *)
(* change was not applied, when a save failed half-way, when a read failed *)
(* and when two requests overlapped.                                       *)
RouterAgrees ==
    (router.up /\ InFlight = {} /\ ~excused /\ ~clobbered) =>
        /\ router.knobs = knobs
        /\ router.catalog = Merged(overlay)
        /\ told.listed \subseteq Routable
        /\ \A p \in Providers :
              router.catalog[p] # None =>
                  router.keys[router.catalog[p]] = file[router.catalog[p]]

ConfigHolds == SavedKept /\ RouterAgrees

=============================================================================
