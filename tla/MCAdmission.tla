---------------------------- MODULE MCAdmission ----------------------------
(***************************************************************************)
(* Instances of what stands before the router.  What admits a consumer's    *)
(* call: the verdicts on its key (by the tables of KeyAdmin or by the       *)
(* control plane), its rate, its budget and its place in the ingress.  What *)
(* the operator has of it: the pages of the dashboard, with the aggregates  *)
(* under them, and the configuration.  The ingress uses the budgets' store; *)
(* the others share no state with it or with each other, so a behaviour is  *)
(* one of one of them, and the rest stays as it began.                     *)
(***************************************************************************)
EXTENDS Ingress, BucketState, TLC

CONSTANTS c1, c2, c3, c4, c5, p1, p2, w1, w2, None,
          AdminReplicas, ApiKeys, Provisioned, RotationGrace, KeyHorizon, MaxSaves,
          Resolvers, ResolveTTL, NegativeTTL, ResolveGrace, ResolveTime, ResolveHorizon,
          MaxVersion,
          PagedCalls, Viewers, HourTicks, RecentTicks, OlderTicks, RetainTicks,
          Lag, Period, SnapTTL, PageHorizon,
          Changes, Knobs, KnobValues, Providers, KeyVariables, KeyValues, ConfigFile

VARIABLES which, clock,
          call, hourly, covered, rolling, lastRun, late, snap, viewer, newest,
          knobs, overlay, keyfile, router, request, told, clobbered, doubted,
          rec, digests, hashes, mirror, edit, saves, said, saidLive, lost,
          truth, since, topic, cache, leader, req, served

ofBucket  == <<tokens, updated, stamp, first, granted, setBack>>
ofKeyring == <<rec, digests, hashes, mirror, edit, saves, said, saidLive, lost>>
ofControl == <<truth, since, topic, cache, leader, req, served>>
ofPages   == <<call, hourly, covered, rolling, lastRun, late, snap, viewer, newest>>
ofConfig  == <<knobs, overlay, keyfile, router, request, told, clobbered, doubted>>
verdicts  == <<ofBucket, ofKeyring, ofControl>>
dashboard == <<ofPages, ofConfig>>
all == <<which, clock, vars, verdicts, dashboard>>

Bucket  == INSTANCE RateBucket WITH now <- clock
Keyring == INSTANCE KeyAdmin WITH
             now <- clock, Replicas <- AdminReplicas, Keys <- ApiKeys,
             Grace <- RotationGrace, MaxTime <- KeyHorizon
Control == INSTANCE ControlPlane WITH
             now <- clock, Requests <- Resolvers, TTL <- ResolveTTL, Grace <- ResolveGrace,
             CallTime <- ResolveTime, MaxTime <- ResolveHorizon
Pages   == INSTANCE Analytics WITH
             now <- clock, job <- rolling, excused <- late, Calls <- PagedCalls,
             Unit <- HourTicks, Hours <- RecentTicks, Older <- OlderTicks,
             Retain <- RetainTicks, MaxTime <- PageHorizon
Config  == INSTANCE OperatorConfig WITH
             file <- keyfile, task <- request, excused <- doubted, Requests <- Changes,
             Values <- KnobValues, Envs <- KeyVariables, Keys <- KeyValues, Base <- ConfigFile

\* What the theorems need of the constants.
ASSUME KeyringAssumption ==
    Provisioned \subseteq ApiKeys /\ ApiKeys # {} /\ RotationGrace \in Nat
\* A negative verdict is kept no longer than a positive one may be served.
ASSUME ControlAssumption ==
    /\ {ResolveTTL, ResolveGrace, ResolveTime, NegativeTTL, ResolveHorizon, MaxVersion} \subseteq Nat
    /\ NegativeTTL <= ResolveTTL + ResolveGrace
    /\ Control!Nobody \notin Resolvers
\* The hours that a run of the job recounts reach back over the whole of an hour
\* whose last row it was too early for.
ASSUME PageAssumption ==
    /\ HourTicks \in Nat \ {0}
    /\ {RecentTicks, OlderTicks, RetainTicks, Lag, Period, PageHorizon} \subseteq Nat
    /\ RecentTicks > Lag + Period
ASSUME ConfigAssumption ==
    /\ None \notin KeyVariables /\ None \notin KeyValues
    /\ ConfigFile \in [Providers -> KeyVariables \cup {None}]

FiveCalls  == {c1, c2, c3, c4, c5}
TwoCalls   == {c1, c2}
OneReplica == {p1}
HomeOf     == [c \in Calls |-> p1]
TwoWorkers == {w1, w2}
OneListed  == [p \in {p1, p2} |-> IF p = p1 THEN w1 ELSE None]
Symmetry   == Permutations(Budgeted) \cup Permutations(Calls \ Budgeted)

AdmissionInit ==
    /\ which \in {"ingress", "bucket", "keyring", "control", "pages", "config"}
    /\ Init /\ Bucket!Init /\ Keyring!Init /\ Control!Init /\ Pages!Init /\ Config!Init
    /\ which # "ingress" => faults = 0
    /\ which # "control" => topic = "key"

AdmissionNext ==
    /\ UNCHANGED which
    /\ \/ /\ which = "ingress" /\ Next
          /\ UNCHANGED <<clock, verdicts, dashboard>>
       \/ /\ which = "bucket" /\ Bucket!Next
          /\ UNCHANGED <<vars, ofKeyring, ofControl, dashboard>>
       \/ /\ which = "keyring" /\ Keyring!Next
          /\ UNCHANGED <<vars, ofBucket, ofControl, dashboard>>
       \/ /\ which = "control" /\ Control!Next
          /\ UNCHANGED <<vars, ofBucket, ofKeyring, dashboard>>
       \/ /\ which = "pages" /\ Pages!Next
          /\ UNCHANGED <<vars, verdicts, ofConfig>>
       \/ /\ which = "config" /\ Config!Next
          /\ UNCHANGED <<clock, vars, verdicts, ofPages>>

AdmissionSpec == AdmissionInit /\ [][AdmissionNext]_all

(* What the operator was last told of a key is what every replica answers,   *)
(* unless another handler's write lost it (KeyAdmin); a verdict of the       *)
(* control plane is never followed by an older one, and is served no longer  *)
(* than its time to live, the grace and two calls (ControlPlane).            *)
VerdictsHold ==
    /\ Keyring!VerdictsHoldUnlessLost
    /\ Control!VerdictNeverGoesBack /\ Control!RevocationTakesHold

(* The hourly aggregates count every call once, and a page that is built    *)
(* on them, by reads that worked, never lacks a call that an earlier one    *)
(* has shown (Analytics).                                                  *)
PagesHold == Pages!HoursComplete /\ Pages!PageNeverGoesBack

(* What was reported saved is stored, and the router runs with it, but for  *)
(* what a failed read or two overlapping requests undid (OperatorConfig).   *)
ConfigHolds == Config!ConfigHolds
=============================================================================
