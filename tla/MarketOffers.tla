---------------------------- MODULE MarketOffers ----------------------------
(***************************************************************************)
(* The sellers of a family that the marketplace offers (sources/antseed.py,  *)
(* offers_sync; host_store.py, marketplace_route_health): each attempt at a  *)
(* seller leaves an observation in the shared store, from which every rank   *)
(* derives the cooldowns of a route (a seller and a family) and of a whole   *)
(* seller, drops what is cooling down, and keeps the best TopN sellers of    *)
(* each family, those with proven health first.  A rank whose read of the   *)
(* observations fails knows of no cooldown and no health.                  *)
(*                                                                         *)
(* What is not listed of late, or refused by the operator or the buyer      *)
(* (lists, price caps, reputation), is a set of routes; reachability,       *)
(* reputation and price are one order of preference, the sellers' numbers.  *)
(* Attempts under way when a seller begins to cool down land later.        *)
(***************************************************************************)
EXTENDS Integers, Sequences, FiniteSets

CONSTANTS Sellers,     \* numbers: lower is preferred
          Families,
          TopN,        \* antseed.offers_top_n
          Base, Most,  \* cooldowns: error kind -> first and longest
          SellerBase, SellerMost,
          Window,      \* ROUTE_HEALTH_WINDOW_MS
          Sample,      \* sample_limit
          MaxFlights, MaxSeen, MaxTime  \* bounds

VARIABLES now,
          seen,     \* observations, oldest first
          flights,  \* attempts under way: route -> how many
          barred,   \* routes not listed of late, or refused
          blind     \* ghost: route -> the observations there were when a rank
                    \* whose read failed last chose it

vars == <<now, seen, flights, barred, blind>>

Routes == Sellers \X Families

\* request: the caller's fault; model: the seller lacks it; rate: too many
\* calls; fault: the seller or the way to it.
Kinds == {"ok", "request", "model", "rate", "fault"}

Init == /\ now = 0 /\ seen = <<>> /\ flights = [r \in Routes |-> 0]
        /\ barred \in {{}} \cup {{r} : r \in Routes} /\ blind = [r \in Routes |-> 0]

(***************************************************************************)
(* Health from the newest observations of one identity                     *)
(***************************************************************************)
Of(r)       == {i \in DOMAIN seen : seen[i].route = r /\ seen[i].at >= now - Window}
OfSeller(s) == {i \in DOMAIN seen : seen[i].route[1] = s /\ seen[i].at >= now - Window}

Recent(all) == {i \in all : Cardinality({j \in all : j > i}) < Sample}

\* Mutant of Enders: a caller's fault ends a streak as an answer would.
StreakEnders == {"ok", "request"}

Enders      == {"ok"}
RouteFault  == {"model", "rate", "fault"}
SellerFault == {"rate", "fault"}

\* _fold_health_rows: the attributable failures since the last success.
Streak(all, faults) == {i \in Recent(all) : /\ seen[i].kind \in faults
                                            /\ \A j \in Recent(all) : j > i => seen[j].kind \notin Enders}

Newest(indices) == CHOOSE i \in indices : \A j \in indices : j <= i
Lesser(a, b)    == IF a < b THEN a ELSE b

\* _cooldown_until: twice as long for each failure of the streak, up to a most.
Until(streak, first, most) ==
    IF streak = {} THEN 0
    ELSE LET last == seen[Newest(streak)]
         IN  last.at + Lesser(most[last.kind], first[last.kind] * 2 ^ (Cardinality(streak) - 1))

RouteStreak(r)  == Streak(Of(r), RouteFault)
SellerStreak(s) == Streak(OfSeller(s), SellerFault)

Cooling(r) == \/ now < Until(RouteStreak(r), Base, Most)
              \/ now < Until(SellerStreak(r[1]), SellerBase, SellerMost)

(***************************************************************************)
(* The offers                                                              *)
(***************************************************************************)
Answered(all) == \E i \in Recent(all) : seen[i].kind = "ok"

\* 0 proven healthy, 1 unexplored, 2 failed and to be tried again.
Tier(streak, all) == IF streak # {} THEN 2 ELSE IF Answered(all) THEN 0 ELSE 1

RouteTier(r)  == Tier(RouteStreak(r), Of(r))
SellerTier(s) == Tier(SellerStreak(s), OfSeller(s))
Health(r) == IF RouteTier(r) > SellerTier(r[1]) THEN RouteTier(r) ELSE SellerTier(r[1])

\* marketplace_route_health, when it fails, says that nothing was observed.
Admitted(f, read) == {s \in Sellers : <<s, f>> \notin barred /\ (read => ~Cooling(<<s, f>>))}

Better(s, t, f, read) ==
    \/ read /\ Health(<<s, f>>) < Health(<<t, f>>)
    \/ (read => Health(<<s, f>>) = Health(<<t, f>>)) /\ s < t

Kept(f, read) == {s \in Admitted(f, read) :
                    Cardinality({t \in Admitted(f, read) : Better(t, s, f, read)}) < TopN}

(***************************************************************************)
(* Steps                                                                   *)
(***************************************************************************)
Attempt(r, read) == /\ r[1] \in Kept(r[2], read) /\ flights[r] < MaxFlights
                    /\ flights' = [flights EXCEPT ![r] = @ + 1]
                    /\ blind' = IF read THEN blind ELSE [blind EXCEPT ![r] = Len(seen)]
                    /\ UNCHANGED <<now, seen, barred>>

Observe(r, kind) == /\ flights[r] > 0 /\ Len(seen) < MaxSeen
                    /\ flights' = [flights EXCEPT ![r] = @ - 1]
                    /\ seen' = Append(seen, [route |-> r, kind |-> kind, at |-> now])
                    /\ UNCHANGED <<now, barred, blind>>

\* The queue of the writer is full, or the write fails, or the caller hangs up.
Lose(r) == /\ flights[r] > 0 /\ flights' = [flights EXCEPT ![r] = @ - 1]
           /\ UNCHANGED <<now, seen, barred, blind>>

Tick == /\ now < MaxTime /\ now' = now + 1
        /\ UNCHANGED <<seen, flights, barred, blind>>

Next == \/ \E r \in Routes : \/ \E read \in BOOLEAN : Attempt(r, read)
                              \/ \E kind \in Kinds : Observe(r, kind)
                              \/ Lose(r)
        \/ Tick

Spec == Init /\ [][Next]_vars

(***************************************************************************)
(* What must hold                                                          *)
(***************************************************************************)
\* A seller that failed is not offered again before its cooldown, whatever else
\* callers did wrong meanwhile: only an answer it gave lifts it.  A rank whose read
\* fails offers it all the same, and the calls of such a rank may push the failure
\* out of the observations that the next one reads.
CooldownServed ==
    \A i \in DOMAIN seen, f \in Families :
        LET r == seen[i].route
        IN  /\ seen[i].kind \in {"model", "rate", "fault"} /\ f = r[2]
            /\ now < seen[i].at + Base[seen[i].kind]
            /\ \A j \in DOMAIN seen : j > i /\ seen[j].route = r => seen[j].kind # "ok"
            /\ blind[r] < i
            => r[1] \notin Kept(f, TRUE)

\* A seller is never shut out for good, nor for what its callers did wrong.
NeverExiled ==
    \A r \in Routes : Cooling(r) =>
        \E i \in OfSeller(r[1]) : /\ seen[i].kind \in RouteFault
                                 /\ now < seen[i].at + Most[seen[i].kind]
=============================================================================
