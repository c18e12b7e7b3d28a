----------------------------- MODULE MCRouting -----------------------------
(***************************************************************************)
(* Instances of what answers an admitted call.  How it is answered: one     *)
(* streamed answer with its provider attempts, the stream of one provider,  *)
(* a flow of several calls, the choice of its policy, and the conversation  *)
(* as each provider is told it.  With what: the offers of the market, the   *)
(* families their names resolve to, the money behind them, the cap on calls *)
(* to a peer, the accounts of the Codex subscription and the links to sign  *)
(* them in.  They share no state that the models keep (all the others can   *)
(* do to an answer is to make an attempt fail), so a behaviour is one of    *)
(* one of them, and the rest stays as it began.                            *)
(***************************************************************************)
EXTENDS ChatStream, FiniteSets

CONSTANTS Policies, General, MaxRetries, DecisionTime,
          StaleAfter, Skew, PollPeriod, RefreshTime, MoneyHorizon,
          PeerCalls, PeerCap, LeaseTTL, Beat, GateTTL, LeaseHorizon,
          AccountNames, Default, MaxLogins, MaxRefresh,
          Links, Visits, LinkTTL, CodeTTL, GrantTime, MaxCodes, SigninHorizon,
          AdmittedFlows, MaxTries, CodexItems, MaxPieces, FirstToken, ReadTime,
          VendorOfToken, Versions, Markers, FamilySets, Services, Aliased,
          MarketSellers, MarketFamilies, TopOffers, RouteBase, RouteMost,
          PeerBase, PeerMost, HealthWindow, HealthSample,
          SellerCalls, MaxObserved, MarketHorizon,
          TalkNames, OtherTools, TalkIds, TalkParts,
          Nothing

\* What the theorems need of the constants.
ASSUME MoneyAssumption ==
    {StaleAfter, Skew, PollPeriod, RefreshTime, MoneyHorizon} \subseteq Nat
\* The beats that keep a lease come faster than it ends.
ASSUME LeaseAssumption ==
    /\ IsFiniteSet(PeerCalls) /\ {PeerCap, LeaseTTL, Beat, GateTTL, LeaseHorizon} \subseteq Nat
    /\ Beat < LeaseTTL
ASSUME ChatAssumption    == MaxAttempts \in Nat /\ MaxDeltas \in Nat
ASSUME AccountAssumption ==
    AccountNames \subseteq Nat \ {0} /\ IsFiniteSet(AccountNames) /\ MaxLogins \in Nat
ASSUME InviteAssumption  == GrantTime \in Nat /\ LinkTTL \in Nat
ASSUME StreamAssumption  == {"text", "summary"} \cap CodexItems = {}
\* The cooldowns of a route differ by no more than one doubling (15 and 30 minutes,
\* at most 1 and 6 hours, in a window of 24), a seller's are the shorter ones, and
\* no more calls to one route are under way than observations are read of it (64).
\* That doubling doubles is arithmetic that the provers do not know.
ASSUME OfferAssumption ==
    /\ HealthWindow \in Nat /\ HealthSample \in Nat \ {0} /\ SellerCalls \in 0 .. HealthSample
    /\ \A k, l \in {"model", "rate", "fault"} :
         /\ RouteBase[k] \in 0 .. HealthWindow /\ RouteMost[k] \in Nat
         /\ RouteBase[k] <= 2 * RouteBase[l] /\ RouteBase[k] <= RouteMost[l]
    /\ \A k \in {"rate", "fault"} : PeerBase[k] \in Nat /\ PeerMost[k] \in 0 .. RouteMost[k]
    /\ \A n \in 1 .. HealthSample :
         /\ 2 ^ (n - 1) \in Nat \ {0}
         /\ n > 1 => 2 ^ (n - 1) >= 2
\* A name is a sequence of segments, and has one.
ASSUME NameAssumption ==
    /\ \A s \in Services : s \in Seq({s[i] : i \in DOMAIN s}) \ {<<>>}
    /\ \A F \in FamilySets : IsFiniteSet(F) /\ \A f \in F : f \in Seq({f[i] : i \in DOMAIN f}) \ {<<>>}
\* No id is given twice, and none is a function's name.
ASSUME TalkAssumption ==
    /\ TalkIds \in Seq({TalkIds[i] : i \in DOMAIN TalkIds})
    /\ \A i, j \in DOMAIN TalkIds : TalkIds[i] = TalkIds[j] => i = j
    /\ \A i \in DOMAIN TalkIds : TalkIds[i] \notin TalkNames
\* A flow that is admitted is a finite graph without cycles, with an output.
ASSUME FlowAssumption == \A f \in AdmittedFlows :
    /\ f.nodes \subseteq Nat /\ IsFiniteSet(f.nodes)
    /\ f.inputs \in [f.nodes -> Seq(f.nodes)]
    /\ \E n \in f.nodes : f.kind[n] = "output"
    /\ \A T \in (SUBSET f.nodes) \ {{}} :
         \E n \in T : \A i \in DOMAIN f.inputs[n] : f.inputs[n][i] \notin T

VARIABLES which, clock,
          flow, done, values, phase, route, late, trace, status, tries, billed, unseen,
          client, history, offered, sent, minted, uttered,
          heard, reading, fold, saw, final, result, pieces,
          mode, legal, shown, stage, attempts, unmetered, choice, cost, charged, advice,
          seen, flights, barred, blind,
          families, vendor, alias, service, bound,
          escrow, row, credits, refresh, balance, since, written, doubted,
          shared, call, lease, beat, gate, stamp, mine, gates, over, lapsed, looked,
          file, logins, last, selected, cursor, held, path, flight, current, applied,
          invite, codes, spent, visit, stored, faulted

ofFlows    == <<flow, done, values, phase, route, late, trace, status, tries, billed, unseen>>
ofTalk     == <<client, history, offered, sent, minted, uttered>>
ofStream   == <<heard, reading, fold, saw, final, result, pieces>>
ofPolicy   == <<mode, legal, shown, stage, attempts, unmetered, choice, cost, charged, advice>>
ofOffers   == <<seen, flights, barred, blind>>
ofNames    == <<families, vendor, alias, service, bound>>
ofMoney    == <<escrow, row, credits, refresh, balance, since, written, doubted>>
ofLeases   == <<shared, call, lease, beat, gate, stamp, mine, gates, over, lapsed, looked>>
ofAccounts == <<file, logins, last, selected, cursor, held, path, flight, current, applied>>
ofInvites  == <<invite, codes, spent, visit, stored, faulted>>
answers    == <<vars, ofFlows, ofTalk, ofStream, ofPolicy>>
market     == <<ofOffers, ofNames, ofMoney>>
peers      == <<ofLeases, ofAccounts, ofInvites>>
all == <<which, clock, answers, market, peers>>

(* Flows: a join of a routed and a plain call over the input, and a routed, *)
(* rescued and skippable call over data that may itself be rescued.         *)
Node(type, inputs, routed, rescue, skip) ==
    [type |-> type, inputs |-> inputs, routed |-> routed, rescue |-> rescue, skip |-> skip]
FlowOf(nodes) ==
    [nodes |-> DOMAIN nodes,
     kind |-> [n \in DOMAIN nodes |-> nodes[n].type],
     inputs |-> [n \in DOMAIN nodes |-> nodes[n].inputs],
     routed |-> [n \in DOMAIN nodes |-> nodes[n].routed],
     rescue |-> [n \in DOMAIN nodes |-> nodes[n].rescue],
     skip |-> [n \in DOMAIN nodes |-> nodes[n].skip]]
In == Node("input", <<>>, FALSE, FALSE, FALSE)
OutOf(n) == Node("output", <<n>>, FALSE, FALSE, FALSE)
SmallFlows ==
    {FlowOf(<<Node("call", <<3, 4>>, FALSE, FALSE, FALSE), In,
              Node("call", <<2>>, TRUE, FALSE, FALSE),
              Node("call", <<2>>, FALSE, FALSE, FALSE), OutOf(1)>>),
     FlowOf(<<In, Node("call", <<3>>, TRUE, TRUE, TRUE),
              Node("data", <<1>>, FALSE, TRUE, FALSE), OutOf(2)>>)}

(* The conversation: ids in the order they are given.                       *)
TwoIds == <<"a", "b">>

(* Names: two tokens of one vendor, one of another, a name, a version.      *)
TwoVendors  == [claude |-> "A", anthropic |-> "A", xai |-> "X"]
Tokens      == DOMAIN TwoVendors
TwoFamilies == {{f, g} : f, g \in {<<"opus">>, <<"claude", "opus">>, <<"xai", "opus">>,
                                  <<"xai", "v4">>, <<"claude", "v4">>}}
SomeNames   == {<<"opus">>, <<"v4">>} \cup (Tokens \X {"opus", "v4"})
                 \cup {<<t, "opus", "fast">> : t \in Tokens}
                 \cup {<<s, t, "opus">> : s, t \in Tokens}
PlainOpus   == {<<"opus">>}

(* Cooldowns: a first and a longest one for each kind of failure.           *)
FirstOfRoute  == [model |-> 2, rate |-> 1, fault |-> 1]
LongOfRoute   == [model |-> 3, rate |-> 2, fault |-> 2]
FirstOfSeller == [rate |-> 1, fault |-> 1]
LongOfSeller  == [rate |-> 2, fault |-> 2]

Runner   == INSTANCE FlowRun WITH
              out <- values, spent <- billed, Flows <- AdmittedFlows
Talk     == INSTANCE Conversation WITH
              said <- uttered, Names <- TalkNames, Unusable <- OtherTools,
              CallIds <- TalkIds, MaxParts <- TalkParts
Stream   == INSTANCE CodexStream WITH
              now <- clock, last <- heard, phase <- reading, answer <- result,
              Items <- CodexItems, First <- FirstToken, Timeout <- ReadTime
Policy   == INSTANCE AutoPolicy WITH
              now <- clock, phase <- stage, selected <- choice, billed <- charged,
              Deadline <- DecisionTime
Offers   == INSTANCE MarketOffers WITH
              now <- clock, Sellers <- MarketSellers, Families <- MarketFamilies,
              TopN <- TopOffers, Base <- RouteBase, Most <- RouteMost,
              SellerBase <- PeerBase, SellerMost <- PeerMost, Window <- HealthWindow,
              Sample <- HealthSample, MaxFlights <- SellerCalls, MaxSeen <- MaxObserved,
              MaxTime <- MarketHorizon
Binding  == INSTANCE ServiceNames WITH
              Catalogs <- FamilySets
Money    == INSTANCE FundingGate WITH
              now <- clock, task <- refresh, excused <- doubted,
              Stale <- StaleAfter, Poll <- PollPeriod,
              CallTime <- RefreshTime, MaxTime <- MoneyHorizon
Leases   == INSTANCE PeerLeases WITH
              now <- clock, Calls <- PeerCalls, Cap <- PeerCap, TTL <- LeaseTTL,
              MaxTime <- LeaseHorizon
Accounts == INSTANCE CodexAccounts WITH
              Names <- AccountNames
Invites  == INSTANCE CodexInvites WITH
              now <- clock, CallTime <- GrantTime, MaxTime <- SigninHorizon

(* Where a component has several initial states, one stands for all while   *)
(* another component runs.                                                 *)
RoutingInit ==
    /\ which \in {"chat", "flows", "talk", "stream", "policy",
                  "offers", "names", "money", "leases", "accounts", "invites"}
    /\ Init /\ Stream!Init /\ Accounts!Init /\ Invites!Init
    /\ which # "chat" => kind = "chat"
    /\ which # "accounts" => file[Accounts!Legacy] = Accounts!NoFile
    /\ Runner!Init /\ (which # "flows" => flow = CHOOSE f \in AdmittedFlows : TRUE)
    /\ Talk!Init /\ (which # "talk" => client = "chat")
    /\ Policy!Init /\ (which # "policy" => mode = "off" /\ legal = {})
    /\ Leases!Init /\ (which # "leases" => shared)
    /\ Offers!Init /\ (which # "offers" => barred = {})
    /\ Money!Init /\ (which # "money" => escrow = 0)
    /\ IF which = "names"
       THEN Binding!Init
       ELSE /\ families = {<<"opus">>} /\ vendor = [f \in families |-> Nothing]
            /\ alias = <<Nothing, Nothing>>
            /\ service = Nothing /\ bound = Binding!NotBound

RoutingNext ==
    /\ UNCHANGED which
    /\ \/ /\ which = "chat" /\ Next
          /\ UNCHANGED <<clock, ofFlows, ofTalk, ofStream, ofPolicy, market, peers>>
       \/ /\ which = "flows" /\ Runner!Next
          /\ UNCHANGED <<clock, vars, ofTalk, ofStream, ofPolicy, market, peers>>
       \/ /\ which = "talk" /\ Talk!Next
          /\ UNCHANGED <<clock, vars, ofFlows, ofStream, ofPolicy, market, peers>>
       \/ /\ which = "stream" /\ Stream!Next
          /\ UNCHANGED <<vars, ofFlows, ofTalk, ofPolicy, market, peers>>
       \/ /\ which = "policy" /\ Policy!Next
          /\ UNCHANGED <<vars, ofFlows, ofTalk, ofStream, market, peers>>
       \/ /\ which = "offers" /\ Offers!Next
          /\ UNCHANGED <<answers, ofNames, ofMoney, peers>>
       \/ /\ which = "names" /\ Binding!Next
          /\ UNCHANGED <<clock, answers, ofOffers, ofMoney, peers>>
       \/ /\ which = "money" /\ Money!Next
          /\ UNCHANGED <<answers, ofOffers, ofNames, peers>>
       \/ /\ which = "leases" /\ Leases!Next
          /\ UNCHANGED <<answers, market, ofAccounts, ofInvites>>
       \/ /\ which = "accounts" /\ Accounts!Next
          /\ UNCHANGED <<clock, answers, market, ofLeases, ofInvites>>
       \/ /\ which = "invites" /\ Invites!Next
          /\ UNCHANGED <<answers, market, ofLeases, ofAccounts>>

RoutingSpec == RoutingInit /\ [][RoutingNext]_all /\ (which = "chat" => Fairness)

(* Every streamed request is answered and its run ended (ChatStream).       *)
EveryRequestEndsInTime == which = "chat" => EveryRequestEnds

(* One provider speaks, and all it said is written (ChatStream).            *)
ChatHolds == OneSpeakerUnlessInBand /\ EveryDeltaWritten

(* The cost of a flow, when given, is what its nodes were billed by the      *)
(* providers that answered them, and no node runs before its inputs (FlowRun). *)
FlowsHold == Runner!CostKnownIsSpent /\ Runner!NothingRunsEarly

(* A provider is told the conversation as it was (Conversation).            *)
ConversationKept == Talk!ConversationKept

(* A failed seller waits its cooldown, and none waits for ever.             *)
OffersHold == Offers!CooldownServed /\ Offers!NeverExiled

(* A name is never bound to another model (ServiceNames).                   *)
NeverAnotherModel == Binding!NeverAnotherModel

(* Paid offers are routable only on money lately seen (FundingGate).        *)
MoneyProvenUnlessExcused == Money!MoneyProvenUnlessExcused

(* The calls and leases of a peer respect its cap, and no slot is held for  *)
(* long without a call (PeerLeases).                                       *)
PeersHold == Leases!CapHeldUnlessLapsed /\ Leases!LeaseEndsUnlessCut

(* A finished answer is all the backend said, and no deadline ends a call   *)
(* that keeps to it (CodexStream).                                         *)
CodexStreamHolds == Stream!CodexStreamHolds

(* The policy that runs is legal when it is chosen, and what choosing it    *)
(* cost is told in full or not at all (AutoPolicy).                        *)
PolicyHolds == Policy!PolicyHolds

(* A change of a Codex account that was reloaded stays (CodexAccounts); all *)
(* accounts of one sign-in link are stored within two calls (CodexInvites). *)
AccountsHold == Accounts!AppliedSticks /\ Invites!UsedOnceUnlessOverlapping
=============================================================================
