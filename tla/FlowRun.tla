------------------------------ MODULE FlowRun ------------------------------
(***************************************************************************)
(* One run of an admitted flow: a graph of calls, data operations and one    *)
(* output that the host schedules node by node (flow_runner.py, run_flow;   *)
(* llm_router_host.py, execute_flow_async; flow_routing.py).  A call may    *)
(* first ask a decision model which policy to use; a node that fails ends   *)
(* the flow, or passes its first input on when it says on_error: input; a   *)
(* typed flow has a deadline that cuts the call it meets.  The price of the  *)
(* run is put together from the traces of its nodes.                       *)
(*                                                                         *)
(* A value is "empty" or "some".  The router may try several providers for   *)
(* one call or decision; each try costs 1 when it is billed, and whoever     *)
(* reads the answer sees the last try only, and may or may not be able to    *)
(* tell its cost.  The graph check and the router itself are outside this    *)
(* repository.                                                             *)
(***************************************************************************)
EXTENDS Integers, Sequences, Functions

CONSTANTS Flows,   \* [nodes, kind, inputs, routed, rescue, skip]: ids are numbers
          MaxTries \* _MAX_PROVIDER_ATTEMPTS

VARIABLES flow,    \* the flow that runs
          done,    \* nodes that ended
          out,     \* their values
          phase,   \* idle, or what the node that runs is at: routing, calling
          route,   \* what its decision cost, as far as known
          late,    \* the deadline has passed
          trace,   \* one entry per node that was run
          status,  \* running, ok or failed
          tries,   \* providers that failed it so far
          spent,   \* ghost: what the providers billed
          unseen   \* ghost: of that, what no trace that is read can say

vars == <<flow, done, out, phase, route, late, trace, status, tries, spent, unseen>>

Unknown == -1
NoRoute == -2

Source(f) == CHOOSE n \in f.nodes : f.kind[n] = "input"
Sink(f)   == CHOOSE n \in f.nodes : f.kind[n] = "output"

\* is_typed: only these flows have the deadline.
Typed(f) == \E n \in f.nodes : f.kind[n] = "data" \/ f.rescue[n] \/ f.skip[n]

Init == /\ flow \in Flows
        /\ done = {} /\ out = <<>> /\ phase = "idle" /\ route = NoRoute
        /\ late = FALSE /\ trace = <<>> /\ status = "running"
        /\ tries = 0 /\ spent = 0 /\ unseen = 0

(***************************************************************************)
(* The schedule: of the nodes whose inputs have all ended, the first        *)
(***************************************************************************)
InputsOf(n) == {flow.inputs[n][i] : i \in DOMAIN flow.inputs[n]}

\* Mutant of Ready: the nodes are taken as they are named.
ReadyOrNot == flow.nodes \ done

Ready == {n \in flow.nodes \ done : InputsOf(n) \subseteq done}
Due   == CHOOSE n \in Ready : \A other \in Ready : n <= other

At(kind) == status = "running" /\ phase = "idle" /\ Ready # {} /\ flow.kind[Due] = kind

\* out.get(pre, _EMPTY): a missing input would read as nothing.
ValueOf(n) == IF n \in DOMAIN out THEN out[n] ELSE "empty"
First(n)   == ValueOf(flow.inputs[n][1])

With(n, value) == [m \in DOMAIN out \cup {n} |-> IF m = n THEN value ELSE out[m]]

(***************************************************************************)
(* The end of a node: rescued by its first input, or the end of the flow     *)
(***************************************************************************)
End(n, ok, value, cost, decision) ==
    /\ trace' = Append(trace, [node |-> n, cost |-> cost, route |-> decision])
    /\ done' = done \cup {n} /\ phase' = "idle" /\ route' = NoRoute /\ tries' = 0
    /\ \/ ok /\ out' = With(n, value) /\ UNCHANGED status
       \/ ~ok /\ flow.rescue[n] /\ out' = With(n, First(n)) /\ UNCHANGED status
       \/ ~ok /\ ~flow.rescue[n] /\ status' = "failed" /\ UNCHANGED out

Input == /\ At("input")
          /\ done' = done \cup {Due} /\ \E v \in {"empty", "some"} : out' = With(Due, v)
          /\ UNCHANGED <<flow, phase, route, late, trace, status, tries, spent, unseen>>

Output == /\ At("output")
          /\ done' = done \cup {Due} /\ out' = With(Due, First(Due))
          /\ UNCHANGED <<flow, phase, route, late, trace, status, tries, spent, unseen>>

Skipped(n) == flow.skip[n] /\ First(n) = "empty"

Skip == /\ At("data") \/ At("call")
        /\ Skipped(Due) /\ End(Due, TRUE, "empty", 0, NoRoute)
        /\ UNCHANGED <<flow, late, spent, unseen>>

\* An operation on data refuses records of the wrong shape, or too large.
Compute == /\ At("data") /\ ~Skipped(Due)
           /\ \E ok \in BOOLEAN, v \in {"empty", "some"} : End(Due, ok, v, 0, NoRoute)
           /\ UNCHANGED <<flow, late, spent, unseen>>

(***************************************************************************)
(* A call                                                                  *)
(***************************************************************************)
Overdue == /\ At("call") /\ ~Skipped(Due) /\ late
           /\ End(Due, FALSE, "empty", 0, NoRoute)
           /\ UNCHANGED <<flow, late, spent, unseen>>

Begin == /\ At("call") /\ ~Skipped(Due) /\ ~late
         /\ phase' = IF flow.routed[Due] THEN "routing" ELSE "calling"
         /\ UNCHANGED <<flow, done, out, route, late, trace, status, tries, spent, unseen>>

\* execute_async: a provider fails the call, billed or not, and the router asks
\* for another one.
TryAnother == /\ phase \in {"routing", "calling"} /\ tries + 1 < MaxTries /\ tries' = tries + 1
              /\ \E paid \in {0, 1} : spent' = spent + paid /\ unseen' = unseen + paid
              /\ UNCHANGED <<flow, done, out, phase, route, late, trace, status>>

\* What the last try was billed, and what a reader of its trace knows of it: a price
\* list that lacks one of its prices knows less than was paid.
Bills == {b \in [paid : {0, 1}, known : {0, 1, Unknown}] : b.known <= b.paid}

Bill(b) == /\ spent' = spent + b.paid
           /\ unseen' = IF b.known = Unknown THEN unseen ELSE unseen + (b.paid - b.known)

\* select_node_policy: whatever happens, a declared policy is selected.
Routed == /\ phase = "routing"
          /\ \E b \in Bills : Bill(b) /\ route' = b.known
          /\ phase' = "calling" /\ tries' = 0
          /\ UNCHANGED <<flow, done, out, late, trace, status>>

\* The router answered; the text may not be the JSON the node promises.
Answered == /\ phase = "calling"
            /\ \E b \in Bills, ok \in BOOLEAN, v \in {"empty", "some"} :
                 Bill(b) /\ End(Due, ok, v, b.known, route)
            /\ UNCHANGED <<flow, late>>

\* The call raised, or ran into its own timeout: its trace is only the error.
Raised == /\ phase = "calling"
          /\ spent' \in {spent, spent + 1}
          /\ End(Due, FALSE, "empty", Unknown, NoRoute)
          /\ UNCHANGED <<flow, late, unseen>>

DeadlinePasses == /\ Typed(flow) /\ status = "running" /\ ~late /\ late' = TRUE
                  /\ UNCHANGED <<flow, done, out, phase, route, trace, status, tries, spent, unseen>>

\* asyncio.timeout(remaining) cancels the node, whose trace is lost.
Cut == /\ late /\ phase \in {"routing", "calling"}
       /\ spent' \in {spent, spent + 1}
       /\ End(Due, FALSE, "empty", Unknown, NoRoute)
       /\ UNCHANGED <<flow, late, unseen>>

Finish == /\ status = "running" /\ phase = "idle" /\ Ready = {}
          /\ status' = "ok"
          /\ UNCHANGED <<flow, done, out, phase, route, late, trace, tries, spent, unseen>>

Next == \/ Input \/ Output \/ Skip \/ Compute \/ Overdue \/ Begin \/ TryAnother
        \/ Routed \/ Answered \/ Raised \/ DeadlinePasses \/ Cut \/ Finish

Spec == Init /\ [][Next]_vars /\ WF_vars(Next)

(***************************************************************************)
(* What the run is said to have cost                                       *)
(***************************************************************************)
Known(field) == {i \in DOMAIN trace : trace[i][field] >= 0}
Decided      == {i \in DOMAIN trace : trace[i].route # NoRoute}
Total(field) == SumFunctionOnSet([i \in DOMAIN trace |-> trace[i][field]], Known(field))

\* Mutant of CostKnown: what is not known was not paid.
CostKnownEnough == Known("cost") # {}

CostKnown == Known("cost") # {} /\ Known("cost") = DOMAIN trace /\ Known("route") = Decided

FlowCost == IF CostKnown THEN Total("cost") + Total("route") ELSE Unknown

(***************************************************************************)
(* What must hold                                                          *)
(***************************************************************************)
\* The cost a flow reports, also one that failed or was cut short, is all that the
\* providers billed for it, or is unknown: nothing that was cut, raised or could not
\* be read counts as free, and nothing counts twice.  Left out are the tries that a
\* later try of the same call replaced, and the half of a price that is not listed.
CostKnownIsSpent ==
    status # "running" /\ FlowCost # Unknown => FlowCost = spent - unseen

\* No node is given an empty text for an input that has not run yet, and a
\* flow that succeeds has run all its nodes and ends in its output.
NothingRunsEarly ==
    /\ \A n \in done : InputsOf(n) \subseteq DOMAIN out
    /\ status = "ok" => done = flow.nodes /\ Sink(flow) \in DOMAIN out
=============================================================================
