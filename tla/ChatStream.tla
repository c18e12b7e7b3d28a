----------------------------- MODULE ChatStream -----------------------------
(***************************************************************************)
(* One streamed answer of the router (shim.py, _handle_stream, _sse_gen,     *)
(* _flow_stream and _handle_responses_stream): the handler that waits for   *)
(* the first delta or the end of the run before it chooses a JSON answer or *)
(* a stream; the run itself, a task that tries provider after provider      *)
(* (llm_router_host.py, execute_async) within a deadline; the backend of    *)
(* each attempt, which emits deltas and returns how it ended (streaming.py, *)
(* provider_adapters); and the generator that writes to the client.         *)
(*                                                                         *)
(* A delta is <<attempt, number>>.  The router core is outside this         *)
(* repository: after an error it may go on to another attempt or stop,      *)
(* except that stream_interrupted aborts (config.live.lua).                *)
(*                                                                         *)
(* Simplifications: heartbeats are not written down; a client that leaves   *)
(* before its stream began is noticed then; a run without a token           *)
(* stream, a flow's or a Responses request's, emits nothing and its result  *)
(* is one delta; the sub-calls of a flow are attempts.                     *)
(***************************************************************************)
EXTENDS Integers, Sequences

CONSTANTS MaxAttempts, \* _MAX_PROVIDER_ATTEMPTS
          MaxDeltas    \* bound on the deltas of one attempt

VARIABLES kind,     \* chat, flow or responses
          handler,  \* waiting, streaming, then how the client's request ended
          task,     \* the run
          attempt,  \* provider attempts so far
          backend,  \* of the current attempt: none, opening, silent or talking
          said,     \* deltas it emitted
          blank,    \* it emitted nothing but white space
          commit,   \* the first delta was emitted
          queue,    \* deltas on the way to the generator
          wire,     \* deltas the client received
          spoken,   \* ghost: all deltas emitted
          again     \* ghost: an attempt that had talked was followed by another
                    \* because of an error event in its stream or an empty answer

run == <<task, attempt, backend, said, blank>>
out == <<commit, queue, spoken>>
vars == <<kind, handler, run, out, wire, again>>

Kinds == {"chat", "flow", "responses"}

Init == /\ kind \in Kinds /\ handler = "waiting" /\ task = "running"
        /\ attempt = 0 /\ backend = "none" /\ said = 0 /\ blank = TRUE
        /\ commit = FALSE /\ queue = <<>> /\ wire = <<>> /\ spoken = <<>>
        /\ again = FALSE

Running == task = "running"
Result == <<attempt, 0>>   \* the text of a complete answer

(***************************************************************************)
(* The run, execute_async                                                  *)
(***************************************************************************)
Call == /\ Running /\ backend = "none" /\ attempt < MaxAttempts
        /\ attempt' = attempt + 1 /\ backend' = "opening" /\ said' = 0 /\ blank' = TRUE
        /\ UNCHANGED <<kind, handler, task, out, wire, again>>

\* No candidate is left, or the cap is reached.
Exhausted == /\ Running /\ backend = "none" /\ task' = "failed"
             /\ UNCHANGED <<kind, handler, attempt, backend, said, blank, out, wire, again>>

\* _execute_with_deadline cancels whatever is under way.
Deadline == /\ Running /\ task' = "failed" /\ backend' = "none"
            /\ UNCHANGED <<kind, handler, attempt, said, blank, out, wire, again>>

\* An error the core may recover from by another attempt.
Recoverable == task' = task /\ backend' = "none"
Abort == task' = "failed" /\ backend' = "none"

(***************************************************************************)
(* The backend of an attempt                                               *)
(***************************************************************************)
Talking == backend \in {"silent", "talking"}

Connected == /\ Running /\ backend = "opening" /\ backend' = "silent"
             /\ UNCHANGED <<kind, handler, task, attempt, said, blank, out, wire, again>>

\* Refused, or no output within first_token_timeout_ms (before_first_output).
NoOutput == /\ Running /\ backend \in {"opening", "silent"} /\ Recoverable
            /\ UNCHANGED <<kind, handler, attempt, said, blank, out, wire, again>>

\* Reasoning or a tool call: output, but no delta.
Thinks == /\ Running /\ backend = "silent" /\ backend' = "talking"
          /\ blank' \in {blank, FALSE}    \* some backends want text or a tool call
          /\ UNCHANGED <<kind, handler, task, attempt, said, out, wire, again>>

\* emit: the first delta of the run commits.
Emit == /\ Running /\ Talking /\ kind = "chat" /\ said < MaxDeltas
        /\ backend' = "talking" /\ said' = said + 1
        /\ blank' \in {blank, FALSE}
        /\ commit' = TRUE
        /\ queue' = Append(queue, <<attempt, said'>>)
        /\ spoken' = Append(spoken, <<attempt, said'>>)
        /\ UNCHANGED <<kind, handler, task, attempt, wire, again>>

\* Mutant of Broken: the connection that dies after deltas is a network error.
BrokenAnyway == Recoverable

\* The connection dies: an attempt that emitted is never retried.
Broken == IF said > 0 THEN Abort ELSE Recoverable

Dies == /\ Running /\ Talking /\ Broken
        /\ UNCHANGED <<kind, handler, attempt, said, blank, out, wire, again>>

\* An error event in the stream (response.failed, error, ...Exception) is a
\* server error, whatever was emitted before it.
ErrorEvent == /\ Running /\ Talking /\ Recoverable
              /\ again' = (again \/ said > 0)
              /\ UNCHANGED <<kind, handler, attempt, said, blank, out, wire>>

\* The stream ends: white space is no answer for most backends.
Ends == /\ Running /\ Talking
        /\ \/ ~blank /\ task' = "ok" /\ backend' = "none" /\ UNCHANGED again
           \/ blank /\ Recoverable /\ again' = (again \/ said > 0)
           \/ blank /\ task' = "ok" /\ backend' = "none" /\ UNCHANGED again
        /\ UNCHANGED <<kind, handler, attempt, said, blank, out, wire>>

(***************************************************************************)
(* The handler and the generator                                           *)
(***************************************************************************)
\* Mutant of StartStream: a run that has committed must also still be running.
StartRunning == /\ handler = "waiting"
                /\ Running /\ (commit \/ kind # "chat")
                /\ handler' = "streaming"
                /\ UNCHANGED <<kind, run, out, wire, again>>

\* Committed, or a flow's or a Responses request's short grace is over.
StartStream == /\ handler = "waiting"
               /\ commit \/ (Running /\ kind # "chat")
               /\ handler' = "streaming"
               /\ UNCHANGED <<kind, run, out, wire, again>>

\* The run ended without a delta: a JSON error, or the complete answer at once.
Answer == /\ handler = "waiting" /\ ~commit /\ ~Running
          /\ handler' = "answered"
          /\ wire' = IF task = "ok" THEN <<Result>> ELSE <<>>
          /\ UNCHANGED <<kind, run, out, again>>

Relay == /\ handler = "streaming" /\ queue # <<>>
         /\ wire' = Append(wire, Head(queue)) /\ queue' = Tail(queue)
         /\ UNCHANGED <<kind, handler, run, commit, spoken, again>>

\* Mutant of LastWords: what is still queued when the run ends is dropped.
NoLastWords == wire

\* What is still queued, or the text of a run that had no deltas.
LastWords == IF wire \o queue = <<>> /\ task = "ok" THEN <<Result>> ELSE wire \o queue

\* The last chunk, with the trace, and the error of a run that failed.
Finish == /\ handler = "streaming" /\ ~Running
          /\ handler' = "ended" /\ wire' = LastWords /\ queue' = <<>>
          /\ UNCHANGED <<kind, run, commit, spoken, again>>

\* The generator is closed: it cancels the run, but for a Responses request.
OnLeave == IF Running /\ kind # "responses"
           THEN task' = "cancelled" /\ backend' = "none"
           ELSE UNCHANGED <<task, backend>>

Leave == /\ handler = "streaming" /\ handler' = "left" /\ OnLeave
         /\ UNCHANGED <<kind, attempt, said, blank, out, wire, again>>

Next == \/ Call \/ Exhausted \/ Deadline \/ Connected \/ NoOutput \/ Thinks \/ Emit
        \/ Dies \/ ErrorEvent \/ Ends
        \/ StartStream \/ Answer \/ Relay \/ Finish \/ Leave

\* The deadline is a timer of the loop; handler and generator are woken by what
\* they wait for.
Fairness == /\ WF_vars(Deadline)
            /\ WF_vars(StartStream \/ Answer) /\ WF_vars(Relay \/ Finish)

Spec == Init /\ [][Next]_vars /\ Fairness

(***************************************************************************)
(* Properties                                                              *)
(***************************************************************************)
Over == {"answered", "ended", "left"}

TypeOK == /\ kind \in Kinds /\ handler \in {"waiting", "streaming"} \cup Over
          /\ task \in {"running", "ok", "failed", "cancelled"}
          /\ attempt \in 0..MaxAttempts /\ said \in 0..MaxDeltas
          /\ backend \in {"none", "opening", "silent", "talking"}
          /\ blank \in BOOLEAN /\ commit \in BOOLEAN /\ again \in BOOLEAN

Speakers(s) == {s[i][1] : i \in DOMAIN s}

(* "A stream that died after content reached the client cannot fall         *)
(* through" (config.live.lua:91): the client reads the words of one attempt *)
(* only, unless an earlier attempt that had already talked ended in an error *)
(* event or in an empty answer, which fall through all the same.           *)
OneSpeakerUnlessInBand ==
    \A a, b \in Speakers(wire \o queue) : a = b \/ again

(* Whatever order deltas, the end of the run, heartbeats and disconnects     *)
(* come in, every delta is written once and in order, and a request that    *)
(* was answered without deltas gets its whole answer (_await_delta_or_beat, *)
(* _sse_gen).                                                              *)
EveryDeltaWritten ==
    /\ handler = "waiting" => wire = <<>>
    /\ handler \in {"waiting", "streaming", "left"} => wire \o queue = spoken
    /\ handler = "ended" => wire = IF spoken = <<>> /\ task = "ok" THEN <<Result>> ELSE spoken
    /\ handler = "answered" => spoken = <<>> /\ (task = "ok" <=> wire # <<>>)

(* Every request is answered: no combination of a silent provider, retries  *)
(* and an absent client leaves it waiting for ever (_execute_with_deadline). *)
EveryRequestEnds == <>(handler \in Over /\ ~Running)
=============================================================================
