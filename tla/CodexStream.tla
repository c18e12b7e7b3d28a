---------------------------- MODULE CodexStream ----------------------------
(***************************************************************************)
(* One call of the Codex backend: the request, the event stream it answers  *)
(* with, and the answer folded from that stream.  Text, reasoning and the   *)
(* arguments of several function calls arrive in pieces, interleaved as the *)
(* backend likes; until something visible was said the whole call is under  *)
(* the first-token deadline, afterwards each read is under its own timeout. *)
(***************************************************************************)
EXTENDS Integers, Sequences, FiniteSets

CONSTANTS Items,      \* ids of function calls
          MaxPieces,  \* bound: pieces of text, reasoning and arguments
          First,      \* first_token_timeout_ms
          Timeout     \* of connecting, and of each read

VARIABLES now,     \* since the request was sent
          last,    \* when the last line was read
          phase,   \* connecting, reading, then answered
          fold,    \* what aggregate_codex_sse made of the lines so far
          saw,     \* saw_output
          final,   \* the last event of the backend's protocol, or none
          answer,  \* the result: its kind, and for an answer its content
          pieces   \* ghost: who said each piece, in order

vars == <<now, last, phase, fold, saw, final, answer, pieces>>

Speakers == Items \cup {"text", "summary"}
NoAnswer == [kind |-> "none"]
Error(kind) == [kind |-> kind]

(* A sequence lists the pieces of one speaker, by number, in the order they *)
(* were said, when it has all of them, no other, and each once.            *)
Lists(q, s) == /\ {q[n] : n \in DOMAIN q} = {n \in DOMAIN pieces : pieces[n] = s}
               /\ \A m, n \in DOMAIN q : m < n => q[m] < q[n]

Listings == UNION {[1..n -> DOMAIN pieces] : n \in 0..Len(pieces)}

NoFold == [text |-> <<>>, args |-> [i \in {} |-> <<>>], order |-> <<>>, done |-> {},
           summary |-> <<>>, reasoned |-> FALSE, finish |-> "stop", failed |-> FALSE]

Init == /\ now = 0 /\ last = 0 /\ phase = "connecting" /\ fold = NoFold
        /\ saw = FALSE /\ final = "none" /\ answer = NoAnswer /\ pieces = <<>>

-----------------------------------------------------------------------------
(* The answer: aggregate_codex_sse.                                        *)

Known(i) == i \in DOMAIN fold.args

(* A piece of arguments belongs to the call it names, not to the latest.    *)
ArgumentsLatest(i, n) ==
    LET j == fold.order[Len(fold.order)]
    IN  [fold EXCEPT !.args[j] = Append(@, n)]
Arguments(i, n) == [fold EXCEPT !.args[i] = Append(@, n)]

Folded(s, n) ==
    CASE s = "text"    -> [fold EXCEPT !.text = Append(@, n)]
      [] s = "summary" -> [fold EXCEPT !.summary = Append(@, n)]
      [] s \in Items   -> Arguments(s, n)

(* Function calls make the finish "tool_calls", whatever it was; a failure  *)
(* replaces all that came before it.                                       *)
Aggregate ==
    IF fold.failed THEN Error("server_error")
    ELSE [kind |-> "ok", text |-> fold.text, summary |-> fold.summary,
          calls |-> [n \in DOMAIN fold.order |->
                       [id |-> fold.order[n], args |-> fold.args[fold.order[n]]]],
          finish |-> IF fold.order # <<>> THEN "tool_calls" ELSE fold.finish]

-----------------------------------------------------------------------------
(* The call                                                                *)

Give(a) == answer' = a /\ phase' = "answered"

(* No account or no token: an auth_error before anything was sent.  After   *)
(* that 401, 429 and the rest of the refusals each have their kind.        *)
Respond ==
    /\ phase = "connecting"
    /\ \/ phase' = "reading" /\ UNCHANGED answer
       \/ \E kind \in {"auth_error", "rate_limit", "server_error"} : Give(Error(kind))
    /\ last' = now
    /\ UNCHANGED <<now, fold, saw, final, pieces>>

Reading == phase = "reading" /\ final = "none"

(* Only text and reasoning count as output: a stream that is all function   *)
(* calls stays under the first-token deadline to its end.                  *)
Visible(s) == s \in {"text", "summary"}

Piece(s) ==
    /\ Reading /\ Len(pieces) < MaxPieces
    /\ s \in Items => Known(s) /\ s \notin fold.done
    /\ s = "summary" => ~fold.reasoned
    /\ pieces' = Append(pieces, s)
    /\ fold' = Folded(s, Len(pieces'))
    /\ saw' = (saw \/ Visible(s))
    /\ last' = now
    /\ UNCHANGED <<now, phase, final, answer>>

AddCall(i) ==
    /\ Reading /\ ~Known(i)
    /\ fold' = [fold EXCEPT !.order = Append(@, i),
                  !.args = [j \in DOMAIN @ \cup {i} |-> IF j = i THEN <<>> ELSE @[j]]]
    /\ last' = now
    /\ UNCHANGED <<now, phase, saw, final, answer, pieces>>

(* The arguments in full: they replace what their pieces came to.          *)
CallDone(i) ==
    /\ Reading /\ Known(i) /\ i \notin fold.done
    /\ \E full \in Listings :
           /\ Lists(full, i)
           /\ fold' = [fold EXCEPT !.args[i] = full, !.done = @ \cup {i}]
    /\ last' = now
    /\ UNCHANGED <<now, phase, saw, final, answer, pieces>>

(* The reasoning item in full; one without a summary leaves the pieces.     *)
ReasoningDone ==
    /\ Reading /\ ~fold.reasoned
    /\ \E full \in Listings :
           /\ Lists(full, "summary")
           /\ fold' = [fold EXCEPT !.summary = full, !.reasoned = TRUE]
    /\ last' = now
    /\ UNCHANGED <<now, phase, saw, final, answer, pieces>>

(* The backend completes when all it began is done; it may also run out of  *)
(* tokens or fail anywhere.                                                *)
Final(end) ==
    /\ Reading
    /\ end = "completed" => fold.done = DOMAIN fold.args
    /\ final' = end
    /\ fold' = [fold EXCEPT !.failed = (end = "failed"),
                            !.finish = IF end = "incomplete" THEN "length" ELSE @]
    /\ last' = now
    /\ UNCHANGED <<now, phase, saw, answer, pieces>>

(* [DONE] or the end of the connection, expected or not.                   *)
EndOfStream ==
    /\ phase = "reading" /\ Give(Aggregate)
    /\ UNCHANGED <<now, last, fold, saw, final, pieces>>

NetworkError ==
    /\ phase # "answered" /\ Give(Error("network_error"))
    /\ UNCHANGED <<now, last, fold, saw, final, pieces>>

(* before_first_output: the deadline counts from the request.              *)
FirstTokenDue == ~saw /\ now >= First
ReadDue == now - last >= Timeout

TimedOut ==
    /\ phase # "answered"
    /\ \/ FirstTokenDue /\ Give(Error("first_token"))
       \/ ReadDue /\ Give(Error("timeout"))
    /\ UNCHANGED <<now, last, fold, saw, final, pieces>>

Tick ==
    /\ phase # "answered" /\ ~FirstTokenDue /\ ~ReadDue
    /\ now' = now + 1
    /\ now' <= First + Timeout                 \* bound
    /\ UNCHANGED <<last, phase, fold, saw, final, answer, pieces>>

Next ==
    \/ Respond
    \/ \E s \in Speakers : Piece(s)
    \/ \E i \in Items : AddCall(i) \/ CallDone(i)
    \/ ReasoningDone
    \/ \E end \in {"completed", "incomplete", "failed"} : Final(end)
    \/ EndOfStream \/ NetworkError \/ TimedOut \/ Tick

Spec == Init /\ [][Next]_vars

-----------------------------------------------------------------------------
(* An answer that reads as finished is all that the backend said, each      *)
(* piece once, in order and under the call it belongs to, whatever came in  *)
(* between.  Excused: a connection that ended without a final event passes  *)
(* for a finished answer, and tokens that ran out inside a function call    *)
(* pass for a finished call.                                               *)
WholeUnlessCut ==
    (answer.kind = "ok" /\ answer.finish # "length" /\ final = "completed") =>
        /\ Lists(answer.text, "text")
        /\ Lists(answer.summary, "summary")
        /\ {c.id : c \in {answer.calls[n] : n \in DOMAIN answer.calls}}
             = DOMAIN fold.args
        /\ \A n \in DOMAIN answer.calls : Lists(answer.calls[n].args, answer.calls[n].id)

(* The first-token deadline never ends a call that has said something, nor  *)
(* does a read's timeout end one that waited less; a failure is no answer.  *)
PatientWithSpeech ==
    /\ answer.kind = "first_token" =>
           now >= First /\ \A n \in DOMAIN pieces : ~Visible(pieces[n])
    /\ answer.kind = "timeout" => now - last >= Timeout
    /\ final = "failed" => answer.kind # "ok"

CodexStreamHolds == WholeUnlessCut /\ PatientWithSpeech
=============================================================================
