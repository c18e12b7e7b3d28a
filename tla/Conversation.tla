---------------------------- MODULE Conversation ----------------------------
(***************************************************************************)
(* A conversation with tools whose turns are answered by different          *)
(* providers: the client holds it as chat messages or as Responses items,   *)
(* and each request is turned into the words of the provider that is chosen *)
(* for it (responses_api.py, codex_backend.py, provider_adapters/), whose    *)
(* answer is turned back into a message or into items.                     *)
(*                                                                         *)
(* A text is there or empty; arguments and results are left out.  A part is  *)
(* a text, a call or a result.  A call is known by its id, at Google only    *)
(* by its function's name.  The client answers each call with a result.     *)
(***************************************************************************)
EXTENDS Integers, Sequences, SequencesExt

CONSTANTS Names,     \* functions that the client offers
          Unusable,  \* its other tools: native, or without a name
          CallIds,   \* ids that providers give to calls, in this order
          MaxParts,  \* bound on the conversation
          Nothing

VARIABLES client,   \* the API it speaks: chat or responses
          history,  \* messages or items
          offered,  \* the tools of its last request
          sent,     \* the provider's request
          minted,   \* how many ids were given
          said      \* ghost: the parts of the conversation

vars == <<client, history, offered, sent, minted, said>>

Providers == {"openai", "codex", "anthropic", "bedrock", "google"}
Idle == [to |-> Nothing, turns |-> <<>>, tools |-> {}]

Message(role, text, calls) == [role |-> role, text |-> text, calls |-> calls, answers |-> Nothing]
Result(id) == [role |-> "tool", text |-> TRUE, calls |-> <<>>, answers |-> id]

Item(type, role, text, id, name) ==
    [type |-> type, role |-> role, text |-> text, id |-> id, name |-> name]

Init == /\ client \in {"chat", "responses"}
        /\ history = <<>> /\ offered = {} /\ sent = Idle /\ minted = 0
        /\ said = <<>>

(***************************************************************************)
(* Responses items into messages (input_to_messages)                        *)
(***************************************************************************)
Merged(messages, item) ==
    LET call  == [id |-> item.id, name |-> item.name]
        joins == messages # <<>> /\ Last(messages).role = "assistant"
    IN  CASE item.type = "function_call" /\ joins ->
                [messages EXCEPT ![Len(messages)].calls = Append(@, call)]
          [] item.type = "function_call" /\ ~joins ->
                Append(messages, Message("assistant", FALSE, <<call>>))
          [] item.type = "function_call_output" -> Append(messages, Result(item.id))
          [] item.type = "message" -> Append(messages, Message(item.role, item.text, <<>>))
          [] item.type = "reasoning" -> messages

ToMessages(items) == FoldLeft(Merged, <<>>, items)

Messages == IF client = "chat" THEN history ELSE ToMessages(history)

(***************************************************************************)
(* Messages into the words of a provider: turns of parts                    *)
(***************************************************************************)
Part(kind, id, name) == [kind |-> kind, id |-> id, name |-> name]
Turn(role, parts)    == [role |-> role, parts |-> parts]

Spoke         == Part("text", Nothing, Nothing)
TextOf(m)     == IF m.text THEN <<Spoke>> ELSE <<>>
CallsOf(m)    == [i \in DOMAIN m.calls |-> Part("call", m.calls[i].id, m.calls[i].name)]
UnnamedOf(m)  == [i \in DOMAIN m.calls |-> Part("call", Nothing, m.calls[i].name)]
ResultOf(m)   == Part("result", m.answers, Nothing)

\* _tool_name_by_id: the last call of an id decides.
NameOf(messages, id) ==
    LET calls == FlattenSeq([i \in DOMAIN messages |-> messages[i].calls])
        named == {i \in DOMAIN calls : calls[i].id = id}
    IN  IF named = {} THEN "tool" ELSE calls[Max(named)].name

\* Mutant of Empty: what a turn without a text says is in its calls only.
Textless(m) == ~m.text

\* Such a turn is left out.
Empty(m) == ~m.text /\ m.calls = <<>>

Spoken(m, calls) == IF Empty(m) THEN <<>> ELSE <<Turn(m.role, TextOf(m) \o calls)>>

Anthropic(m) == IF m.role = "system" THEN <<>>
                ELSE IF m.role = "tool" THEN <<Turn("user", <<ResultOf(m)>>)>>
                ELSE Spoken(m, CallsOf(m))

Google(messages, m) == IF m.role = "system" THEN <<>>
                       ELSE IF m.role = "tool"
                            THEN <<Turn("user", <<Part("result", Nothing, NameOf(messages, m.answers))>>)>>
                       ELSE Spoken(m, UnnamedOf(m))

Alone(parts) == [i \in DOMAIN parts |-> Turn("item", <<parts[i]>>)]

\* _messages_to_input: each part an item of its own.
Codex(m) == IF m.role = "tool" THEN Alone(<<ResultOf(m)>>)
            ELSE IF m.role = "assistant" /\ m.calls # <<>> THEN Alone(TextOf(m) \o CallsOf(m))
            ELSE <<Turn(m.role, TextOf(m))>>

Unchanged(m) == <<Turn(m.role, IF m.role = "tool" THEN <<ResultOf(m)>> ELSE TextOf(m) \o CallsOf(m))>>

Turns(p, messages) ==
    FlattenSeq([i \in DOMAIN messages |->
        CASE p = "anthropic" \/ p = "bedrock" -> Anthropic(messages[i])
          [] p = "google" -> Google(messages, messages[i])
          [] p = "codex" -> Codex(messages[i])
          [] p = "openai" -> Unchanged(messages[i])])

\* A Responses request drops the tools that are no functions; a converter that
\* looks for a function in each tool does, too.
ChatTools(tools)   == IF client = "responses" THEN tools \cap Names ELSE tools
ToolsFor(p, tools) == IF p \in {"openai", "codex"} THEN tools ELSE tools \cap Names

(***************************************************************************)
(* Steps                                                                   *)
(***************************************************************************)
Say(role, text) ==
    /\ sent = Idle /\ Len(history) < MaxParts
    /\ history' = Append(history, IF client = "chat" THEN Message(role, text, <<>>)
                                  ELSE Item("message", role, text, Nothing, Nothing))
    /\ said' = IF text /\ role # "system" THEN said \o <<Spoke>> ELSE said
    /\ UNCHANGED <<client, offered, sent, minted>>

Ask(p) == /\ sent = Idle /\ history # <<>>
          /\ offered' \in {Names, Names \cup Unusable}
          /\ sent' = [to |-> p, turns |-> Turns(p, Messages), tools |-> ToolsFor(p, ChatTools(offered'))]
          /\ UNCHANGED <<client, history, minted, said>>

\* _parse_*_response, aggregate_codex_sse: Google may leave out the id.
IdsFor(names) == [i \in DOMAIN names |-> CallIds[minted + i]]

Answered(text, ids, names) ==
    LET calls == [i \in DOMAIN ids |-> [id |-> ids[i], name |-> names[i]]]
        items == [i \in DOMAIN ids |-> Item("function_call", Nothing, FALSE, ids[i], names[i])]
        word  == IF text THEN <<Item("message", "assistant", TRUE, Nothing, Nothing)>> ELSE <<>>
    IN  IF client = "chat" THEN <<Message("assistant", text, calls)>>
        ELSE IF sent.to = "codex"
             THEN <<Item("reasoning", Nothing, FALSE, Nothing, Nothing)>> \o word \o items
        ELSE word \o items

\* An empty answer is an error, but not at Codex.
Answer(text, names) ==
    /\ sent # Idle /\ Len(history) < MaxParts /\ minted + Len(names) <= Len(CallIds)
    /\ text \/ names # <<>> \/ sent.to = "codex"
    /\ \E ids \in {IdsFor(names)} \cup (IF sent.to = "google" THEN {names} ELSE {}) :
         /\ history' = history \o Answered(text, ids, names)
         /\ said' = said \o (IF text THEN <<Spoke>> ELSE <<>>)
                         \o [i \in DOMAIN ids |-> Part("call", ids[i], names[i])]
    /\ minted' = minted + Len(names) /\ sent' = Idle
    /\ UNCHANGED <<client, offered>>

\* execute_async: the next provider gets the same messages.
FallBack == /\ sent # Idle /\ sent' = Idle
            /\ UNCHANGED <<client, history, offered, minted, said>>

OfType(type) ==
    FlattenSeq([i \in DOMAIN history |-> IF history[i].type = type THEN <<history[i]>> ELSE <<>>])

Unanswered ==
    IF client = "chat"
    THEN IF history = <<>> THEN <<>> ELSE Last(history).calls
    ELSE LET calls == OfType("function_call")
         IN  SubSeq(calls, Len(OfType("function_call_output")) + 1, Len(calls))

\* The client runs what it was asked to.
RunTools == /\ sent = Idle /\ Unanswered # <<>>
            /\ history' = history \o [i \in DOMAIN Unanswered |->
                 IF client = "chat" THEN Result(Unanswered[i].id)
                 ELSE Item("function_call_output", Nothing, TRUE, Unanswered[i].id, Nothing)]
            /\ said' = said \o [i \in DOMAIN Unanswered |->
                         Part("result", Unanswered[i].id, Unanswered[i].name)]
            /\ UNCHANGED <<client, offered, sent, minted>>

Next == \/ Unanswered = <<>> /\ (Say("system", TRUE) \/ \E text \in BOOLEAN : Say("user", text))
        \/ Unanswered = <<>> /\ \E p \in Providers : Ask(p)
        \/ \E text \in BOOLEAN, n \in 0..2 : \E names \in [1..n -> Names] : Answer(text, names)
        \/ FallBack \/ RunTools

Spec == Init /\ [][Next]_vars

(***************************************************************************)
(* What must hold                                                          *)
(***************************************************************************)
KnownAt(p, part) == IF p = "google" THEN [part EXCEPT !.id = Nothing]
                    ELSE IF part.kind = "result" THEN [part EXCEPT !.name = Nothing]
                    ELSE part

Heard == FlattenSeq([i \in DOMAIN sent.turns |->
             IF sent.turns[i].role = "system" THEN <<>> ELSE sent.turns[i].parts])

\* Whichever provider answers next, and whoever answered before, is told the
\* conversation as it was: every text, call and result, in its order, a result
\* by the id of its call or by the name of the function that was called; and
\* all functions, so that it may call them.
ConversationKept == sent # Idle =>
    /\ Heard = [i \in DOMAIN said |-> KnownAt(sent.to, said[i])]
    /\ Names \subseteq sent.tools
=============================================================================
