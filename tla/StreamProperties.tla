-------------------------- MODULE StreamProperties --------------------------
(***************************************************************************)
(* What a client may rely on, stated over what it has received, as a       *)
(* client would read it.                                                   *)
(***************************************************************************)
EXTENDS Stream, FiniteSets

Received == [i \in DOMAIN out |-> out[i].event]

EventTypes ==
    [chat      |-> {"role", "content", "tool_calls", "finish_tool_calls", "finish_stop",
                    "usage", "error", "done"},
     anthropic |-> {"message_start", "open", "delta", "close", "finish_tool_calls",
                    "finish_stop", "message_stop", "error"},
     responses |-> {"created", "in_progress", "open", "open_part", "delta", "complete",
                    "close_part", "close", "completed", "error"}]

\* Every variable has its type; a transport writes the events of its protocol
\* only.
StreamTypeOK ==
    /\ request \in [protocol: Protocols, stream: BOOLEAN,
                    resuming: BOOLEAN, includeUsage: BOOLEAN]
    /\ pc \in {"gateway", "start", "emit", "finish", "error", "done"}
    /\ todo \in 1..MaxTries /\ announced \in BOOLEAN
    /\ sse.started \in BOOLEAN /\ sse.textStarted \in BOOLEAN
    /\ sse.text \in Seq((1..MaxTries) \X (1..MaxText)) /\ sse.sequence \in Nat
    /\ result.kind \in {"none", "reply", "error"}
    /\ conn \in {"up", "down", "broken"}
    /\ \A i \in DOMAIN pending :
         pending[i].type \in EventTypes[request.protocol] \cup {"json", "http_error"}
    /\ \A i \in DOMAIN out : out[i].number \in Nat

\* What ends an answer.
Ending(protocol, e) ==
    e.type \in CASE protocol = "chat"      -> {"done", "json", "http_error"}
                 [] protocol = "anthropic" -> {"message_stop", "error", "json", "http_error"}
                 [] protocol = "responses" -> {"completed", "error", "json", "http_error"}

\* A client that stays gets exactly one ending, after everything else: an SSE
\* stream is never followed by a JSON error, nor an error by more text.
EndsOnce ==
    /\ \A i \in DOMAIN out : Ending(request.protocol, Received[i]) => i = Len(out)
    /\ \A i \in DOMAIN out : Received[i].type \in {"json", "http_error"} => i = 1
    /\ pc = "done" /\ conn = "up" => out # <<>> /\ Ending(request.protocol, Last(Received))

\* And the ending tells the truth: an error is shown as one, by every way the
\* gateway can fail, and a reply as a reply.
Shows(types) == \E i \in DOMAIN out : Received[i].type \in types
HonestEnding ==
    /\ EndsOnce
    /\ pc = "done" /\ conn = "up" =>
         /\ result.kind = "error" <=> Shows({"error", "http_error"})
         /\ result.kind = "reply" <=>
              Shows({"json", "finish_stop", "finish_tool_calls", "completed"})

\* Items are numbered from zero without gaps, in the order they open; one is
\* open at a time, and everything about an item is said while it is open.
\* Responses events carry consecutive sequence numbers.
Opens(n)  == Cardinality({i \in 1..n : Received[i].type = "open"})
Closes(n) == Cardinality({i \in 1..n : Received[i].type = "close"})
ItemsNested ==
    \A i \in DOMAIN out :
        LET e == Received[i] IN
        /\ e.type = "open" => Opens(i - 1) = Closes(i - 1) /\ e.index = Opens(i - 1)
        /\ e.type \in {"delta", "open_part", "complete", "close_part", "close"} =>
             Opens(i - 1) = Closes(i - 1) + 1 /\ e.index = Closes(i - 1)
        /\ e.type \in {"finish_stop", "finish_tool_calls", "completed"} => Opens(i) = Closes(i)
        /\ request.protocol = "responses" => out[i].number = i - 1

\* What a client puts together from the deltas of an item.
Assembled(events, index) ==
    FlattenSeq([i \in DOMAIN events |->
        IF events[i].type \in {"delta", "content"} /\ events[i].index = index
        THEN events[i].item.data ELSE <<>>])

\* The kinds of the items that were opened, and the calls of a chat message.
Opened(events) ==
    FlattenSeq([i \in DOMAIN events |->
        IF events[i].type = "open" THEN <<events[i].item.kind>> ELSE <<>>])
Called(events) ==
    FlattenSeq([i \in DOMAIN events |->
        IF events[i].type = "tool_calls" THEN events[i].output ELSE <<>>])

Contents(items) == [k \in DOMAIN items |-> [kind |-> items[k].kind, data |-> items[k].data]]

\* The items as a client sees them, kinds and contents.
Seen(protocol, events) ==
    IF protocol = "chat"
    THEN <<[kind |-> "text", data |-> Assembled(events, 0)]>> \o Contents(Called(events))
    ELSE [k \in DOMAIN Opened(events) |->
             [kind |-> Opened(events)[k], data |-> Assembled(events, k - 1)]]

\* A stream is the JSON answer in instalments: a finished one adds up to the
\* items the same reply has without streaming, with the text that was
\* streamed; and what an event repeats of an item is what its deltas added up
\* to by then.
StreamAddsUp ==
    /\ request.stream /\ pc = "done" /\ conn = "up" /\ result.kind = "reply" =>
         Seen(request.protocol, Received) = Contents(Built(request.protocol, sse.text, result.calls))
    /\ \A i \in DOMAIN out :
         LET e == Received[i] IN
         /\ e.type = "complete" => e.item.data = Assembled(Received, e.index)
         /\ e.type = "completed" => Contents(e.output) = Seen(request.protocol, Received)

\* A client that continues from a response it was streamed names the todo all
\* of the text came from: the identifier it saw first is the one it saw last,
\* and an item keeps its identifier from opening to the final list.
IdentityKept ==
    /\ \A i, j \in DOMAIN out :
         LET e == Received[i]
             f == Received[j]
         IN  /\ e.type = "created" /\ f.type \in {"in_progress", "completed"} =>
                  e.item.id = f.item.id
             /\ e.type \in {"open", "delta", "complete", "close"} /\ f.type = "completed"
                /\ e.index < Len(f.output) => f.output[e.index + 1].id = e.item.id
    /\ \A i \in DOMAIN out :
         Received[i].type \in {"created", "completed"} =>
             \A k \in DOMAIN sse.text : sse.text[k][1] = todoIDFromResponseID(Received[i].item.id)
=============================================================================
