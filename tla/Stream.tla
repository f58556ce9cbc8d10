------------------------------- MODULE Stream -------------------------------
(***************************************************************************)
(* How a reply reaches the client: the three transports of                 *)
(* internal/transport (transport.go, anthropic.go, responses.go) between   *)
(* gateway.complete, which announces a todo, gives away text and returns a *)
(* reply or an error, and a connection that may break between two writes.  *)
(*                                                                         *)
(* A call of a transport is the sequence of events it writes, one step per *)
(* event, cut short by the first write that fails.  An event is its type,  *)
(* the index of its output item and that item; a fragment of text is the   *)
(* todo it comes from and its number, the arguments of the i-th tool call  *)
(* are <<0, i>>.  Identifiers are made of a todo and the instant they are  *)
(* drawn at: when the stream starts, or when it finishes.                  *)
(***************************************************************************)
EXTENDS Integers, Sequences, SequencesExt

CONSTANTS
    MaxText,  \* bound: fragments of a reply
    MaxCalls, \* bound: tool calls of a reply
    MaxTries  \* bound: accounts tried before the stream starts

ASSUME StreamAssumption == MaxText \in Nat /\ MaxCalls \in Nat /\ MaxTries \in Nat \ {0}

VARIABLES
    request,   \* what the client asked for
    pc,        \* the handler: in the gateway, writing the events of a call, done
    todo,      \* todoID of complete, numbered by account tried
    announced, \* streamStarted of complete
    sse,       \* the fields of chatSSE, anthropicSSE and responsesSSE
    result,    \* what complete has returned
    pending,   \* events left to write
    conn,      \* the connection; broken once a write has failed
    out        \* what the client has received, with sequence numbers

vars == <<request, pc, todo, announced, sse, result, pending, conn, out>>

Protocols == {"chat", "anthropic", "responses"}
Idle == [started |-> FALSE, textStarted |-> FALSE, text |-> <<>>, sequence |-> 0]

Init ==
    /\ request \in [protocol: Protocols, stream: BOOLEAN,
                    resuming: BOOLEAN, includeUsage: BOOLEAN]
    /\ pc = "gateway" /\ todo = 1 /\ announced = FALSE
    /\ sse = Idle
    /\ result = [kind |-> "none", text |-> <<>>, calls |-> 0, usage |-> FALSE]
    /\ pending = <<>> /\ conn = "up" /\ out = <<>>

-----------------------------------------------------------------------------
(***************************************************************************)
(* Items and events.                                                       *)
(***************************************************************************)
StartInstant == 1
FinishInstant == 2
responseID(t, instant)      == <<t, instant, 0>>
messageID(instant)          == <<0, instant, 0>>
callID(instant, i)          == <<0, instant, i>>
todoIDFromResponseID(id)    == id[1]

NoItem          == [kind |-> "none", id |-> <<0, 0, 0>>, data |-> <<>>]
Text(id, data)  == [kind |-> "text", id |-> id, data |-> data]
Call(id, data)  == [kind |-> "call", id |-> id, data |-> data]
Arguments(i)    == <<<<0, i>>>>
Emptied(item)   == [item EXCEPT !.data = <<>>]

Event(type, index, item) == [type |-> type, index |-> index, item |-> item, output |-> <<>>]
Plain(type)         == Event(type, 0, NoItem)
Whole(type, id, output) ==
    [type |-> type, index |-> 0, item |-> [NoItem EXCEPT !.id = id], output |-> output]

-----------------------------------------------------------------------------
(***************************************************************************)
(* Faulty variants of the definitions below; no action uses them.          *)
(***************************************************************************)
\* The index of a tool item ignores the text before it.
ignoresText(hasText, i) == i - 1

\* Every protocol ends an error with [DONE].
doneForEveryone(protocol) == <<Plain("error"), Plain("done")>>

\* The error is logged only.
silentError(protocol) == IF protocol = "chat" THEN <<Plain("done")>> ELSE <<>>

\* The final message is the gateway's, whatever was streamed.
replyText(s, r) == r.text

\* The response drawn at the end keeps its own identifier.
freshID(t) == responseID(t, FinishInstant)

-----------------------------------------------------------------------------
(***************************************************************************)
(* The reply as items.  Text comes first, and is there unless the reply is *)
(* tool calls and nothing else.                                            *)
(***************************************************************************)
HasText(text, calls) == text # <<>> \/ calls = 0

\* buildResponsesResponse, buildAnthropicResponse
build(text, calls, instant) ==
    (IF HasText(text, calls) THEN <<Text(messageID(instant), text)>> ELSE <<>>)
    \o [i \in 1..calls |-> Call(callID(instant, i), Arguments(i))]

\* buildResponse: a chat message has a content even when it is empty.
buildChat(text, calls, instant) ==
    <<Text(messageID(instant), text)>>
    \o [i \in 1..calls |-> Call(callID(instant, i), Arguments(i))]

Built(protocol, text, calls) ==
    IF protocol = "chat" THEN buildChat(text, calls, FinishInstant)
    ELSE build(text, calls, FinishInstant)

-----------------------------------------------------------------------------
(***************************************************************************)
(* Chat completions.                                                       *)
(***************************************************************************)
chatStart    == <<Plain("role")>>
chatDelta(d) == <<Event("content", 0, Text(messageID(StartInstant), <<d>>))>>

chatFinish(r) ==
    (IF r.calls > 0
     THEN <<[Plain("tool_calls") EXCEPT !.output =
               [i \in 1..r.calls |-> Call(callID(FinishInstant, i), Arguments(i))]],
            Plain("finish_tool_calls")>>
     ELSE <<Plain("finish_stop")>>)
    \o (IF request.includeUsage /\ r.usage THEN <<Plain("usage")>> ELSE <<>>)
    \o <<Plain("done")>>

(***************************************************************************)
(* Anthropic messages.                                                     *)
(***************************************************************************)
\* Position of the i-th tool call among the items, from zero.
ToolIndex(hasText, i) == IF hasText THEN i ELSE i - 1

startTextBlock(s) ==
    IF s.textStarted THEN <<>> ELSE <<Event("open", 0, Text(messageID(StartInstant), <<>>))>>

anthropicStart == <<Event("message_start", 0, Text(messageID(StartInstant), <<>>))>>
anthropicDelta(s, d) ==
    startTextBlock(s) \o <<Event("delta", 0, Text(messageID(StartInstant), <<d>>))>>

toolBlock(index, call) ==
    <<Event("open", index, Emptied(call)), Event("delta", index, call),
      Event("close", index, Emptied(call))>>

anthropicFinish(s, r) ==
    LET hasText == s.textStarted \/ r.calls = 0
        call(i) == Call(callID(FinishInstant, i), Arguments(i))
    IN  (IF hasText
         THEN startTextBlock(s) \o <<Event("close", 0, Text(messageID(StartInstant), <<>>))>>
         ELSE <<>>)
        \o FlattenSeq([i \in 1..r.calls |-> toolBlock(ToolIndex(hasText, i), call(i))])
        \o <<Plain(IF r.calls > 0 THEN "finish_tool_calls" ELSE "finish_stop"),
             Plain("message_stop")>>

(***************************************************************************)
(* Responses.                                                              *)
(***************************************************************************)
responsesStart ==
    <<Whole("created", responseID(todo, StartInstant), <<>>),
      Whole("in_progress", responseID(todo, StartInstant), <<>>)>>

startTextItem(s) ==
    LET item == Text(messageID(StartInstant), <<>>) IN
    IF s.textStarted THEN <<>>
    ELSE <<Event("open", 0, item), Event("open_part", 0, item)>>

responsesDelta(s, d) ==
    startTextItem(s) \o <<Event("delta", 0, Text(messageID(StartInstant), <<d>>))>>

finishTextItem(s, index, item) ==
    startTextItem(s) \o
    <<Event("complete", index, item), Event("close_part", index, item),
      Event("close", index, item)>>

emitCompletedToolItem(index, item) ==
    <<Event("open", index, Emptied(item)), Event("delta", index, item),
      Event("complete", index, item), Event("close", index, item)>>

\* The text of the final response is the text given away ...
FinalText(s, r) == s.text

\* ... under the identifiers announced at the start.
FinalID(t) == responseID(t, StartInstant)

responsesFinish(s, r) ==
    LET items == [k \in DOMAIN build(FinalText(s, r), r.calls, FinishInstant) |->
                    LET item == build(FinalText(s, r), r.calls, FinishInstant)[k] IN
                    IF item.kind = "text" THEN Text(messageID(StartInstant), item.data)
                    ELSE item]
    IN  FlattenSeq([k \in DOMAIN items |->
              IF items[k].kind = "text" THEN finishTextItem(s, k - 1, items[k])
              ELSE emitCompletedToolItem(k - 1, items[k])])
        \o <<Whole("completed", FinalID(todo), items)>>

-----------------------------------------------------------------------------
(***************************************************************************)
(* The handlers.                                                           *)
(***************************************************************************)
startEvents == CASE request.protocol = "chat"      -> chatStart
                 [] request.protocol = "anthropic" -> anthropicStart
                 [] request.protocol = "responses" -> responsesStart

deltaEvents(s, d) == CASE request.protocol = "chat"      -> chatDelta(d)
                       [] request.protocol = "anthropic" -> anthropicDelta(s, d)
                       [] request.protocol = "responses" -> responsesDelta(s, d)

finishEvents(s, r) == CASE request.protocol = "chat"      -> chatFinish(r)
                        [] request.protocol = "anthropic" -> anthropicFinish(s, r)
                        [] request.protocol = "responses" -> responsesFinish(s, r)

\* emitError, and done after it for chat.
errorEvents(protocol) ==
    IF protocol = "chat" THEN <<Plain("error"), Plain("done")>> ELSE <<Plain("error")>>

Writing(l, events) == pc' = l /\ pending' = events

\* complete announces the todo: a resumed one when its message is accepted,
\* a new one before its first text or when it is done without any.  It counts
\* as announced when all of the call is written (see Write).  Starting twice is
\* an error of the transport.
Start ==
    /\ pc = "gateway" /\ request.stream /\ ~announced
    /\ IF sse.started THEN /\ Writing("error", errorEvents(request.protocol))
                           /\ result' = [result EXCEPT !.kind = "error"]
                           /\ UNCHANGED sse
       ELSE /\ Writing("start", startEvents)
            /\ sse' = [sse EXCEPT !.started = TRUE]
            /\ UNCHANGED result
    /\ UNCHANGED <<request, todo, announced, conn, out>>

TextDelta ==
    LET d == <<todo, Len(sse.text) + 1>> IN
    /\ pc = "gateway" /\ announced /\ Len(sse.text) < MaxText
    /\ Writing("emit", deltaEvents(sse, d))
    /\ sse' = [sse EXCEPT !.textStarted = TRUE, !.text = Append(@, d)]
    /\ UNCHANGED <<request, todo, announced, result, conn, out>>

\* The account failed; the next one gets a todo of its own.
MayFailOver == ~request.resuming /\ ~announced /\ todo < MaxTries

FailOver ==
    /\ pc = "gateway" /\ MayFailOver
    /\ todo' = todo + 1
    /\ UNCHANGED <<request, pc, announced, sse, result, pending, conn, out>>

\* complete returns a reply, which is not empty altogether.  Its text is what
\* REST shows, which may differ from what was streamed (see Turn).
Replies ==
    {r \in [kind: {"reply"}, text: {[i \in 1..n |-> <<todo, i>>] : n \in 0..MaxText},
            calls: 0..MaxCalls, usage: BOOLEAN] :
       r.text # <<>> \/ r.calls > 0 \/ r.usage}

Finish ==
    /\ pc = "gateway" /\ announced
    /\ result' \in Replies
    /\ Writing("finish", finishEvents(sse, result'))
    /\ UNCHANGED <<request, todo, announced, sse, conn, out>>

\* Without a stream the reply is one JSON document.
WriteJSON ==
    /\ pc = "gateway" /\ ~request.stream
    /\ result' \in Replies
    /\ Writing("finish", <<Whole("json", responseID(todo, FinishInstant),
                                 Built(request.protocol, result'.text, result'.calls))>>)
    /\ UNCHANGED <<request, todo, announced, sse, conn, out>>

\* complete returns an error: an HTTP status if nothing was written, an event
\* of the stream otherwise.
Fail ==
    /\ pc = "gateway"
    /\ result' = [result EXCEPT !.kind = "error"]
    /\ Writing("error", IF sse.started THEN errorEvents(request.protocol)
                        ELSE <<Plain("http_error")>>)
    /\ UNCHANGED <<request, todo, announced, sse, conn, out>>

-----------------------------------------------------------------------------
(***************************************************************************)
(* Writing.                                                                *)
(***************************************************************************)
\* Where a call returns to.
Return(l) == IF l \in {"start", "emit"} THEN "gateway" ELSE "done"

\* emit of responsesSSE numbers its events, written or not.
Numbered == sse' = [sse EXCEPT !.sequence =
                      IF request.protocol = "responses" /\ sse.started THEN @ + 1 ELSE @]

Write ==
    /\ pending # <<>> /\ conn # "broken"
    /\ Numbered
    /\ out' = IF conn = "up"
              THEN Append(out, [event |-> Head(pending), number |-> sse.sequence])
              ELSE out
    /\ pending' = Tail(pending)
    /\ pc' = IF Len(pending) = 1 THEN Return(pc) ELSE pc
    /\ announced' = (announced \/ (pc = "start" /\ Len(pending) = 1))
    /\ UNCHANGED <<request, todo, result, conn>>

\* A call ends with its first write that fails.  The gateway then gives up
\* the turn and the handler tries to report that; done follows an error
\* event even if that failed.
WriteFails ==
    /\ pending # <<>> /\ conn # "up"
    /\ Numbered
    /\ conn' = "broken"
    /\ CASE pc \in {"start", "emit"} ->
              /\ Writing("error", errorEvents(request.protocol))
              /\ result' = [result EXCEPT !.kind = "error"]
         [] pc = "error" /\ Len(pending) > 1 ->
              Writing("error", Tail(pending)) /\ UNCHANGED result
         [] OTHER -> Writing("done", <<>>) /\ UNCHANGED result
    /\ UNCHANGED <<request, todo, announced, out>>

\* A new todo whose start cannot be written has failed like any other before it
\* is announced: the next account may be tried, for nobody.
StartLost ==
    /\ pc = "start" /\ pending # <<>> /\ conn # "up" /\ MayFailOver
    /\ Numbered
    /\ conn' = "broken" /\ todo' = todo + 1 /\ Writing("gateway", <<>>)
    /\ UNCHANGED <<request, announced, result, out>>

\* The client goes away; what is written may be lost before a write fails.
Disconnect ==
    /\ conn = "up" /\ pc # "done" /\ conn' = "down"
    /\ UNCHANGED <<request, pc, todo, announced, sse, result, pending, out>>

Done == pc = "done" /\ UNCHANGED vars

Next == \/ Start \/ TextDelta \/ FailOver \/ Finish \/ WriteJSON \/ Fail
        \/ Write \/ WriteFails \/ StartLost \/ Disconnect \/ Done

Spec == Init /\ [][Next]_vars
=============================================================================
