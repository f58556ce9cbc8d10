-------------------------------- MODULE Echo --------------------------------
(***************************************************************************)
(* What a client is given of a reply, what it sends back of it, and        *)
(* whether the gateway recognises it: the text protocol for tools          *)
(* (ToolFilter), the rendering of replies and the reading of requests of   *)
(* the three protocols (internal/transport), and the lookup of the todo    *)
(* that holds the history (complete, internal/session).                    *)
(*                                                                         *)
(* One client holds one conversation: it keeps every item as it was given, *)
(* answers each tool call with one result and anything else with a user    *)
(* message, and sends all of it every time, without a todo id.  Accounts,  *)
(* lost sessions and other clients are Gateway's and Conversation's.       *)
(***************************************************************************)
EXTENDS ToolFilter

CONSTANT Clients \* what clients are and may meet, one record each:
                 \*   protocol, stream: what it asks for;
                 \*   tool: how the tool the assistant calls was declared;
                 \*   asks: contents of user messages, by part;
                 \*   fragments: what upstream may send at a time;
                 \*   most, turns: bounds on fragments and on replies

Parts == {"text", "image", "link", "other"}

ASSUME BodiesAssumption ==
    "compact" \in Bodies /\ Bodies \subseteq {"compact", "spaced", "empty"}

ASSUME ClientsAssumption ==
    \A c \in Clients :
        /\ c.protocol \in {"chat", "anthropic", "responses"} /\ c.stream \in BOOLEAN
        /\ c.tool \in {"function", "custom", "namespace", "undeclared"}
        /\ \A parts \in c.asks : parts \in Seq(Parts)
        /\ \A f \in c.fragments : f \in Seq(Tokens)
        /\ c.most \in Nat /\ c.turns \in Nat

VARIABLES
    client,    \* who asks
    history,   \* the items the client keeps
    pc,        \* of complete
    msgs,      \* req.Messages
    todo,      \* entry.TodoID, numbered as they are created
    resuming,  \* whether the history was found
    filter,    \* the ToolCallStreamFilter of the turn
    content,   \* what upstream has said in this turn
    released,  \* the text given away in this turn
    received,  \* fragments received in this turn
    byHistory, \* session.Store: set of [key, todo]
    toolNames, \* session.Store: set of [todo, call, name]
    turn,      \* replies given
    last       \* history variable: the last reply, its todo, and whether
               \* names were filled in for it

store == <<byHistory, toolNames>>
vars == <<client, history, pc, msgs, todo, resuming, filter, content, released,
          received, store, turn, last>>

Init ==
    /\ client \in Clients
    /\ history = <<>> /\ pc = "idle" /\ msgs = <<>>
    /\ todo = 0 /\ resuming = FALSE
    /\ filter = NewFilter /\ content = <<>> /\ released = <<>> /\ received = 0
    /\ byHistory = {} /\ toolNames = {} /\ turn = 0
    /\ last = [content |-> <<>>, todo |-> 0, named |-> FALSE]

-----------------------------------------------------------------------------
(***************************************************************************)
(* Tools.  A name is the sequence of its parts between dots.  Arguments    *)
(* are JSON: "compact" and "spaced" are {"input":"x"} without and with     *)
(* white space, "wrapped" is {"input":"{}"}.                               *)
(***************************************************************************)
Arguments(body) == IF body = "empty" THEN "{}" ELSE body

\* The name the assistant calls the tool by.
toolName == IF client.tool \in {"namespace", "undeclared"} THEN <<"ns", "f">> ELSE <<"f">>

ToolCall(body) == [id |-> body, name |-> toolName, args |-> Arguments(body)]

compactJSON(args) == IF args = "spaced" THEN "compact" ELSE args

customToolInput(args) == IF args \in {"compact", "spaced"} THEN "x" ELSE args
wrapInput(input) == CASE input = "x" -> "compact" [] input = "{}" -> "wrapped"

responsesQualifiedToolName(namespace, name) == namespace \o name

\* The declared tool of that name, or the name cut at its first dot.
responseToolTarget(name) ==
    [type      |-> IF client.tool = "custom" THEN "custom" ELSE "function",
     namespace |-> IF Len(name) > 1 THEN <<name[1]>> ELSE <<>>,
     name      |-> IF Len(name) > 1 THEN Tail(name) ELSE name]

-----------------------------------------------------------------------------
(***************************************************************************)
(* Faulty variants of the definitions below; no action uses them.          *)
(***************************************************************************)
Message(role, text, calls) ==
    [role |-> role, text |-> text, calls |-> calls, images |-> 0, call |-> "none", name |-> <<>>]

\* A call read from a history is always a message of its own.
alwaysApart(ms, call) == Append(ms, Message("assistant", <<>>, <<call>>))

-----------------------------------------------------------------------------
(***************************************************************************)
(* Reading a request.  An item of the client's history is a message, or,   *)
(* in the Responses protocol, a tool call.                                 *)
(***************************************************************************)
Item(role, text, calls) == [role |-> role, text |-> text, calls |-> calls, parts |-> <<>>, call |-> "none"]
UserItem(parts)  == [Item("user", <<>>, <<>>) EXCEPT !.parts = parts]
ResultItem(call) == [Item("tool", <<"word">>, <<>>) EXCEPT !.call = call]

\* Content parts: a text, an image with its data, an image by its address,
\* which Anthropic clients may not send, and a part of another type.
Acceptable(parts) ==
    \A i \in DOMAIN parts : \/ parts[i] \in {"text", "image"}
                            \/ parts[i] = "link" /\ client.protocol # "anthropic"

\* Each part leaves a text, and an image an attachment as well.
UserMessage(parts) ==
    [Message("user", parts, <<>>) EXCEPT
        !.images = Cardinality({i \in DOMAIN parts : parts[i] = "image"})]

\* A result with the name of the tool, if the request says it: chat results
\* carry none, the others get that of the call in the history or "tool".
ResultMessage(protocol, ms, item) ==
    LET known == {c \in UNION {Range(ms[i].calls) : i \in DOMAIN ms} : c.id = item.call}
    IN  [Message("tool", item.text, <<>>) EXCEPT !.call = item.call,
           !.name = IF protocol = "chat" THEN <<>>
                    ELSE IF known = {} THEN <<"tool">>
                    ELSE (CHOOSE c \in known : TRUE).name]

\* A call of the Responses protocol belongs to the assistant message before it.
appendResponseToolCall(ms, call) ==
    IF ms # <<>> /\ Last(ms).role = "assistant"
    THEN [ms EXCEPT ![Len(ms)].calls = Append(@, call)]
    ELSE Append(ms, Message("assistant", <<>>, <<call>>))

\* The call an item of the history stands for.
readCall(protocol, c) ==
    CASE protocol = "chat"      -> [id |-> c.id, name |-> c.name, args |-> c.args]
      [] protocol = "anthropic" ->
           [id |-> c.id, name |-> c.name, args |-> compactJSON(c.args)]
      [] protocol = "responses" ->
           [id |-> c.id, name |-> responsesQualifiedToolName(c.namespace, c.name),
            args |-> IF c.type = "custom" THEN wrapInput(c.args) ELSE c.args]

readItem(protocol, ms, item) ==
    CASE item.role = "user"      -> Append(ms, UserMessage(item.parts))
      [] item.role = "tool"      -> Append(ms, ResultMessage(protocol, ms, item))
      [] item.role = "call"      -> appendResponseToolCall(ms, readCall(protocol, item.calls[1]))
      [] item.role = "assistant" ->
           Append(ms, Message("assistant", item.text,
                              [i \in DOMAIN item.calls |-> readCall(protocol, item.calls[i])]))

chatRequest(protocol, items) ==
    LET read[n \in 0..Len(items)] ==
          IF n = 0 THEN <<>> ELSE readItem(protocol, read[n - 1], items[n])
    IN  read[Len(items)]

-----------------------------------------------------------------------------
(***************************************************************************)
(* Rendering a reply.                                                      *)
(***************************************************************************)
\* The call as the client is shown it.
renderCall(c) ==
    LET target == responseToolTarget(c.name) IN
    CASE client.protocol = "chat"      ->
           [type |-> "function", id |-> c.id, namespace |-> <<>>, name |-> c.name, args |-> c.args]
      [] client.protocol = "anthropic" ->
           [type |-> "function", id |-> c.id, namespace |-> <<>>, name |-> c.name,
            args |-> compactJSON(c.args)]
      [] client.protocol = "responses" ->
           [type |-> target.type, id |-> c.id, namespace |-> target.namespace, name |-> target.name,
            args |-> IF target.type = "custom" THEN customToolInput(c.args) ELSE c.args]

\* One message, or in the Responses protocol an item for the text, unless
\* there is none beside calls, and one for each call.
build(text, calls) ==
    LET shown == [i \in DOMAIN calls |-> renderCall(calls[i])] IN
    IF client.protocol # "responses" THEN <<Item("assistant", text, shown)>>
    ELSE (IF text # <<>> \/ calls = <<>> THEN <<Item("assistant", text, <<>>)>> ELSE <<>>)
         \o [i \in DOMAIN shown |-> Item("call", <<>>, <<shown[i]>>)]

-----------------------------------------------------------------------------
(***************************************************************************)
(* The steps of a turn.                                                    *)
(***************************************************************************)
\* The calls of the last reply.
Unanswered ==
    LET answered == SelectLastInSeq(history, LAMBDA item : item.role \in {"user", "tool"})
    IN  FlattenSeq([i \in 1..Len(history) - answered |-> history[answered + i].calls])

Ask(parts) ==
    LET results == [i \in DOMAIN Unanswered |-> ResultItem(Unanswered[i].id)]
        items == history \o (IF results = <<>> THEN <<UserItem(parts)>> ELSE results)
    IN
    /\ pc = "idle"
    /\ Unanswered = <<>> => Acceptable(parts)   \* 400 otherwise, nothing happens
    /\ history' = items /\ msgs' = chatRequest(client.protocol, items)
    /\ pc' = "lookup"
    /\ UNCHANGED <<client, todo, resuming, filter, content, released, received, store,
                   turn, last>>

\* SHA-256 tells any two histories apart.
hashConversation(ms) == ms
LastAssistant(ms) == SelectLastInSeq(ms, LAMBDA m : m.role = "assistant")
conversationKey(ms) ==
    IF LastAssistant(ms) = 0 THEN <<>> ELSE hashConversation(SubSeq(ms, 1, LastAssistant(ms)))
conversationKeyWith(ms, assistant) == hashConversation(Append(ms, assistant))

\* Results without a name, or with none better than "tool", get the name the
\* store has for their call in that todo.
enrichToolResultNames(ms, t) ==
    LET Names(m) == {n \in toolNames : n.todo = t /\ n.call = m.call}
        Nameless(m) == m.role = "tool" /\ m.name \in {<<>>, <<"tool">>}
    IN  [i \in DOMAIN ms |->
            IF Nameless(ms[i]) /\ Names(ms[i]) # {}
            THEN [ms[i] EXCEPT !.name = (CHOOSE n \in Names(ms[i]) : TRUE).name]
            ELSE ms[i]]

\* sessionEntry and what complete does with it; a history that is not found
\* begins a new todo.
Lookup ==
    LET found == {e.todo : e \in {d \in byHistory : d.key = conversationKey(msgs)}} IN
    /\ pc = "lookup" /\ pc' = "stream"
    /\ \/ /\ found = {}
          /\ todo' = todo + 1 /\ resuming' = FALSE /\ msgs' = msgs
       \/ /\ todo' \in found /\ resuming' = TRUE
          /\ msgs' = enrichToolResultNames(msgs, todo')
    /\ UNCHANGED <<client, history, filter, content, released, received, store, turn, last>>

\* Without a stream nothing is given away before the end.
Receive(fragment) ==
    LET step == Push(filter, fragment) IN
    /\ pc = "stream" /\ turn < client.turns /\ received < client.most
    /\ received' = received + 1 /\ content' = content \o fragment
    /\ IF client.stream THEN filter' = step.filter /\ released' = released \o step.out
                        ELSE UNCHANGED <<filter, released>>
    /\ UNCHANGED <<client, history, pc, msgs, todo, resuming, store, turn, last>>

\* The turn ends with what the stream has said, which is not empty: complete
\* records the history with the reply and the names of its calls, and the
\* client keeps the text it was given.
Answer ==
    LET parsed == ParseToolCalls(content)
        calls  == [i \in DOMAIN parsed.calls |-> ToolCall(parsed.calls[i])]
        assistant == Message("assistant", parsed.text, calls)
        names  == {[todo |-> todo, call |-> calls[i].id, name |-> calls[i].name] :
                     i \in DOMAIN calls}
        given  == IF client.stream THEN released \o Flush(filter) ELSE parsed.text
    IN
    /\ pc = "stream" /\ content # <<>>
    /\ LET key == conversationKeyWith(msgs, assistant) IN
       byHistory' = {e \in byHistory : e.key # key} \cup {[key |-> key, todo |-> todo]}
    /\ toolNames' = IF names = {} THEN toolNames
                    ELSE {n \in toolNames : n.todo # todo} \cup names
    /\ history' = history \o build(given, calls)
    /\ last' = [content |-> content, todo |-> todo, named |-> msgs # chatRequest(client.protocol, history)]
    /\ pc' = "idle" /\ turn' = turn + 1
    /\ filter' = NewFilter /\ content' = <<>> /\ released' = <<>> /\ received' = 0
    /\ UNCHANGED <<client, msgs, todo, resuming>>

Next == \/ \E parts \in client.asks : Ask(parts)
        \/ Lookup
        \/ \E fragment \in client.fragments : Receive(fragment)
        \/ Answer

Spec == Init /\ [][Next]_vars
=============================================================================
