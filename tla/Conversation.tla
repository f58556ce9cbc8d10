---------------------------- MODULE Conversation ----------------------------
(***************************************************************************)
(* Continuing conversations (complete, sessionEntry, conversationKey and   *)
(* followUpBody of internal/gateway/gateway.go over internal/session):     *)
(* chat clients send their whole history with every request; the gateway   *)
(* finds the upstream todo that already holds it, by a hash of the history *)
(* up to the last reply or by the todo id the client returns, and sends    *)
(* only what is new.                                                       *)
(*                                                                         *)
(* A hash is the thing hashed.  A transcript is what a todo holds, message *)
(* by message, without the names of tool results, which are wording.  The  *)
(* messages a todo is opened with are rendered into one text.              *)
(* Accounts, failures and streams are Gateway's and Turn's; here a request *)
(* that fails after its message was sent leaves the message behind.        *)
(***************************************************************************)
EXTENDS Integers, Sequences, SequencesExt

CONSTANTS
    Clients,     \* clients of /v1, each with at most one request under way
    Words,       \* what a user may say
    Calls,       \* ids of tool calls
    TTL,         \* life of a session (30 minutes)
    MaxTime,     \* bound on the clock
    MaxRequests, \* bound: requests made
    MaxPartial,  \* bound: requests that return a todo id
    MaxEdits,    \* bound: histories cut back by their client
    MaxFailures  \* bound: requests that fail after their message was sent

ASSUME ConversationAssumption ==
    /\ TTL \in Nat /\ MaxTime \in Nat /\ MaxRequests \in Nat
    /\ MaxPartial \in Nat /\ MaxEdits \in Nat /\ MaxFailures \in Nat

VARIABLES
    hist,       \* the history each client keeps
    id,         \* the todo id of the last response each client got, or 0
    req,        \* the request of each client
    transcript, \* of every todo, in order of creation
    opened,     \* history: with how many messages each todo was opened
    users,      \* history: the clients whose messages each todo holds
    byHistory,  \* session.Store: set of [key, todo, expires]
    byTodoID,   \* session.Store: set of [todo, expires]
    toolNames,  \* session.Store: set of [todo, call]
    replied,    \* history: when the last reply to each client was recorded
    now,
    spent       \* budgets used: requests, partial ones, edits, failures

store == <<byHistory, byTodoID, toolNames>>
vars == <<hist, id, req, transcript, opened, users, store, replied, now, spent>>

Assistant(w, c) == [role |-> "assistant", word |-> w, call |-> c, named |-> FALSE]
User(w)         == [role |-> "user", word |-> w, call |-> "none", named |-> FALSE]
\* A tool result as chat clients send it: it names the call, not the tool.
Tool(w, c)      == [role |-> "tool", word |-> w, call |-> c, named |-> FALSE]

\* The messages without the names of tool results.
Unnamed(ms) == [i \in DOMAIN ms |-> [ms[i] EXCEPT !.named = FALSE]]

NoRequest == [pc |-> "idle", msgs |-> <<>>, full |-> <<>>, id |-> 0, todo |-> 0,
              resuming |-> FALSE, reply |-> User("none")]

Init ==
    /\ hist = [c \in Clients |-> <<>>]
    /\ id = [c \in Clients |-> 0]
    /\ req = [c \in Clients |-> NoRequest]
    /\ transcript = <<>> /\ opened = <<>> /\ users = <<>>
    /\ byHistory = {} /\ byTodoID = {} /\ toolNames = {}
    /\ replied = [c \in Clients |-> 0]
    /\ now = 0
    /\ spent = [requests |-> 0, partial |-> 0, edits |-> 0, failures |-> 0]

Spend(b, max) == spent[b] < max /\ spent' = [spent EXCEPT ![b] = @ + 1]
At(c, l) == req[c].pc = l

\* The index of the last assistant message, 0 if there is none.
LastAssistant(ms) == SelectLastInSeq(ms, LAMBDA m : m.role = "assistant")

-----------------------------------------------------------------------------
(***************************************************************************)
(* The clients.  A client answers a tool call with its result and anything *)
(* else with a user message.  It sends its whole history or only the new   *)
(* message, without or with the todo id of its last response (an extension *)
(* meant for histories that are not whole), and may cut its history back.  *)
(***************************************************************************)
NextMessage(c, w) ==
    IF hist[c] # <<>> /\ Last(hist[c]).call # "none"
    THEN Tool(w, Last(hist[c]).call) ELSE User(w)

Asking(c, w, whole, todo) ==
    LET new == NextMessage(c, w)
        all == Append(hist[c], new)
    IN  [NoRequest EXCEPT !.pc = "lookup", !.full = all, !.id = todo,
                          !.msgs = IF whole THEN all ELSE <<new>>]

AskWhole(c, w) ==
    /\ At(c, "idle") /\ Spend("requests", MaxRequests)
    /\ req' = [req EXCEPT ![c] = Asking(c, w, TRUE, 0)]
    /\ UNCHANGED <<hist, id, transcript, opened, users, store, replied, now>>

AskWithID(c, w, whole) ==
    /\ At(c, "idle") /\ id[c] # 0
    /\ spent.requests < MaxRequests /\ spent.partial < MaxPartial
    /\ spent' = [spent EXCEPT !.requests = @ + 1, !.partial = @ + 1]
    /\ req' = [req EXCEPT ![c] = Asking(c, w, whole, id[c])]
    /\ UNCHANGED <<hist, id, transcript, opened, users, store, replied, now>>

Edit(c) ==
    /\ At(c, "idle") /\ Spend("edits", MaxEdits)
    /\ \E n \in 0..Len(hist[c]) - 1 :
         /\ n > 0 => hist[c][n].role = "assistant"
         /\ hist' = [hist EXCEPT ![c] = SubSeq(hist[c], 1, n)]
    /\ UNCHANGED <<id, req, transcript, opened, users, store, replied, now>>

-----------------------------------------------------------------------------
(***************************************************************************)
(* Faulty variants of the definitions below; no action uses them.          *)
(***************************************************************************)
\* A hash of the last message instead of all of them.
hashesLast(ms) == <<Last(ms)>>

\* The follow-up turn begins with the last assistant message, not after it.
fromAssistant(ms) == IF LastAssistant(ms) = 0 THEN ms ELSE SubSeq(ms, LastAssistant(ms), Len(ms))

\* Tool names are recorded for replies that call no tool, too.
remembersAlways(c) == /\ At(c, "put") /\ req' = [req EXCEPT ![c].pc = "names"]
                      /\ UNCHANGED <<hist, id, transcript, opened, users, store, replied, now, spent>>

\* A cleanup that takes sessions away when their life is over to the minute.
expiredEarly(e) == now >= e.expires - 1

-----------------------------------------------------------------------------
(***************************************************************************)
(* session.Store.                                                          *)
(***************************************************************************)
Entry(t) == [todo |-> t, expires |-> now + TTL]
Keyed(k, t) == [key |-> k, todo |-> t, expires |-> now + TTL]

Put(k, t) ==
    /\ byHistory' = {e \in byHistory : e.key # k} \cup {Keyed(k, t)}
    /\ byTodoID' = {e \in byTodoID : e.todo # t} \cup {Entry(t)}

\* The names of the last reply that called tools replace the earlier ones.
PutToolNames(t, call) ==
    toolNames' = {n \in toolNames : n.todo # t} \cup {[todo |-> t, call |-> call]}

expired(e) == now > e.expires

cleanup ==
    LET kept == {e \in byTodoID : ~expired(e)} IN
    /\ \E e \in byHistory \cup byTodoID : expired(e)
    /\ byHistory' = {e \in byHistory : ~expired(e)}
    /\ byTodoID' = kept
    /\ toolNames' = {n \in toolNames : n.todo \in {e.todo : e \in kept}}
    /\ UNCHANGED <<hist, id, req, transcript, opened, users, replied, now, spent>>

-----------------------------------------------------------------------------
(***************************************************************************)
(* A request.                                                              *)
(***************************************************************************)
\* SHA-256 tells any two lists of messages apart; their texts, tool calls and
\* the names of tool results all enter it.
hashConversation(ms) == ms

\* The key a request is looked up by, <<>> if its history has no reply.
conversationKey(ms) ==
    IF LastAssistant(ms) = 0 THEN <<>> ELSE hashConversation(SubSeq(ms, 1, LastAssistant(ms)))

\* The key its answer is recorded under.
conversationKeyWith(ms, assistant) == hashConversation(Append(ms, assistant))

\* sessionEntry: by the todo id first, then by the history; at most one.
sessionEntry(r) ==
    LET known == {e.todo : e \in {d \in byTodoID : d.todo = r.id}}
        hashed == {e.todo : e \in {d \in byHistory : d.key = conversationKey(r.msgs)}}
    IN  IF known # {} THEN known ELSE hashed

Lookup(c) ==
    LET found == sessionEntry(req[c]) IN
    /\ At(c, "lookup")
    /\ \/ /\ found = {} /\ req[c].id # 0          \* the session is unavailable
          /\ req' = [req EXCEPT ![c] = NoRequest]
       \/ /\ found = {} /\ req[c].id = 0
          /\ req' = [req EXCEPT ![c].pc = "send"]
       \/ \E t \in found :
            req' = [req EXCEPT ![c].pc = "enrich", ![c].todo = t, ![c].resuming = TRUE]
    /\ UNCHANGED <<hist, id, transcript, opened, users, store, replied, now, spent>>

\* Tool results without a name get the one the store has for their call.
enrichToolResultNames(c) ==
    LET ms == req[c].msgs
        named(m) == \/ m.named
                    \/ /\ m.role = "tool"
                       /\ [todo |-> req[c].todo, call |-> m.call] \in toolNames
    IN
    /\ At(c, "enrich")
    /\ req' = [req EXCEPT ![c].pc = "send",
                 ![c].msgs = [i \in DOMAIN ms |-> [ms[i] EXCEPT !.named = named(ms[i])]]]
    /\ UNCHANGED <<hist, id, transcript, opened, users, store, replied, now, spent>>

\* What follows the last assistant message.
followUpMessages(ms) == SubSeq(ms, LastAssistant(ms) + 1, Len(ms))

\* A request is rendered as text: of an assistant message that calls tools only
\* the calls, of any other message its text.
rendered(m) == IF m.role = "assistant" /\ m.call # "none" THEN [m EXCEPT !.word = "none"] ELSE m
FlattenTurn(ms) == [i \in DOMAIN ms |-> rendered(ms[i])]

\* A new todo is sent the whole history, a resumed one what is new.
Send(c) ==
    LET ms == Unnamed(req[c].msgs)
        t  == req[c].todo
    IN
    /\ At(c, "send")
    /\ IF req[c].resuming
       THEN /\ transcript' = [transcript EXCEPT ![t] = @ \o FlattenTurn(followUpMessages(ms))]
            /\ users' = [users EXCEPT ![t] = @ \cup {c}]
            /\ req' = [req EXCEPT ![c].pc = "wait"]
            /\ UNCHANGED opened
       ELSE /\ transcript' = Append(transcript, FlattenTurn(ms))
            /\ opened' = Append(opened, Len(ms))
            /\ users' = Append(users, {c})
            /\ req' = [req EXCEPT ![c].pc = "wait", ![c].todo = Len(transcript) + 1]
    /\ UNCHANGED <<hist, id, store, replied, now, spent>>

\* The assistant answers in the todo, with text or a tool call.  All texts are
\* the same text, which is when histories of different todos are most alike.
Reply(c, call) ==
    LET reply == Assistant("answer", call) IN
    /\ At(c, "wait")
    /\ transcript' = [transcript EXCEPT ![req[c].todo] = Append(@, reply)]
    /\ req' = [req EXCEPT ![c].pc = "put", ![c].reply = reply]
    /\ UNCHANGED <<hist, id, opened, users, store, replied, now, spent>>

\* The request fails; the message stays in the todo.
Fail(c) ==
    /\ At(c, "wait") /\ Spend("failures", MaxFailures)
    /\ req' = [req EXCEPT ![c] = NoRequest]
    /\ UNCHANGED <<hist, id, transcript, opened, users, store, replied, now>>

Remember(c) ==
    /\ At(c, "put")
    /\ Put(conversationKeyWith(req[c].msgs, req[c].reply), req[c].todo)
    /\ replied' = [replied EXCEPT ![c] = now]
    /\ req' = [req EXCEPT ![c].pc = IF req[c].reply.call = "none" THEN "deliver" ELSE "names"]
    /\ UNCHANGED <<hist, id, transcript, opened, users, toolNames, now, spent>>

RememberNames(c) ==
    /\ At(c, "names")
    /\ PutToolNames(req[c].todo, req[c].reply.call)
    /\ req' = [req EXCEPT ![c].pc = "deliver"]
    /\ UNCHANGED <<hist, id, transcript, opened, users, byHistory, byTodoID, replied, now, spent>>

\* The client appends the reply to the history as it knows it.
Deliver(c) ==
    /\ At(c, "deliver")
    /\ hist' = [hist EXCEPT ![c] = Append(req[c].full, req[c].reply)]
    /\ id' = [id EXCEPT ![c] = req[c].todo]
    /\ req' = [req EXCEPT ![c] = NoRequest]
    /\ UNCHANGED <<transcript, opened, users, store, replied, now, spent>>

Tick ==
    /\ now < MaxTime /\ now' = now + 1
    /\ UNCHANGED <<hist, id, req, transcript, opened, users, store, replied, spent>>

-----------------------------------------------------------------------------
Serve(c) ==
    \/ Lookup(c) \/ enrichToolResultNames(c) \/ Send(c)
    \/ \E call \in Calls \cup {"none"} : Reply(c, call)
    \/ Fail(c) \/ Remember(c) \/ RememberNames(c) \/ Deliver(c)

Chat(c) ==
    \/ \E w \in Words : AskWhole(c, w) \/ \E whole \in BOOLEAN : AskWithID(c, w, whole)
    \/ Edit(c)

Next == (\E c \in Clients : Chat(c) \/ Serve(c)) \/ cleanup \/ Tick

Spec == Init /\ [][Next]_vars
=============================================================================
