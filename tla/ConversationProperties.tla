----------------------- MODULE ConversationProperties -----------------------
(***************************************************************************)
(* What must hold of continued conversations.                              *)
(***************************************************************************)
EXTENDS Conversation

Todos == DOMAIN transcript
Message == [role: {"user", "assistant", "tool"}, word: Words \cup {"answer", "none"},
            call: Calls \cup {"none"}, named: BOOLEAN]

\* Every variable has its type, and the store only names todos that exist.
ConversationTypeOK ==
    /\ hist \in [Clients -> Seq(Message)] /\ id \in [Clients -> {0} \cup Todos]
    /\ req \in [Clients -> [pc: {"idle", "lookup", "enrich", "send", "wait", "put",
                                 "names", "deliver"},
                            msgs: Seq(Message), full: Seq(Message),
                            id: {0} \cup Todos, todo: {0} \cup Todos,
                            resuming: BOOLEAN, reply: Message]]
    /\ transcript \in Seq(Seq(Message)) /\ opened \in Seq(Nat) /\ users \in Seq(SUBSET Clients)
    /\ byHistory \subseteq [key: Seq(Message), todo: Todos, expires: Nat]
    /\ byTodoID \subseteq [todo: Todos, expires: Nat]
    /\ toolNames \subseteq [todo: Todos, call: Calls]
    /\ replied \in [Clients -> Nat] /\ now \in Nat
    /\ spent \in [requests: Nat, partial: Nat, edits: Nat, failures: Nat]

\* The part of a request's history that ends with the last reply.
Past(c) == LET ms == Unnamed(req[c].msgs) IN SubSeq(ms, 1, LastAssistant(ms))

\* A message as a todo opened with o messages holds it at place i, and messages
\* as such a todo holds them from its first place on: what a todo is opened with
\* is rendered, without the text of an assistant message that calls tools;
\* everything later is as the client knows it.
Told(m, i, o) == IF i <= o THEN rendered(m) ELSE m
AllTold(ms, o) == [i \in DOMAIN ms |-> Told(ms[i], i, o)]

\* The messages of s occur in t, a todo opened with o messages, in their order:
\* message i of s is message i + skipped[i] of t.
Occur(s, t, o) ==
    \E skipped \in [DOMAIN s -> 0..Len(t) - Len(s)] :
        \A i \in DOMAIN s :
            /\ t[i + skipped[i]] = Told(s[i], i + skipped[i], o)
            /\ \A j \in 1..i : skipped[j] <= skipped[i]

\* A todo is only continued for a history it has heard: every message of the
\* history up to the last reply is in the todo, in order, although clients
\* share todos, cut their histories back and fail half-way (sessionEntry only
\* sends what is new, so what is missing is lost to the assistant).  What it was
\* opened with it has heard as FlattenTurn renders it.
HistoryHeard ==
    \A c \in Clients :
        At(c, "send") /\ req[c].resuming =>
            LET t == req[c].todo IN Occur(Past(c), transcript[t], opened[t])

\* A todo that only one client has talked to, whose history was never cut back
\* and whose requests did not fail, holds all the client has said and heard:
\* nothing is sent twice and no message is left out, trimmed or not; only the
\* text beside the tool calls in what it was opened with is lost.
TranscriptComplete ==
    spent.edits = 0 /\ spent.failures = 0 =>
        \A c \in Clients :
            LET t == req[c].todo IN
            At(c, "wait") /\ users[t] = {c} =>
                transcript[t] = AllTold(Unnamed(req[c].full), opened[t])

\* A conversation answered less than its life ago can be continued by its id.
SessionsLive ==
    \A c \in Clients :
        At(c, "idle") /\ id[c] # 0 /\ now <= replied[c] + TTL =>
            \E e \in byTodoID : e.todo = id[c]
=============================================================================
