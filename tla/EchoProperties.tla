--------------------------- MODULE EchoProperties ---------------------------
(***************************************************************************)
(* What must hold of what a client is given and sends back.                *)
(***************************************************************************)
EXTENDS Echo

Texts == Seq(Tokens \cup {"text", "image", "link"})
Names == {<<>>, <<"tool">>, <<"f">>, <<"ns", "f">>}
CallRecords == [id: Bodies, name: Names, args: Bodies \cup {"{}", "wrapped"}]

\* Every variable has its type; only calls in a reply or a result have ids and
\* names, and a filter that has met a call holds nothing.
EchoTypeOK ==
    /\ client \in Clients /\ pc \in {"idle", "lookup", "stream"}
    /\ \A m \in Range(msgs) :
         /\ m.role \in {"user", "assistant", "tool"} /\ m.text \in Texts
         /\ m.calls \in Seq(CallRecords) /\ m.name \in Names /\ m.images \in Nat
         /\ m.calls # <<>> => m.role = "assistant"
         /\ m.role = "tool" <=> m.call \in Bodies
         /\ m.name # <<>> => m.role = "tool"
    /\ todo \in Nat /\ resuming \in BOOLEAN /\ received \in 0..client.most
    /\ turn \in 0..client.turns
    /\ filter \in [pending: Texts, inBlock: BOOLEAN, stopped: BOOLEAN]
    /\ filter.stopped => filter.pending = <<>>
    /\ content \in Texts /\ released \in Texts
    /\ \A e \in byHistory : e.todo \in 1..todo /\ Last(e.key).role = "assistant"
    /\ toolNames \subseteq [todo: 1..todo, call: Bodies, name: Names]

\* The text before the first valid block of a reply, or all of it.
Ordinary(text) ==
    LET starts == {b.start : b \in {c \in Range(findToolBlocks(text)) : Valid(c)}}
    IN  IF starts = {} THEN text ELSE SubSeq(text, 1, Min(starts) - 1)

\* The filter and the parser agree, however the reply is cut into fragments
\* and wherever it ends: what is streamed is the text before the first valid
\* block, once and in order, and if there is none all of it.  What is held
\* back meanwhile could still become part of a block, so that no text waits
\* longer than it must.
FilterAgrees ==
    client.stream /\ pc = "stream" =>
        /\ released \o Flush(filter) = Ordinary(content)
        /\ \/ IsStrictPrefix(filter.pending, toolOpenTag)
           \/ /\ IsPrefix(toolOpenTag, filter.pending)
              /\ Index(filter.pending, toolCloseTag, 1) = 0

\* The reply a client was given differs from the one recorded: streamed text
\* before a call is recorded trimmed, Anthropic clients are shown arguments
\* compacted, and Responses clients the input of a custom tool, which is
\* wrapped in JSON again when it comes back.
Respelled(text) ==
    LET calls == ParseToolCalls(text).calls IN
    /\ calls # <<>>
    /\ \/ client.stream /\ Ordinary(text) # TrimSpace(Ordinary(text))
       \/ client.protocol = "anthropic" /\ "spaced" \in Range(calls)
       \/ client.protocol = "responses" /\ client.tool = "custom" /\ Range(calls) # {"compact"}

\* A client that sends back what it was given continues its todo, in each
\* protocol, streaming or not, with and without calls, texts, images and names
\* of every kind; it is started over exactly if the last reply is one of those
\* spelled differently, or was recorded with names the client did not send.
EchoResumes ==
    pc = "stream" /\ turn > 0 =>
        /\ resuming <=> ~Respelled(last.content) /\ ~last.named
        /\ resuming => todo = last.todo

\* A client that repeats its history untouched is never started over: README,
\* Continuation: "The gateway hashes the complete canonical message history",
\* and only a client that "trims or reorders history" needs to return the id.
UntouchedHistoryResumes == pc = "stream" /\ turn > 0 => resuming
=============================================================================
