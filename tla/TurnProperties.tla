-------------------------- MODULE TurnProperties ---------------------------
(***************************************************************************)
(* What must hold of one assistant turn.                                   *)
(***************************************************************************)
EXTENDS Turn

Fragments == -1..MaxText

\* Every variable has its type; the channel never holds more than it can.
TurnTypeOK ==
    /\ mode \in [resuming: BOOLEAN, streaming: BOOLEAN]
    /\ before \in [run: {"running", "ready", "done", "failed", "over"},
                   text: Seq(Fragments), late: BOOLEAN, changed: BOOLEAN]
    /\ run \in {"pending", "running", "asking", "ready", "done", "failed"}
    /\ text \in 0..MaxText /\ recorded \in -1..MaxText
    /\ socket \in {"open", "closed"} /\ wire \in Seq(Event)
    /\ reader \in {"subscribing", "reading", "sending", "done"}
    /\ carry \in Event \cup {Nothing}
    /\ events \in Seq(Event) /\ Len(events) <= Capacity
    /\ errc \in BOOLEAN /\ ctx \in {"live", "done"}
    /\ pc \in {"select", "finish", "finish after error", "done"}
    /\ buf \in Seq(Fragments) /\ held \in Seq(Fragments) /\ emitted \in Seq(Fragments)
    /\ blocked \in BOOLEAN
    /\ result \in [kind: {"none", "ok", "run", "slow", "deadline", "closed",
                          "rest", "emit"}, content: Seq(Fragments)]
    /\ spent \in [asks: Nat, faults: Nat]

\* A streaming client sees one piece of the text: no fragment twice, none out
\* of order, none left out between two others, although the text arrives over
\* the WebSocket and over REST and is held back by the filter in between.  When
\* the turn succeeds it has seen exactly the reply, if the reply continues what
\* was streamed, and otherwise exactly what was streamed.
StreamAgrees ==
    /\ \A i \in 1..Len(emitted) - 1 : emitted[i + 1] = emitted[i] + 1
    /\ result.kind = "ok" /\ mode.streaming =>
         emitted = IF IsPrefix(buf, result.content) THEN result.content ELSE buf

\* A resumed turn never returns the answer of the turn before as it found it,
\* even when it is told READY before its run has begun, or is streamed text
\* published before: only what the earlier run added while this turn waited,
\* and with it the rest of its message, which then no longer is what the
\* request looked at.
NeverPreviousAnswer ==
    result.kind = "ok" =>
        \A i \in DOMAIN result.content :
            /\ result.content[i] = -1 => before.changed
            /\ result.content[i] = 0 => before.late

\* A new conversation whose socket stays up, whose REST reads succeed and that
\* asks for nothing is answered with the whole text of a run that is over,
\* even when the first events were missed.
WholeText ==
    result.kind = "ok" /\ ~mode.resuming /\ spent.asks = 0 /\ spent.faults = 0 =>
        run \in {"ready", "done"} /\ result.content = Text(text)

\* waitAssistant returns, and so does Subscribe, wherever waitAssistant left
\* it: nobody receives its events or its error any more.
TurnEnds == <>(pc = "done" /\ reader = "done")

\* The same as WholeText without exceptions: the comment on Stream says that
\* the reply "contains the authoritative final text".
AuthoritativeText ==
    result.kind = "ok" /\ ~mode.resuming /\ result.content # <<>> =>
        run \in {"ready", "done"} /\ result.content = Text(text)
=============================================================================
