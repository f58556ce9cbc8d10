-------------------------------- MODULE Turn --------------------------------
(***************************************************************************)
(* One assistant turn: waitAssistant and finishAssistant of                *)
(* internal/gateway/gateway.go, the subscription that feeds them           *)
(* (internal/upstream/ws.go), and the run upstream, which publishes its    *)
(* text over the WebSocket and records it for REST.                        *)
(*                                                                         *)
(* Text is a sequence of fragments numbered from 1.  Of a todo that is     *)
(* resumed, REST shows the answer of the turn before, <<-1>>, unless its   *)
(* run has not recorded any.  That run may still be at work, when its turn *)
(* ended early or the todo is shared: it then produces at most fragment 0, *)
(* asks for nothing, and ends before the new run starts.                   *)
(*                                                                         *)
(* The stream filter is the part of it any filter has: it may hold text    *)
(* back, and lets all of it go at the end (tool blocks are ToolFilter's).  *)
(* Timers may fire at any moment.                                          *)
(***************************************************************************)
EXTENDS Integers, Sequences, SequencesExt

CONSTANTS
    Capacity, \* of the channel events (32)
    MaxText,  \* bound: fragments of the answer, and of the one before
    MaxAsks,  \* bound: times the run asks for an approval
    MaxFaults \* bound: the socket breaks, REST reads that fail, or that show
              \* no message of the run before yet

ASSUME TurnAssumption ==
    /\ Capacity \in Nat \ {0} /\ MaxText \in Nat /\ MaxAsks \in Nat /\ MaxFaults \in Nat

VARIABLES
    mode,     \* of the request: resuming a todo, streaming to its client
    before,   \* the run before, and its message as REST shows it
    run,      \* the run upstream
    text,     \* number of fragments it has produced
    recorded, \* number of them REST shows; -1 before the message exists
    socket,   \* the WebSocket
    wire,     \* events on it
    reader,   \* the goroutine running Subscribe
    carry,    \* the event it is about to send
    events,   \* channel to waitAssistant
    errc,     \* channel of capacity one: Subscribe has returned
    ctx,      \* runCtx: live or done (PollTimeout, client gone, complete returned)
    pc,       \* waitAssistant
    buf,      \* buf: the text received
    held,     \* filter.pending
    emitted,  \* the text given to the client
    blocked,  \* pendingBlocks is not empty
    result,   \* what waitAssistant returned
    spent     \* budgets used: asks, faults

upstream == <<before, run, text, recorded>>
stream   == <<socket, wire, reader, carry, events, errc>>
waiter   == <<pc, buf, held, emitted, blocked, result>>
vars == <<mode, upstream, stream, ctx, waiter, spent>>

Text(n) == [i \in 1..n |-> i]
Previous == <<-1>>
Statuses == {"asking", "answered", "ready", "done", "failed"}
Event == [type: {"message"}, n: 0..MaxText] \cup [type: Statuses, n: {0}]
Nothing == [type |-> "nothing", n |-> 0]
Status(s) == [type |-> s, n |-> 0]
Fragment(i) == [type |-> "message", n |-> i]

Init ==
    /\ mode \in [resuming: BOOLEAN, streaming: BOOLEAN]
    /\ before \in {[run |-> r, text |-> t, late |-> FALSE, changed |-> FALSE] :
                     r \in IF mode.resuming THEN {"running", "ready"} ELSE {"over"},
                     t \in IF mode.resuming THEN {<<>>, Previous} ELSE {<<>>}}
    /\ before.run = "ready" => before.text = Previous
    /\ run = "pending" /\ text = 0 /\ recorded = -1
    /\ socket = "open" /\ wire = <<>> /\ reader = "subscribing"
    /\ carry = Nothing /\ events = <<>> /\ errc = FALSE
    /\ ctx = "live"
    /\ pc = "select" /\ buf = <<>> /\ held = <<>> /\ emitted = <<>>
    /\ blocked = FALSE
    /\ result = [kind |-> "none", content |-> <<>>]
    /\ spent = [asks |-> 0, faults |-> IF mode.resuming /\ before.text = <<>> THEN 1 ELSE 0]

Faulted == spent' = [spent EXCEPT !.faults = @ + 1]
Fault   == spent.faults < MaxFaults /\ Faulted

-----------------------------------------------------------------------------
(***************************************************************************)
(* The run upstream.  What is published before the tab is subscribed does  *)
(* not reach it; from some moment of that call on everything does.         *)
(***************************************************************************)
Publish(evs) ==
    /\ \/ socket = "open" /\ wire' = wire \o evs
       \/ socket = "closed" /\ UNCHANGED wire
       \/ reader = "subscribing" /\ wire = <<>> /\ UNCHANGED wire
    /\ UNCHANGED <<mode, socket, reader, carry, events, errc, ctx, waiter>>

\* The run before, if it is still at work; what it records, and the usage
\* recorded at its end, changes its message.
ProduceLate ==
    /\ before.run = "running" /\ ~before.late /\ MaxText > 0
    /\ before' = [before EXCEPT !.late = TRUE]
    /\ Publish(<<Fragment(0)>>)
    /\ UNCHANGED <<run, text, recorded, spent>>

grown == IF before.late /\ ~Contains(before.text, 0) THEN Append(before.text, 0) ELSE before.text

RecordLate ==
    /\ before.run = "running" /\ grown # before.text
    /\ before' = [before EXCEPT !.text = grown, !.changed = TRUE]
    /\ UNCHANGED <<mode, run, text, recorded, stream, ctx, waiter, spent>>

EndLate(s) ==
    /\ before.run = "running"
    /\ before' = IF s = "failed" THEN [before EXCEPT !.run = s]
                 ELSE [before EXCEPT !.run = s, !.text = grown, !.changed = TRUE]
    /\ Publish(<<Status(s)>>)
    /\ UNCHANGED <<run, text, recorded, spent>>

Run ==
    /\ run = "pending" /\ before.run # "running" /\ run' = "running"
    /\ before' = [before EXCEPT !.run = "over"]
    /\ UNCHANGED <<mode, text, recorded, stream, ctx, waiter, spent>>

Produce ==
    /\ run = "running" /\ text < MaxText - (IF before.late THEN 1 ELSE 0)
    /\ text' = text + 1
    /\ Publish(<<Fragment(text + 1)>>)
    /\ UNCHANGED <<before, run, recorded, spent>>

\* The message under way becomes visible to REST.
Record ==
    /\ run \in {"running", "asking"} /\ recorded < text
    /\ recorded' = text
    /\ UNCHANGED <<mode, before, run, text, stream, ctx, waiter, spent>>

\* A block awaits approval; the todo reports READY meanwhile.
Ask ==
    /\ run = "running" /\ spent.asks < MaxAsks
    /\ run' = "asking"
    /\ spent' = [spent EXCEPT !.asks = @ + 1]
    /\ Publish(<<Status("asking"), Status("ready")>>)
    /\ UNCHANGED <<before, text, recorded>>

Decide ==
    /\ run = "asking" /\ run' = "running"
    /\ Publish(<<Status("answered")>>)
    /\ UNCHANGED <<before, text, recorded, spent>>

End(s) ==
    /\ run = "running" /\ run' = s
    /\ recorded' = IF s = "failed" THEN recorded ELSE text
    /\ Publish(<<Status(s)>>)
    /\ UNCHANGED <<before, text, spent>>

\* The text of the last assistant message REST shows, empty if there is none,
\* and whether it differs from the last one before the message was sent, whose
\* signature latestAssistantSignature took.
latest == IF recorded >= 0 THEN Text(recorded) ELSE before.text
new    == recorded >= 0 \/ before.changed

-----------------------------------------------------------------------------
(***************************************************************************)
(* Faulty variants of the definitions below; no action uses them.          *)
(***************************************************************************)
\* A channel without a bound.
forwardsAlways ==
    /\ reader = "sending"
    /\ events' = Append(events, carry) /\ carry' = Nothing /\ reader' = "reading"
    /\ UNCHANGED <<mode, upstream, socket, wire, errc, ctx, waiter, spent>>

\* The whole content is emitted at the end, whatever was streamed.
wholeSuffix(content) == content

\* The latest assistant message is taken whether or not it is new.
latestOfAny == IF latest = <<>> THEN buf ELSE latest

\* The streamed text is preferred to the recorded one.
streamedFirst == IF buf = <<>> /\ new THEN latest ELSE buf

-----------------------------------------------------------------------------
(***************************************************************************)
(* The subscription.                                                       *)
(***************************************************************************)
Break ==
    /\ socket = "open" /\ Fault
    /\ socket' = "closed"
    /\ \E n \in 0..Len(wire) : wire' = SubSeq(wire, 1, n)
    /\ UNCHANGED <<mode, upstream, reader, carry, events, errc, ctx, waiter>>

Subscribed ==
    /\ reader = "subscribing" /\ ctx = "live"
    /\ reader' = "reading"
    /\ UNCHANGED <<mode, upstream, socket, wire, carry, events, errc, ctx, waiter, spent>>

SubscribeFails ==
    /\ reader = "subscribing"
    /\ \/ ctx = "done" /\ UNCHANGED spent
       \/ Fault
    /\ reader' = "done" /\ errc' = TRUE
    /\ UNCHANGED <<mode, upstream, socket, wire, carry, events, ctx, waiter>>

Read ==
    /\ reader = "reading" /\ wire # <<>>
    /\ carry' = Head(wire) /\ wire' = Tail(wire)
    /\ reader' = "sending"
    /\ UNCHANGED <<mode, upstream, socket, events, errc, ctx, waiter, spent>>

sendEvent ==
    /\ reader = "sending" /\ Len(events) < Capacity
    /\ events' = Append(events, carry) /\ carry' = Nothing /\ reader' = "reading"
    /\ UNCHANGED <<mode, upstream, socket, wire, errc, ctx, waiter, spent>>

sendCancelled ==
    /\ reader = "sending" /\ ctx = "done"
    /\ reader' = "done" /\ carry' = Nothing /\ errc' = TRUE
    /\ UNCHANGED <<mode, upstream, socket, wire, events, ctx, waiter, spent>>

ReadFails ==
    /\ reader = "reading" /\ wire = <<>> /\ socket = "closed"
    /\ reader' = "done" /\ errc' = TRUE
    /\ UNCHANGED <<mode, upstream, socket, wire, carry, events, ctx, waiter, spent>>

-----------------------------------------------------------------------------
(***************************************************************************)
(* waitAssistant: whichever of its channels is ready.                      *)
(***************************************************************************)
Return(kind) ==
    /\ pc' = "done" /\ result' = [result EXCEPT !.kind = kind]
    /\ UNCHANGED <<buf, held, emitted, blocked>>

Finish(why) ==
    /\ pc' = why
    /\ UNCHANGED <<buf, held, emitted, blocked, result>>

\* A status, from an event or from REST: READY does not count while a block
\* is pending, DONE always does.
OnStatus(s) ==
    CASE s = "failed" -> Return("run")
      [] s = "done" \/ (s = "ready" /\ ~blocked) -> Finish("finish")
      [] OTHER -> UNCHANGED waiter

\* The filter keeps a suffix of what it has and lets the rest go.
Push(n) ==
    IF mode.streaming
    THEN \E k \in 0..Len(held) + 1 :
           /\ emitted' = emitted \o SubSeq(Append(held, n), 1, k)
           /\ held' = SubSeq(Append(held, n), k + 1, Len(held) + 1)
    ELSE UNCHANGED <<held, emitted>>

OnEvent ==
    LET ev == Head(events) IN
    /\ pc = "select" /\ events # <<>>
    /\ events' = Tail(events)
    /\ \/ /\ ev.type = "message"
          /\ buf' = Append(buf, ev.n)
          /\ Push(ev.n)
          /\ UNCHANGED <<pc, blocked, result>>
       \/ /\ ev.type = "message" /\ mode.streaming   \* the client is gone
          /\ pc' = "done" /\ result' = [result EXCEPT !.kind = "emit"]
          /\ buf' = Append(buf, ev.n)
          /\ UNCHANGED <<held, emitted, blocked>>
       \/ /\ ev.type \in {"asking", "answered"}
          /\ blocked' = (ev.type = "asking")
          /\ UNCHANGED <<pc, buf, held, emitted, result>>
       \/ ev.type \in {"ready", "done", "failed"} /\ OnStatus(ev.type)
    /\ UNCHANGED <<mode, upstream, socket, wire, reader, carry, errc, ctx, spent>>

\* The subscription ended.
OnErrc ==
    /\ pc = "select" /\ errc
    /\ errc' = FALSE
    /\ IF ctx = "done" THEN Return("deadline") ELSE Finish("finish after error")
    /\ UNCHANGED <<mode, upstream, socket, wire, reader, carry, events, ctx, spent>>

\* restTicker: the status GET /todos reports.  A todo that is resumed reports
\* the status of the run before until its own starts.
todoStatus ==
    CASE run = "pending" -> IF mode.resuming THEN before.run ELSE "running"
      [] run = "asking"  -> "ready"
      [] OTHER           -> run

OnTick ==
    /\ pc = "select"
    /\ OnStatus(todoStatus)
    /\ UNCHANGED <<mode, upstream, stream, ctx, spent>>

\* firstResponseTimer, stopped by the first fragment.
OnFirstResponseTimer ==
    /\ pc = "select" /\ buf = <<>>
    /\ Return("slow")
    /\ UNCHANGED <<mode, upstream, stream, ctx, spent>>

OnDone ==
    /\ pc = "select" /\ ctx = "done"
    /\ Return("deadline")
    /\ UNCHANGED <<mode, upstream, stream, ctx, spent>>

-----------------------------------------------------------------------------
(***************************************************************************)
(* finishAssistant.                                                        *)
(***************************************************************************)
\* finalAssistant: the text of the latest assistant message if it is new and
\* has one, the streamed text otherwise.  New is every message that is not as
\* it was when the request looked, the one of the run before included.
finalAssistant == IF new /\ latest # <<>> THEN latest ELSE buf

\* What is still to be emitted: the text held back, after the missing suffix
\* if the content continues what was streamed.
finalDelta(content) ==
    held \o (IF IsPrefix(buf, content)
             THEN SubSeq(content, Len(buf) + 1, Len(content)) ELSE <<>>)

Finished(content) ==
    \/ /\ pc = "finish after error" /\ content = <<>>
       /\ Return("closed")
    \/ /\ pc = "finish" \/ content # <<>>
       /\ pc' = "done" /\ result' = [kind |-> "ok", content |-> content]
       /\ held' = <<>>
       /\ emitted' = IF mode.streaming THEN emitted \o finalDelta(content) ELSE emitted
       /\ UNCHANGED <<buf, blocked>>

\* Faulty variant of the next definition, used by no action: a failed read of
\* the messages is repeated until it succeeds.
retriesRest ==
    /\ pc \in {"finish", "finish after error"} /\ ctx = "live"
    /\ Finished(finalAssistant)
    /\ UNCHANGED <<mode, upstream, stream, ctx, spent>>

Finishing ==
    /\ pc \in {"finish", "finish after error"}
    /\ \/ Finished(finalAssistant) /\ UNCHANGED spent
       \/ /\ Fault \/ (ctx = "done" /\ Faulted)   \* Messages fails
          /\ IF buf # <<>> THEN Finished(buf) ELSE Return("rest")
       \/ mode.streaming /\ Return("emit") /\ UNCHANGED spent
    /\ UNCHANGED <<mode, upstream, stream, ctx>>

-----------------------------------------------------------------------------
\* PollTimeout is over, the client left, or complete returned: the goroutine
\* of PrepareSubscription closes the socket.
Cancel ==
    /\ ctx = "live" /\ ctx' = "done"
    /\ socket' = "closed" /\ wire' = <<>>
    /\ UNCHANGED <<mode, upstream, reader, carry, events, errc, waiter, spent>>

\* sub.Close, before the request moves on.
Close ==
    /\ pc = "done" /\ socket = "open"
    /\ socket' = "closed" /\ wire' = <<>>
    /\ UNCHANGED <<mode, upstream, reader, carry, events, errc, ctx, waiter, spent>>

Upstream == ProduceLate \/ RecordLate \/ (\E s \in {"ready", "done", "failed"} : EndLate(s))
            \/ Run \/ Produce \/ Record \/ Ask \/ Decide
            \/ \E s \in {"ready", "done", "failed"} : End(s)
Subscribe == Subscribed \/ SubscribeFails \/ Read \/ sendEvent \/ sendCancelled \/ ReadFails
waitAssistant == OnEvent \/ OnErrc \/ OnTick \/ OnFirstResponseTimer \/ OnDone \/ Finishing

Next == Upstream \/ Break \/ Subscribe \/ waitAssistant \/ Cancel \/ Close

Spec == Init /\ [][Next]_vars

\* Both goroutines are scheduled and the context ends; the upstream owes
\* nothing.
FairSpec == Spec /\ WF_vars(Subscribe) /\ WF_vars(waitAssistant)
                 /\ WF_vars(Cancel) /\ WF_vars(Close)
=============================================================================
