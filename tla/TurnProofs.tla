------------------------------ MODULE TurnProofs ------------------------------
(***************************************************************************)
(* Proofs about one assistant turn, for every length of the answer, every  *)
(* capacity of the channel and every number of approvals and faults.       *)
(***************************************************************************)
EXTENDS TurnProperties, SequenceTheorems, TLAPS

(***************************************************************************)
(* The inductive invariant.                                                *)
(***************************************************************************)
Kinds == {"none", "ok", "run", "slow", "deadline", "closed", "rest", "emit"}

\* TurnTypeOK; REST never shows more than was produced.
Types ==
    /\ mode \in [resuming: BOOLEAN, streaming: BOOLEAN]
    /\ run \in {"pending", "running", "asking", "ready", "done", "failed"}
    /\ text \in 0..MaxText /\ recorded \in -1..MaxText /\ recorded <= text
    /\ socket \in {"open", "closed"} /\ wire \in Seq(Event)
    /\ reader \in {"subscribing", "reading", "sending", "done"}
    /\ carry \in Event \cup {Nothing}
    /\ events \in Seq(Event) /\ Len(events) <= Capacity
    /\ errc \in BOOLEAN /\ ctx \in {"live", "done"}
    /\ pc \in {"select", "finish", "finish after error", "done"}
    /\ buf \in Seq(Fragments) /\ held \in Seq(Fragments) /\ emitted \in Seq(Fragments)
    /\ blocked \in BOOLEAN
    /\ result \in [kind: Kinds, content: Seq(Fragments)]
    /\ spent \in [asks: Nat, faults: Nat]

\* The run before is over once the new one has started, and a new todo has none;
\* of a run that has not started there is no text.
BeforeInv ==
    /\ before \in [run: {"running", "ready", "done", "failed", "over"},
                   text: {<<>>, <<-1>>, <<0>>, <<-1, 0>>}, late: BOOLEAN, changed: BOOLEAN]
    /\ before.text \in {<<0>>, <<-1, 0>>} => before.late
    /\ IF run = "pending" THEN text = 0 /\ recorded = -1 ELSE before.run # "running"
    /\ ~mode.resuming =>
         before.run = "over" /\ before.text = <<>> /\ ~before.late /\ ~before.changed

\* What is on its way to waitAssistant, the next event first.
Hand == IF carry = Nothing THEN <<>> ELSE <<carry>>
Pipe == events \o Hand \o wire

\* The reader has an event only while it sends it, nothing before it has
\* subscribed; a context that is done has closed the socket.
ReaderInv ==
    /\ reader = "sending" <=> carry # Nothing
    /\ reader = "subscribing" => events = <<>> /\ buf = <<>>
    /\ ctx = "done" => socket = "closed" /\ wire = <<>>

\* Every fragment on its way follows the one before it, on its way too or
\* received; while the socket is open the last one is the last one produced.
IsText(q, i) == q[i].type = "message"
Follows(b, q, j) ==
    \/ \E i \in 1..j - 1 : /\ IsText(q, i) /\ q[j].n = q[i].n + 1
                           /\ \A k \in i + 1..j - 1 : ~IsText(q, k)
    \/ /\ \A i \in 1..j - 1 : ~IsText(q, i)
       /\ b # <<>> => q[j].n = b[Len(b)] + 1
Chained(b, q) == \A j \in 1..Len(q) : IsText(q, j) => Follows(b, q, j)
Newest(b, q, n) ==
    \/ \E i \in 1..Len(q) : IsText(q, i) /\ q[i].n = n /\ \A k \in i + 1..Len(q) : ~IsText(q, k)
    \/ (\A i \in 1..Len(q) : ~IsText(q, i)) /\ (b # <<>> => b[Len(b)] = n)
Consecutive(s) == \A i \in 1..Len(s) - 1 : s[i + 1] = s[i] + 1

PipeInv ==
    /\ Chained(buf, Pipe) /\ Consecutive(buf)
    /\ socket = "open" => Newest(buf, Pipe, text)

\* What was received is emitted or held back, until the turn is over.
StreamInv ==
    /\ StreamAgrees
    /\ pc # "done" => result.kind = "none"
    /\ IF mode.streaming THEN pc # "done" => buf = emitted \o held
       ELSE emitted = <<>> /\ held = <<>>

\* What is on its way or received is text of the new run, or the one fragment
\* the run before produced.  Without an approval, READY and DONE are only told of
\* a run that is over, of which REST shows everything, unless the todo was
\* resumed; without a fault, the subscription ends only after the context or the
\* turn.
Over == run \in {"ready", "done"}
WholeInv ==
    /\ Over => recorded = text
    /\ \A i \in 1..Len(Pipe) : IsText(Pipe, i) =>
         Pipe[i].n <= text /\ (Pipe[i].n = 0 => before.late)
    /\ \A i \in 1..Len(buf) : buf[i] \in 0..text /\ (buf[i] = 0 => before.late)
    /\ spent.asks = 0 =>
         /\ run # "asking"
         /\ ~mode.resuming => \A i \in 1..Len(Pipe) : Pipe[i].type \in {"ready", "done"} => Over
         /\ pc = "finish" /\ ~mode.resuming => Over
    /\ spent.faults = 0 =>
         /\ socket = "closed" => ctx = "done" \/ pc = "done"
         /\ errc => ctx = "done" \/ pc = "done"
         /\ pc # "finish after error"
    /\ WholeText /\ NeverPreviousAnswer

TurnInv == Types /\ BeforeInv /\ ReaderInv /\ PipeInv /\ StreamInv /\ WholeInv

(***************************************************************************)
(* Events.                                                                 *)
(***************************************************************************)
LEMMA Events ==
    /\ Nothing \notin Event
    /\ \A e \in Event : e.type = "message" => e.n \in 0..MaxText /\ e.n \in Fragments
    /\ \A i \in 0..MaxText : Fragment(i) \in Event /\ Fragment(i).type = "message" /\ Fragment(i).n = i
    /\ \A s \in Statuses : Status(s) \in Event /\ Status(s).type = s /\ Status(s).type # "message"
BY TurnAssumption DEF TurnAssumption, Event, Nothing, Fragments, Statuses, Fragment, Status

LEMMA HandSeq ==
    ASSUME Types
    PROVE  Hand \in Seq(Event) /\ events \in Seq(Event) /\ wire \in Seq(Event) /\ Pipe \in Seq(Event)
<1>1. Hand \in Seq(Event)
    <2>1. CASE carry = Nothing
        BY <2>1, EmptySeq DEF Hand
    <2>2. CASE carry # Nothing
        <3>1. carry \in Event
            BY <2>2 DEF Types
        <3>. QED
            BY <2>2, <3>1 DEF Hand
    <2>. QED
        BY <2>1, <2>2
<1>2. events \in Seq(Event) /\ wire \in Seq(Event)
    BY DEF Types
<1>3. events \o Hand \in Seq(Event)
    BY <1>1, <1>2, ConcatProperties
<1>. QED
    BY <1>1, <1>2, <1>3, ConcatProperties DEF Pipe

(***************************************************************************)
(* The pipe, as the events move along it.                                  *)
(***************************************************************************)
\* The reader takes the first event off the wire.
LEMMA PipeReads ==
    ASSUME NEW S, NEW e \in Seq(S), NEW w \in Seq(S), w # <<>>
    PROVE  e \o <<>> \o w = e \o <<Head(w)>> \o Tail(w)
<1>1. Head(w) \in S /\ Tail(w) \in Seq(S) /\ <<Head(w)>> \in Seq(S)
    BY HeadTailProperties
<1>2. w = <<Head(w)>> \o Tail(w)
    <2>. DEFINE h == <<Head(w)>>
                t == Tail(w)
    <2>1. h \in Seq(S) /\ Len(h) = 1 /\ h[1] = w[1]
        BY <1>1
    <2>2. t \in Seq(S) /\ Len(t) = Len(w) - 1 /\ \A i \in 1..Len(w) - 1 : t[i] = w[i + 1]
        BY HeadTailProperties
    <2>. HIDE DEF h, t
    <2>3. /\ h \o t \in Seq(S) /\ Len(h \o t) = Len(h) + Len(t)
          /\ \A i \in 1..Len(h) + Len(t) : (h \o t)[i] = IF i <= Len(h) THEN h[i] ELSE t[i - Len(h)]
        <3>1. h \in Seq(S) /\ t \in Seq(S)
            BY <2>1, <2>2
        <3>. QED
            BY <3>1, ConcatProperties
    <2>4. Len(w) \in Nat /\ Len(w) > 0
        BY EmptySeq, LenProperties
    <2>5. \A i \in 1..Len(w) : (h \o t)[i] = w[i]
        BY <2>1, <2>2, <2>3, <2>4
    <2>. QED
        BY <2>3, <2>4, <2>5, SeqEqual DEF h, t
<1>3. e \o <<>> = e
    BY ConcatEmptySeq
<1>4. (e \o <<Head(w)>>) \o Tail(w) = e \o (<<Head(w)>> \o Tail(w))
    BY <1>1, ConcatAssociative
<1>. QED
    BY <1>2, <1>3, <1>4

\* It puts what it has into the channel.
LEMMA PipeSends ==
    ASSUME NEW S, NEW e \in Seq(S), NEW c \in S, NEW w \in Seq(S)
    PROVE  e \o <<c>> \o w = Append(e, c) \o <<>> \o w
<1>1. Append(e, c) = e \o <<c>> /\ Append(e, c) \in Seq(S)
    BY AppendIsConcat, AppendProperties
<1>2. Append(e, c) \o <<>> = Append(e, c)
    BY <1>1, ConcatEmptySeq
<1>. QED
    BY <1>1, <1>2

\* An event is published.
LEMMA PipeGrows ==
    ASSUME NEW S, NEW e \in Seq(S), NEW h \in Seq(S), NEW w \in Seq(S), NEW x \in S
    PROVE  e \o h \o Append(w, x) = Append(e \o h \o w, x)
<1>1. e \o h \in Seq(S) /\ e \o h \o w \in Seq(S) /\ <<x>> \in Seq(S)
    BY ConcatProperties
<1>2. Append(w, x) = w \o <<x>> /\ Append(e \o h \o w, x) = (e \o h \o w) \o <<x>>
    BY <1>1, AppendIsConcat
<1>. QED
    BY <1>1, <1>2, ConcatAssociative

\* waitAssistant takes the first one.
LEMMA PipeShrinks ==
    ASSUME NEW S, NEW e \in Seq(S), NEW h \in Seq(S), NEW w \in Seq(S), e # <<>>,
           NEW p, p = e \o h \o w, NEW q, q = Tail(e) \o h \o w
    PROVE  q = Tail(p) /\ Head(p) = Head(e) /\ p # <<>>
<1>. DEFINE r == h \o w
<1>1. r \in Seq(S) /\ Tail(e) \in Seq(S)
    BY ConcatProperties, HeadTailProperties
<1>2. e \o h \o w = e \o r /\ Tail(e) \o h \o w = Tail(e) \o r
    <2>1. Tail(e) \in Seq(S)
        BY HeadTailProperties
    <2>2. \A s \in Seq(S) : s \o h \o w = s \o (h \o w)
        BY SMTT(30), ConcatAssociative
    <2>. QED
        BY <2>1, <2>2
<1>. HIDE DEF r
<1>3. /\ Len(e) \in Nat /\ Len(e) > 0 /\ Len(r) \in Nat /\ Len(Tail(e)) = Len(e) - 1
      /\ \A i \in 1..Len(e) - 1 : Tail(e)[i] = e[i + 1]
    BY <1>1, EmptySeq, LenProperties, HeadTailProperties
<1>4. /\ e \o r \in Seq(S) /\ Len(e \o r) = Len(e) + Len(r)
      /\ \A i \in 1..Len(e) + Len(r) : (e \o r)[i] = IF i <= Len(e) THEN e[i] ELSE r[i - Len(e)]
    BY <1>1, ConcatProperties
<1>5. e \o r # <<>>
    BY <1>3, <1>4
<1>6. Head(e \o r) = Head(e)
    BY <1>3, <1>4, <1>5
<1>7. /\ Tail(e) \o r \in Seq(S) /\ Len(Tail(e) \o r) = Len(e) - 1 + Len(r)
      /\ \A i \in 1..Len(e) - 1 + Len(r) :
           (Tail(e) \o r)[i] = IF i <= Len(e) - 1 THEN Tail(e)[i] ELSE r[i - (Len(e) - 1)]
    BY <1>1, <1>3, ConcatProperties
<1>8. /\ Tail(e \o r) \in Seq(S) /\ Len(Tail(e \o r)) = Len(e) + Len(r) - 1
      /\ \A i \in 1..Len(e) + Len(r) - 1 : Tail(e \o r)[i] = (e \o r)[i + 1]
    BY <1>4, <1>5, HeadTailProperties
<1>9. ASSUME NEW i \in 1..Len(e) - 1 + Len(r)
      PROVE  (Tail(e) \o r)[i] = Tail(e \o r)[i]
    <2>1. Tail(e \o r)[i] = IF i + 1 <= Len(e) THEN e[i + 1] ELSE r[i + 1 - Len(e)]
        BY <1>3, <1>4, <1>8
    <2>2. CASE i <= Len(e) - 1
        BY <1>3, <1>7, <2>1, <2>2
    <2>3. CASE ~(i <= Len(e) - 1)
        <3>1. i - (Len(e) - 1) = i + 1 - Len(e) /\ ~(i + 1 <= Len(e))
            BY <1>3, <2>3
        <3>. QED
            BY <1>7, <2>1, <2>3, <3>1
    <2>. QED
        BY <2>2, <2>3
<1>10. Tail(e) \o r = Tail(e \o r)
    <2>1. Len(Tail(e) \o r) = Len(Tail(e \o r))
        BY <1>3, <1>7, <1>8
    <2>. QED
        BY <1>7, <1>8, <1>9, <2>1, SeqEqual
<1>. QED
    BY <1>2, <1>5, <1>6, <1>10

\* A socket that breaks loses the last events of it.
LEMMA PipeBreaks ==
    ASSUME NEW S, NEW p \in Seq(S), NEW w \in Seq(S), NEW n \in 0..Len(w)
    PROVE  /\ p \o SubSeq(w, 1, n) \in Seq(S)
           /\ Len(p \o SubSeq(w, 1, n)) <= Len(p \o w)
           /\ \A i \in 1..Len(p \o SubSeq(w, 1, n)) : (p \o SubSeq(w, 1, n))[i] = (p \o w)[i]
<1>. DEFINE s == SubSeq(w, 1, n)
<1>1. s \in Seq(S) /\ Len(s) = n /\ \A i \in 1..n : s[i] = w[i]
    <2>1. Len(w) \in Nat /\ \A i \in 1..n : w[i] \in S
        BY LenProperties, ElementOfSeq
    <2>2. /\ s \in Seq(S) /\ Len(s) = IF 1 <= n THEN n - 1 + 1 ELSE 0
          /\ \A i \in 1..n - 1 + 1 : s[i] = w[1 + i - 1]
        BY <2>1, SubSeqProperties
    <2>. HIDE DEF s
    <2>. QED
        BY <2>1, <2>2
<1>. HIDE DEF s
<1>2. /\ p \o s \in Seq(S) /\ Len(p \o s) = Len(p) + n
      /\ \A i \in 1..Len(p) + n : (p \o s)[i] = IF i <= Len(p) THEN p[i] ELSE s[i - Len(p)]
    BY <1>1, ConcatProperties
<1>3. /\ Len(p \o w) = Len(p) + Len(w)
      /\ \A i \in 1..Len(p) + Len(w) : (p \o w)[i] = IF i <= Len(p) THEN p[i] ELSE w[i - Len(p)]
    BY ConcatProperties
<1>4. Len(p) \in Nat /\ Len(w) \in Nat
    BY LenProperties
<1>5. \A i \in 1..Len(p) + n : (p \o s)[i] = (p \o w)[i]
    BY <1>1, <1>2, <1>3, <1>4
<1>. QED
    BY <1>2, <1>3, <1>4, <1>5 DEF s

(***************************************************************************)
(* The order of the fragments.                                             *)
(***************************************************************************)
\* What is left of the pipe is still in order.
LEMMA ChainBreaks ==
    ASSUME NEW b, NEW q \in Seq(Event), NEW r \in Seq(Event), Chained(b, q),
           Len(r) <= Len(q), \A i \in 1..Len(r) : r[i] = q[i]
    PROVE  Chained(b, r)
<1>1. Len(q) \in Nat /\ Len(r) \in Nat
    BY LenProperties
<1>. SUFFICES ASSUME NEW j \in 1..Len(r), IsText(r, j)
              PROVE  Follows(b, r, j)
    BY DEF Chained
<1>2. j \in 1..Len(q) /\ j \in Nat /\ \A i \in 1..j : i \in 1..Len(r) /\ r[i] = q[i]
    BY <1>1
<1>3. j \in 1..j /\ \A i \in 1..j - 1 : i \in 1..j /\ \A k \in i + 1..j - 1 : k \in 1..j
    BY <1>2
<1>4. Follows(b, q, j)
    BY <1>2, <1>3 DEF Chained, IsText
<1>. QED
    BY <1>2, <1>3, <1>4 DEF Follows, IsText

\* A fragment published is the next one.
LEMMA ChainGrows ==
    ASSUME NEW b \in Seq(Fragments), NEW q \in Seq(Event), NEW n \in Int, Chained(b, q), Newest(b, q, n),
           NEW x \in Event
    PROVE  /\ x.type # "message" => Chained(b, Append(q, x)) /\ Newest(b, Append(q, x), n)
           /\ x.type = "message" /\ x.n = n + 1 =>
                Chained(b, Append(q, x)) /\ Newest(b, Append(q, x), n + 1)
<1>. DEFINE r == Append(q, x)
            m == Len(q)
<1>1. m \in Nat
    BY LenProperties
<1>2. r \in Seq(Event) /\ Len(r) = m + 1 /\ r[m + 1] = x /\ \A i \in 1..m : r[i] = q[i]
    BY AppendProperties
<1>. HIDE DEF r, m
<1>3. ASSUME NEW j \in 1..m, IsText(r, j)
      PROVE  Follows(b, r, j)
    <2>1. IsText(q, j) /\ \A i \in 1..j : i \in 1..m
        BY <1>1, <1>2, <1>3 DEF IsText
    <2>2. \A i \in 1..j - 1 : i \in 1..m /\ \A k \in i + 1..j - 1 : k \in 1..m
        BY <1>1
    <2>3. Follows(b, q, j)
        BY <2>1 DEF Chained, m
    <2>. QED
        BY <1>2, <2>1, <2>2, <2>3 DEF Follows, IsText
<1>4. /\ m + 1 - 1 = m /\ (\A i \in 1..m : i \in 1..m + 1) /\ m + 1 \in 1..m + 1
      /\ \A i \in 1..m + 1 : i = m + 1 \/ i \in 1..m
      /\ \A i \in 1..m : \A k \in i + 1..m + 1 : k = m + 1 \/ k \in i + 1..m
      /\ \A i \in 1..m : \A k \in i + 1..m : k \in 1..m
    BY <1>1
<1>. DEFINE Latest(i) == IsText(q, i) /\ q[i].n = n /\ \A k \in i + 1..m : ~IsText(q, k)
            None == (\A i \in 1..m : ~IsText(q, i)) /\ (b # <<>> => b[Len(b)] = n)
<1>5. (\E i \in 1..m : Latest(i)) \/ None
    BY DEF Newest, m
<1>6. CASE x.type # "message"
    <2>1. ~IsText(r, m + 1)
        BY <1>2, <1>6 DEF IsText
    <2>2. Chained(b, r)
        BY <1>2, <1>3, <1>4, <2>1 DEF Chained
    <2>3. Newest(b, r, n)
        <3>1. ASSUME NEW i \in 1..m, Latest(i)
              PROVE  Newest(b, r, n)
            <4>1. IsText(r, i) /\ r[i].n = n /\ \A k \in i + 1..m + 1 : ~IsText(r, k)
                BY <1>2, <1>4, <2>1, <3>1 DEF IsText
            <4>. QED
                BY <1>2, <1>4, <4>1 DEF Newest
        <3>2. CASE None
            <4>1. \A i \in 1..m + 1 : ~IsText(r, i)
                BY <1>2, <1>4, <2>1, <3>2 DEF IsText
            <4>. QED
                BY <1>2, <3>2, <4>1 DEF Newest
        <3>. QED
            BY <1>5, <3>1, <3>2
    <2>. QED
        BY <1>6, <2>2, <2>3 DEF r
<1>7. CASE x.type = "message" /\ x.n = n + 1
    <2>1. IsText(r, m + 1) /\ r[m + 1].n = n + 1
        BY <1>2, <1>7 DEF IsText
    <2>2. Follows(b, r, m + 1)
        <3>1. ASSUME NEW i \in 1..m, Latest(i)
              PROVE  Follows(b, r, m + 1)
            <4>1. IsText(r, i) /\ r[m + 1].n = r[i].n + 1 /\ \A k \in i + 1..m : ~IsText(r, k)
                BY <1>2, <1>4, <2>1, <3>1 DEF IsText
            <4>. QED
                BY <1>1, <4>1 DEF Follows
        <3>2. CASE None
            <4>1. \A i \in 1..m : ~IsText(r, i)
                BY <1>2, <3>2 DEF IsText
            <4>. QED
                BY <1>4, <2>1, <3>2, <4>1 DEF Follows
        <3>. QED
            BY <1>5, <3>1, <3>2
    <2>3. Chained(b, r)
        BY <1>2, <1>3, <1>4, <2>2 DEF Chained
    <2>4. \A k \in m + 1 + 1..m + 1 : ~IsText(r, k)
        BY <1>1
    <2>5. Newest(b, r, n + 1)
        BY <1>2, <1>4, <2>1, <2>4 DEF Newest
    <2>. QED
        BY <1>7, <2>3, <2>5 DEF r
<1>. QED
    BY <1>6, <1>7

\* What is received is followed by what comes next.
LEMMA ChainShrinks ==
    ASSUME NEW b \in Seq(Fragments), NEW q \in Seq(Event), q # <<>>, Chained(b, q)
    PROVE  LET c == IF IsText(q, 1) THEN Append(b, Head(q).n) ELSE b IN
           /\ Chained(c, Tail(q)) /\ \A n : Newest(b, q, n) => Newest(c, Tail(q), n)
           /\ IsText(q, 1) /\ b # <<>> => Head(q).n = b[Len(b)] + 1
<1>. DEFINE c == IF IsText(q, 1) THEN Append(b, Head(q).n) ELSE b
            r == Tail(q)
            m == Len(r)
<1>1. /\ r \in Seq(Event) /\ m \in Nat /\ Len(q) = m + 1 /\ Head(q) = q[1] /\ q[1] \in Event
      /\ \A i \in 1..m : r[i] = q[i + 1]
    BY HeadTailProperties, LenProperties, EmptySeq
<1>2. IsText(q, 1) => c # <<>> /\ c[Len(c)] = q[1].n
    <2>1. IsText(q, 1) => q[1].n \in Fragments
        BY <1>1, Events DEF IsText
    <2>. QED
        BY <1>1, <2>1, AppendProperties
<1>3. ~IsText(q, 1) => c = b
    OBVIOUS
<1>. HIDE DEF c, r, m
<1>4. /\ 1 \in 1..m + 1 /\ \A i \in 1..m : i + 1 \in 1..m + 1
      /\ \A j \in 1..m : /\ j + 1 - 1 = j
                         /\ \A i \in 1..j - 1 : i \in 1..m /\ i + 1 \in 1..j
                         /\ \A i \in 1..j : i = 1 \/ (i - 1 \in 1..j - 1 /\ i - 1 + 1 = i)
                         /\ \A i \in 1..j - 1 : \A k \in i + 1..j - 1 :
                              k \in 1..m /\ k + 1 \in i + 1 + 1..j
                         /\ \A k \in 1..j - 1 : k \in 1..m /\ k + 1 \in 1 + 1..j
    BY <1>1
<1>5. \A i \in 1..m : IsText(r, i) <=> IsText(q, i + 1)
    BY <1>1 DEF IsText
<1>6. ASSUME NEW j \in 1..m, IsText(r, j)
      PROVE  Follows(c, r, j)
    <2>1. Follows(b, q, j + 1)
        BY <1>1, <1>4, <1>5, <1>6 DEF Chained
    <2>2. CASE \E i \in 1..j : /\ IsText(q, i) /\ q[j + 1].n = q[i].n + 1
                               /\ \A k \in i + 1..j : ~IsText(q, k)
        <3>1. PICK i \in 1..j : /\ IsText(q, i) /\ q[j + 1].n = q[i].n + 1
                                /\ \A k \in i + 1..j : ~IsText(q, k)
            BY <2>2
        <3>2. CASE i = 1
            <4>1. \A k \in 1..j - 1 : ~IsText(r, k)
                BY <1>4, <1>5, <3>1, <3>2
            <4>2. r[j].n = c[Len(c)] + 1
                BY <1>1, <1>2, <3>1, <3>2
            <4>. QED
                BY <4>1, <4>2 DEF Follows
        <3>3. CASE i - 1 \in 1..j - 1 /\ i - 1 + 1 = i
            <4>. DEFINE h == i - 1
            <4>1. h \in 1..j - 1 /\ h + 1 = i /\ h \in 1..m
                BY <1>4, <3>3
            <4>. HIDE DEF h
            <4>2. IsText(r, h) /\ r[j].n = r[h].n + 1
                BY <1>1, <1>5, <3>1, <4>1
            <4>3. \A k \in h + 1..j - 1 : ~IsText(r, k)
                BY <1>4, <1>5, <3>1, <4>1
            <4>. QED
                BY <4>1, <4>2, <4>3 DEF Follows
        <3>. QED
            BY <1>4, <3>2, <3>3
    <2>3. CASE (\A i \in 1..j : ~IsText(q, i)) /\ (b # <<>> => q[j + 1].n = b[Len(b)] + 1)
        <3>1. ~IsText(q, 1) /\ \A i \in 1..j - 1 : ~IsText(r, i)
            BY <1>4, <1>5, <2>3
        <3>. QED
            BY <1>1, <1>3, <2>3, <3>1 DEF Follows
    <2>. QED
        BY <1>4, <2>1, <2>2, <2>3 DEF Follows
<1>7. Chained(c, r)
    BY <1>6 DEF Chained, m
<1>8. ASSUME NEW n, Newest(b, q, n)
      PROVE  Newest(c, r, n)
    <2>1. CASE \E i \in 1..m + 1 : /\ IsText(q, i) /\ q[i].n = n
                                   /\ \A k \in i + 1..m + 1 : ~IsText(q, k)
        <3>1. PICK i \in 1..m + 1 : /\ IsText(q, i) /\ q[i].n = n
                                    /\ \A k \in i + 1..m + 1 : ~IsText(q, k)
            BY <2>1
        <3>2. CASE i = 1
            <4>1. \A k \in 1..m : k + 1 \in i + 1..m + 1
                BY <1>1, <3>2
            <4>2. \A k \in 1..m : ~IsText(r, k)
                BY <1>5, <3>1, <4>1
            <4>. QED
                BY <1>2, <3>1, <3>2, <4>2 DEF Newest, m
        <3>3. CASE i # 1
            <4>. DEFINE h == i - 1
            <4>1. h \in 1..m /\ h + 1 = i /\ \A k \in h + 1..m : k \in 1..m /\ k + 1 \in i + 1..m + 1
                BY <1>1, <3>3
            <4>. HIDE DEF h
            <4>2. IsText(r, h) /\ r[h].n = n /\ \A k \in h + 1..m : ~IsText(r, k)
                BY <1>1, <1>5, <3>1, <4>1
            <4>. QED
                BY <4>1, <4>2 DEF Newest, m
        <3>. QED
            BY <3>2, <3>3
    <2>2. CASE (\A i \in 1..m + 1 : ~IsText(q, i)) /\ (b # <<>> => b[Len(b)] = n)
        <3>1. ~IsText(q, 1) /\ \A i \in 1..m : ~IsText(r, i)
            BY <1>4, <1>5, <2>2
        <3>. QED
            BY <1>3, <2>2, <3>1 DEF Newest, m
    <2>. QED
        BY <1>1, <1>8, <2>1, <2>2 DEF Newest
<1>9. IsText(q, 1) /\ b # <<>> => Head(q).n = b[Len(b)] + 1
    <2>1. 1 \in 1..Len(q) /\ ~\E i \in 1..1 - 1 : TRUE
        BY <1>1, <1>4
    <2>. QED
        BY <1>1, <2>1 DEF Chained, Follows
<1>. QED
    BY <1>7, <1>8, <1>9 DEF c, r

(***************************************************************************)
(* What a step does to the pipe.                                           *)
(***************************************************************************)
Keeps  == Pipe' = Pipe /\ buf' = buf /\ text' = text /\ (socket' = "open" => socket = "open")
Loses  == Pipe' = Pipe /\ buf' = buf /\ socket' = socket
          /\ (socket = "closed" \/ (Pipe = <<>> /\ buf = <<>>))
Continues(x) == x.n = text + 1 /\ text' = text + 1
Begins(x) == /\ x.n = text /\ text' = text /\ (x.n = 0 => before'.late)
             /\ buf = <<>> /\ \A i \in 1..Len(Pipe) : ~IsText(Pipe, i)
Adds(x) == /\ x \in Event /\ Pipe' = Append(Pipe, x) /\ buf' = buf /\ socket' = socket
           /\ socket = "open"
           /\ IF x.type = "message" THEN Continues(x) \/ Begins(x) ELSE text' = text
           /\ x.type \in {"ready", "done"} => mode.resuming \/ Over'
Asks(x, y) == /\ x \in Event /\ y \in Event /\ x.type # "message" /\ y.type # "message"
              /\ Pipe' = Append(Append(Pipe, x), y) /\ buf' = buf /\ socket' = socket /\ text' = text
              /\ socket = "open"
              /\ spent'.asks # 0
Takes  == /\ Pipe # <<>> /\ Pipe' = Tail(Pipe)
          /\ buf' = IF IsText(Pipe, 1) THEN Append(buf, Head(Pipe).n) ELSE buf
          /\ socket' = socket /\ text' = text
Cuts   == /\ Pipe' \in Seq(Event) /\ Len(Pipe') <= Len(Pipe)
          /\ \A i \in 1..Len(Pipe') : Pipe'[i] = Pipe[i]
          /\ buf' = buf /\ text' = text /\ socket' = "closed"

LEMMA AppendTwo ==
    ASSUME NEW S, NEW w \in Seq(S), NEW x \in S, NEW y \in S
    PROVE  w \o <<x, y>> = Append(Append(w, x), y)
<1>1. <<x>> \in Seq(S) /\ <<y>> \in Seq(S)
    OBVIOUS
<1>2. <<x>> \o <<y>> = <<x, y>>
    <2>. DEFINE u == <<x>>
                v == <<y>>
                t == <<x, y>>
    <2>1. /\ u \in Seq(S) /\ v \in Seq(S) /\ t \in Seq(S) /\ Len(u) = 1 /\ Len(v) = 1 /\ Len(t) = 2
          /\ u[1] = t[1] /\ v[1] = t[2]
        OBVIOUS
    <2>. HIDE DEF u, v, t
    <2>2. /\ u \o v \in Seq(S) /\ Len(u \o v) = Len(u) + Len(v)
          /\ \A i \in 1..Len(u) + Len(v) : (u \o v)[i] = IF i <= Len(u) THEN u[i] ELSE v[i - Len(u)]
        BY <2>1, ConcatProperties
    <2>3. Len(u \o v) = Len(t) /\ \A i \in 1..Len(u \o v) : (u \o v)[i] = t[i]
        BY <2>1, <2>2
    <2>. QED
        BY <2>1, <2>2, <2>3, SeqEqual DEF u, v, t
<1>3. Append(w, x) = w \o <<x>> /\ Append(w, x) \in Seq(S)
    BY AppendIsConcat, AppendProperties
<1>4. Append(Append(w, x), y) = (w \o <<x>>) \o <<y>>
    BY <1>3, AppendIsConcat
<1>5. (w \o <<x>>) \o <<y>> = w \o (<<x>> \o <<y>>)
    BY <1>1, ConcatAssociative
<1>. QED
    BY <1>2, <1>4, <1>5

\* An event that nobody was there for changes nothing.
LEMMA Missed ==
    ASSUME Types, ReaderInv, UNCHANGED <<events, carry, wire, buf, socket>>,
           socket = "closed" \/ (reader = "subscribing" /\ wire = <<>>)
    PROVE  Loses
<1>1. Pipe' = Pipe
    BY DEF Pipe, Hand
<1>2. ASSUME reader = "subscribing", wire = <<>>
      PROVE  Pipe = <<>> /\ buf = <<>>
    <2>1. events = <<>> /\ Hand = <<>> /\ buf = <<>>
        BY <1>2 DEF ReaderInv, Hand
    <2>2. <<>> \o <<>> \o <<>> = <<>>
        BY ConcatEmptySeq, EmptySeq
    <2>. QED
        BY <1>2, <2>1, <2>2 DEF Pipe
<1>. QED
    BY <1>1, <1>2 DEF Loses

\* An event that is published arrives, or the socket is closed, or the tab is
\* not yet known.
LEMMA PublishOne ==
    ASSUME Types, ReaderInv, NEW x \in Event, Publish(<<x>>)
    PROVE  /\ wire' \in Seq(Event)
           /\ UNCHANGED <<mode, socket, reader, carry, events, errc, ctx, waiter>>
           /\ \/ Pipe' = Append(Pipe, x) /\ socket = "open"
              \/ wire' = wire /\ Loses
<1>1. UNCHANGED <<mode, socket, reader, carry, events, errc, ctx, waiter>>
    BY DEF Publish
<1>2. Hand \in Seq(Event) /\ events \in Seq(Event) /\ wire \in Seq(Event)
    BY HandSeq
<1>3. events' = events /\ Hand' = Hand /\ buf' = buf /\ socket' = socket
    BY <1>1 DEF Hand, waiter
<1>4. CASE wire' = wire \o <<x>> /\ socket = "open"
    <2>1. wire' = Append(wire, x) /\ wire' \in Seq(Event)
        BY <1>2, <1>4, AppendIsConcat, AppendProperties
    <2>2. events \o Hand \o Append(wire, x) = Append(events \o Hand \o wire, x)
        BY SMTT(30), <1>2, PipeGrows
    <2>3. Pipe' = Append(Pipe, x)
        BY <1>3, <2>1, <2>2 DEF Pipe
    <2>. QED
        BY <1>1, <1>4, <2>1, <2>3
<1>5. CASE wire' = wire /\ (socket = "closed" \/ (reader = "subscribing" /\ wire = <<>>))
    <2>1. Loses
        BY <1>1, <1>5, Missed DEF waiter
    <2>. QED
        BY <1>1, <1>2, <1>5, <2>1
<1>. QED
    BY <1>4, <1>5 DEF Publish

LEMMA PublishTwo ==
    ASSUME Types, ReaderInv, NEW x \in Event, NEW y \in Event, Publish(<<x, y>>)
    PROVE  /\ wire' \in Seq(Event)
           /\ UNCHANGED <<mode, socket, reader, carry, events, errc, ctx, waiter>>
           /\ \/ Pipe' = Append(Append(Pipe, x), y) /\ socket = "open"
              \/ wire' = wire /\ Loses
<1>1. UNCHANGED <<mode, socket, reader, carry, events, errc, ctx, waiter>>
    BY DEF Publish
<1>2. Hand \in Seq(Event) /\ events \in Seq(Event) /\ wire \in Seq(Event)
    BY HandSeq
<1>3. events' = events /\ Hand' = Hand /\ buf' = buf /\ socket' = socket
    BY <1>1 DEF Hand, waiter
<1>4. CASE wire' = wire \o <<x, y>> /\ socket = "open"
    <2>1. wire' = Append(Append(wire, x), y)
        BY <1>2, <1>4, AppendTwo
    <2>2. Append(wire, x) \in Seq(Event) /\ wire' \in Seq(Event)
        BY <1>2, <2>1, AppendProperties
    <2>3. events \o Hand \o Append(wire, x) = Append(events \o Hand \o wire, x)
        BY <1>2, PipeGrows
    <2>4. events \o Hand \o Append(Append(wire, x), y) = Append(events \o Hand \o Append(wire, x), y)
        BY SMTT(30), <1>2, <2>2, PipeGrows
    <2>5. Pipe' = Append(Append(Pipe, x), y)
        BY <1>3, <2>1, <2>3, <2>4 DEF Pipe
    <2>. QED
        BY <1>1, <1>4, <2>2, <2>5
<1>5. CASE wire' = wire /\ (socket = "closed" \/ (reader = "subscribing" /\ wire = <<>>))
    <2>1. Loses
        BY <1>1, <1>5, Missed DEF waiter
    <2>. QED
        BY <1>1, <1>2, <1>5, <2>1
<1>. QED
    BY <1>4, <1>5 DEF Publish

(***************************************************************************)
(* What waitAssistant does with the text.                                  *)
(***************************************************************************)
LEMMA ThreeParts ==
    \A s, t, u \in Seq(Fragments) : (s \o t) \o u = s \o (t \o u)
BY ConcatAssociative, SMTT(30)

\* The filter lets go of the first of what it has.
LEMMA PushMoves ==
    ASSUME emitted \in Seq(Fragments), held \in Seq(Fragments), NEW n \in Fragments, mode.streaming, Push(n)
    PROVE  /\ emitted' \in Seq(Fragments) /\ held' \in Seq(Fragments)
           /\ emitted' \o held' = Append(emitted \o held, n)
<1>. DEFINE a == Append(held, n)
<1>1. a \in Seq(Fragments) /\ Len(a) = Len(held) + 1 /\ Len(held) \in Nat
    BY AppendProperties, LenProperties
<1>2. PICK k \in 0..Len(held) + 1 :
        emitted' = emitted \o SubSeq(a, 1, k) /\ held' = SubSeq(a, k + 1, Len(held) + 1)
    BY DEF Push
<1>. HIDE DEF a
<1>3. SubSeq(a, 1, k) \in Seq(Fragments) /\ SubSeq(a, k + 1, Len(a)) \in Seq(Fragments)
    <2>1. \A i \in 1..Len(a) : a[i] \in Fragments
        BY <1>1, ElementOfSeq
    <2>2. /\ 1 \in Int /\ k \in Int /\ k + 1 \in Int /\ Len(a) \in Int
          /\ (\A i \in 1..k : i \in 1..Len(a)) /\ (\A i \in k + 1..Len(a) : i \in 1..Len(a))
        BY <1>1
    <2>. QED
        BY <2>1, <2>2, SubSeqProperties
<1>4. SubSeq(a, 1, k) \o SubSeq(a, k + 1, Len(a)) = a
    <2>1. 1 \in 1..Len(a) + 1 /\ k \in 1 - 1..Len(a) /\ Len(a) \in k..Len(a)
        BY <1>1
    <2>2. SubSeq(a, 1, k) \o SubSeq(a, k + 1, Len(a)) = SubSeq(a, 1, Len(a))
        BY <1>1, <2>1, ConcatAdjacentSubSeq
    <2>. QED
        BY <1>1, <2>2, SubSeqFull
<1>5. emitted' \in Seq(Fragments) /\ held' \in Seq(Fragments)
    BY <1>1, <1>2, <1>3, ConcatProperties
<1>6. emitted' \o held' = emitted \o a
    <2>. DEFINE s1 == SubSeq(a, 1, k)
                s2 == SubSeq(a, k + 1, Len(a))
    <2>1. s1 \in Seq(Fragments) /\ s2 \in Seq(Fragments) /\ s1 \o s2 = a
        BY <1>3, <1>4
    <2>2. emitted' = emitted \o s1 /\ held' = s2
        BY <1>1, <1>2
    <2>. HIDE DEF s1, s2
    <2>3. (emitted \o s1) \o s2 = emitted \o (s1 \o s2)
        <3>1. emitted \in Seq(Fragments)
            OBVIOUS
        <3>. QED
            BY ONLY <2>1, <3>1, ThreeParts
    <2>. QED
        BY <2>1, <2>2, <2>3
<1>7. emitted \o a = Append(emitted \o held, n)
    <2>1. <<n>> \in Seq(Fragments) /\ emitted \o held \in Seq(Fragments)
        BY ConcatProperties
    <2>2. a = held \o <<n>> /\ Append(emitted \o held, n) = (emitted \o held) \o <<n>>
        BY <2>1, AppendIsConcat DEF a
    <2>. QED
        BY <2>1, <2>2, ConcatAssociative
<1>. QED
    BY <1>5, <1>6, <1>7

\* At the end the client has the reply, or what was streamed.
LEMMA DeltaMoves ==
    ASSUME emitted \in Seq(Fragments), held \in Seq(Fragments), buf = emitted \o held,
           NEW content \in Seq(Fragments)
    PROVE  emitted \o finalDelta(content) = IF IsPrefix(buf, content) THEN content ELSE buf
<1>1. buf \in Seq(Fragments) /\ Len(buf) \in Nat /\ Len(content) \in Nat
    BY ConcatProperties, LenProperties
<1>2. CASE IsPrefix(buf, content)
    <2>. DEFINE rest == SubSeq(content, Len(buf) + 1, Len(content))
                n == Len(buf)
    <2>1. n <= Len(content) /\ SubSeq(buf, 1, n) = SubSeq(content, 1, n)
        BY <1>2 DEF IsPrefix
    <2>2. rest \in Seq(Fragments)
        <3>1. \A i \in 1..Len(content) : content[i] \in Fragments
            BY ElementOfSeq
        <3>2. /\ n + 1 \in Int /\ Len(content) \in Int
              /\ \A i \in n + 1..Len(content) : i \in 1..Len(content)
            BY <1>1
        <3>. QED
            BY <3>1, <3>2, SubSeqProperties
    <2>3. buf \o rest = content
        <3>1. 1 \in 1..Len(content) + 1 /\ n \in 1 - 1..Len(content) /\ Len(content) \in n..Len(content)
            BY <1>1, <2>1
        <3>2. SubSeq(content, 1, n) \o rest = SubSeq(content, 1, Len(content))
            BY <3>1, ConcatAdjacentSubSeq
        <3>3. SubSeq(buf, 1, n) = buf /\ SubSeq(content, 1, Len(content)) = content
            BY <1>1, SubSeqFull
        <3>. QED
            BY <2>1, <3>2, <3>3
    <2>4. finalDelta(content) = held \o rest
        BY <1>2 DEF finalDelta
    <2>. HIDE DEF rest
    <2>5. emitted \o (held \o rest) = (emitted \o held) \o rest
        BY SMTT(30), <2>2, ConcatAssociative
    <2>. QED
        BY <1>2, <2>3, <2>4, <2>5
<1>3. CASE ~IsPrefix(buf, content)
    <2>1. finalDelta(content) = held \o <<>> /\ held \o <<>> = held
        BY <1>3, ConcatEmptySeq DEF finalDelta
    <2>. QED
        BY <1>3, <2>1
<1>. QED
    BY <1>2, <1>3

\* The text REST shows.
LEMMA TextIs ==
    ASSUME NEW n \in 0..MaxText
    PROVE  /\ Text(n) \in Seq(Fragments) /\ Len(Text(n)) = n /\ \A i \in 1..n : Text(n)[i] = i
           /\ Consecutive(Text(n))
<1>1. n \in Nat /\ \A i \in 1..n : i \in Fragments
    BY TurnAssumption DEF TurnAssumption, Fragments
<1>2. Text(n) \in Seq(Fragments) /\ \A i \in 1..n : Text(n)[i] = i
    BY <1>1, IsASeq DEF Text
<1>3. Len(Text(n)) = n
    BY <1>1, <1>2, LenProperties DEF Text
<1>. QED
    BY <1>1, <1>2, <1>3 DEF Consecutive

\* The text of the run before, as REST shows it.
LEMMA BeforeIs ==
    ASSUME BeforeInv
    PROVE  /\ before.text \in Seq(Fragments) /\ Consecutive(before.text)
           /\ \A i \in DOMAIN before.text : before.text[i] = 0 => before.late
<1>1. -1 \in Fragments /\ 0 \in Fragments
    BY TurnAssumption DEF TurnAssumption, Fragments
<1>. DEFINE One(i) == <<i>>
            Two == <<-1, 0>>
<1>2. CASE before.text = <<>>
    <2>1. before.text \in Seq(Fragments) /\ Len(before.text) = 0 /\ DOMAIN before.text = 1..0
        BY <1>2
    <2>. QED
        BY <2>1 DEF Consecutive
<1>3. ASSUME NEW i \in {-1, 0}, before.text = One(i), i = 0 => before.late
      PROVE  /\ before.text \in Seq(Fragments) /\ Consecutive(before.text)
             /\ \A j \in DOMAIN before.text : before.text[j] = 0 => before.late
    <2>1. /\ before.text \in Seq(Fragments) /\ Len(before.text) = 1
          /\ DOMAIN before.text = 1..1 /\ before.text[1] = i
        BY <1>1, <1>3
    <2>. QED
        BY <1>3, <2>1 DEF Consecutive
<1>4. CASE before.text = Two /\ before.late
    <2>1. /\ before.text \in Seq(Fragments) /\ Len(before.text) = 2
          /\ before.text[1] = -1 /\ before.text[2] = 0
        BY <1>1, <1>4
    <2>2. \A i \in 1..Len(before.text) - 1 : i = 1
        BY <2>1
    <2>. QED
        BY <1>4, <2>1, <2>2 DEF Consecutive
<1>5. before.text \in {<<>>, One(-1), One(0), Two} /\ (before.text \in {One(0), Two} => before.late)
    BY DEF BeforeInv
<1>. HIDE DEF One, Two
<1>. QED
    BY <1>2, <1>3, <1>4, <1>5

\* finalAssistant: what was streamed, or what REST shows of the run, or of the
\* run before if that has changed.
LEMMA FinalIs ==
    ASSUME Types
    PROVE  /\ \/ finalAssistant = buf
              \/ recorded >= 0 /\ finalAssistant = Text(recorded)
              \/ before.changed /\ finalAssistant = before.text
           /\ recorded > 0 => finalAssistant = Text(recorded)
           /\ recorded = 0 => finalAssistant = buf
<1>1. recorded \in Int /\ MaxText \in Nat /\ recorded <= MaxText
    <2>1. MaxText \in Nat
        BY TurnAssumption DEF TurnAssumption
    <2>2. recorded \in -1..MaxText
        BY DEF Types
    <2>. QED
        BY <2>1, <2>2
<1>2. CASE recorded >= 0
    <2>. DEFINE t == Text(recorded)
    <2>1. latest = t /\ new
        BY <1>2 DEF latest, new
    <2>2. t \in Seq(Fragments) /\ Len(t) = recorded
        <3>1. recorded \in 0..MaxText
            BY <1>1, <1>2
        <3>. QED
            BY <3>1, TextIs
    <2>. HIDE DEF t
    <2>3. finalAssistant = IF t # <<>> THEN t ELSE buf
        BY <2>1 DEF finalAssistant
    <2>4. (t = <<>>) <=> recorded = 0
        BY <1>2, <2>2, EmptySeq
    <2>. QED
        BY <1>1, <1>2, <2>3, <2>4 DEF t
<1>3. CASE ~(recorded >= 0)
    <2>1. latest = before.text /\ (new => before.changed)
        BY <1>3 DEF latest, new
    <2>2. finalAssistant = buf \/ (new /\ finalAssistant = latest)
        BY DEF finalAssistant
    <2>. QED
        BY <1>1, <1>3, <2>1, <2>2
<1>. QED
    BY <1>2, <1>3

(***************************************************************************)
(* What waitAssistant does, one step at a time.                            *)
(***************************************************************************)
Waits == UNCHANGED <<pc, buf, held, emitted, result>>
Gives(k) == /\ pc' = "done" /\ result' = [result EXCEPT !.kind = k]
            /\ buf' = buf \/ \E n \in Fragments : buf' = Append(buf, n)
            /\ UNCHANGED <<held, emitted>>
Goes == /\ pc' \in {"finish", "finish after error"}
        /\ UNCHANGED <<buf, held, emitted, result>>
Pushes(n) == /\ pc = "select" /\ buf' = Append(buf, n) /\ Push(n)
             /\ UNCHANGED <<pc, result>>
Succeeds(c) == /\ pc' = "done" /\ result' = [kind |-> "ok", content |-> c]
               /\ held' = <<>>
               /\ emitted' = IF mode.streaming THEN emitted \o finalDelta(c) ELSE emitted
               /\ buf' = buf
Errors == Kinds \ {"none", "ok"}
Receives == \/ Waits
            \/ \E k \in Errors : Gives(k)
            \/ Goes
            \/ \E n \in Fragments : Pushes(n)
Moves == Receives \/ \E c \in Seq(Fragments) : Consecutive(c) /\ Succeeds(c)

\* A status makes it wait, finish or give up.
LEMMA StatusMoves ==
    ASSUME Types, NEW s, OnStatus(s)
    PROVE  /\ blocked' = blocked /\ buf' = buf
           /\ Waits \/ (pc' = "finish" /\ Goes /\ s \in {"ready", "done"}) \/ Gives("run")
<1>1. CASE s = "failed"
    BY <1>1 DEF OnStatus, Return, Gives
<1>2. CASE s # "failed" /\ (s = "done" \/ (s = "ready" /\ ~blocked))
    BY <1>2 DEF OnStatus, Finish, Goes
<1>3. CASE s # "failed" /\ ~(s = "done" \/ (s = "ready" /\ ~blocked))
    <2>1. UNCHANGED waiter
        BY <1>3 DEF OnStatus
    <2>. QED
        BY <2>1 DEF waiter, Waits
<1>. QED
    BY <1>1, <1>2, <1>3

\* The first event is taken from the channel.
LEMMA EventMoves ==
    ASSUME Types, OnEvent
    PROVE  /\ events # <<>> /\ Head(events) \in Event
           /\ events' = Tail(events) /\ events' \in Seq(Event) /\ Len(events') <= Capacity
           /\ UNCHANGED <<mode, upstream, socket, wire, reader, carry, errc, ctx, spent>>
           /\ pc = "select" /\ blocked' \in BOOLEAN /\ Receives
           /\ buf' = IF Head(events).type = "message" THEN Append(buf, Head(events).n) ELSE buf
           /\ pc' # "finish after error"
           /\ pc' = "finish" => Head(events).type \in {"ready", "done"}
<1>. DEFINE ev == Head(events)
<1>1. /\ pc = "select" /\ events # <<>> /\ events' = Tail(events)
      /\ UNCHANGED <<mode, upstream, socket, wire, reader, carry, errc, ctx, spent>>
    BY DEF OnEvent
<1>2. events \in Seq(Event) /\ Len(events) <= Capacity /\ Capacity \in Nat /\ blocked \in BOOLEAN
    <2>1. Capacity \in Nat
        BY TurnAssumption DEF TurnAssumption
    <2>. QED
        BY <2>1 DEF Types
<1>3. ev \in Event /\ Tail(events) \in Seq(Event) /\ Len(Tail(events)) <= Capacity
    <2>1. ev \in Event /\ Tail(events) \in Seq(Event) /\ Len(Tail(events)) = Len(events) - 1
        BY <1>1, <1>2, HeadTailProperties
    <2>2. Len(events) \in Nat
        BY <1>2, LenProperties
    <2>. QED
        BY <1>2, <2>1, <2>2
<1>. HIDE DEF ev
<1>4. CASE /\ ev.type = "message" /\ buf' = Append(buf, ev.n) /\ Push(ev.n)
           /\ UNCHANGED <<pc, blocked, result>>
    <2>1. ev.n \in Fragments
        BY <1>3, <1>4, Events
    <2>2. Pushes(ev.n)
        BY <1>1, <1>4 DEF Pushes
    <2>. QED
        BY <1>1, <1>2, <1>3, <1>4, <2>1, <2>2 DEF Receives, ev
<1>5. CASE /\ ev.type = "message" /\ pc' = "done" /\ result' = [result EXCEPT !.kind = "emit"]
           /\ buf' = Append(buf, ev.n) /\ UNCHANGED <<held, emitted, blocked>>
    <2>1. ev.n \in Fragments
        BY <1>3, <1>5, Events
    <2>2. Gives("emit") /\ "emit" \in Errors
        BY <1>5, <2>1 DEF Gives, Errors, Kinds
    <2>. QED
        BY <1>1, <1>2, <1>3, <1>5, <2>2 DEF Receives, ev
<1>6. CASE /\ ev.type \in {"asking", "answered"} /\ blocked' = (ev.type = "asking")
           /\ UNCHANGED <<pc, buf, held, emitted, result>>
    BY <1>1, <1>2, <1>3, <1>6 DEF Receives, Waits, ev
<1>7. CASE ev.type \in {"ready", "done", "failed"} /\ OnStatus(ev.type)
    <2>1. /\ blocked' = blocked /\ buf' = buf
          /\ Waits \/ (pc' = "finish" /\ Goes /\ ev.type \in {"ready", "done"}) \/ Gives("run")
        BY <1>7, StatusMoves
    <2>2. "run" \in Errors
        BY DEF Errors, Kinds
    <2>3. Receives /\ pc' # "finish after error" /\ (pc' = "finish" => ev.type \in {"ready", "done"})
        BY <1>1, <2>1, <2>2 DEF Receives, Waits, Gives
    <2>. QED
        BY <1>1, <1>2, <1>3, <1>7, <2>1, <2>3 DEF ev
<1>. QED
    BY <1>4, <1>5, <1>6, <1>7 DEF OnEvent, ev

\* The subscription ended, or a timer fired: nothing is received.
LEMMA TimerMoves ==
    ASSUME Types, OnErrc \/ OnTick \/ OnFirstResponseTimer \/ OnDone
    PROVE  /\ pc = "select" /\ blocked' = blocked /\ buf' = buf /\ Receives
           /\ UNCHANGED <<mode, upstream, socket, wire, reader, carry, events, ctx, spent>>
           /\ errc' \in BOOLEAN /\ (errc' => errc)
           /\ pc' = "finish" => todoStatus \in {"ready", "done"}
           /\ pc' = "finish after error" => errc /\ ctx # "done"
<1>1. {"run", "deadline", "slow"} \subseteq Errors
    BY DEF Errors, Kinds
<1>2. errc \in BOOLEAN
    BY DEF Types
<1>3. CASE OnErrc
    <2>1. /\ pc = "select" /\ errc /\ errc' = FALSE
          /\ UNCHANGED <<mode, upstream, socket, wire, reader, carry, events, ctx, spent>>
        BY <1>3 DEF OnErrc
    <2>2. CASE ctx = "done"
        <3>1. Gives("deadline") /\ blocked' = blocked /\ buf' = buf /\ pc' = "done"
            BY <1>3, <2>2 DEF OnErrc, Return, Gives
        <3>. QED
            BY <1>1, <2>1, <3>1 DEF Receives, Gives
    <2>3. CASE ctx # "done"
        <3>1. Goes /\ blocked' = blocked /\ pc' = "finish after error"
            BY <1>3, <2>3 DEF OnErrc, Finish, Goes
        <3>. QED
            BY <2>1, <2>3, <3>1 DEF Receives, Goes
    <2>. QED
        BY <2>2, <2>3
<1>4. CASE OnTick
    <2>1. /\ pc = "select" /\ OnStatus(todoStatus)
          /\ UNCHANGED <<mode, upstream, stream, ctx, spent>>
        BY <1>4 DEF OnTick
    <2>2. /\ blocked' = blocked /\ buf' = buf
          /\ Waits \/ (pc' = "finish" /\ Goes /\ todoStatus \in {"ready", "done"}) \/ Gives("run")
        BY <2>1, StatusMoves
    <2>3. Receives /\ pc' # "finish after error" /\ (pc' = "finish" => todoStatus \in {"ready", "done"})
        BY <1>1, <2>1, <2>2 DEF Receives, Waits, Gives
    <2>. QED
        BY <1>2, <2>1, <2>2, <2>3 DEF stream
<1>5. CASE OnFirstResponseTimer \/ OnDone
    <2>1. /\ pc = "select" /\ (Return("slow") \/ Return("deadline"))
          /\ UNCHANGED <<mode, upstream, stream, ctx, spent>>
        BY <1>5 DEF OnFirstResponseTimer, OnDone
    <2>2. (Gives("slow") \/ Gives("deadline")) /\ blocked' = blocked /\ buf' = buf /\ pc' = "done"
        BY <2>1 DEF Return, Gives
    <2>. QED
        BY <1>1, <1>2, <2>1, <2>2 DEF Receives, Gives, stream
<1>. QED
    BY <1>3, <1>4, <1>5

\* finishAssistant returns the reply, or why there is none.
LEMMA FinishMoves ==
    ASSUME Types, BeforeInv, Consecutive(buf), Finishing
    PROVE  /\ pc \in {"finish", "finish after error"} /\ pc' = "done"
           /\ blocked' = blocked /\ buf' = buf /\ Moves
           /\ UNCHANGED <<mode, upstream, stream, ctx>>
           /\ spent' \in [asks : Nat, faults : Nat] /\ spent'.asks = spent.asks
           /\ spent'.faults >= spent.faults
           /\ \/ \E k \in Errors : Gives(k)
              \/ /\ Succeeds(finalAssistant) /\ finalAssistant \in Seq(Fragments) /\ spent' = spent
                 /\ pc = "finish" \/ finalAssistant # <<>>
              \/ Succeeds(buf) /\ buf \in Seq(Fragments) /\ spent'.faults > 0
<1>1. /\ pc \in {"finish", "finish after error"}
      /\ UNCHANGED <<mode, upstream, stream, ctx>>
    BY DEF Finishing
<1>2. {"closed", "rest", "emit"} \subseteq Errors
    BY DEF Errors, Kinds
<1>3. buf \in Seq(Fragments) /\ spent \in [asks : Nat, faults : Nat]
    BY DEF Types
<1>4. finalAssistant \in Seq(Fragments) /\ Consecutive(finalAssistant)
    <2>1. recorded >= 0 => Text(recorded) \in Seq(Fragments) /\ Consecutive(Text(recorded))
        <3>1. recorded \in -1..MaxText /\ MaxText \in Nat
            BY TurnAssumption DEF Types, TurnAssumption
        <3>. QED
            BY <3>1, TextIs
    <2>. QED
        BY <1>3, <2>1, FinalIs, BeforeIs
<1>5. ASSUME NEW c \in Seq(Fragments), Consecutive(c), Finished(c)
      PROVE  /\ pc' = "done" /\ blocked' = blocked /\ buf' = buf /\ Moves
             /\ (\E k \in Errors : Gives(k)) \/ (Succeeds(c) /\ (pc = "finish" \/ c # <<>>))
    <2>1. CASE pc = "finish after error" /\ c = <<>> /\ Return("closed")
        <3>1. Gives("closed") /\ pc' = "done" /\ blocked' = blocked /\ buf' = buf
            BY <2>1 DEF Return, Gives
        <3>. QED
            BY <1>2, <3>1 DEF Moves, Receives
    <2>2. CASE (pc = "finish" \/ c # <<>>) /\ Succeeds(c) /\ UNCHANGED <<buf, blocked>>
        <3>1. Moves
            BY <1>5, <2>2 DEF Moves
        <3>. QED
            BY <2>2, <3>1 DEF Succeeds
    <2>. QED
        BY <1>5, <2>1, <2>2 DEF Finished, Succeeds
<1>6. ASSUME NEW k \in {"rest", "emit"}, Return(k)
      PROVE  pc' = "done" /\ blocked' = blocked /\ buf' = buf /\ Moves /\ \E e \in Errors : Gives(e)
    <2>1. Gives(k) /\ pc' = "done" /\ blocked' = blocked /\ buf' = buf
        BY <1>6 DEF Return, Gives
    <2>. QED
        BY <1>2, <2>1 DEF Moves, Receives
<1>7. ASSUME Faulted
      PROVE  /\ spent' \in [asks : Nat, faults : Nat] /\ spent'.asks = spent.asks
             /\ spent'.faults >= spent.faults /\ spent'.faults > 0
    BY <1>3, <1>7 DEF Faulted
<1>8. CASE Finished(finalAssistant) /\ UNCHANGED spent
    <2>1. spent'.asks = spent.asks /\ spent'.faults >= spent.faults
        BY <1>3, <1>8
    <2>. QED
        BY <1>1, <1>3, <1>4, <1>5, <1>8, <2>1
<1>9. CASE Faulted /\ IF buf # <<>> THEN Finished(buf) ELSE Return("rest")
    <2>1. CASE Finished(buf)
        BY <1>1, <1>3, <1>5, <1>7, <1>9, <2>1
    <2>2. CASE Return("rest")
        BY <1>1, <1>6, <1>7, <1>9, <2>2
    <2>. QED
        BY <1>9, <2>1, <2>2
<1>10. CASE Return("emit") /\ UNCHANGED spent
    <2>1. spent'.asks = spent.asks /\ spent'.faults >= spent.faults
        BY <1>3, <1>10
    <2>. QED
        BY <1>1, <1>3, <1>6, <1>10, <2>1
<1>. QED
    BY <1>8, <1>9, <1>10 DEF Finishing, Fault

(***************************************************************************)
(* The types.                                                              *)
(***************************************************************************)
LEMMA DeltaType ==
    ASSUME held \in Seq(Fragments), NEW c \in Seq(Fragments), buf \in Seq(Fragments)
    PROVE  finalDelta(c) \in Seq(Fragments)
<1>1. SubSeq(c, Len(buf) + 1, Len(c)) \in Seq(Fragments)
    <2>1. Len(buf) \in Nat /\ Len(c) \in Nat /\ \A i \in 1..Len(c) : c[i] \in Fragments
        BY LenProperties, ElementOfSeq
    <2>2. \A i \in Len(buf) + 1..Len(c) : c[i] \in Fragments
        BY <2>1
    <2>3. Len(buf) + 1 \in Int /\ Len(c) \in Int
        BY <2>1
    <2>. QED
        BY <2>2, <2>3, SubSeqProperties
<1>. DEFINE rest == IF IsPrefix(buf, c) THEN SubSeq(c, Len(buf) + 1, Len(c)) ELSE <<>>
<1>2. rest \in Seq(Fragments)
    BY <1>1, EmptySeq
<1>3. finalDelta(c) = held \o rest
    BY DEF finalDelta
<1>. HIDE DEF rest
<1>. QED
    BY <1>2, <1>3, ConcatProperties

LEMMA MovesTypes ==
    ASSUME Types, Moves
    PROVE  /\ pc' \in {"select", "finish", "finish after error", "done"}
           /\ buf' \in Seq(Fragments) /\ held' \in Seq(Fragments) /\ emitted' \in Seq(Fragments)
           /\ result' \in [kind : Kinds, content : Seq(Fragments)]
<1>1. /\ pc \in {"select", "finish", "finish after error", "done"}
      /\ buf \in Seq(Fragments) /\ held \in Seq(Fragments) /\ emitted \in Seq(Fragments)
      /\ result \in [kind : Kinds, content : Seq(Fragments)]
    BY DEF Types
<1>2. \A n \in Fragments : Append(buf, n) \in Seq(Fragments)
    BY <1>1, AppendProperties
<1>3. CASE Waits
    BY <1>1, <1>3 DEF Waits
<1>4. ASSUME NEW k \in Errors, Gives(k)
      PROVE  /\ pc' = "done" /\ buf' \in Seq(Fragments) /\ held' \in Seq(Fragments)
             /\ emitted' \in Seq(Fragments) /\ result' \in [kind : Kinds, content : Seq(Fragments)]
    <2>1. k \in Kinds
        BY DEF Errors
    <2>. QED
        BY <1>1, <1>2, <1>4, <2>1 DEF Gives
<1>5. CASE Goes
    BY <1>1, <1>5 DEF Goes
<1>6. ASSUME NEW n \in Fragments, Pushes(n)
      PROVE  /\ pc' = pc /\ buf' \in Seq(Fragments) /\ held' \in Seq(Fragments)
             /\ emitted' \in Seq(Fragments) /\ result' = result
    <2>1. CASE mode.streaming
        <3>1. emitted' \in Seq(Fragments) /\ held' \in Seq(Fragments)
            BY <1>1, <1>6, <2>1, PushMoves DEF Pushes
        <3>. QED
            BY <1>2, <1>6, <3>1 DEF Pushes
    <2>2. CASE ~mode.streaming
        <3>1. emitted' = emitted /\ held' = held
            BY <1>6, <2>2 DEF Pushes, Push
        <3>. QED
            BY <1>1, <1>2, <1>6, <3>1 DEF Pushes
    <2>. QED
        BY <2>1, <2>2
<1>7. ASSUME NEW c \in Seq(Fragments), Succeeds(c)
      PROVE  /\ pc' = "done" /\ buf' \in Seq(Fragments) /\ held' \in Seq(Fragments)
             /\ emitted' \in Seq(Fragments) /\ result' \in [kind : Kinds, content : Seq(Fragments)]
    <2>1. finalDelta(c) \in Seq(Fragments)
        BY <1>1, DeltaType
    <2>2. emitted \o finalDelta(c) \in Seq(Fragments)
        BY <1>1, <2>1, ConcatProperties
    <2>3. emitted' \in Seq(Fragments)
        BY <1>1, <1>7, <2>2 DEF Succeeds
    <2>4. result' \in [kind : Kinds, content : Seq(Fragments)]
        BY <1>7 DEF Succeeds, Kinds
    <2>5. held' \in Seq(Fragments)
        BY <1>7, EmptySeq DEF Succeeds
    <2>. QED
        BY <1>1, <1>7, <2>3, <2>4, <2>5 DEF Succeeds
<1>. QED
    BY <1>1, <1>3, <1>4, <1>5, <1>6, <1>7 DEF Moves, Receives

(***************************************************************************)
(* The run upstream, one step at a time.                                   *)
(***************************************************************************)
\* A run that is over stays over, and its text stays what it is.
Advances == /\ run' \in {"pending", "running", "asking", "ready", "done", "failed"}
            /\ text' \in 0..MaxText /\ recorded' \in -1..MaxText /\ recorded' <= text'
            /\ text <= text'
            /\ spent' \in [asks : Nat, faults : Nat] /\ spent'.faults = spent.faults
            /\ spent'.asks >= spent.asks
            /\ Over => Over' /\ text' = text
            /\ (Over => recorded = text) => (Over' => recorded' = text')
            /\ run' = "asking" => run = "asking" \/ spent'.asks > 0
Carries == Keeps \/ Loses \/ (\E x \in Event : Adds(x)) \/ \E x, y \in Event : Asks(x, y)
Told == /\ UNCHANGED <<mode, socket, reader, carry, events, errc, ctx, waiter>>
        /\ socket = "closed" => wire' = wire

LEMMA UpTypes ==
    ASSUME Types
    PROVE  /\ run \in {"pending", "running", "asking", "ready", "done", "failed"}
           /\ text \in 0..MaxText /\ recorded \in -1..MaxText /\ recorded <= text /\ MaxText \in Nat
           /\ text \in Nat /\ recorded \in Int
           /\ spent \in [asks : Nat, faults : Nat] /\ spent.asks \in Nat /\ spent.faults \in Nat
<1>1. MaxText \in Nat
    BY TurnAssumption DEF TurnAssumption
<1>2. /\ run \in {"pending", "running", "asking", "ready", "done", "failed"}
      /\ text \in 0..MaxText /\ recorded \in -1..MaxText /\ recorded <= text
    BY DEF Types
<1>3. spent \in [asks : Nat, faults : Nat]
    BY DEF Types
<1>. QED
    BY <1>1, <1>2, <1>3

\* What the run before does, and what the new one finds of it.
Ages == BeforeInv' /\ (before.late => before'.late) /\ (before.changed => before'.changed)

LEMMA GrownIs ==
    ASSUME BeforeInv
    PROVE  /\ grown \in {<<>>, <<-1>>, <<0>>, <<-1, 0>>}
           /\ grown \in {<<0>>, <<-1, 0>>} => before.late
<1>1. CASE ~(before.late /\ ~Contains(before.text, 0))
    <2>1. grown = before.text
        BY <1>1 DEF grown
    <2>. QED
        BY <2>1 DEF BeforeInv
<1>2. CASE before.late /\ ~Contains(before.text, 0)
    <2>. DEFINE t == before.text
    <2>1. t \in {<<>>, <<-1>>, <<0>>, <<-1, 0>>}
        BY DEF BeforeInv
    <2>2. t # <<0>>
        <3>1. ASSUME t = << 0 >>
              PROVE  FALSE
            <4>1. Len(t) = 1 /\ t[1] = 0
                BY <3>1
            <4>2. 1 \in 1..Len(t)
                BY <4>1
            <4>. QED
                BY <1>2, <4>1, <4>2 DEF Contains
        <3>. QED
            BY <3>1
    <2>3. t # <<-1, 0>>
        <3>1. ASSUME t = <<-1, 0>>
              PROVE  FALSE
            <4>1. Len(t) = 2 /\ t[2] = 0
                BY <3>1
            <4>2. 2 \in 1..Len(t)
                BY <4>1
            <4>. QED
                BY <1>2, <4>1, <4>2 DEF Contains
        <3>. QED
            BY <3>1
    <2>4. Append(<<>>, 0) = <<0>>
        <3>. DEFINE u == Append(<<>>, 0)
                    v == <<0>>
        <3>1. <<>> \in Seq(Int) /\ Len(<<>>) = 0 /\ v \in Seq(Int) /\ Len(v) = 1 /\ v[1] = 0
            OBVIOUS
        <3>2. u \in Seq(Int) /\ Len(u) = 1 /\ u[1] = 0
            BY <3>1, AppendProperties
        <3>. HIDE DEF u, v
        <3>3. Len(u) = Len(v) /\ \A i \in 1..Len(u) : u[i] = v[i]
            BY <3>1, <3>2
        <3>4. u = v
            BY <3>1, <3>2, <3>3, SeqEqual
        <3>. QED
            BY <3>4 DEF u, v
    <2>5. Append(<<-1>>, 0) = <<-1, 0>>
        <3>. DEFINE w == <<-1>>
                    v == <<-1, 0>>
        <3>1. /\ w \in Seq({-1, 0}) /\ Len(w) = 1 /\ w[1] = -1
              /\ v \in Seq({-1, 0}) /\ Len(v) = 2 /\ v[1] = -1 /\ v[2] = 0
            OBVIOUS
        <3>. HIDE DEF w, v
        <3>2. ASSUME NEW u, u = Append(w, 0)
              PROVE  u = v
            <4>1. /\ u \in Seq({-1, 0}) /\ Len(u) = Len(w) + 1 /\ u[Len(w) + 1] = 0
                  /\ \A i \in 1..Len(w) : u[i] = w[i]
                BY <3>1, <3>2, AppendProperties
            <4>2. Len(u) = Len(v) /\ \A i \in 1..Len(u) : u[i] = v[i]
                BY <3>1, <4>1
            <4>. QED
                BY <3>1, <4>1, <4>2, SeqEqual
        <3>. QED
            BY <3>2 DEF v, w
    <2>6. grown = Append(t, 0)
        BY <1>2 DEF grown
    <2>. QED
        BY <1>2, <2>1, <2>2, <2>3, <2>4, <2>5, <2>6
<1>. QED
    BY <1>1, <1>2

LEMMA UpstreamAges ==
    ASSUME BeforeInv, Upstream
    PROVE  Ages
<1>1. /\ before \in [run: {"running", "ready", "done", "failed", "over"},
                     text: {<<>>, <<-1>>, <<0>>, <<-1, 0>>}, late: BOOLEAN, changed: BOOLEAN]
      /\ before.text \in {<<0>>, <<-1, 0>>} => before.late
      /\ IF run = "pending" THEN text = 0 /\ recorded = -1 ELSE before.run # "running"
      /\ ~mode.resuming =>
           before.run = "over" /\ before.text = <<>> /\ ~before.late /\ ~before.changed
    BY DEF BeforeInv
<1>2. CASE ProduceLate
    <2>1. /\ before.run = "running" /\ before' = [before EXCEPT !.late = TRUE]
          /\ UNCHANGED <<mode, run, text, recorded>>
        BY <1>2 DEF ProduceLate, Publish
    <2>. QED
        BY <1>1, <2>1 DEF Ages, BeforeInv
<1>3. CASE RecordLate
    <2>1. /\ before.run = "running" /\ before' = [before EXCEPT !.text = grown, !.changed = TRUE]
          /\ UNCHANGED <<mode, run, text, recorded>>
        BY <1>3 DEF RecordLate
    <2>. QED
        BY <1>1, <2>1, GrownIs DEF Ages, BeforeInv
<1>4. ASSUME NEW s \in {"ready", "done", "failed"}, EndLate(s)
      PROVE  Ages
    <2>1. /\ before.run = "running"
          /\ \/ before' = [before EXCEPT !.run = s]
             \/ before' = [before EXCEPT !.run = s, !.text = grown, !.changed = TRUE]
          /\ UNCHANGED <<mode, run, text, recorded>>
        BY <1>4 DEF EndLate, Publish
    <2>2. CASE before' = [before EXCEPT !.run = s]
        BY <1>1, <2>1, <2>2 DEF Ages, BeforeInv
    <2>3. CASE before' = [before EXCEPT !.run = s, !.text = grown, !.changed = TRUE]
        BY <1>1, <2>1, <2>3, GrownIs DEF Ages, BeforeInv
    <2>. QED
        BY <2>1, <2>2, <2>3
<1>5. CASE Run
    <2>1. /\ before.run # "running" /\ run' = "running" /\ before' = [before EXCEPT !.run = "over"]
          /\ UNCHANGED <<mode, text, recorded>>
        BY <1>5 DEF Run
    <2>. QED
        BY <1>1, <2>1 DEF Ages, BeforeInv
<1>6. ASSUME before' = before, mode' = mode, run # "pending", run' # "pending"
      PROVE  Ages
    BY <1>1, <1>6 DEF Ages, BeforeInv
<1>7. CASE Produce
    BY <1>6, <1>7 DEF Produce, Publish
<1>8. CASE Record
    BY <1>6, <1>8 DEF Record
<1>9. CASE Ask
    BY <1>6, <1>9 DEF Ask, Publish
<1>10. CASE Decide
    BY <1>6, <1>10 DEF Decide, Publish
<1>11. ASSUME NEW s \in {"ready", "done", "failed"}, End(s)
       PROVE  Ages
    BY <1>6, <1>11 DEF End, Publish
<1>. QED
    BY <1>2, <1>3, <1>4, <1>5, <1>7, <1>8, <1>9, <1>10, <1>11 DEF Upstream

LEMMA SilentSteps ==
    ASSUME Types, Run \/ Record \/ RecordLate
    PROVE  Advances /\ Carries /\ Told /\ wire' \in Seq(Event)
<1>1. /\ Told /\ wire' = wire /\ text' = text /\ spent' = spent
      /\ \/ run = "pending" /\ run' = "running" /\ recorded' = recorded
         \/ run \in {"running", "asking"} /\ run' = run /\ recorded' = text
         \/ run' = run /\ recorded' = recorded
    <2>1. CASE Run
        BY <2>1 DEF Run, Told, stream, waiter
    <2>2. CASE Record
        BY <2>2 DEF Record, Told, stream, waiter
    <2>3. CASE RecordLate
        BY <2>3 DEF RecordLate, Told, stream, waiter
    <2>. QED
        BY <2>1, <2>2, <2>3
<1>2. Keeps
    BY <1>1 DEF Keeps, Told, Pipe, Hand, waiter
<1>3. wire \in Seq(Event)
    BY DEF Types
<1>4. Advances
    <2>1. (Over => Over') /\ (Over' => Over /\ run' = run /\ recorded' = recorded)
        BY <1>1 DEF Over
    <2>. QED
        BY <1>1, <2>1, UpTypes DEF Advances
<1>. QED
    BY <1>1, <1>2, <1>3, <1>4 DEF Carries

LEMMA ProduceSteps ==
    ASSUME Types, ReaderInv, Produce
    PROVE  Advances /\ Carries /\ Told /\ wire' \in Seq(Event)
<1>. DEFINE x == Fragment(text + 1)
<1>1. /\ run = "running" /\ text < MaxText /\ text' = text + 1 /\ Publish(<<x>>)
      /\ UNCHANGED <<run, recorded, spent>>
    <2>1. text < MaxText - (IF before.late THEN 1 ELSE 0)
        BY DEF Produce
    <2>2. text < MaxText
        BY <2>1, UpTypes
    <2>. QED
        BY <2>2 DEF Produce
<1>2. text + 1 \in 0..MaxText
    BY <1>1, UpTypes
<1>3. x \in Event /\ x.type = "message" /\ x.n = text + 1
    BY <1>2, Events
<1>. HIDE DEF x
<1>4. wire' \in Seq(Event) /\ Told /\ ((Pipe' = Append(Pipe, x) /\ socket = "open") \/ Loses)
    BY <1>1, <1>3, PublishOne DEF Told
<1>5. buf' = buf /\ socket' = socket
    BY <1>4 DEF Told, waiter
<1>6. Adds(x) \/ Loses
    BY <1>1, <1>3, <1>4, <1>5 DEF Adds, Continues
<1>7. Advances
    <2>1. ~Over /\ ~Over' /\ run' # "asking"
        BY <1>1 DEF Over
    <2>. QED
        BY <1>1, <2>1, UpTypes DEF Advances
<1>. QED
    BY <1>3, <1>4, <1>6, <1>7 DEF Carries

\* The run before publishes its fragment: nothing else is on its way.
LEMMA LateSteps ==
    ASSUME Types, BeforeInv, ReaderInv, WholeInv, ProduceLate
    PROVE  Advances /\ Carries /\ Told /\ wire' \in Seq(Event)
<1>. DEFINE x == Fragment(0)
<1>1. /\ before.run = "running" /\ ~before.late /\ before' = [before EXCEPT !.late = TRUE]
      /\ Publish(<<x>>) /\ UNCHANGED <<run, text, recorded, spent>>
    BY DEF ProduceLate
<1>2. text = 0 /\ before'.late
    BY <1>1 DEF BeforeInv
<1>3. x \in Event /\ x.type = "message" /\ x.n = 0
    <2>1. 0 \in 0..MaxText
        BY UpTypes
    <2>. QED
        BY <2>1, Events
<1>. HIDE DEF x
<1>4. wire' \in Seq(Event) /\ Told /\ ((Pipe' = Append(Pipe, x) /\ socket = "open") \/ Loses)
    BY <1>1, <1>3, PublishOne DEF Told
<1>5. buf' = buf /\ socket' = socket
    BY <1>4 DEF Told, waiter
<1>6. Pipe \in Seq(Event) /\ buf \in Seq(Fragments)
    BY HandSeq DEF Types
<1>7. \A i \in 1..Len(Pipe) : ~IsText(Pipe, i)
    <2>1. ASSUME NEW i \in 1..Len(Pipe), IsText(Pipe, i)
          PROVE  FALSE
        <3>1. Pipe[i] \in Event
            BY <1>6, ElementOfSeq
        <3>2. Pipe[i].n \in 0..MaxText
            BY <2>1, <3>1, Events DEF IsText
        <3>3. Pipe[i].n <= 0 /\ Pipe[i].n # 0
            BY <1>1, <1>2, <2>1 DEF WholeInv
        <3>. QED
            BY <3>2, <3>3
    <2>. QED
        BY <2>1
<1>8. buf = <<>>
    <2>1. Len(buf) \in Nat
        BY <1>6, LenProperties
    <2>2. ASSUME Len(buf) # 0
          PROVE  FALSE
        <3>1. 1 \in 1..Len(buf)
            BY <2>1, <2>2
        <3>2. buf[1] \in 0..0 /\ buf[1] # 0
            BY <1>1, <1>2, <3>1 DEF WholeInv
        <3>. QED
            BY <3>2
    <2>. QED
        BY <1>6, <2>2, EmptySeq
<1>9. Begins(x)
    BY <1>1, <1>2, <1>3, <1>7, <1>8 DEF Begins
<1>10. Adds(x) \/ Loses
    BY <1>3, <1>4, <1>5, <1>9 DEF Adds
<1>11. Advances
    <2>1. (Over' <=> Over) /\ run' = run /\ recorded' = recorded /\ spent' = spent /\ text' = text
        BY <1>1 DEF Over
    <2>. QED
        BY <2>1, UpTypes DEF Advances
<1>. QED
    BY <1>3, <1>4, <1>10, <1>11 DEF Carries

LEMMA AskSteps ==
    ASSUME Types, ReaderInv, Ask
    PROVE  Advances /\ Carries /\ Told /\ wire' \in Seq(Event)
<1>. DEFINE x == Status("asking")
            y == Status("ready")
<1>1. /\ run = "running" /\ run' = "asking" /\ spent' = [spent EXCEPT !.asks = @ + 1]
      /\ Publish(<<x, y>>) /\ text' = text /\ recorded' = recorded
    BY DEF Ask
<1>2. x \in Event /\ x.type # "message" /\ y \in Event /\ y.type # "message"
    BY Events DEF Statuses
<1>. HIDE DEF x, y
<1>3. wire' \in Seq(Event) /\ Told /\ ((Pipe' = Append(Append(Pipe, x), y) /\ socket = "open") \/ Loses)
    BY <1>1, <1>2, PublishTwo DEF Told
<1>4. buf' = buf /\ socket' = socket
    BY <1>3 DEF Told, waiter
<1>5. /\ spent' \in [asks : Nat, faults : Nat] /\ spent'.faults = spent.faults
      /\ spent'.asks >= spent.asks /\ spent'.asks > 0 /\ spent'.asks # 0
    BY <1>1, UpTypes
<1>6. Asks(x, y) \/ Loses
    BY <1>1, <1>2, <1>3, <1>4, <1>5 DEF Asks
<1>7. Advances
    <2>1. ~Over /\ ~Over'
        BY <1>1 DEF Over
    <2>. QED
        BY <1>1, <1>5, <2>1, UpTypes DEF Advances
<1>. QED
    BY <1>2, <1>3, <1>6, <1>7 DEF Carries

\* A run goes on after an approval, or ends.
LEMMA StatusSteps ==
    ASSUME Types, ReaderInv, Decide \/ \E s \in {"ready", "done", "failed"} : End(s)
    PROVE  Advances /\ Carries /\ Told /\ wire' \in Seq(Event)
<1>1. PICK s \in Statuses :
        /\ Publish(<<Status(s)>>) /\ text' = text /\ spent' = spent
        /\ run \in {"running", "asking"} /\ run' \in {"running", "ready", "done", "failed"}
        /\ s \in {"ready", "done"} => run' = s
        /\ run' \in {"ready", "done"} => recorded' = text
        /\ recorded' = recorded \/ recorded' = text
    <2>1. CASE Decide
        <3>1. "answered" \in Statuses
            BY DEF Statuses
        <3>. QED
            BY <2>1, <3>1 DEF Decide
    <2>2. ASSUME NEW e \in {"ready", "done", "failed"}, End(e)
          PROVE  /\ Publish(<<Status(e)>>) /\ text' = text /\ spent' = spent
                 /\ run = "running" /\ run' = e /\ e \in Statuses
                 /\ run' \in {"ready", "done"} => recorded' = text
                 /\ recorded' = recorded \/ recorded' = text
        BY <2>2 DEF End, Statuses
    <2>. QED
        BY <2>1, <2>2
<1>. DEFINE x == Status(s)
<1>2. x \in Event /\ x.type = s /\ x.type # "message"
    BY Events
<1>3. Publish(<<x>>)
    BY <1>1
<1>. HIDE DEF x
<1>4. wire' \in Seq(Event) /\ Told /\ ((Pipe' = Append(Pipe, x) /\ socket = "open") \/ Loses)
    BY <1>2, <1>3, PublishOne DEF Told
<1>5. buf' = buf /\ socket' = socket
    BY <1>4 DEF Told, waiter
<1>6. Adds(x) \/ Loses
    BY <1>1, <1>2, <1>4, <1>5 DEF Adds, Over
<1>7. Advances
    <2>1. ~Over /\ run' # "asking"
        BY <1>1 DEF Over
    <2>2. Over' => recorded' = text'
        BY <1>1 DEF Over
    <2>. QED
        BY <1>1, <2>1, <2>2, UpTypes DEF Advances
<1>. QED
    BY <1>2, <1>4, <1>6, <1>7 DEF Carries

\* The run before ends: of a todo that is resumed.
LEMMA EndSteps ==
    ASSUME Types, BeforeInv, ReaderInv, NEW s \in {"ready", "done", "failed"}, EndLate(s)
    PROVE  Advances /\ Carries /\ Told /\ wire' \in Seq(Event)
<1>. DEFINE x == Status(s)
<1>1. /\ before.run = "running" /\ Publish(<<x>>) /\ UNCHANGED <<run, text, recorded, spent>>
    BY DEF EndLate
<1>2. mode.resuming
    BY <1>1 DEF BeforeInv
<1>3. x \in Event /\ x.type # "message"
    <2>1. s \in Statuses
        BY DEF Statuses
    <2>. QED
        BY <2>1, Events
<1>. HIDE DEF x
<1>4. wire' \in Seq(Event) /\ Told /\ ((Pipe' = Append(Pipe, x) /\ socket = "open") \/ Loses)
    BY <1>1, <1>3, PublishOne DEF Told
<1>5. buf' = buf /\ socket' = socket
    BY <1>4 DEF Told, waiter
<1>6. Adds(x) \/ Loses
    BY <1>1, <1>2, <1>3, <1>4, <1>5 DEF Adds
<1>7. Advances
    <2>1. (Over' <=> Over) /\ run' = run /\ recorded' = recorded /\ spent' = spent /\ text' = text
        BY <1>1 DEF Over
    <2>. QED
        BY <2>1, UpTypes DEF Advances
<1>. QED
    BY <1>3, <1>4, <1>6, <1>7 DEF Carries

LEMMA UpstreamSteps ==
    ASSUME Types, BeforeInv, ReaderInv, WholeInv, Upstream
    PROVE  Advances /\ Carries /\ Told /\ wire' \in Seq(Event)
BY SilentSteps, ProduceSteps, LateSteps, AskSteps, StatusSteps, EndSteps DEF Upstream

(***************************************************************************)
(* The subscription and the context, one step at a time.                   *)
(***************************************************************************)
Subscription ==
    /\ socket \in {"open", "closed"} /\ wire \in Seq(Event)
    /\ reader \in {"subscribing", "reading", "sending", "done"}
    /\ carry \in Event \cup {Nothing}
    /\ events \in Seq(Event) /\ Len(events) <= Capacity
    /\ errc \in BOOLEAN /\ ctx \in {"live", "done"}
    /\ spent \in [asks : Nat, faults : Nat]
Serves == /\ UNCHANGED <<mode, upstream, waiter>>
          /\ Subscription' /\ ReaderInv'
          /\ Keeps \/ Cuts
          /\ spent'.asks = spent.asks /\ spent'.faults >= spent.faults
          /\ ctx = "done" => ctx' = "done"
          /\ socket' = "closed" => socket = "closed" \/ ctx' = "done" \/ pc = "done" \/ spent'.faults > 0
          /\ errc' => errc \/ socket = "closed" \/ ctx' = "done" \/ spent'.faults > 0

LEMMA SubscriptionTypes ==
    ASSUME Types
    PROVE  /\ Subscription /\ spent.asks \in Nat /\ spent.faults \in Nat
           /\ Hand \in Seq(Event) /\ events \o Hand \in Seq(Event)
<1>1. Subscription
    BY DEF Types, Subscription
<1>2. Hand \in Seq(Event) /\ events \in Seq(Event)
    BY HandSeq
<1>. QED
    BY <1>1, <1>2, ConcatProperties DEF Subscription

\* The events on the wire are gone.
LEMMA CutEmpty ==
    ASSUME NEW S, NEW p \in Seq(S), NEW w \in Seq(S)
    PROVE  /\ p \o <<>> \in Seq(S) /\ Len(p \o <<>>) <= Len(p \o w)
           /\ \A i \in 1..Len(p \o <<>>) : (p \o <<>>)[i] = (p \o w)[i]
<1>1. Len(w) \in Nat /\ 0 \in 0..Len(w)
    BY LenProperties
<1>2. SubSeq(w, 1, 0) = <<>>
    BY SubSeqEmpty
<1>. QED
    BY <1>1, <1>2, PipeBreaks

LEMMA BreakSteps ==
    ASSUME Types, ReaderInv, Break \/ Cancel \/ Close
    PROVE  Serves
<1>. DEFINE p == events \o Hand
<1>1. p \in Seq(Event) /\ wire \in Seq(Event) /\ Subscription /\ spent.faults \in Nat /\ spent.asks \in Nat
    BY SubscriptionTypes DEF Subscription
<1>2. /\ UNCHANGED <<mode, upstream, waiter, reader, carry, events, errc>> /\ socket' = "closed"
      /\ \/ wire' = <<>>
         \/ (\E n \in 0..Len(wire) : wire' = SubSeq(wire, 1, n)) /\ socket = "open"
      /\ \/ spent' = spent /\ (ctx' = "done" \/ pc = "done")
         \/ spent' = [spent EXCEPT !.faults = @ + 1]
      /\ ctx' = ctx \/ (ctx' = "done" /\ wire' = <<>>)
    <2>1. CASE Break
        BY <2>1 DEF Break, Fault, Faulted
    <2>2. CASE Cancel
        BY <2>2 DEF Cancel
    <2>3. CASE Close
        BY <2>3 DEF Close
    <2>. QED
        BY <2>1, <2>2, <2>3
<1>3. Pipe = p \o wire /\ Pipe' = p \o wire' /\ buf' = buf /\ text' = text /\ pc' = pc
    <2>1. Hand' = Hand
        BY <1>2 DEF Hand
    <2>. QED
        BY <1>2, <2>1 DEF Pipe, waiter, upstream
<1>. HIDE DEF p
<1>4. wire' \in Seq(Event) /\ Cuts
    <2>1. CASE wire' = <<>>
        BY <1>1, <1>2, <1>3, <2>1, CutEmpty, EmptySeq DEF Cuts
    <2>2. ASSUME NEW n \in 0..Len(wire), wire' = SubSeq(wire, 1, n)
          PROVE  wire' \in Seq(Event) /\ Cuts
        <3>1. Cuts
            <4>1. /\ p \o SubSeq(wire, 1, n) \in Seq(Event)
                  /\ Len(p \o SubSeq(wire, 1, n)) <= Len(p \o wire)
                  /\ \A i \in 1..Len(p \o SubSeq(wire, 1, n)) :
                       (p \o SubSeq(wire, 1, n))[i] = (p \o wire)[i]
                BY <1>1, PipeBreaks
            <4>2. Pipe' = p \o SubSeq(wire, 1, n)
                BY <1>3, <2>2
            <4>. QED
                BY <1>2, <1>3, <4>1, <4>2 DEF Cuts
        <3>2. SubSeq(wire, 1, n) \in Seq(Event)
            <4>1. Len(wire) \in Nat /\ \A i \in 1..Len(wire) : wire[i] \in Event
                BY <1>1, LenProperties, ElementOfSeq
            <4>2. 1 \in Int /\ n \in Int /\ \A i \in 1..n : wire[i] \in Event
                BY <4>1
            <4>. QED
                BY <4>2, SubSeqProperties
        <3>. QED
            BY <2>2, <3>1, <3>2
    <2>. QED
        BY <1>2, <2>1, <2>2
<1>5. /\ spent' \in [asks : Nat, faults : Nat] /\ spent'.asks = spent.asks
      /\ spent'.faults >= spent.faults /\ (spent' = spent \/ spent'.faults > 0)
    BY <1>1, <1>2 DEF Subscription
<1>6. Subscription'
    BY <1>1, <1>2, <1>4, <1>5 DEF Subscription
<1>7. ReaderInv'
    <2>1. ctx' = "done" => wire' = <<>>
        <3>1. CASE ctx' = ctx /\ ctx = "done"
            <4>1. wire = <<>> /\ socket = "closed"
                BY <3>1 DEF ReaderInv
            <4>. QED
                BY <1>2, <4>1
        <3>. QED
            BY <1>2, <3>1
    <2>. QED
        BY <1>2, <1>3, <2>1 DEF ReaderInv
<1>. QED
    BY <1>2, <1>4, <1>5, <1>6, <1>7 DEF Serves

LEMMA SubscribeSteps ==
    ASSUME Types, ReaderInv, Subscribed \/ SubscribeFails \/ ReadFails
    PROVE  Serves
<1>1. Subscription /\ spent.faults \in Nat /\ spent.asks \in Nat
    BY SubscriptionTypes
<1>2. /\ UNCHANGED <<mode, upstream, waiter, carry, events, socket, wire, ctx>>
      /\ reader \in {"subscribing", "reading"} /\ reader' \in {"reading", "done"}
      /\ errc' \in {errc, TRUE}
      /\ spent' = spent \/ spent' = [spent EXCEPT !.faults = @ + 1]
      /\ errc' => errc \/ ctx = "done" \/ socket = "closed" \/ spent' # spent
    <2>1. CASE Subscribed
        BY <2>1 DEF Subscribed
    <2>2. CASE SubscribeFails
        <3>1. spent.faults + 1 # spent.faults
            BY <1>1
        <3>2. spent' = [spent EXCEPT !.faults = @ + 1] => spent' # spent
            BY <1>1, <3>1 DEF Subscription
        <3>. QED
            BY <2>2, <3>2 DEF SubscribeFails, Fault, Faulted
    <2>3. CASE ReadFails
        BY <2>3 DEF ReadFails
    <2>. QED
        BY <2>1, <2>2, <2>3
<1>3. Keeps /\ pc' = pc
    BY <1>2 DEF Keeps, Pipe, Hand, waiter, upstream
<1>4. /\ spent' \in [asks : Nat, faults : Nat] /\ spent'.asks = spent.asks
      /\ spent'.faults >= spent.faults /\ (spent' = spent \/ spent'.faults > 0)
    BY <1>1, <1>2 DEF Subscription
<1>5. Subscription'
    BY <1>1, <1>2, <1>4 DEF Subscription
<1>6. ReaderInv'
    BY <1>2, <1>3 DEF ReaderInv, Keeps
<1>. QED
    BY <1>2, <1>3, <1>4, <1>5, <1>6 DEF Serves

LEMMA ReadSteps ==
    ASSUME Types, ReaderInv, Read \/ sendEvent \/ sendCancelled
    PROVE  Serves
<1>1. Subscription /\ spent.faults \in Nat /\ spent.asks \in Nat /\ Hand \in Seq(Event)
    BY SubscriptionTypes
<1>2. events \in Seq(Event) /\ wire \in Seq(Event)
    BY <1>1 DEF Subscription
<1>3. spent'.asks = spent.asks /\ spent'.faults >= spent.faults
    BY <1>1 DEF Read, sendEvent, sendCancelled
<1>4. CASE Read
    <2>1. /\ UNCHANGED <<mode, upstream, socket, events, errc, ctx, waiter, spent>>
          /\ reader = "reading" /\ reader' = "sending" /\ wire # <<>>
          /\ carry' = Head(wire) /\ wire' = Tail(wire)
        BY <1>4 DEF Read
    <2>2. carry' \in Event /\ wire' \in Seq(Event) /\ carry' # Nothing
        BY <1>2, <2>1, HeadTailProperties, Events
    <2>3. Hand = <<>> /\ Hand' = <<Head(wire)>>
        BY <2>1, <2>2 DEF Hand, ReaderInv
    <2>4. Keeps
        <3>1. Pipe' = Pipe
            BY <1>2, <2>1, <2>3, PipeReads DEF Pipe
        <3>. QED
            BY <2>1, <3>1 DEF Keeps, waiter, upstream
    <2>5. Subscription'
        BY <1>1, <2>1, <2>2 DEF Subscription
    <2>6. ReaderInv'
        BY <2>1, <2>2 DEF ReaderInv
    <2>. QED
        BY <1>3, <2>1, <2>4, <2>5, <2>6 DEF Serves
<1>5. CASE sendEvent
    <2>1. /\ UNCHANGED <<mode, upstream, socket, wire, errc, ctx, waiter, spent>>
          /\ reader = "sending" /\ reader' = "reading" /\ Len(events) < Capacity
          /\ events' = Append(events, carry) /\ carry' = Nothing
        BY <1>5 DEF sendEvent
    <2>2. carry # Nothing /\ carry \in Event
        BY <1>1, <2>1 DEF ReaderInv, Subscription
    <2>3. events' \in Seq(Event) /\ Len(events') = Len(events) + 1
        BY <1>2, <2>1, <2>2, AppendProperties
    <2>4. Len(events') <= Capacity
        <3>1. Capacity \in Nat /\ Len(events) \in Nat
            BY <1>2, LenProperties, TurnAssumption DEF TurnAssumption
        <3>. QED
            BY <2>1, <2>3, <3>1
    <2>5. Keeps
        <3>1. Hand = <<carry>> /\ Hand' = <<>>
            BY <2>1, <2>2 DEF Hand
        <3>2. Pipe' = Pipe
            BY <1>2, <2>1, <2>2, <3>1, PipeSends DEF Pipe
        <3>. QED
            BY <2>1, <3>2 DEF Keeps, waiter, upstream
    <2>6. Subscription'
        BY <1>1, <2>1, <2>3, <2>4 DEF Subscription
    <2>7. ReaderInv'
        BY <2>1, <2>2 DEF ReaderInv
    <2>. QED
        BY <1>3, <2>1, <2>5, <2>6, <2>7 DEF Serves
<1>6. CASE sendCancelled
    <2>1. /\ UNCHANGED <<mode, upstream, socket, wire, events, ctx, waiter, spent>>
          /\ reader = "sending" /\ reader' = "done" /\ ctx = "done"
          /\ carry' = Nothing /\ errc' = TRUE
        BY <1>6 DEF sendCancelled
    <2>2. wire = <<>> /\ socket = "closed"
        BY <2>1 DEF ReaderInv
    <2>3. Cuts
        <3>1. Pipe = events \o Hand /\ Pipe' = events \o <<>>
            <4>1. Hand' = <<>> /\ wire' = <<>> /\ events' = events
                BY <2>1, <2>2 DEF Hand
            <4>2. (events \o Hand) \o <<>> = events \o Hand /\ (events \o <<>>) \o <<>> = events \o <<>>
                BY <1>1, <1>2, ConcatEmptySeq, ConcatProperties
            <4>. QED
                BY <2>2, <4>1, <4>2 DEF Pipe
        <3>2. /\ events \o <<>> \in Seq(Event) /\ Len(events \o <<>>) <= Len(events \o Hand)
              /\ \A i \in 1..Len(events \o <<>>) : (events \o <<>>)[i] = (events \o Hand)[i]
            BY <1>1, <1>2, CutEmpty
        <3>3. buf' = buf /\ text' = text /\ socket' = "closed"
            BY <2>1, <2>2 DEF waiter, upstream
        <3>. QED
            BY <3>1, <3>2, <3>3 DEF Cuts
    <2>4. Subscription'
        BY <1>1, <2>1 DEF Subscription
    <2>5. ReaderInv'
        BY <2>1, <2>2 DEF ReaderInv
    <2>. QED
        BY <1>3, <2>1, <2>3, <2>4, <2>5 DEF Serves
<1>. QED
    BY <1>4, <1>5, <1>6

LEMMA SubscriptionSteps ==
    ASSUME Types, ReaderInv, Break \/ Subscribe \/ Cancel \/ Close
    PROVE  Serves
BY BreakSteps, SubscribeSteps, ReadSteps DEF Subscribe

(***************************************************************************)
(* Every step.                                                             *)
(***************************************************************************)
LEMMA EventTakes ==
    ASSUME Types, OnEvent
    PROVE  Takes /\ Head(Pipe) = Head(events) /\ Pipe[1] = Head(Pipe) /\ 1 \in 1..Len(Pipe)
<1>1. /\ events # <<>> /\ events' = Tail(events)
      /\ UNCHANGED <<mode, upstream, socket, wire, reader, carry, errc, ctx, spent>>
      /\ buf' = IF Head(events).type = "message" THEN Append(buf, Head(events).n) ELSE buf
    BY EventMoves
<1>2. Hand \in Seq(Event) /\ events \in Seq(Event) /\ wire \in Seq(Event) /\ Pipe \in Seq(Event)
    BY HandSeq
<1>3. Hand' = Hand
    BY <1>1 DEF Hand
<1>4. events # <<>> /\ Pipe = events \o Hand \o wire /\ Pipe' = Tail(events) \o Hand \o wire
    BY <1>1, <1>3 DEF Pipe
<1>5. Pipe' = Tail(Pipe) /\ Head(Pipe) = Head(events) /\ Pipe # <<>>
    <2>1. Hand \in Seq(Event) /\ events \in Seq(Event) /\ wire \in Seq(Event)
        BY <1>2
    <2>2. Pipe' = Tail(Pipe)
        BY ONLY SMTT(30), <2>1, <1>4, PipeShrinks
    <2>3. Head(Pipe) = Head(events) /\ Pipe # <<>>
        BY ONLY <2>1, <1>4, PipeShrinks
    <2>. QED
        BY <2>2, <2>3
<1>6. Pipe[1] = Head(Pipe) /\ 1 \in 1..Len(Pipe)
    <2>1. Len(Pipe) \in Nat /\ Len(Pipe) # 0
        BY <1>2, <1>5, LenProperties, EmptySeq
    <2>. QED
        BY <1>2, <1>5, <2>1, HeadTailProperties
<1>. QED
    BY <1>1, <1>5, <1>6 DEF Takes, IsText, upstream

\* waitAssistant leaves the run and the subscription alone, except for what it
\* receives.
Waiting == /\ UNCHANGED <<mode, upstream, socket, wire, reader, carry, ctx>>
           /\ (events' = events /\ errc' = errc) \/ pc = "select"
           /\ Moves /\ blocked' \in BOOLEAN /\ Subscription' /\ ReaderInv'
           /\ Keeps \/ Takes
           /\ spent'.asks = spent.asks /\ spent'.faults >= spent.faults
           /\ errc' => errc

LEMMA WaitSteps ==
    ASSUME Types, BeforeInv, ReaderInv, Consecutive(buf), waitAssistant
    PROVE  Waiting
<1>1. Subscription /\ spent.faults \in Nat /\ spent.asks \in Nat
    BY SubscriptionTypes
<1>2. blocked \in BOOLEAN
    BY DEF Types
<1>3. CASE OnEvent
    <2>1. /\ pc = "select" /\ blocked' \in BOOLEAN /\ Receives /\ events # <<>>
          /\ events' \in Seq(Event) /\ Len(events') <= Capacity
          /\ UNCHANGED <<mode, upstream, socket, wire, reader, carry, errc, ctx, spent>>
        BY <1>3, EventMoves
    <2>2. Takes
        BY <1>3, EventTakes
    <2>3. Subscription'
        BY <1>1, <2>1 DEF Subscription
    <2>4. ReaderInv'
        BY <2>1 DEF ReaderInv
    <2>. QED
        BY <1>1, <2>1, <2>2, <2>3, <2>4 DEF Waiting, Moves
<1>4. CASE OnErrc \/ OnTick \/ OnFirstResponseTimer \/ OnDone
    <2>1. /\ pc = "select" /\ blocked' = blocked /\ buf' = buf /\ Receives
          /\ UNCHANGED <<mode, upstream, socket, wire, reader, carry, events, ctx, spent>>
          /\ errc' \in BOOLEAN /\ (errc' => errc)
        BY <1>4, TimerMoves
    <2>2. Keeps
        BY <2>1 DEF Keeps, Pipe, Hand, upstream
    <2>3. Subscription'
        BY <1>1, <2>1 DEF Subscription
    <2>4. ReaderInv'
        BY <2>1 DEF ReaderInv
    <2>. QED
        BY <1>1, <1>2, <2>1, <2>2, <2>3, <2>4 DEF Waiting, Moves
<1>5. CASE Finishing
    <2>1. /\ blocked' = blocked /\ buf' = buf /\ Moves
          /\ UNCHANGED <<mode, upstream, socket, wire, reader, carry, events, errc, ctx>>
          /\ spent' \in [asks : Nat, faults : Nat] /\ spent'.asks = spent.asks
          /\ spent'.faults >= spent.faults
        BY <1>5, FinishMoves DEF stream
    <2>2. Keeps
        BY <2>1 DEF Keeps, Pipe, Hand, upstream
    <2>3. Subscription'
        BY <1>1, <2>1 DEF Subscription
    <2>4. ReaderInv'
        BY <2>1 DEF ReaderInv
    <2>. QED
        BY <1>1, <1>2, <2>1, <2>2, <2>3, <2>4 DEF Waiting, Moves
<1>. QED
    BY <1>3, <1>4, <1>5 DEF waitAssistant

Prior == Types /\ BeforeInv /\ ReaderInv /\ WholeInv /\ Consecutive(buf)

LEMMA StepKinds ==
    ASSUME Prior, [Next]_vars
    PROVE  \/ Upstream /\ Ages /\ Advances /\ Carries /\ Told /\ wire' \in Seq(Event)
           \/ Serves
           \/ waitAssistant /\ Waiting
           \/ UNCHANGED vars
BY UpstreamAges, UpstreamSteps, SubscriptionSteps, WaitSteps DEF Next, Prior

\* The run before ages, or nothing happens to it.
LEMMA BeforeStep ==
    ASSUME Prior, [Next]_vars
    PROVE  Ages
<1>1. CASE Ages
    BY <1>1
<1>2. CASE UNCHANGED <<mode, before, run, text, recorded>>
    BY <1>2 DEF Ages, BeforeInv, Prior
<1>. QED
    BY <1>1, <1>2, StepKinds DEF Serves, Waiting, upstream, vars

LEMMA TypesStep ==
    ASSUME Prior, [Next]_vars
    PROVE  Types' /\ ReaderInv'
<1>. Types /\ ReaderInv
    BY DEF Prior
<1>1. Subscription
    BY SubscriptionTypes
<1>2. CASE Advances /\ Told /\ wire' \in Seq(Event)
    <2>1. Types'
        BY ZenonT(30), <1>2 DEF Types, Advances, Told, waiter
    <2>2. ReaderInv'
        <3>1. ctx = "done" => wire' = <<>>
            BY <1>2 DEF Told, ReaderInv
        <3>. QED
            BY <1>2, <3>1 DEF Told, ReaderInv, waiter
    <2>. QED
        BY <2>1, <2>2
<1>3. CASE Serves
    <2>1. Types'
        BY <1>3 DEF Serves, Types, Subscription, upstream, waiter
    <2>. QED
        BY <1>3, <2>1 DEF Serves
<1>4. CASE Waiting
    <2>1. Types'
        BY <1>4, MovesTypes DEF Waiting, Types, Subscription, upstream
    <2>. QED
        BY <1>4, <2>1 DEF Waiting
<1>5. CASE UNCHANGED vars
    <2>1. /\ mode' = mode /\ run' = run /\ text' = text /\ recorded' = recorded
          /\ socket' = socket /\ wire' = wire /\ reader' = reader /\ carry' = carry
          /\ events' = events /\ errc' = errc /\ ctx' = ctx /\ pc' = pc
          /\ buf' = buf /\ held' = held /\ emitted' = emitted
          /\ blocked' = blocked /\ result' = result /\ spent' = spent
        BY <1>5 DEF vars, upstream, stream, waiter
    <2>2. Types'
        <3>1. /\ mode' \in [resuming: BOOLEAN, streaming: BOOLEAN]
              /\ run' \in {"pending", "running", "asking", "ready", "done", "failed"}
              /\ text' \in 0..MaxText /\ recorded' \in -1..MaxText /\ recorded' <= text'
            BY <2>1 DEF Types
        <3>2. Subscription' /\ blocked' \in BOOLEAN
            BY <1>1, <2>1 DEF Subscription, Types
        <3>3. Moves
            BY <2>1 DEF Moves, Receives, Waits
        <3>. QED
            BY <3>1, <3>2, <3>3, MovesTypes DEF Types, Subscription
    <2>3. ReaderInv'
        BY <2>1 DEF ReaderInv
    <2>. QED
        BY <2>2, <2>3
<1>. QED
    BY <1>2, <1>3, <1>4, <1>5, StepKinds

(***************************************************************************)
(* The fragments stay in order.                                            *)
(***************************************************************************)
PipeMoves == \/ Keeps \/ Loses \/ Takes \/ Cuts
             \/ \E x \in Event : Adds(x)
             \/ \E x, y \in Event : Asks(x, y)

LEMMA AddsStep ==
    ASSUME Types, PipeInv, NEW x \in Event, Adds(x)
    PROVE  PipeInv'
<1>1. Pipe \in Seq(Event) /\ buf \in Seq(Fragments) /\ text \in Nat
    BY HandSeq, UpTypes DEF Types
<1>2. Chained(buf, Pipe) /\ Newest(buf, Pipe, text) /\ Consecutive(buf)
    BY DEF PipeInv, Adds
<1>3. CASE x.type # "message"
    <2>1. Chained(buf, Append(Pipe, x)) /\ Newest(buf, Append(Pipe, x), text)
        BY <1>1, <1>2, <1>3, ChainGrows
    <2>2. Pipe' = Append(Pipe, x) /\ buf' = buf /\ text' = text
        BY <1>3 DEF Adds
    <2>. QED
        BY <1>2, <2>1, <2>2 DEF PipeInv
<1>4. CASE x.type = "message" /\ Continues(x)
    <2>1. Chained(buf, Append(Pipe, x)) /\ Newest(buf, Append(Pipe, x), text + 1)
        BY <1>1, <1>2, <1>4, ChainGrows DEF Continues
    <2>2. Pipe' = Append(Pipe, x) /\ buf' = buf /\ text' = text + 1
        BY <1>4 DEF Adds, Continues
    <2>. QED
        BY <1>2, <2>1, <2>2 DEF PipeInv
<1>5. CASE x.type = "message" /\ Begins(x)
    <2>. DEFINE n == text - 1
    <2>1. n \in Int /\ n + 1 = text /\ Newest(buf, Pipe, n)
        BY <1>1, <1>5 DEF Begins, Newest
    <2>. HIDE DEF n
    <2>2. Chained(buf, Append(Pipe, x)) /\ Newest(buf, Append(Pipe, x), n + 1)
        BY <1>1, <1>2, <1>5, <2>1, ChainGrows DEF Begins
    <2>3. Pipe' = Append(Pipe, x) /\ buf' = buf /\ text' = n + 1
        BY <1>5, <2>1 DEF Adds, Begins
    <2>. QED
        BY <1>2, <2>2, <2>3 DEF PipeInv
<1>. QED
    BY <1>3, <1>4, <1>5 DEF Adds

LEMMA AsksStep ==
    ASSUME Types, PipeInv, NEW x \in Event, NEW y \in Event, Asks(x, y)
    PROVE  PipeInv'
<1>. DEFINE q == Append(Pipe, x)
            r == Append(q, y)
<1>1. Pipe \in Seq(Event) /\ buf \in Seq(Fragments) /\ text \in Nat
    BY HandSeq, UpTypes DEF Types
<1>2. Chained(buf, Pipe) /\ Newest(buf, Pipe, text) /\ Consecutive(buf)
    BY DEF PipeInv, Asks
<1>3. x.type # "message" /\ y.type # "message"
    BY DEF Asks
<1>4. q \in Seq(Event) /\ Chained(buf, q) /\ Newest(buf, q, text)
    BY <1>1, <1>2, <1>3, ChainGrows, AppendProperties
<1>. HIDE DEF q
<1>5. Chained(buf, r) /\ Newest(buf, r, text)
    BY <1>1, <1>3, <1>4, ChainGrows
<1>6. Pipe' = r /\ buf' = buf /\ text' = text
    BY DEF Asks, q
<1>7. Chained(buf', Pipe') /\ Newest(buf', Pipe', text') /\ Consecutive(buf')
    BY <1>2, <1>5, <1>6
<1>. QED
    BY <1>7 DEF PipeInv

LEMMA TakesStep ==
    ASSUME Types, PipeInv, Takes
    PROVE  PipeInv'
<1>1. Pipe \in Seq(Event) /\ buf \in Seq(Fragments) /\ Pipe # <<>>
    BY HandSeq DEF Types, Takes
<1>2. Chained(buf, Pipe) /\ Consecutive(buf) /\ (socket = "open" => Newest(buf, Pipe, text))
    BY DEF PipeInv
<1>. DEFINE c == IF IsText(Pipe, 1) THEN Append(buf, Head(Pipe).n) ELSE buf
<1>3. /\ Chained(c, Tail(Pipe)) /\ \A n : Newest(buf, Pipe, n) => Newest(c, Tail(Pipe), n)
      /\ IsText(Pipe, 1) /\ buf # <<>> => Head(Pipe).n = buf[Len(buf)] + 1
    BY <1>1, <1>2, ChainShrinks
<1>4. buf' = c /\ Pipe' = Tail(Pipe) /\ socket' = socket /\ text' = text
    BY DEF Takes
<1>5. Chained(buf', Pipe') /\ (socket' = "open" => Newest(buf', Pipe', text'))
    BY <1>2, <1>3, <1>4
<1>6. Consecutive(buf')
    <2>1. CASE IsText(Pipe, 1)
        <3>. DEFINE n == Head(Pipe).n
                    b == buf'
        <3>1. n \in Fragments
            <4>1. Head(Pipe) = Pipe[1] /\ Head(Pipe) \in Event
                BY <1>1, HeadTailProperties
            <4>. QED
                BY <2>1, <4>1, Events DEF IsText
        <3>2. Len(buf) \in Nat /\ (buf = <<>> <=> Len(buf) = 0)
            BY <1>1, LenProperties, EmptySeq
        <3>3. b = Append(buf, n)
            BY <1>4, <2>1
        <3>. HIDE DEF n, b
        <3>4. Len(b) = Len(buf) + 1 /\ b[Len(buf) + 1] = n /\ \A i \in 1..Len(buf) : b[i] = buf[i]
            BY <1>1, <3>1, <3>3, AppendProperties
        <3>5. buf # <<>> => n = buf[Len(buf)] + 1
            BY <1>3, <2>1 DEF n
        <3>6. ASSUME NEW i \in 1..Len(b) - 1
              PROVE  b[i + 1] = b[i] + 1
            <4>1. CASE i = Len(buf)
                BY <3>2, <3>4, <3>5, <4>1
            <4>2. CASE i # Len(buf)
                <5>1. i \in 1..Len(buf) - 1 /\ i + 1 \in 1..Len(buf) /\ i \in 1..Len(buf)
                    BY <3>2, <3>4, <4>2
                <5>2. buf[i + 1] = buf[i] + 1
                    BY <1>2, <5>1 DEF Consecutive
                <5>. QED
                    BY <3>4, <5>1, <5>2
            <4>. QED
                BY <4>1, <4>2
        <3>. QED
            BY <3>6 DEF Consecutive, b
    <2>2. CASE ~IsText(Pipe, 1)
        BY <1>2, <1>4, <2>2
    <2>. QED
        BY <2>1, <2>2
<1>. QED
    BY <1>5, <1>6 DEF PipeInv

LEMMA PipeStep ==
    ASSUME Types, PipeInv, PipeMoves
    PROVE  PipeInv'
<1>1. Pipe \in Seq(Event) /\ buf \in Seq(Fragments)
    BY HandSeq DEF Types
<1>2. Chained(buf, Pipe) /\ Consecutive(buf) /\ (socket = "open" => Newest(buf, Pipe, text))
    BY DEF PipeInv
<1>3. CASE Keeps
    BY <1>2, <1>3 DEF Keeps, PipeInv
<1>4. CASE Loses
    <2>1. Pipe' = Pipe /\ buf' = buf /\ socket' = socket
        BY <1>4 DEF Loses
    <2>2. socket = "open" => Newest(buf, Pipe, text')
        BY <1>4 DEF Loses, Newest
    <2>. QED
        BY <1>2, <2>1, <2>2 DEF PipeInv
<1>5. CASE Cuts
    <2>1. /\ Pipe' \in Seq(Event) /\ Len(Pipe') <= Len(Pipe)
          /\ \A i \in 1..Len(Pipe') : Pipe'[i] = Pipe[i]
          /\ buf' = buf /\ socket' = "closed"
        BY <1>5 DEF Cuts
    <2>2. Chained(buf, Pipe')
        BY <1>1, <1>2, <2>1, ChainBreaks
    <2>. QED
        BY <1>2, <2>1, <2>2 DEF PipeInv
<1>. QED
    BY <1>3, <1>4, <1>5, AddsStep, AsksStep, TakesStep DEF PipeMoves

(***************************************************************************)
(* What is received, held back and given to the client.                    *)
(***************************************************************************)
LEMMA FirstPart ==
    ASSUME NEW s \in Seq(Fragments), NEW t \in Seq(Fragments), Consecutive(s \o t)
    PROVE  Consecutive(s)
<1>1. /\ Len(s \o t) = Len(s) + Len(t) /\ Len(s) \in Nat /\ Len(t) \in Nat
      /\ \A i \in 1..Len(s) + Len(t) : (s \o t)[i] = IF i <= Len(s) THEN s[i] ELSE t[i - Len(s)]
    BY ConcatProperties, LenProperties
<1>. SUFFICES ASSUME NEW i \in 1..Len(s) - 1
              PROVE  s[i + 1] = s[i] + 1
    BY DEF Consecutive
<1>2. i \in 1..Len(s \o t) - 1 /\ i \in 1..Len(s) + Len(t) /\ i + 1 \in 1..Len(s) + Len(t)
    BY <1>1
<1>3. (s \o t)[i + 1] = (s \o t)[i] + 1
    BY <1>2 DEF Consecutive
<1>4. (s \o t)[i + 1] = s[i + 1] /\ (s \o t)[i] = s[i]
    BY <1>1, <1>2
<1>. QED
    BY <1>3, <1>4

LEMMA StreamStep ==
    ASSUME Types, StreamInv, mode' = mode, Consecutive(buf), Consecutive(buf'),
           \/ UNCHANGED <<pc, buf, held, emitted, result>>
           \/ Moves /\ pc # "done"
    PROVE  StreamInv'
<1>1. buf \in Seq(Fragments) /\ held \in Seq(Fragments) /\ emitted \in Seq(Fragments)
    BY DEF Types
<1>2. result \in [kind : Kinds, content : Seq(Fragments)]
    BY DEF Types
<1>3. CASE UNCHANGED <<pc, buf, held, emitted, result>>
    BY <1>3 DEF StreamInv, StreamAgrees
<1>. SUFFICES ASSUME pc # "done", Moves
              PROVE  StreamInv'
    BY <1>3
<1>4. /\ result.kind = "none" /\ Consecutive(emitted)
      /\ mode.streaming => buf = emitted \o held
      /\ ~mode.streaming => emitted = <<>> /\ held = <<>>
    BY DEF StreamInv, StreamAgrees, Consecutive
<1>5. CASE Waits
    BY <1>5 DEF Waits, StreamInv, StreamAgrees
<1>6. ASSUME NEW k \in Errors, Gives(k)
      PROVE  StreamInv'
    <2>1. result'.kind # "ok" /\ pc' = "done" /\ emitted' = emitted /\ held' = held
        BY <1>2, <1>6 DEF Gives, Errors
    <2>. QED
        BY <1>4, <2>1 DEF StreamInv, StreamAgrees, Consecutive
<1>7. CASE Goes
    BY <1>4, <1>7 DEF Goes, StreamInv, StreamAgrees, Consecutive
<1>8. ASSUME NEW n \in Fragments, Pushes(n)
      PROVE  StreamInv'
    <2>1. pc' = pc /\ result' = result /\ buf' = Append(buf, n) /\ Push(n)
        BY <1>8 DEF Pushes
    <2>2. CASE mode.streaming
        <3>1. /\ emitted' \in Seq(Fragments) /\ held' \in Seq(Fragments)
              /\ emitted' \o held' = Append(emitted \o held, n)
            BY <1>1, <2>1, <2>2, PushMoves
        <3>2. buf' = emitted' \o held'
            BY <1>4, <2>1, <2>2, <3>1
        <3>3. Consecutive(emitted')
            <4>1. Consecutive(emitted' \o held')
                BY <3>2
            <4>. QED
                BY <3>1, <4>1, FirstPart
        <3>. QED
            BY <1>4, <2>1, <2>2, <3>2, <3>3 DEF StreamInv, StreamAgrees, Consecutive
    <2>3. CASE ~mode.streaming
        <3>1. emitted' = emitted /\ held' = held
            BY <2>1, <2>3 DEF Push
        <3>. QED
            BY <1>4, <2>1, <2>3, <3>1 DEF StreamInv, StreamAgrees, Consecutive
    <2>. QED
        BY <2>2, <2>3
<1>9. ASSUME NEW c \in Seq(Fragments), Consecutive(c), Succeeds(c)
      PROVE  StreamInv'
    <2>1. pc' = "done" /\ result'.content = c /\ held' = <<>> /\ buf' = buf
        BY <1>9 DEF Succeeds
    <2>2. CASE mode.streaming
        <3>1. emitted' = IF IsPrefix(buf, c) THEN c ELSE buf
            BY <1>1, <1>4, <1>9, <2>2, DeltaMoves DEF Succeeds
        <3>2. Consecutive(emitted')
            BY <1>9, <3>1
        <3>. QED
            BY <2>1, <2>2, <3>1, <3>2 DEF StreamInv, StreamAgrees, Consecutive
    <2>3. CASE ~mode.streaming
        <3>1. emitted' = emitted
            BY <1>9, <2>3 DEF Succeeds
        <3>. QED
            BY <1>4, <2>1, <2>3, <3>1 DEF StreamInv, StreamAgrees, Consecutive
    <2>. QED
        BY <2>2, <2>3
<1>. QED
    BY <1>5, <1>6, <1>7, <1>8, <1>9 DEF Moves, Receives

(***************************************************************************)
(* What waitAssistant is told of a run, and what the reply is.             *)
(***************************************************************************)
LEMMA PipeHolds ==
    ASSUME Types, WholeInv, PipeMoves, text' \in Nat, text <= text',
           spent' \in [asks : Nat, faults : Nat], spent'.asks >= spent.asks, Over => Over',
           before.late => before'.late
    PROVE  /\ \A i \in 1..Len(Pipe') : IsText(Pipe', i) =>
                Pipe'[i].n <= text' /\ (Pipe'[i].n = 0 => before'.late)
           /\ \A i \in 1..Len(buf') : buf'[i] \in 0..text' /\ (buf'[i] = 0 => before'.late)
           /\ spent'.asks = 0 /\ ~mode.resuming =>
                \A i \in 1..Len(Pipe') : Pipe'[i].type \in {"ready", "done"} => Over'
<1>. DEFINE Fits(e) == /\ e.type = "message" => e.n <= text' /\ (e.n = 0 => before'.late)
                       /\ spent'.asks = 0 /\ ~mode.resuming /\ e.type \in {"ready", "done"} => Over'
            Received(i) == i \in 0..text' /\ (i = 0 => before'.late)
<1>1. Pipe \in Seq(Event) /\ buf \in Seq(Fragments) /\ text \in Nat /\ spent.asks \in Nat /\ MaxText \in Nat
    BY HandSeq, UpTypes DEF Types
<1>2. spent'.asks \in Nat /\ (spent'.asks = 0 => spent.asks = 0)
    BY <1>1
<1>3. Len(Pipe) \in Nat /\ (\A i \in 1..Len(Pipe) : Pipe[i] \in Event) /\ Len(buf) \in Nat
    BY <1>1, LenProperties, ElementOfSeq
<1>4. \A e \in Event : e.type = "message" => e.n \in Nat /\ e.n \in Fragments
    BY <1>1, Events
<1>5. \A i \in 1..Len(Pipe) : Fits(Pipe[i])
    <2>. SUFFICES ASSUME NEW i \in 1..Len(Pipe)
                  PROVE  Fits(Pipe[i])
        OBVIOUS
    <2>1. Pipe[i].type = "message" => Pipe[i].n <= text' /\ (Pipe[i].n = 0 => before'.late)
        <3>1. Pipe[i].type = "message" =>
                Pipe[i].n <= text /\ Pipe[i].n \in Nat /\ (Pipe[i].n = 0 => before.late)
            BY <1>3, <1>4 DEF WholeInv, IsText
        <3>. QED
            BY <1>1, <3>1
    <2>2. spent'.asks = 0 /\ ~mode.resuming /\ Pipe[i].type \in {"ready", "done"} => Over'
        BY <1>2 DEF WholeInv
    <2>. QED
        BY <2>1, <2>2
<1>6. \A i \in 1..Len(buf) : Received(buf[i])
    <2>1. \A i \in 1..Len(buf) : buf[i] \in 0..text /\ (buf[i] = 0 => before.late)
        BY DEF WholeInv
    <2>. QED
        BY <1>1, <2>1
<1>. HIDE DEF Fits, Received
<1>7. ASSUME NEW q \in Seq(Event), \A i \in 1..Len(q) : Fits(q[i]), NEW x \in Event, Fits(x)
      PROVE  \A i \in 1..Len(Append(q, x)) : Fits(Append(q, x)[i])
    <2>. DEFINE r == Append(q, x)
    <2>1. Len(q) \in Nat /\ Len(r) = Len(q) + 1 /\ r[Len(q) + 1] = x /\ \A i \in 1..Len(q) : r[i] = q[i]
        BY AppendProperties, LenProperties
    <2>2. \A i \in 1..Len(r) : i = Len(q) + 1 \/ i \in 1..Len(q)
        BY <2>1
    <2>. HIDE DEF r
    <2>3. \A i \in 1..Len(r) : Fits(r[i])
        BY <1>7, <2>1, <2>2
    <2>. QED
        BY <2>3 DEF r
<1>8. (\A i \in 1..Len(Pipe') : Fits(Pipe'[i])) /\ \A i \in 1..Len(buf') : Received(buf'[i])
    <2>1. CASE Keeps \/ Loses
        <3>1. Pipe' = Pipe /\ buf' = buf
            BY <2>1 DEF Keeps, Loses
        <3>. QED
            BY <1>5, <1>6, <3>1
    <2>2. CASE Cuts
        <3>1. /\ Pipe' \in Seq(Event) /\ Len(Pipe') <= Len(Pipe) /\ buf' = buf
              /\ \A i \in 1..Len(Pipe') : Pipe'[i] = Pipe[i]
            BY <2>2 DEF Cuts
        <3>2. \A i \in 1..Len(Pipe') : i \in 1..Len(Pipe)
            BY <1>3, <3>1, LenProperties
        <3>. QED
            BY <1>5, <1>6, <3>1, <3>2
    <2>3. CASE Takes
        <3>1. /\ Pipe # <<>> /\ Pipe' = Tail(Pipe)
              /\ buf' = IF IsText(Pipe, 1) THEN Append(buf, Head(Pipe).n) ELSE buf
            BY <2>3 DEF Takes
        <3>2. /\ Len(Pipe') = Len(Pipe) - 1 /\ Head(Pipe) = Pipe[1] /\ Len(Pipe) # 0
              /\ \A i \in 1..Len(Pipe) - 1 : Pipe'[i] = Pipe[i + 1]
            BY <1>1, <3>1, HeadTailProperties, EmptySeq
        <3>3. \A i \in 1..Len(Pipe') : i + 1 \in 1..Len(Pipe) /\ Pipe'[i] = Pipe[i + 1]
            BY <1>3, <3>2
        <3>4. \A i \in 1..Len(Pipe') : Fits(Pipe'[i])
            BY <1>5, <3>3
        <3>5. CASE IsText(Pipe, 1)
            <4>. DEFINE n == Head(Pipe).n
                        b == buf'
            <4>1. 1 \in 1..Len(Pipe)
                BY <1>3, <3>2
            <4>2. n \in Fragments /\ Received(n)
                BY <1>3, <1>4, <1>5, <3>2, <3>5, <4>1 DEF Fits, IsText, Received
            <4>3. b = Append(buf, n)
                BY <3>1, <3>5
            <4>. HIDE DEF n, b
            <4>4. Len(b) = Len(buf) + 1 /\ b[Len(buf) + 1] = n /\ \A i \in 1..Len(buf) : b[i] = buf[i]
                BY <1>1, <4>2, <4>3, AppendProperties
            <4>5. \A i \in 1..Len(b) : i = Len(buf) + 1 \/ i \in 1..Len(buf)
                BY <1>3, <4>4
            <4>6. \A i \in 1..Len(b) : Received(b[i])
                BY <1>6, <4>2, <4>4, <4>5
            <4>. QED
                BY <3>4, <4>6 DEF b
        <3>6. CASE ~IsText(Pipe, 1)
            BY <1>6, <3>1, <3>4, <3>6
        <3>. QED
            BY <3>5, <3>6
    <2>4. ASSUME NEW x \in Event, Adds(x)
          PROVE  (\A i \in 1..Len(Pipe') : Fits(Pipe'[i])) /\ buf' = buf
        <3>1. Pipe' = Append(Pipe, x) /\ buf' = buf
            BY <2>4 DEF Adds
        <3>2. x.type = "message" => x.n <= text' /\ (x.n = 0 => before'.late)
            <4>1. x.type = "message" => x.n = text' /\ (x.n = 0 => before'.late)
                BY <1>1, <2>4 DEF Adds, Continues, Begins
            <4>. QED
                BY <4>1
        <3>3. Fits(x)
            BY <2>4, <3>2 DEF Adds, Fits
        <3>. QED
            BY <1>1, <1>5, <1>7, <3>1, <3>3
    <2>5. ASSUME NEW x \in Event, NEW y \in Event, Asks(x, y)
          PROVE  (\A i \in 1..Len(Pipe') : Fits(Pipe'[i])) /\ buf' = buf
        <3>. DEFINE q == Append(Pipe, x)
        <3>1. Pipe' = Append(q, y) /\ buf' = buf
            BY <2>5 DEF Asks
        <3>2. Fits(x) /\ Fits(y)
            BY <2>5 DEF Asks, Fits
        <3>3. q \in Seq(Event) /\ \A i \in 1..Len(q) : Fits(q[i])
            BY <1>1, <1>5, <1>7, <3>2, AppendProperties
        <3>. HIDE DEF q
        <3>4. \A i \in 1..Len(Append(q, y)) : Fits(Append(q, y)[i])
            BY <1>7, <3>2, <3>3
        <3>. QED
            BY <3>1, <3>4
    <2>. QED
        BY <1>6, <2>1, <2>2, <2>3, <2>4, <2>5 DEF PipeMoves
<1>. QED
    BY <1>8 DEF Fits, Received, IsText

\* What waitAssistant hears of a run that asked for nothing is true.
LEMMA Waited ==
    ASSUME Types, BeforeInv, ReaderInv, StreamInv, WholeInv, PipeInv, waitAssistant
    PROVE  /\ pc # "done" /\ result.kind = "none"
           /\ spent'.faults = 0 => pc' # "finish after error"
           /\ spent.asks = 0 /\ pc' = "finish" /\ ~mode.resuming => Over
           /\ WholeText' /\ NeverPreviousAnswer'
<1>1. spent.faults \in Nat /\ spent.asks \in Nat /\ result \in [kind : Kinds, content : Seq(Fragments)]
    BY UpTypes DEF Types
<1>2. Consecutive(buf)
    BY DEF PipeInv
<1>3. ASSUME result.kind = "none", Receives
      PROVE  WholeText' /\ NeverPreviousAnswer'
    <2>1. result'.kind # "ok"
        <3>1. CASE Waits
            BY <1>3, <3>1 DEF Waits
        <3>2. ASSUME NEW k \in Errors, Gives(k)
              PROVE  result'.kind # "ok"
            BY <1>1, <3>2 DEF Gives, Errors
        <3>3. CASE Goes
            BY <1>3, <3>3 DEF Goes
        <3>4. ASSUME NEW n \in Fragments, Pushes(n)
              PROVE  result'.kind # "ok"
            BY <1>3, <3>4 DEF Pushes
        <3>. QED
            BY <1>3, <3>1, <3>2, <3>3, <3>4 DEF Receives
    <2>. QED
        BY <2>1 DEF WholeText, NeverPreviousAnswer
<1>4. CASE OnEvent
    <2>1. /\ pc = "select" /\ Receives /\ pc' # "finish after error"
          /\ pc' = "finish" => Head(events).type \in {"ready", "done"}
        BY <1>4, EventMoves
    <2>2. result.kind = "none"
        BY <2>1 DEF StreamInv
    <2>3. spent.asks = 0 /\ pc' = "finish" /\ ~mode.resuming => Over
        <3>1. Pipe[1] = Head(events) /\ 1 \in 1..Len(Pipe)
            BY <1>4, EventTakes
        <3>. QED
            BY <2>1, <3>1 DEF WholeInv
    <2>. QED
        BY <1>3, <2>1, <2>2, <2>3
<1>5. CASE OnErrc \/ OnTick \/ OnFirstResponseTimer \/ OnDone
    <2>1. /\ pc = "select" /\ Receives /\ spent' = spent
          /\ pc' = "finish" => todoStatus \in {"ready", "done"}
          /\ pc' = "finish after error" => errc /\ ctx # "done"
        BY <1>5, TimerMoves
    <2>2. result.kind = "none"
        BY <2>1 DEF StreamInv
    <2>3. spent'.faults = 0 => pc' # "finish after error"
        BY <2>1 DEF WholeInv
    <2>4. spent.asks = 0 /\ pc' = "finish" /\ ~mode.resuming => Over
        <3>1. spent.asks = 0 => run # "asking"
            BY DEF WholeInv
        <3>2. todoStatus \in {"ready", "done"} /\ run # "asking" /\ ~mode.resuming => Over
            BY DEF todoStatus, Over
        <3>. QED
            BY <2>1, <3>1, <3>2
    <2>. QED
        BY <1>3, <2>1, <2>2, <2>3, <2>4
<1>6. CASE Finishing
    <2>1. /\ pc \in {"finish", "finish after error"} /\ pc' = "done"
          /\ UNCHANGED <<mode, before, run, text, recorded>>
          /\ spent' \in [asks : Nat, faults : Nat] /\ spent'.asks = spent.asks
          /\ spent'.faults >= spent.faults
          /\ \/ \E k \in Errors : Gives(k)
             \/ Succeeds(finalAssistant) /\ spent' = spent /\ (pc = "finish" \/ finalAssistant # <<>>)
             \/ Succeeds(buf) /\ spent'.faults > 0
        BY <1>2, <1>6, FinishMoves DEF upstream
    <2>2. result.kind = "none"
        BY <2>1 DEF StreamInv
    <2>3. ASSUME NEW k \in Errors, Gives(k)
          PROVE  WholeText' /\ NeverPreviousAnswer'
        <3>1. result'.kind # "ok"
            BY <1>1, <2>3 DEF Gives, Errors
        <3>. QED
            BY <3>1 DEF WholeText, NeverPreviousAnswer
    <2>4. ASSUME Succeeds(finalAssistant), spent' = spent, pc = "finish" \/ finalAssistant # <<>>
          PROVE  WholeText'
        <3>1. result'.content = finalAssistant
            BY <2>4 DEF Succeeds
        <3>2. ASSUME ~mode.resuming, spent.asks = 0, spent.faults = 0
              PROVE  Over /\ finalAssistant = Text(text)
            <4>1. pc = "finish"
                BY <2>1, <3>2 DEF WholeInv
            <4>2. Over /\ recorded = text
                BY <3>2, <4>1 DEF WholeInv
            <4>3. text \in Nat
                BY UpTypes
            <4>4. CASE text > 0
                BY <4>2, <4>4, FinalIs
            <4>5. CASE text = 0
                <5>1. Text(0) = <<>>
                    <6>1. Text(0) \in Seq(Fragments) /\ Len(Text(0)) = 0
                        <7>1. 0 \in 0..MaxText
                            BY UpTypes
                        <7>. QED
                            BY <7>1, TextIs
                    <6>. QED
                        BY <6>1, EmptySeq
                <5>2. buf = <<>>
                    <6>1. buf \in Seq(Fragments) /\ Len(buf) \in Nat
                        BY LenProperties DEF Types
                    <6>2. ASSUME Len(buf) # 0
                          PROVE  FALSE
                        <7>1. 1 \in 1..Len(buf)
                            BY <6>1, <6>2
                        <7>2. buf[1] \in 0..0 /\ (buf[1] = 0 => before.late)
                            BY <4>5, <7>1 DEF WholeInv
                        <7>3. ~before.late
                            BY <3>2 DEF BeforeInv
                        <7>. QED
                            BY <7>2, <7>3
                    <6>. QED
                        BY <6>1, <6>2, EmptySeq
                <5>. QED
                    BY <4>2, <4>5, <5>1, <5>2, FinalIs
            <4>. QED
                BY <4>2, <4>3, <4>4, <4>5
        <3>. SUFFICES ASSUME ~mode'.resuming, spent'.asks = 0, spent'.faults = 0
                      PROVE  run' \in {"ready", "done"} /\ result'.content = Text(text')
            BY DEF WholeText
        <3>3. ~mode.resuming /\ spent.asks = 0 /\ spent.faults = 0
            BY <2>1, <2>4
        <3>4. Over /\ finalAssistant = Text(text)
            BY <3>2, <3>3
        <3>. QED
            BY <2>1, <3>1, <3>4 DEF Over
    <2>5. ASSUME Succeeds(buf), spent'.faults > 0
          PROVE  WholeText'
        <3>1. spent'.faults \in Nat
            BY <2>1
        <3>2. spent'.faults # 0
            BY <2>5, <3>1
        <3>. SUFFICES ASSUME spent'.faults = 0
                      PROVE  FALSE
            BY DEF WholeText
        <3>. QED
            BY <3>2
    <2>. DEFINE Known(s) == \A i \in DOMAIN s : (s[i] = -1 => before.changed) /\ (s[i] = 0 => before.late)
    <2>6. Known(buf)
        <3>1. DOMAIN buf = 1..Len(buf) /\ Len(buf) \in Nat
            BY LenProperties DEF Types
        <3>2. \A i \in 1..Len(buf) : buf[i] \in 0..text /\ (buf[i] = 0 => before.late)
            BY DEF WholeInv
        <3>. QED
            BY <3>1, <3>2
    <2>7. Known(finalAssistant)
        <3>1. CASE finalAssistant = buf
            BY <2>6, <3>1
        <3>2. CASE recorded >= 0 /\ finalAssistant = Text(recorded)
            <4>1. \A i \in DOMAIN Text(recorded) : Text(recorded)[i] > 0
                BY UpTypes DEF Text
            <4>. QED
                BY <3>2, <4>1
        <3>3. CASE before.changed /\ finalAssistant = before.text
            BY <3>3, BeforeIs
        <3>. QED
            BY <3>1, <3>2, <3>3, FinalIs
    <2>8. ASSUME NEW c, Succeeds(c), Known(c)
          PROVE  NeverPreviousAnswer'
        <3>1. result'.content = c /\ before' = before
            BY <2>1, <2>8 DEF Succeeds
        <3>. QED
            BY <2>8, <3>1 DEF NeverPreviousAnswer
    <2>. HIDE DEF Known
    <2>. QED
        BY <2>1, <2>2, <2>3, <2>4, <2>5, <2>6, <2>7, <2>8
<1>. QED
    BY <1>4, <1>5, <1>6 DEF waitAssistant

LEMMA WholeStep ==
    ASSUME Types, BeforeInv, ReaderInv, PipeInv, StreamInv, WholeInv, [Next]_vars
    PROVE  WholeInv'
<1>1. Prior /\ Ages
    <2>1. Prior
        BY DEF PipeInv, Prior
    <2>. QED
        BY <2>1, BeforeStep
<1>2. /\ spent.asks \in Nat /\ spent.faults \in Nat /\ text \in Nat
      /\ Over => recorded = text
      /\ (before.late => before'.late) /\ (before.changed => before'.changed)
    BY <1>1, UpTypes DEF WholeInv, Ages
<1>. DEFINE Held == /\ \A i \in 1..Len(Pipe') : IsText(Pipe', i) =>
                         Pipe'[i].n <= text' /\ (Pipe'[i].n = 0 => before'.late)
                    /\ \A i \in 1..Len(buf') : buf'[i] \in 0..text' /\ (buf'[i] = 0 => before'.late)
                    /\ spent'.asks = 0 /\ ~mode'.resuming =>
                         \A i \in 1..Len(Pipe') : Pipe'[i].type \in {"ready", "done"} => Over'
<1>3. CASE Advances /\ Carries /\ Told
    <2>1. UNCHANGED <<mode, socket, errc, ctx, pc, buf, result>>
        BY <1>3 DEF Told, waiter
    <2>2. /\ text <= text' /\ text' \in Nat /\ spent' \in [asks : Nat, faults : Nat]
          /\ spent'.asks >= spent.asks /\ spent'.faults = spent.faults
          /\ (Over => Over' /\ text' = text) /\ (Over' => recorded' = text')
          /\ (run' = "asking" => run = "asking" \/ spent'.asks > 0)
        BY <1>2, <1>3, UpTypes DEF Advances
    <2>3. /\ spent'.asks \in Nat /\ (spent'.asks = 0 => spent.asks = 0)
          /\ spent'.asks = 0 /\ run' = "asking" => run = "asking"
        BY <1>2, <2>2
    <2>4. Held
        <3>1. PipeMoves
            BY <1>3 DEF Carries, PipeMoves
        <3>. QED
            BY <1>2, <2>1, <2>2, <3>1, PipeHolds
    <2>5. spent'.asks = 0 => /\ run' # "asking"
                             /\ pc' = "finish" /\ ~mode'.resuming => Over'
        <3>1. spent.asks = 0 => run # "asking" /\ (pc = "finish" /\ ~mode.resuming => Over)
            BY DEF WholeInv
        <3>. QED
            BY <2>1, <2>2, <2>3, <3>1
    <2>6. spent'.faults = 0 => /\ socket' = "closed" => ctx' = "done" \/ pc' = "done"
                               /\ errc' => ctx' = "done" \/ pc' = "done"
                               /\ pc' # "finish after error"
        BY <2>1, <2>2 DEF WholeInv
    <2>7. WholeText'
        <3>1. WholeText
            BY DEF WholeInv
        <3>2. Over => run' \in {"ready", "done"} /\ text' = text
            BY <2>2 DEF Over
        <3>. QED
            BY <2>1, <2>2, <2>3, <3>1, <3>2 DEF WholeText, Over, Text
    <2>8. NeverPreviousAnswer'
        BY <1>2, <2>1 DEF WholeInv, NeverPreviousAnswer
    <2>. QED
        BY <2>2, <2>4, <2>5, <2>6, <2>7, <2>8 DEF WholeInv
<1>4. CASE Serves
    <2>1. UNCHANGED <<mode, run, text, recorded, pc, buf, result>>
        BY <1>4 DEF Serves, upstream, waiter
    <2>2. /\ spent' \in [asks : Nat, faults : Nat]
          /\ spent'.asks = spent.asks /\ spent'.faults >= spent.faults
          /\ ctx = "done" => ctx' = "done"
          /\ socket' = "closed" => socket = "closed" \/ ctx' = "done" \/ pc = "done" \/ spent'.faults > 0
          /\ errc' => errc \/ socket = "closed" \/ ctx' = "done" \/ spent'.faults > 0
        BY <1>4 DEF Serves, Subscription
    <2>3. Over' <=> Over
        BY <2>1 DEF Over
    <2>4. Held
        <3>1. PipeMoves
            BY <1>4 DEF Serves, PipeMoves
        <3>2. text' \in Nat /\ text <= text' /\ spent'.asks >= spent.asks
            BY <1>2, <2>1, <2>2
        <3>. QED
            BY <1>2, <2>1, <2>2, <2>3, <3>1, <3>2, PipeHolds
    <2>5. spent'.asks = 0 => /\ run' # "asking"
                             /\ pc' = "finish" /\ ~mode'.resuming => Over'
        BY <2>1, <2>2, <2>3 DEF WholeInv
    <2>6. spent'.faults = 0 => /\ socket' = "closed" => ctx' = "done" \/ pc' = "done"
                               /\ errc' => ctx' = "done" \/ pc' = "done"
                               /\ pc' # "finish after error"
        <3>1. spent'.faults = 0 => spent.faults = 0 /\ ~(spent'.faults > 0)
            BY <1>2, <2>2
        <3>. QED
            BY <2>1, <2>2, <3>1 DEF WholeInv
    <2>7. WholeText'
        <3>1. spent'.faults = 0 => spent.faults = 0
            BY <1>2, <2>2
        <3>. QED
            BY <2>1, <2>2, <3>1 DEF WholeInv, WholeText, Text
    <2>8. NeverPreviousAnswer'
        BY <1>2, <2>1 DEF WholeInv, NeverPreviousAnswer
    <2>. QED
        BY <1>2, <2>1, <2>3, <2>4, <2>5, <2>6, <2>7, <2>8 DEF WholeInv
<1>5. CASE waitAssistant /\ Waiting
    <2>1. /\ UNCHANGED <<mode, run, text, recorded, socket, ctx>>
          /\ spent' \in [asks : Nat, faults : Nat] /\ (errc' => errc)
          /\ spent'.asks = spent.asks /\ spent'.faults >= spent.faults
        BY <1>5 DEF Waiting, upstream, Subscription
    <2>2. /\ pc # "done" /\ WholeText' /\ NeverPreviousAnswer'
          /\ spent'.faults = 0 => pc' # "finish after error"
          /\ spent.asks = 0 /\ pc' = "finish" /\ ~mode.resuming => Over
        BY <1>5, Waited
    <2>3. Over' <=> Over
        BY <2>1 DEF Over
    <2>4. Held
        <3>1. PipeMoves
            BY <1>5 DEF Waiting, PipeMoves
        <3>2. text' \in Nat /\ text <= text' /\ spent'.asks >= spent.asks
            BY <1>2, <2>1
        <3>3. spent' \in [asks : Nat, faults : Nat] /\ (Over => Over')
            BY <2>1, <2>3
        <3>. QED
            BY <1>2, <2>1, <3>1, <3>2, <3>3, PipeHolds
    <2>5. spent'.asks = 0 => /\ run' # "asking"
                             /\ pc' = "finish" /\ ~mode'.resuming => Over'
        BY <2>1, <2>2, <2>3 DEF WholeInv
    <2>6. spent'.faults = 0 => /\ socket' = "closed" => ctx' = "done" \/ pc' = "done"
                               /\ errc' => ctx' = "done" \/ pc' = "done"
                               /\ pc' # "finish after error"
        <3>1. spent'.faults = 0 => spent.faults = 0
            BY <1>2, <2>1
        <3>2. spent.faults = 0 => /\ socket = "closed" => ctx = "done" \/ pc = "done"
                                  /\ errc => ctx = "done" \/ pc = "done"
            BY DEF WholeInv
        <3>. QED
            BY <2>1, <2>2, <3>1, <3>2
    <2>. QED
        BY <1>2, <2>1, <2>2, <2>3, <2>4, <2>5, <2>6 DEF WholeInv
<1>6. CASE UNCHANGED vars
    <2>1. /\ mode' = mode /\ before' = before /\ run' = run /\ text' = text
          /\ recorded' = recorded /\ socket' = socket /\ wire' = wire /\ carry' = carry /\ events' = events /\ errc' = errc /\ ctx' = ctx
          /\ pc' = pc /\ buf' = buf /\ result' = result /\ spent' = spent
        BY <1>6 DEF vars, upstream, stream, waiter
    <2>2. Pipe' = Pipe /\ (Over' <=> Over)
        BY <2>1 DEF Pipe, Hand, Over
    <2>3. WholeText' /\ NeverPreviousAnswer'
        BY <2>1 DEF WholeInv, WholeText, NeverPreviousAnswer, Text
    <2>. QED
        BY <2>1, <2>2, <2>3 DEF WholeInv
<1>. QED
    BY <1>1, <1>3, <1>4, <1>5, <1>6, StepKinds

(***************************************************************************)
(* The invariant holds.                                                    *)
(***************************************************************************)
LEMMA TurnStarts ==
    ASSUME Init
    PROVE  TurnInv
<1>1. /\ mode \in [resuming: BOOLEAN, streaming: BOOLEAN]
      /\ run = "pending" /\ text = 0 /\ recorded = -1
      /\ socket = "open" /\ wire = <<>> /\ reader = "subscribing"
      /\ carry = Nothing /\ events = <<>> /\ errc = FALSE /\ ctx = "live"
      /\ pc = "select" /\ buf = <<>> /\ held = <<>> /\ emitted = <<>> /\ blocked = FALSE
      /\ result = [kind |-> "none", content |-> <<>>]
    BY DEF Init
<1>0. spent \in [asks: Nat, faults: Nat]
    <2>1. spent = [asks |-> 0, faults |-> IF mode.resuming /\ before.text = <<>> THEN 1 ELSE 0]
        BY DEF Init
    <2>. QED
        BY <2>1
<1>2. /\ <<>> \in Seq(Event) /\ <<>> \in Seq(Fragments) /\ Len(<<>>) = 0
      /\ MaxText \in Nat /\ Capacity \in Nat
    BY TurnAssumption, EmptySeq DEF TurnAssumption
<1>3. Types
    <2>1. text \in 0..MaxText /\ recorded \in -1..MaxText /\ recorded <= text
        BY <1>1, <1>2
    <2>2. /\ wire \in Seq(Event) /\ events \in Seq(Event) /\ Len(events) <= Capacity
          /\ buf \in Seq(Fragments) /\ held \in Seq(Fragments) /\ emitted \in Seq(Fragments)
        BY <1>1, <1>2
    <2>3. result \in [kind: Kinds, content: Seq(Fragments)] /\ spent \in [asks: Nat, faults: Nat]
        BY <1>0, <1>1, <1>2 DEF Kinds
    <2>4. /\ run \in {"pending", "running", "asking", "ready", "done", "failed"}
          /\ socket \in {"open", "closed"} /\ reader \in {"subscribing", "reading", "sending", "done"}
          /\ carry \in Event \cup {Nothing} /\ errc \in BOOLEAN /\ ctx \in {"live", "done"}
          /\ pc \in {"select", "finish", "finish after error", "done"} /\ blocked \in BOOLEAN
        BY <1>1
    <2>. QED
        BY <1>1, <2>1, <2>2, <2>3, <2>4 DEF Types
<1>4. Pipe = <<>>
    <2>1. Hand = <<>>
        BY <1>1 DEF Hand
    <2>2. (<<>> \o <<>>) \o <<>> = <<>>
        BY ConcatEmptySeq, EmptySeq
    <2>. QED
        BY <1>1, <2>1, <2>2 DEF Pipe
<1>5. ReaderInv
    BY <1>1 DEF ReaderInv
<1>6. PipeInv
    <2>1. Chained(<<>>, <<>>) /\ Consecutive(<<>>) /\ Newest(<<>>, <<>>, 0)
        BY <1>2 DEF Chained, Consecutive, Newest
    <2>. QED
        BY <1>1, <1>4, <2>1 DEF PipeInv
<1>7. StreamInv
    <2>1. result.kind = "none"
        BY <1>1
    <2>2. \A i \in 1..Len(emitted) - 1 : emitted[i + 1] = emitted[i] + 1
        BY <1>1, <1>2
    <2>3. buf = emitted \o held
        BY <1>1, <1>2, ConcatEmptySeq
    <2>. QED
        BY <1>1, <2>1, <2>2, <2>3 DEF StreamInv, StreamAgrees
<1>8. WholeInv
    <2>1. ~Over /\ result.kind = "none"
        BY <1>1 DEF Over
    <2>2. (\A i \in 1..Len(Pipe) : FALSE) /\ (\A i \in 1..Len(buf) : FALSE)
        BY <1>1, <1>2, <1>4
    <2>. QED
        BY <1>1, <2>1, <2>2 DEF WholeInv, WholeText, NeverPreviousAnswer
<1>9. BeforeInv
    <2>1. PICK r \in IF mode.resuming THEN {"running", "ready"} ELSE {"over"},
               t \in IF mode.resuming THEN {<<>>, Previous} ELSE {<<>>} :
            before = [run |-> r, text |-> t, late |-> FALSE, changed |-> FALSE]
        BY DEF Init
    <2>2. /\ r \in {"running", "ready", "over"} /\ t \in {<<>>, <<-1>>}
          /\ ~mode.resuming => r = "over" /\ t = <<>>
        BY <2>1 DEF Previous
    <2>3. <<-1>> # <<0>> /\ <<-1>> # <<-1, 0>> /\ <<>> # <<0>> /\ <<>> # <<-1, 0>>
        <3>1. Len(<<>>) = 0 /\ Len(<<-1>>) = 1 /\ Len(<<0>>) = 1 /\ Len(<<-1, 0>>) = 2
            OBVIOUS
        <3>2. <<-1>>[1] = -1 /\ <<0>>[1] = 0
            OBVIOUS
        <3>. QED
            BY <3>1, <3>2
    <2>. QED
        BY <1>1, <2>1, <2>2, <2>3 DEF BeforeInv
<1>. QED
    BY <1>3, <1>9, <1>5, <1>6, <1>7, <1>8 DEF TurnInv

LEMMA TurnStep ==
    ASSUME TurnInv, [Next]_vars
    PROVE  TurnInv'
<1>1. Types /\ BeforeInv /\ ReaderInv /\ PipeInv /\ StreamInv /\ WholeInv /\ Consecutive(buf) /\ Prior
    BY DEF TurnInv, PipeInv, Prior
<1>2. Types' /\ ReaderInv' /\ BeforeInv'
    BY <1>1, TypesStep, BeforeStep DEF Ages
<1>3. PipeMoves
    <2>1. UNCHANGED vars => Keeps
        BY DEF vars, upstream, stream, waiter, Keeps, Pipe, Hand
    <2>2. Carries => PipeMoves
        BY DEF Carries, PipeMoves
    <2>3. Serves \/ Waiting => PipeMoves
        BY DEF Serves, Waiting, PipeMoves
    <2>. QED
        BY <1>1, <2>1, <2>2, <2>3, StepKinds DEF PipeMoves
<1>4. PipeInv'
    BY <1>1, <1>3, PipeStep
<1>5. StreamInv'
    <2>1. Consecutive(buf')
        BY <1>4 DEF PipeInv
    <2>2. CASE Told \/ Serves
        <3>1. UNCHANGED <<mode, pc, buf, held, emitted, result>>
            BY <2>2 DEF Told, Serves, waiter
        <3>. QED
            BY <1>1, <2>1, <3>1, StreamStep
    <2>3. CASE waitAssistant /\ Waiting
        <3>1. pc # "done"
            BY <1>1, <2>3, Waited
        <3>2. mode' = mode /\ Moves
            BY <2>3 DEF Waiting
        <3>. QED
            BY <1>1, <2>1, <3>1, <3>2, StreamStep
    <2>4. CASE UNCHANGED vars
        <3>1. UNCHANGED <<mode, pc, buf, held, emitted, result>>
            BY <2>4 DEF vars, waiter
        <3>. QED
            BY <1>1, <2>1, <3>1, StreamStep
    <2>. QED
        BY <1>1, <2>2, <2>3, <2>4, StepKinds
<1>6. WholeInv'
    BY <1>1, WholeStep
<1>. QED
    BY <1>2, <1>4, <1>5, <1>6 DEF TurnInv

LEMMA TurnInvariant == Spec => []TurnInv
BY TurnStarts, TurnStep, PTL DEF Spec

(***************************************************************************)
(* The theorems.                                                           *)
(***************************************************************************)
\* Every variable of a turn keeps its type, and the channel never holds more
\* events than it can, whatever the answer is and whenever the timers fire.
THEOREM TurnTypes == Spec => []TurnTypeOK
<1>1. TurnInv => TurnTypeOK
    <2>. SUFFICES ASSUME Types, BeforeInv
                  PROVE  TurnTypeOK
        BY DEF TurnInv
    <2>1. before \in [run: {"running", "ready", "done", "failed", "over"},
                      text: Seq(Fragments), late: BOOLEAN, changed: BOOLEAN]
        <3>1. before.text \in Seq(Fragments)
            BY BeforeIs
        <3>2. before \in [run: {"running", "ready", "done", "failed", "over"},
                          text: {<<>>, <<-1>>, <<0>>, <<-1, 0>>}, late: BOOLEAN, changed: BOOLEAN]
            BY DEF BeforeInv
        <3>. QED
            BY <3>1, <3>2
    <2>. QED
        BY <2>1 DEF Types, TurnTypeOK, Kinds
<1>. QED
    BY <1>1, TurnInvariant, PTL

\* The client of a streamed turn sees the fragments in their order, none twice
\* and none left out, and at the end the reply that is returned
\* (waitAssistant, finishAssistant and finalDelta of internal/gateway).
THEOREM StreamsAgree == Spec => []StreamAgrees
<1>1. TurnInv => StreamAgrees
    BY DEF TurnInv, StreamInv
<1>. QED
    BY <1>1, TurnInvariant, PTL

\* A resumed turn never returns the answer of the turn before it as it found it
\* (finalAssistant of internal/gateway), however early it is told READY and
\* although the run before may still be at work: that run must have recorded
\* something after the request looked, and its last fragment be one it produced
\* after that.
THEOREM NeverTheAnswerBefore == Spec => []NeverPreviousAnswer
<1>1. TurnInv => NeverPreviousAnswer
    BY DEF TurnInv, WholeInv
<1>. QED
    BY <1>1, TurnInvariant, PTL

\* A new conversation that asks for nothing and meets no fault is answered with
\* the whole text of a run that is over, even when its first events were
\* published before the tab was subscribed.
THEOREM WholeTextReturned == Spec => []WholeText
<1>1. TurnInv => WholeText
    BY DEF TurnInv, WholeInv
<1>. QED
    BY <1>1, TurnInvariant, PTL
=============================================================================
