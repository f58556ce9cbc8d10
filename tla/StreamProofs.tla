----------------------------- MODULE StreamProofs -----------------------------
(***************************************************************************)
(* Proofs about what a client receives, for replies of any length, with    *)
(* any number of tool calls, after any number of accounts tried.           *)
(***************************************************************************)
EXTENDS StreamProperties, SequenceTheorems, FiniteSetTheorems, FiniteSetsExt,
        WellFoundedInduction, TLAPS

(***************************************************************************)
(* Numbers.                                                                *)
(***************************************************************************)
\* A set of numbers that is not empty has a least element.
LEMMA MinOfNats ==
    ASSUME NEW S, S \subseteq Nat, S # {}
    PROVE  Min(S) \in S /\ \A x \in S : Min(S) <= x
<1>1. PICK x \in S : \A y \in S : ~(<<y, x>> \in OpToRel(<, Nat))
    BY NatLessThanWellFounded, WFMin, Zenon
<1>2. \A y \in S : ~(y < x)
    BY <1>1, Zenon DEF OpToRel
<1>3. \A y \in S : x <= y
    BY <1>2
<1>. QED
    BY <1>3 DEF Min

\* Induction over a set of numbers.
LEMMA NatInSet ==
    ASSUME NEW S, 0 \in S, \A n \in Nat : n \in S => n + 1 \in S
    PROVE  Nat \subseteq S
<1>. DEFINE B == Nat \ S
<1>1. SUFFICES ASSUME B # {}
               PROVE  FALSE
    OBVIOUS
<1>2. PICK m \in B : \A x \in B : m <= x
    BY <1>1, MinOfNats
<1>3. m # 0 /\ m - 1 \in Nat
    BY <1>2
<1>4. m - 1 \in S
    BY <1>2, <1>3
<1>. QED
    BY <1>2, <1>3, <1>4

(***************************************************************************)
(* The inductive invariant.                                                *)
(***************************************************************************)
Identifiers == Nat \X Nat \X Nat
Fragments == Seq(Nat \X Nat)
Kinds  == {"none", "text", "call"}
Items  == [kind: Kinds, id: Identifiers, data: Fragments]
Vocabulary ==
    {"role", "content", "tool_calls", "finish_tool_calls", "finish_stop", "usage", "done",
     "message_start", "message_stop", "created", "in_progress", "completed", "open", "open_part",
     "delta", "complete", "close_part", "close", "error", "json", "http_error"}
Events == [type: Vocabulary, index: Nat, item: Items, output: Seq(Items)]

\* The properties, of any list of events.
Count(es, type, n) == Cardinality({i \in 1..n : es[i].type = type})

Nested(es) ==
    \A i \in DOMAIN es :
        LET e == es[i]
            opens == Count(es, "open", i - 1)
            closes == Count(es, "close", i - 1)
        IN
        /\ e.type = "open" => opens = closes /\ e.index = opens
        /\ e.type \in {"delta", "open_part", "complete", "close_part", "close"} =>
             opens = closes + 1 /\ e.index = closes
        /\ e.type \in {"finish_stop", "finish_tool_calls", "completed"} => opens = closes

Repeats(p, es) ==
    \A i \in DOMAIN es :
        /\ es[i].type = "complete" => es[i].item.data = Assembled(es, es[i].index)
        /\ es[i].type = "completed" => Contents(es[i].output) = Seen(p, es)

RepeatsAlways(p, es) == \A n \in 0..Len(es) : Repeats(p, SubSeq(es, 1, n))

ItemEvents == {"open", "delta", "complete", "close"}
OneName(es) ==
    \A i, j \in DOMAIN es :
        /\ es[i].type = "created" /\ es[j].type \in {"in_progress", "completed"} =>
             es[i].item.id = es[j].item.id
        /\ es[i].type \in ItemEvents /\ es[j].type = "completed" /\ es[i].index < Len(es[j].output) =>
             es[j].output[es[i].index + 1].id = es[i].item.id

EndsLast(p, es) ==
    \A i \in DOMAIN es : /\ Ending(p, es[i]) => i = Len(es)
                         /\ es[i].type \in {"json", "http_error"} => i = 1

Good(p, es) == Nested(es) /\ RepeatsAlways(p, es) /\ OneName(es) /\ EndsLast(p, es)

\* What a stream that goes on has come to: kinds of the items opened, how many
\* are closed and completed, what the deltas add up to, chat calls, the
\* identifiers of items and response, and which outcomes it has shown.
Shown == {"finish_stop", "finish_tool_calls", "error"}
Ledger == [kinds: Seq(Kinds), shut: Nat, done: Nat, data: [Nat -> Fragments],
           called: Seq(Items), ids: [Nat -> Identifiers], rid: Identifiers, shown: SUBSET Shown]
Book(kinds, shut, done, data, called, ids, rid, shown) ==
    [kinds |-> kinds, shut |-> shut, done |-> done, data |-> data, called |-> called,
     ids |-> ids, rid |-> rid, shown |-> shown]

\* What the deltas of item b add up to, with more.
Extended(data, b, more) == [data EXCEPT ![b] = @ \o more]

Tallies(es, led) ==
    /\ Opened(es) = led.kinds
    /\ Count(es, "open", Len(es)) = Len(led.kinds) /\ Count(es, "close", Len(es)) = led.shut
    /\ \A k \in Nat : Assembled(es, k) = led.data[k]
    /\ Called(es) = led.called

Mentions(p, es, led) ==
    \A i \in DOMAIN es :
        /\ ~Ending(p, es[i]) /\ es[i].type # "completed"
        /\ es[i].type = "complete" =>
             es[i].index < led.done /\ es[i].item.data = led.data[es[i].index]
        /\ es[i].type \in ItemEvents =>
             es[i].index < Len(led.kinds) /\ es[i].item.id = led.ids[es[i].index]
        /\ es[i].type \in {"created", "in_progress"} => es[i].item.id = led.rid

Announced(es, led) ==
    \A x \in Shown : x \in led.shown <=> \E i \in DOMAIN es : es[i].type = x

Kept(p, es, led) ==
    /\ p \in Protocols
    /\ es \in Seq(Events) /\ led \in Ledger
    /\ Tallies(es, led) /\ Mentions(p, es, led) /\ Announced(es, led)
    /\ Nested(es) /\ RepeatsAlways(p, es)

\* What may come next, and what it makes of the ledger.
Fits(p, led, e) ==
    /\ ~Ending(p, e) /\ e.type # "completed"
    /\ e.type = "open" => Len(led.kinds) = led.shut /\ e.index = led.shut
    /\ e.type \in {"delta", "open_part", "complete", "close_part", "close"} =>
         Len(led.kinds) = led.shut + 1 /\ e.index = led.shut
    /\ e.type \in {"finish_stop", "finish_tool_calls"} => Len(led.kinds) = led.shut
    /\ e.type \in {"delta", "content", "complete"} => led.done <= e.index
    /\ e.type = "complete" => e.item.data = led.data[e.index]
    /\ e.type \in ItemEvents => e.item.id = led.ids[e.index]
    /\ e.type \in {"created", "in_progress"} => e.item.id = led.rid

After(led, e) ==
    Book(IF e.type = "open" THEN Append(led.kinds, e.item.kind) ELSE led.kinds,
         IF e.type = "close" THEN led.shut + 1 ELSE led.shut,
         IF e.type = "complete" THEN e.index + 1 ELSE led.done,
         IF e.type \in {"delta", "content"}
         THEN [led.data EXCEPT ![e.index] = @ \o e.item.data] ELSE led.data,
         IF e.type = "tool_calls" THEN led.called \o e.output ELSE led.called,
         led.ids, led.rid,
         IF e.type \in Shown THEN led.shown \cup {e.type} ELSE led.shown)

(***************************************************************************)
(* FlattenSeq.                                                             *)
(***************************************************************************)
\* What FlattenSeq computes: the i-th element of g is the concatenation of
\* the first i of n elements of s.
FlatTo(g, n, s) == g = [i \in 1..n |-> IF i = 1 THEN s[i] ELSE g[i - 1] \o s[i]]

LEMMA FlatUnique ==
    ASSUME NEW n \in Nat, NEW m \in Nat, NEW s, NEW t, NEW g, NEW h, FlatTo(g, n, s), FlatTo(h, m, t),
           n <= m, \A i \in 1..n : s[i] = t[i]
    PROVE  \A i \in 1..n : g[i] = h[i]
<1>. DEFINE Same == {k \in Nat : k \in 1..n => g[k] = h[k]}
<1>1. \A i \in 1..n : g[i] = IF i = 1 THEN s[i] ELSE g[i - 1] \o s[i]
    BY DEF FlatTo
<1>2. \A i \in 1..m : h[i] = IF i = 1 THEN t[i] ELSE h[i - 1] \o t[i]
    BY DEF FlatTo
<1>3. 0 \in Same
    OBVIOUS
<1>4. ASSUME NEW k \in Nat, k \in Same
      PROVE  k + 1 \in Same
    <2>1. CASE k + 1 \in 1..n
        <3>1. k + 1 \in 1..n /\ k + 1 \in 1..m /\ s[k + 1] = t[k + 1]
            BY <2>1
        <3>2. CASE k = 0
            BY <1>1, <1>2, <3>1, <3>2
        <3>3. CASE k # 0
            <4>1. g[k] = h[k] /\ (k + 1) - 1 = k /\ k + 1 # 1
                BY <1>4, <2>1, <3>3
            <4>. QED
                BY <1>1, <1>2, <3>1, <4>1
        <3>. QED
            BY <3>2, <3>3
    <2>. QED
        BY <2>1
<1>. HIDE DEF Same
<1>5. Nat \subseteq Same
    BY <1>3, <1>4, NatInSet
<1>. QED
    BY <1>5 DEF Same

LEMMA FlatGrows ==
    ASSUME NEW S, NEW s, NEW n \in Nat, NEW g \in [1..n -> Seq(S)], FlatTo(g, n, s), s[n + 1] \in Seq(S)
    PROVE  \E h \in [1..n + 1 -> Seq(S)] : FlatTo(h, n + 1, s)
<1>. DEFINE last == IF n = 0 THEN s[n + 1] ELSE g[n] \o s[n + 1]
            h == [i \in 1..n + 1 |-> IF i = n + 1 THEN last ELSE g[i]]
<1>1. last \in Seq(S)
    BY ConcatProperties
<1>. HIDE DEF last
<1>2. h \in [1..n + 1 -> Seq(S)]
    <2>1. ASSUME NEW i \in 1..n + 1, i # n + 1
          PROVE  g[i] \in Seq(S)
        BY <2>1
    <2>. QED
        BY <1>1, <2>1
<1>3. \A i \in 1..n : g[i] = IF i = 1 THEN s[i] ELSE g[i - 1] \o s[i]
    BY DEF FlatTo
<1>4. ASSUME NEW i \in 1..n + 1
      PROVE  h[i] = IF i = 1 THEN s[i] ELSE h[i - 1] \o s[i]
    <2>1. CASE i = n + 1
        BY <2>1 DEF last
    <2>2. CASE i # n + 1
        <3>1. i \in 1..n /\ h[i] = g[i] /\ (i # 1 => h[i - 1] = g[i - 1])
            BY <2>2
        <3>. QED
            BY <1>3, <3>1
    <2>. QED
        BY <2>1, <2>2
<1>5. FlatTo(h, n + 1, s)
    BY <1>4 DEF FlatTo
<1>. QED
    BY <1>2, <1>5

LEMMA FlatExists ==
    ASSUME NEW S, NEW s \in Seq(Seq(S))
    PROVE  \E g \in [1..Len(s) -> Seq(S)] : FlatTo(g, Len(s), s)
<1>. DEFINE Has == {n \in Nat : n <= Len(s) => \E g \in [1..n -> Seq(S)] : FlatTo(g, n, s)}
<1>1. 0 \in Has
    <2>. DEFINE g == [i \in 1..0 |-> s[i]]
    <2>1. g \in [1..0 -> Seq(S)] /\ FlatTo(g, 0, s)
        BY DEF FlatTo
    <2>. QED
        BY <2>1
<1>2. ASSUME NEW n \in Nat, n \in Has
      PROVE  n + 1 \in Has
    <2>1. CASE n + 1 <= Len(s)
        <3>1. s[n + 1] \in Seq(S) /\ n <= Len(s)
            BY <2>1, LenProperties, ElementOfSeq
        <3>2. PICK g \in [1..n -> Seq(S)] : FlatTo(g, n, s)
            BY <1>2, <3>1
        <3>3. \E h \in [1..n + 1 -> Seq(S)] : FlatTo(h, n + 1, s)
            BY <3>1, <3>2, FlatGrows
        <3>. QED
            BY <3>3
    <2>. QED
        BY <2>1
<1>. HIDE DEF Has
<1>3. Len(s) \in Has
    BY <1>1, <1>2, NatInSet, LenProperties
<1>. QED
    BY <1>3, LenProperties DEF Has

LEMMA FlattenIsFlat ==
    ASSUME NEW S, NEW s \in Seq(Seq(S)), s # <<>>
    PROVE  \E g \in [1..Len(s) -> Seq(S)] : FlatTo(g, Len(s), s) /\ FlattenSeq(s) = g[Len(s)]
<1>1. PICK g \in [1..Len(s) -> Seq(S)] : FlatTo(g, Len(s), s)
    BY FlatExists
<1>2. Len(s) \in Nat \ {0}
    BY EmptySeq
<1>. DEFINE c == CHOOSE h : FlatTo(h, Len(s), s)
<1>3. FlatTo(c, Len(s), s)
    BY <1>1
<1>4. FlattenSeq(s) = c[Len(s)]
    BY <1>2 DEF FlattenSeq, FlatTo
<1>. HIDE DEF c
<1>5. \A i \in 1..Len(s) : c[i] = g[i]
    BY <1>1, <1>2, <1>3, FlatUnique
<1>6. Len(s) \in 1..Len(s)
    BY <1>2
<1>7. FlattenSeq(s) = g[Len(s)]
    BY <1>4, <1>5, <1>6
<1>. QED
    BY <1>1, <1>7

\* FlattenSeq of nothing, and of one element more.
LEMMA FlattenEmpty == FlattenSeq(<<>>) = <<>>
BY DEF FlattenSeq

LEMMA FlattenAppend ==
    ASSUME NEW S, NEW s \in Seq(Seq(S)), NEW e \in Seq(S)
    PROVE  /\ FlattenSeq(s) \in Seq(S)
           /\ FlattenSeq(Append(s, e)) = FlattenSeq(s) \o e
<1>. DEFINE t == Append(s, e)
<1>1. /\ t \in Seq(Seq(S)) /\ t # <<>> /\ Len(t) = Len(s) + 1 /\ t[Len(t)] = e
      /\ \A i \in 1..Len(s) : t[i] = s[i]
      /\ Len(s) \in Nat
    BY AppendProperties
<1>. HIDE DEF t
<1>2. PICK h \in [1..Len(t) -> Seq(S)] : FlatTo(h, Len(t), t) /\ FlattenSeq(t) = h[Len(t)]
    BY <1>1, FlattenIsFlat
<1>3. h[Len(t)] = IF Len(t) = 1 THEN t[Len(t)] ELSE h[Len(t) - 1] \o t[Len(t)]
    <2>1. Len(t) \in 1..Len(t)
        BY <1>1
    <2>. QED
        BY <1>2, <2>1 DEF FlatTo
<1>4. CASE s = <<>>
    <2>1. FlattenSeq(s) = <<>> /\ Len(t) = 1
        BY <1>1, <1>4, FlattenEmpty
    <2>2. <<>> \in Seq(S) /\ <<>> \o e = e
        BY EmptySeq, ConcatEmptySeq
    <2>. QED
        BY <1>1, <1>2, <1>3, <2>1, <2>2 DEF t
<1>5. CASE s # <<>>
    <2>1. PICK g \in [1..Len(s) -> Seq(S)] : FlatTo(g, Len(s), s) /\ FlattenSeq(s) = g[Len(s)]
        BY <1>5, FlattenIsFlat
    <2>2. Len(s) # 0 /\ Len(t) - 1 = Len(s)
        BY <1>1, <1>5, EmptySeq
    <2>3. \A i \in 1..Len(s) : g[i] = h[i]
        <3>1. Len(s) \in Nat /\ Len(t) \in Nat /\ Len(s) <= Len(t) /\ \A i \in 1..Len(s) : s[i] = t[i]
            BY <1>1
        <3>. QED
            BY <1>2, <2>1, <3>1, FlatUnique, SMTT(30)
    <2>4. Len(s) \in 1..Len(s)
        BY <1>1, <2>2
    <2>5. FlattenSeq(s) = h[Len(s)] /\ FlattenSeq(s) \in Seq(S)
        BY <2>1, <2>3, <2>4
    <2>6. FlattenSeq(t) = h[Len(s)] \o e
        BY <1>1, <1>2, <1>3, <2>2
    <2>. QED
        BY <2>5, <2>6 DEF t
<1>. QED
    BY <1>4, <1>5
(***************************************************************************)
(* One event more.                                                         *)
(***************************************************************************)
\* Flattening what a function makes of each event.
Mapped(f, es) == [i \in DOMAIN es |-> f[es[i]]]

LEMMA FlattenMore ==
    ASSUME NEW S, NEW V, NEW es \in Seq(S), NEW e \in S, NEW f \in [S -> Seq(V)]
    PROVE  /\ FlattenSeq(Mapped(f, es)) \in Seq(V)
           /\ FlattenSeq(Mapped(f, Append(es, e))) = FlattenSeq(Mapped(f, es)) \o f[e]
<1>. DEFINE m == [i \in DOMAIN es |-> f[es[i]]]
            n == [i \in DOMAIN Append(es, e) |-> f[Append(es, e)[i]]]
<1>1. Len(es) \in Nat /\ DOMAIN es = 1..Len(es) /\ \A i \in 1..Len(es) : es[i] \in S
    BY LenProperties, ElementOfSeq
<1>2. /\ Append(es, e) \in Seq(S) /\ Len(Append(es, e)) = Len(es) + 1
      /\ Append(es, e)[Len(es) + 1] = e
      /\ \A i \in 1..Len(es) : Append(es, e)[i] = es[i]
    BY AppendProperties
<1>3. DOMAIN Append(es, e) = 1..Len(es) + 1
    BY <1>2, LenProperties
<1>4. m \in Seq(Seq(V)) /\ Len(m) = Len(es)
    BY <1>1
<1>5. n = Append(m, f[e])
    <2>1. f[e] \in Seq(V)
        OBVIOUS
    <2>2. Append(m, f[e]) \in Seq(Seq(V)) /\ Len(Append(m, f[e])) = Len(es) + 1
        BY <1>4, <2>1, AppendProperties
    <2>3. n \in Seq(Seq(V)) /\ Len(n) = Len(es) + 1
        <3>1. \A i \in 1..Len(es) + 1 : Append(es, e)[i] \in S
            BY <1>2, ElementOfSeq
        <3>. QED
            BY <1>1, <1>3, <3>1
    <2>4. ASSUME NEW i \in 1..Len(n)
          PROVE  n[i] = Append(m, f[e])[i]
        <3>1. CASE i = Len(es) + 1
            BY <1>1, <1>2, <1>3, <1>4, <2>1, <2>3, <3>1, AppendProperties
        <3>2. CASE i # Len(es) + 1
            <4>1. i \in 1..Len(es)
                BY <1>1, <2>3, <3>2
            <4>2. Append(m, f[e])[i] = m[i]
                BY <1>4, <2>1, <4>1, AppendProperties
            <4>. QED
                BY <1>1, <1>2, <1>3, <4>1, <4>2
        <3>. QED
            BY <3>1, <3>2
    <2>. HIDE DEF m, n
    <2>. QED
        BY <2>2, <2>3, <2>4, SeqEqual
<1>. HIDE DEF m, n
<1>6. FlattenSeq(m) \in Seq(V) /\ FlattenSeq(Append(m, f[e])) = FlattenSeq(m) \o f[e]
    BY <1>4, FlattenAppend
<1>. QED
    BY <1>5, <1>6 DEF m, n, Mapped

LEMMA AssembledMore ==
    ASSUME NEW es \in Seq(Events), NEW e \in Events, NEW k \in Nat
    PROVE  /\ Assembled(es, k) \in Fragments
           /\ Assembled(Append(es, e), k) =
                Assembled(es, k) \o (IF e.type \in {"delta", "content"} /\ e.index = k
                                     THEN e.item.data ELSE <<>>)
<1>. DEFINE f == [x \in Events |-> IF x.type \in {"delta", "content"} /\ x.index = k
                                   THEN x.item.data ELSE <<>>]
<1>1. f \in [Events -> Seq(Nat \X Nat)]
    <2>1. <<>> \in Fragments
        BY EmptySeq DEF Fragments
    <2>. QED
        BY <2>1 DEF Events, Items, Fragments
<1>2. Append(es, e) \in Seq(Events)
    BY AppendProperties
<1>3. \A s \in Seq(Events) : Assembled(s, k) = FlattenSeq(Mapped(f, s))
    <2>1. ASSUME NEW s \in Seq(Events)
          PROVE  Mapped(f, s) =
                   [i \in DOMAIN s |-> IF s[i].type \in {"delta", "content"} /\ s[i].index = k
                                       THEN s[i].item.data ELSE <<>>]
        <3>1. \A i \in DOMAIN s : s[i] \in Events
            BY ElementOfSeq, LenProperties
        <3>. QED
            BY <3>1 DEF Mapped
    <2>. QED
        BY <2>1 DEF Assembled
<1>4. f[e] = IF e.type \in {"delta", "content"} /\ e.index = k THEN e.item.data ELSE <<>>
    OBVIOUS
<1>. HIDE DEF f
<1>5. /\ FlattenSeq(Mapped(f, es)) \in Seq(Nat \X Nat)
      /\ FlattenSeq(Mapped(f, Append(es, e))) = FlattenSeq(Mapped(f, es)) \o f[e]
    BY <1>1, FlattenMore
<1>. QED
    BY <1>2, <1>3, <1>4, <1>5 DEF Fragments

LEMMA OpenedMore ==
    ASSUME NEW es \in Seq(Events), NEW e \in Events
    PROVE  /\ Opened(es) \in Seq(Kinds)
           /\ Opened(Append(es, e)) =
                Opened(es) \o (IF e.type = "open" THEN <<e.item.kind>> ELSE <<>>)
<1>. DEFINE f == [x \in Events |-> IF x.type = "open" THEN <<x.item.kind>> ELSE <<>>]
<1>1. f \in [Events -> Seq(Kinds)]
    <2>1. \A x \in Events : <<x.item.kind>> \in Seq(Kinds) /\ <<>> \in Seq(Kinds)
        BY DEF Events, Items
    <2>. QED
        BY <2>1
<1>2. Append(es, e) \in Seq(Events)
    BY AppendProperties
<1>3. \A s \in Seq(Events) : Opened(s) = FlattenSeq(Mapped(f, s))
    <2>1. ASSUME NEW s \in Seq(Events)
          PROVE  Mapped(f, s) =
                   [i \in DOMAIN s |-> IF s[i].type = "open" THEN <<s[i].item.kind>> ELSE <<>>]
        <3>1. \A i \in DOMAIN s : s[i] \in Events
            BY ElementOfSeq, LenProperties
        <3>. QED
            BY <3>1 DEF Mapped
    <2>. QED
        BY <2>1 DEF Opened
<1>4. f[e] = IF e.type = "open" THEN <<e.item.kind>> ELSE <<>>
    OBVIOUS
<1>. HIDE DEF f
<1>5. /\ FlattenSeq(Mapped(f, es)) \in Seq(Kinds)
      /\ FlattenSeq(Mapped(f, Append(es, e))) = FlattenSeq(Mapped(f, es)) \o f[e]
    BY <1>1, FlattenMore
<1>. QED
    BY <1>2, <1>3, <1>4, <1>5

LEMMA CalledMore ==
    ASSUME NEW es \in Seq(Events), NEW e \in Events
    PROVE  /\ Called(es) \in Seq(Items)
           /\ Called(Append(es, e)) =
                Called(es) \o (IF e.type = "tool_calls" THEN e.output ELSE <<>>)
<1>. DEFINE f == [x \in Events |-> IF x.type = "tool_calls" THEN x.output ELSE <<>>]
<1>1. f \in [Events -> Seq(Items)]
    <2>1. \A x \in Events : x.output \in Seq(Items) /\ <<>> \in Seq(Items)
        BY DEF Events
    <2>. QED
        BY <2>1
<1>2. Append(es, e) \in Seq(Events)
    BY AppendProperties
<1>3. \A s \in Seq(Events) : Called(s) = FlattenSeq(Mapped(f, s))
    <2>1. ASSUME NEW s \in Seq(Events)
          PROVE  Mapped(f, s) =
                   [i \in DOMAIN s |-> IF s[i].type = "tool_calls" THEN s[i].output ELSE <<>>]
        <3>1. \A i \in DOMAIN s : s[i] \in Events
            BY ElementOfSeq, LenProperties
        <3>. QED
            BY <3>1 DEF Mapped
    <2>. QED
        BY <2>1 DEF Called
<1>4. f[e] = IF e.type = "tool_calls" THEN e.output ELSE <<>>
    OBVIOUS
<1>. HIDE DEF f
<1>5. /\ FlattenSeq(Mapped(f, es)) \in Seq(Items)
      /\ FlattenSeq(Mapped(f, Append(es, e))) = FlattenSeq(Mapped(f, es)) \o f[e]
    BY <1>1, FlattenMore
<1>. QED
    BY <1>2, <1>3, <1>4, <1>5

LEMMA CountType ==
    ASSUME NEW es, NEW t, NEW n \in Nat
    PROVE  Count(es, t, n) \in Nat /\ IsFiniteSet({i \in 1..n : es[i].type = t})
<1>1. IsFiniteSet(1..n)
    BY FS_Interval
<1>2. IsFiniteSet({i \in 1..n : es[i].type = t})
    BY <1>1, FS_Subset
<1>. QED
    BY <1>2, FS_CardinalityType DEF Count

LEMMA CountMore ==
    ASSUME NEW es \in Seq(Events), NEW e \in Events, NEW t
    PROVE  /\ \A n \in 0..Len(es) : Count(Append(es, e), t, n) = Count(es, t, n)
           /\ Count(Append(es, e), t, Len(es) + 1) =
                Count(es, t, Len(es)) + IF e.type = t THEN 1 ELSE 0
<1>1. /\ Len(es) \in Nat /\ Append(es, e)[Len(es) + 1] = e
      /\ \A i \in 1..Len(es) : Append(es, e)[i] = es[i]
    BY AppendProperties, LenProperties
<1>2. \A n \in 0..Len(es) : {i \in 1..n : Append(es, e)[i].type = t} = {i \in 1..n : es[i].type = t}
    BY <1>1
<1>. DEFINE A == {i \in 1..Len(es) : es[i].type = t}
            B == {i \in 1..Len(es) + 1 : Append(es, e)[i].type = t}
<1>3. CASE e.type = t
    <2>1. B = A \cup {Len(es) + 1} /\ Len(es) + 1 \notin A
        BY <1>1, <1>3
    <2>2. IsFiniteSet(A) /\ Cardinality(A) \in Nat
        BY <1>1, CountType DEF Count
    <2>. HIDE DEF A, B
    <2>3. Cardinality(B) = Cardinality(A) + 1
        BY <2>1, <2>2, FS_AddElement
    <2>. QED
        BY <1>2, <1>3, <2>3 DEF A, B, Count
<1>4. CASE e.type # t
    <2>1. B = A
        BY <1>1, <1>4
    <2>2. Cardinality(A) \in Nat
        BY <1>1, CountType DEF Count
    <2>. HIDE DEF A, B
    <2>3. Cardinality(B) = Cardinality(A) + 0
        BY <2>1, <2>2
    <2>. QED
        BY <1>2, <1>4, <2>3 DEF A, B, Count
<1>. QED
    BY <1>3, <1>4

\* An event appended is the last one; what comes before stays.
LEMMA LastOfMore ==
    ASSUME NEW S, NEW es \in Seq(S), NEW e \in S
    PROVE  /\ Append(es, e) \in Seq(S) /\ Len(es) \in Nat /\ Len(Append(es, e)) = Len(es) + 1
           /\ DOMAIN es = 1..Len(es) /\ DOMAIN Append(es, e) = 1..Len(es) + 1
           /\ Append(es, e)[Len(es) + 1] = e
           /\ \A i \in 1..Len(es) : Append(es, e)[i] = es[i] /\ es[i] \in S
BY AppendProperties, LenProperties, ElementOfSeq

LEMMA BookFields ==
    ASSUME NEW a, NEW b, NEW c, NEW d, NEW e, NEW f, NEW g, NEW h
    PROVE  LET led == Book(a, b, c, d, e, f, g, h)
           IN  /\ led.kinds = a /\ led.shut = b /\ led.done = c /\ led.data = d
               /\ led.called = e /\ led.ids = f /\ led.rid = g /\ led.shown = h
               /\ led \in Ledger <=>
                    /\ a \in Seq(Kinds) /\ b \in Nat /\ c \in Nat /\ d \in [Nat -> Fragments]
                    /\ e \in Seq(Items) /\ f \in [Nat -> Identifiers] /\ g \in Identifiers
                    /\ h \in SUBSET Shown
BY DEF Book, Ledger

LEMMA AfterIsLedger ==
    ASSUME NEW led \in Ledger, NEW e \in Events
    PROVE  After(led, e) \in Ledger
<1>1. e.index \in Nat /\ e.item.data \in Fragments /\ e.item.kind \in Kinds /\ e.output \in Seq(Items)
    BY DEF Events, Items
<1>2. /\ led.kinds \in Seq(Kinds) /\ led.shut \in Nat /\ led.done \in Nat
      /\ led.data \in [Nat -> Fragments] /\ led.called \in Seq(Items)
      /\ led.ids \in [Nat -> Identifiers] /\ led.rid \in Identifiers /\ led.shown \subseteq Shown
    BY DEF Ledger
<1>3. led.data[e.index] \o e.item.data \in Fragments
    BY <1>1, <1>2, ConcatProperties DEF Fragments
<1>4. [led.data EXCEPT ![e.index] = @ \o e.item.data] \in [Nat -> Fragments]
    BY <1>2, <1>3
<1>5. Append(led.kinds, e.item.kind) \in Seq(Kinds)
    BY <1>1, <1>2, AppendProperties
<1>6. led.called \o e.output \in Seq(Items)
    BY <1>1, <1>2, ConcatProperties
<1>. DEFINE a == IF e.type = "open" THEN Append(led.kinds, e.item.kind) ELSE led.kinds
            b == IF e.type = "close" THEN led.shut + 1 ELSE led.shut
            c == IF e.type = "complete" THEN e.index + 1 ELSE led.done
            d == IF e.type \in {"delta", "content"}
                 THEN [led.data EXCEPT ![e.index] = @ \o e.item.data] ELSE led.data
            f == IF e.type = "tool_calls" THEN led.called \o e.output ELSE led.called
            g == IF e.type \in Shown THEN led.shown \cup {e.type} ELSE led.shown
<1>7. a \in Seq(Kinds)
    BY <1>2, <1>5
<1>8. b \in Nat /\ c \in Nat
    BY <1>1, <1>2
<1>9. d \in [Nat -> Fragments]
    BY <1>2, <1>4
<1>10. f \in Seq(Items)
    BY <1>2, <1>6
<1>11. g \in SUBSET Shown
    BY <1>2
<1>12. After(led, e) = Book(a, b, c, d, f, led.ids, led.rid, g)
    BY DEF After
<1>. HIDE DEF a, b, c, d, f, g
<1>. QED
    BY <1>2, <1>7, <1>8, <1>9, <1>10, <1>11, <1>12 DEF Book, Ledger

LEMMA TalliesMore ==
    ASSUME NEW es \in Seq(Events), NEW led \in Ledger, Tallies(es, led), NEW e \in Events
    PROVE  Tallies(Append(es, e), After(led, e))
<1>1. Len(Append(es, e)) = Len(es) + 1 /\ Len(es) \in Nat
    BY LastOfMore
<1>2. /\ led.kinds \in Seq(Kinds) /\ led.called \in Seq(Items) /\ led.shut \in Nat
      /\ led.data \in [Nat -> Fragments] /\ e.item.kind \in Kinds /\ e.index \in Nat
    BY DEF Ledger, Events, Items
<1>3. Opened(Append(es, e)) = After(led, e).kinds
    <2>1. Append(led.kinds, e.item.kind) = led.kinds \o <<e.item.kind>> /\ led.kinds \o <<>> = led.kinds
        BY <1>2, AppendIsConcat, ConcatEmptySeq
    <2>. QED
        BY <2>1, OpenedMore DEF After, Book, Tallies
<1>4. Called(Append(es, e)) = After(led, e).called
    <2>1. led.called \o <<>> = led.called
        BY <1>2, ConcatEmptySeq
    <2>. QED
        BY <2>1, CalledMore DEF After, Book, Tallies
<1>5. Count(Append(es, e), "open", Len(es) + 1) = Len(After(led, e).kinds)
    <2>1. Len(Append(led.kinds, e.item.kind)) = Len(led.kinds) + 1 /\ Len(led.kinds) \in Nat
        BY <1>2, AppendProperties, LenProperties
    <2>. QED
        BY <2>1, CountMore DEF After, Book, Tallies
<1>6. Count(Append(es, e), "close", Len(es) + 1) = After(led, e).shut
    BY <1>2, CountMore DEF After, Book, Tallies
<1>7. ASSUME NEW k \in Nat
      PROVE  Assembled(Append(es, e), k) = After(led, e).data[k]
    <2>1. led.data[k] \o <<>> = led.data[k]
        BY <1>2, ConcatEmptySeq DEF Fragments
    <2>2. Assembled(es, k) = led.data[k]
        BY DEF Tallies
    <2>3. After(led, e).data[k] = IF e.type \in {"delta", "content"} /\ e.index = k
                                  THEN led.data[k] \o e.item.data ELSE led.data[k]
        BY <1>2 DEF After, Book
    <2>4. CASE e.type \in {"delta", "content"} /\ e.index = k
        BY <2>2, <2>3, <2>4, AssembledMore
    <2>5. CASE ~(e.type \in {"delta", "content"} /\ e.index = k)
        <3>1. Assembled(Append(es, e), k) = Assembled(es, k) \o <<>>
            BY <2>5, AssembledMore
        <3>. QED
            BY <2>1, <2>2, <2>3, <2>5, <3>1
    <2>. QED
        BY <2>4, <2>5
<1>. QED
    BY <1>1, <1>3, <1>4, <1>5, <1>6, <1>7 DEF Tallies

LEMMA MentionsMore ==
    ASSUME NEW p, NEW es \in Seq(Events), NEW led \in Ledger, Mentions(p, es, led), NEW e \in Events, Fits(p, led, e)
    PROVE  Mentions(p, Append(es, e), After(led, e))
<1>1. /\ led.kinds \in Seq(Kinds) /\ led.shut \in Nat /\ led.done \in Nat
      /\ led.data \in [Nat -> Fragments] /\ e.item.kind \in Kinds /\ e.index \in Nat
    BY DEF Ledger, Events, Items
<1>2. Len(led.kinds) \in Nat /\ Len(Append(led.kinds, e.item.kind)) = Len(led.kinds) + 1
    BY <1>1, AppendProperties, LenProperties
<1>3. /\ Len(led.kinds) <= Len(After(led, e).kinds)
      /\ After(led, e).kinds = led.kinds \/ Len(After(led, e).kinds) = Len(led.kinds) + 1
      /\ led.done <= After(led, e).done
    BY <1>1, <1>2 DEF After, Book, Fits
<1>4. \A k \in Nat : k < led.done => After(led, e).data[k] = led.data[k]
    BY <1>1 DEF After, Book, Fits
<1>5. After(led, e).ids = led.ids /\ After(led, e).rid = led.rid
    BY DEF After, Book
<1>6. ASSUME NEW i \in 1..Len(es)
      PROVE  /\ ~Ending(p, es[i]) /\ es[i].type # "completed"
             /\ es[i].type = "complete" =>
                  es[i].index < After(led, e).done /\ es[i].item.data = After(led, e).data[es[i].index]
             /\ es[i].type \in ItemEvents =>
                  /\ es[i].index < Len(After(led, e).kinds)
                  /\ es[i].item.id = After(led, e).ids[es[i].index]
             /\ es[i].type \in {"created", "in_progress"} => es[i].item.id = After(led, e).rid
    <2>1. i \in DOMAIN es /\ es[i].index \in Nat
        <3>1. i \in DOMAIN es /\ es[i] \in Events
            BY LastOfMore
        <3>. QED
            BY <3>1 DEF Events
    <2>2. Len(After(led, e).kinds) \in Nat /\ After(led, e).done \in Nat
        BY <1>1, <1>2, <1>3 DEF After, Book
    <2>. QED
        BY <1>1, <1>2, <1>3, <1>4, <1>5, <2>1, <2>2, SMTT(30) DEF Mentions
<1>7. /\ ~Ending(p, e) /\ e.type # "completed"
      /\ e.type = "complete" =>
           e.index < After(led, e).done /\ e.item.data = After(led, e).data[e.index]
      /\ e.type \in ItemEvents =>
           e.index < Len(After(led, e).kinds) /\ e.item.id = After(led, e).ids[e.index]
      /\ e.type \in {"created", "in_progress"} => e.item.id = After(led, e).rid
    BY <1>1, <1>2 DEF After, Book, Fits, ItemEvents
<1>. QED
    BY <1>6, <1>7, LastOfMore DEF Mentions

LEMMA AnnouncedMore ==
    ASSUME NEW es \in Seq(Events), NEW led \in Ledger, Announced(es, led), NEW e \in Events
    PROVE  Announced(Append(es, e), After(led, e))
<1>1. ASSUME NEW x \in Shown
      PROVE  x \in After(led, e).shown <=> x \in led.shown \/ e.type = x
    BY DEF After, Book
<1>2. ASSUME NEW x
      PROVE  (\E i \in DOMAIN Append(es, e) : Append(es, e)[i].type = x)
               <=> (\E i \in DOMAIN es : es[i].type = x) \/ e.type = x
    BY LastOfMore
<1>. QED
    BY <1>1, <1>2 DEF Announced

LEMMA NestedMore ==
    ASSUME NEW es \in Seq(Events), NEW led \in Ledger, Tallies(es, led), Nested(es), NEW e \in Events,
           e.type = "open" => Len(led.kinds) = led.shut /\ e.index = led.shut,
           e.type \in {"delta", "open_part", "complete", "close_part", "close"} =>
             Len(led.kinds) = led.shut + 1 /\ e.index = led.shut,
           e.type \in {"finish_stop", "finish_tool_calls", "completed"} => Len(led.kinds) = led.shut
    PROVE  Nested(Append(es, e))
<1>1. \A t, n : n \in 0..Len(es) => Count(Append(es, e), t, n) = Count(es, t, n)
    BY CountMore
<1>2. ASSUME NEW i \in 1..Len(es) + 1
      PROVE  i - 1 \in 0..Len(es)
    BY LastOfMore
<1>3. Count(es, "open", Len(es)) = Len(led.kinds) /\ Count(es, "close", Len(es)) = led.shut
    BY DEF Tallies
<1>4. Len(led.kinds) \in Nat /\ led.shut \in Nat
    BY LenProperties DEF Ledger
<1>5. ASSUME NEW i \in DOMAIN Append(es, e),
             NEW opens, opens = Count(Append(es, e), "open", i - 1),
             NEW closes, closes = Count(Append(es, e), "close", i - 1)
      PROVE  /\ Append(es, e)[i].type = "open" => opens = closes /\ Append(es, e)[i].index = opens
             /\ Append(es, e)[i].type \in {"delta", "open_part", "complete", "close_part", "close"} =>
                  opens = closes + 1 /\ Append(es, e)[i].index = closes
             /\ Append(es, e)[i].type \in {"finish_stop", "finish_tool_calls", "completed"} => opens = closes
    <2>1. i \in 1..Len(es) + 1 /\ Len(es) \in Nat
        BY LastOfMore
    <2>2. opens = Count(es, "open", i - 1) /\ closes = Count(es, "close", i - 1)
        BY <1>1, <1>2, <1>5, <2>1
    <2>3. CASE i = Len(es) + 1
        <3>1. opens = Len(led.kinds) /\ closes = led.shut /\ Append(es, e)[i] = e
            BY <1>3, <2>1, <2>2, <2>3, LastOfMore
        <3>. QED
            BY <1>4, <3>1
    <2>4. CASE i # Len(es) + 1
        <3>1. i \in DOMAIN es /\ Append(es, e)[i] = es[i]
            BY <2>1, <2>4, LastOfMore
        <3>. QED
            BY <2>2, <3>1 DEF Nested
    <2>. QED
        BY <2>3, <2>4
<1>. QED
    BY <1>5 DEF Nested

LEMMA RepeatsMore ==
    ASSUME NEW p, NEW es \in Seq(Events), RepeatsAlways(p, es), NEW e \in Events, Repeats(p, Append(es, e))
    PROVE  RepeatsAlways(p, Append(es, e))
<1>1. Len(es) \in Nat /\ Append(es, e) \in Seq(Events) /\ Len(Append(es, e)) = Len(es) + 1
    BY LastOfMore
<1>2. ASSUME NEW n \in 0..Len(es) + 1
      PROVE  Repeats(p, SubSeq(Append(es, e), 1, n))
    <2>1. CASE n = Len(es) + 1
        <3>1. SubSeq(Append(es, e), 1, n) = Append(es, e)
            BY <1>1, <2>1, SubSeqFull
        <3>. QED
            BY <3>1
    <2>2. CASE n # Len(es) + 1
        <3>1. n \in 0..Len(es)
            BY <1>1, <2>2
        <3>2. SubSeq(Append(es, e), 1, n) = SubSeq(es, 1, n)
            BY <1>1, <3>1, LastOfMore
        <3>. QED
            BY <3>1, <3>2 DEF RepeatsAlways
    <2>. QED
        BY <2>1, <2>2
<1>. QED
    BY <1>1, <1>2 DEF RepeatsAlways

\* A stream that goes on takes whatever fits.
LEMMA Enter ==
    ASSUME NEW p, NEW es, NEW led, Kept(p, es, led), NEW e \in Events, Fits(p, led, e)
    PROVE  Kept(p, Append(es, e), After(led, e))
<1>1. es \in Seq(Events) /\ led \in Ledger /\ Tallies(es, led) /\ Mentions(p, es, led)
      /\ Announced(es, led) /\ Nested(es) /\ RepeatsAlways(p, es)
    BY DEF Kept
<1>2. Append(es, e) \in Seq(Events) /\ After(led, e) \in Ledger
    BY <1>1, LastOfMore, AfterIsLedger
<1>3. Tallies(Append(es, e), After(led, e)) /\ Mentions(p, Append(es, e), After(led, e))
      /\ Announced(Append(es, e), After(led, e))
    BY <1>1, TalliesMore, MentionsMore, AnnouncedMore
<1>4. Nested(Append(es, e))
    <2>1. e.type \in {"finish_stop", "finish_tool_calls", "completed"} => Len(led.kinds) = led.shut
        BY DEF Fits
    <2>. QED
        BY <1>1, <2>1, NestedMore DEF Fits
<1>5. Repeats(p, Append(es, e))
    <2>1. \A i \in DOMAIN Append(es, e) : Append(es, e)[i].index \in Nat
        <3>1. \A i \in DOMAIN Append(es, e) : Append(es, e)[i] \in Events
            BY <1>1, LastOfMore
        <3>. QED
            BY <3>1 DEF Events
    <2>. QED
        BY <1>3, <2>1 DEF Mentions, Tallies, Repeats
<1>. QED
    BY <1>1, <1>2, <1>3, <1>4, <1>5, RepeatsMore DEF Kept

\* Events written one after the other.
LEMMA OneByOne ==
    ASSUME NEW S, NEW es \in Seq(S), NEW a \in S, NEW b \in S, NEW c \in S, NEW d \in S
    PROVE  /\ es \o <<a>> = Append(es, a)
           /\ es \o <<a, b>> = Append(Append(es, a), b)
           /\ es \o <<a, b, c>> = Append(Append(Append(es, a), b), c)
           /\ es \o <<a, b, c, d>> = Append(Append(Append(Append(es, a), b), c), d)
<1>1. /\ <<a>> \in Seq(S) /\ <<b>> \in Seq(S) /\ <<c>> \in Seq(S) /\ <<d>> \in Seq(S)
      /\ <<a, b>> \in Seq(S) /\ <<a, b, c>> \in Seq(S)
    OBVIOUS
<1>2. /\ <<a, b>> = Append(<<a>>, b) /\ <<a, b, c>> = Append(<<a, b>>, c)
      /\ <<a, b, c, d>> = Append(<<a, b, c>>, d)
    OBVIOUS
<1>3. \A s \in Seq(S) : \A x \in S : es \o Append(s, x) = Append(es \o s, x)
    <2>1. ASSUME NEW s \in Seq(S), NEW x \in S
          PROVE  es \o Append(s, x) = Append(es \o s, x)
        <3>1. <<x>> \in Seq(S) /\ es \o s \in Seq(S)
            BY ConcatProperties
        <3>2. Append(s, x) = s \o <<x>> /\ Append(es \o s, x) = (es \o s) \o <<x>>
            BY <3>1, AppendIsConcat
        <3>3. es \o (s \o <<x>>) = (es \o s) \o <<x>>
            BY <3>1, ConcatAssociative
        <3>. QED
            BY <3>2, <3>3
    <2>. QED
        BY <2>1
<1>4. es \o <<a>> = Append(es, a)
    BY AppendIsConcat
<1>5. es \o <<a, b>> = Append(Append(es, a), b)
    BY <1>1, <1>2, <1>3, <1>4
<1>6. es \o <<a, b, c>> = Append(Append(Append(es, a), b), c)
    BY <1>1, <1>2, <1>3, <1>5
<1>7. es \o <<a, b, c, d>> = Append(Append(Append(Append(es, a), b), c), d)
    BY <1>1, <1>2, <1>3, <1>6
<1>. QED
    BY <1>4, <1>5, <1>6, <1>7

LEMMA Regrouped ==
    ASSUME NEW S, NEW f \in Seq(S), NEW g \in Seq(S), NEW h \in Seq(S)
    PROVE  f \o (g \o h) = (f \o g) \o h
BY ConcatAssociative, SMTT(30)

\* One list after the other.
LEMMA Chained ==
    ASSUME NEW S, NEW es \in Seq(S), NEW first \in Seq(S), NEW a \in S
    PROVE  es \o (first \o <<a>>) = Append(es \o first, a)
<1>1. <<a>> \in Seq(S) /\ es \o first \in Seq(S)
    BY ConcatProperties
<1>2. es \o (first \o <<a>>) = (es \o first) \o <<a>>
    BY <1>1, ConcatAssociative
<1>3. (es \o first) \o <<a>> = Append(es \o first, a)
    BY <1>1, OneByOne
<1>. QED
    BY <1>2, <1>3

(***************************************************************************)
(* What has been written is good, whether the stream goes on or has ended, *)
(* and so is what a client has received of it.                             *)
(***************************************************************************)
SeenOf(p, led) ==
    IF p = "chat"
    THEN <<[kind |-> "text", data |-> led.data[0]]>> \o Contents(led.called)
    ELSE [k \in DOMAIN led.kinds |-> [kind |-> led.kinds[k], data |-> led.data[k - 1]]]

LEMMA SeenByLedger ==
    ASSUME NEW p, NEW es \in Seq(Events), NEW led \in Ledger, Tallies(es, led)
    PROVE  Seen(p, es) = SeenOf(p, led)
<1>1. \A k \in DOMAIN led.kinds : k - 1 \in Nat
    BY LenProperties DEF Ledger
<1>2. Opened(es) = led.kinds /\ Called(es) = led.called /\ \A k \in Nat : Assembled(es, k) = led.data[k]
    BY DEF Tallies
<1>3. CASE p = "chat"
    BY <1>2, <1>3 DEF Seen, SeenOf
<1>4. CASE p # "chat"
    BY <1>1, <1>2, <1>4 DEF Seen, SeenOf
<1>. QED
    BY <1>3, <1>4

LEMMA KeptIsGood ==
    ASSUME NEW p, NEW es, NEW led, Kept(p, es, led)
    PROVE  Good(p, es)
<1>1. Mentions(p, es, led) /\ Nested(es) /\ RepeatsAlways(p, es)
    BY DEF Kept
<1>2. OneName(es)
    BY <1>1 DEF Mentions, OneName
<1>3. EndsLast(p, es)
    <2>1. ASSUME NEW i \in DOMAIN es, es[i].type \in {"json", "http_error"}
          PROVE  Ending(p, es[i])
        BY <2>1 DEF Ending, Kept, Protocols
    <2>. QED
        BY <1>1, <2>1 DEF Mentions, EndsLast
<1>. QED
    BY <1>1, <1>2, <1>3 DEF Good

LEMMA PartIsGood ==
    ASSUME NEW p, NEW es \in Seq(Events), Good(p, es), NEW n \in 0..Len(es)
    PROVE  Good(p, SubSeq(es, 1, n))
<1>. DEFINE part == SubSeq(es, 1, n)
<1>1. Len(es) \in Nat /\ DOMAIN es = 1..Len(es)
    BY LenProperties
<1>2. part \in Seq(Events) /\ Len(part) = n /\ DOMAIN part = 1..n /\ \A i \in 1..n : part[i] = es[i]
    BY <1>1, LenProperties, SubSeqProperties
<1>3. \A m \in 0..n : SubSeq(part, 1, m) = SubSeq(es, 1, m)
    BY <1>1
<1>. HIDE DEF part
<1>4. \A t, m : m \in 0..n => Count(part, t, m) = Count(es, t, m)
    <2>1. ASSUME NEW t, NEW m \in 0..n
          PROVE  {i \in 1..m : part[i].type = t} = {i \in 1..m : es[i].type = t}
        BY <1>1, <1>2
    <2>. QED
        BY <2>1 DEF Count
<1>5. Nested(part)
    <2>1. \A i \in 1..n : i \in DOMAIN es /\ i - 1 \in 0..n
        BY <1>1
    <2>2. \A i \in 1..n : \A t : Count(part, t, i - 1) = Count(es, t, i - 1)
        BY <1>4, <2>1
    <2>. QED
        BY <1>2, <2>1, <2>2 DEF Good, Nested
<1>6. RepeatsAlways(p, part)
    <2>1. \A m \in 0..n : m \in 0..Len(es)
        BY <1>1
    <2>. QED
        BY <1>2, <1>3, <2>1 DEF Good, RepeatsAlways
<1>7. OneName(part)
    BY <1>1, <1>2, SMTT(30) DEF Good, OneName
<1>8. EndsLast(p, part)
    BY <1>1, <1>2 DEF Good, EndsLast
<1>. QED
    BY <1>5, <1>6, <1>7, <1>8 DEF Good, part

\* A stream that goes on may end.
LEMMA Conclude ==
    ASSUME NEW p, NEW es, NEW led, Kept(p, es, led), NEW e \in Events,
           e.type \in {"done", "message_stop", "error", "completed", "json", "http_error"},
           e.type \in {"json", "http_error"} => es = <<>>,
           e.type = "completed" =>
             /\ Len(led.kinds) = led.shut
             /\ Contents(e.output) = SeenOf(p, led)
             /\ e.item.id = led.rid
             /\ \A k \in Nat : k < Len(e.output) => e.output[k + 1].id = led.ids[k]
    PROVE  Good(p, Append(es, e)) /\ Append(es, e) \in Seq(Events) /\ Seen(p, Append(es, e)) = SeenOf(p, led)
<1>1. es \in Seq(Events) /\ led \in Ledger /\ Tallies(es, led) /\ Mentions(p, es, led)
      /\ Nested(es) /\ RepeatsAlways(p, es)
    BY DEF Kept
<1>2. Tallies(Append(es, e), After(led, e)) /\ After(led, e) \in Ledger
    BY <1>1, TalliesMore, AfterIsLedger
<1>3. After(led, e).kinds = led.kinds /\ After(led, e).data = led.data /\ After(led, e).called = led.called
    BY DEF After, Book
<1>4. Seen(p, Append(es, e)) = SeenOf(p, led)
    <2>1. SeenOf(p, After(led, e)) = SeenOf(p, led)
        BY <1>3 DEF SeenOf
    <2>2. Append(es, e) \in Seq(Events)
        BY <1>1, LastOfMore
    <2>3. Seen(p, Append(es, e)) = SeenOf(p, After(led, e))
        BY <1>2, <2>2, SeenByLedger
    <2>. QED
        BY <2>1, <2>3
<1>5. Nested(Append(es, e))
    <2>1. e.type \notin {"open", "delta", "open_part", "complete", "close_part", "close",
                         "finish_stop", "finish_tool_calls"}
        OBVIOUS
    <2>. QED
        BY <1>1, <2>1, NestedMore
<1>6. Repeats(p, Append(es, e))
    <2>1. ASSUME NEW i \in 1..Len(es), es[i].type = "complete"
          PROVE  es[i].item.data = Assembled(Append(es, e), es[i].index)
        <3>1. es[i] \in Events /\ es[i].index \in Nat /\ i \in DOMAIN es
            <4>1. es[i] \in Events /\ i \in DOMAIN es
                BY <1>1, LastOfMore
            <4>. QED
                BY <4>1 DEF Events
        <3>2. es[i].item.data = led.data[es[i].index]
            BY <1>1, <2>1, <3>1 DEF Mentions
        <3>. QED
            BY <1>2, <1>3, <3>1, <3>2 DEF Tallies
    <2>2. \A i \in 1..Len(es) : es[i].type # "completed"
        BY <1>1, LastOfMore DEF Mentions
    <2>. QED
        BY <1>1, <1>4, <2>1, <2>2, LastOfMore DEF Repeats
<1>7. OneName(Append(es, e))
    <2>1. ASSUME NEW i \in 1..Len(es), NEW j \in 1..Len(es) + 1
          PROVE  /\ /\ es[i].type = "created"
                    /\ Append(es, e)[j].type \in {"in_progress", "completed"}
                    => es[i].item.id = Append(es, e)[j].item.id
                 /\ /\ es[i].type \in ItemEvents /\ Append(es, e)[j].type = "completed"
                    /\ es[i].index < Len(Append(es, e)[j].output)
                    => Append(es, e)[j].output[es[i].index + 1].id = es[i].item.id
        <3>1. es[i] \in Events /\ es[i].index \in Nat /\ i \in DOMAIN es
            <4>1. es[i] \in Events /\ i \in DOMAIN es
                BY <1>1, LastOfMore
            <4>. QED
                BY <4>1 DEF Events
        <3>2. CASE j = Len(es) + 1
            BY <1>1, <3>1, <3>2, LastOfMore, SMTT(30) DEF Mentions
        <3>3. CASE j # Len(es) + 1
            <4>1. j \in DOMAIN es /\ Append(es, e)[j] = es[j]
                BY <1>1, <3>3, LastOfMore
            <4>. QED
                BY <1>1, <3>1, <4>1 DEF Mentions
        <3>. QED
            BY <3>2, <3>3
    <2>2. e.type # "created" /\ e.type \notin ItemEvents
        BY DEF ItemEvents
    <2>3. \A i \in 1..Len(es) + 1 : i = Len(es) + 1 \/ (i \in 1..Len(es) /\ Append(es, e)[i] = es[i])
        BY <1>1, LastOfMore
    <2>4. DOMAIN Append(es, e) = 1..Len(es) + 1 /\ Append(es, e)[Len(es) + 1] = e
        BY <1>1, LastOfMore
    <2>. QED
        BY <2>1, <2>2, <2>3, <2>4, SMTT(30) DEF OneName
<1>8. EndsLast(p, Append(es, e))
    <2>1. \A i \in 1..Len(es) : ~Ending(p, es[i]) /\ es[i].type \notin {"json", "http_error"}
        <3>1. \A i \in DOMAIN es : es[i].type \in {"json", "http_error"} => Ending(p, es[i])
            BY DEF Ending, Kept, Protocols
        <3>. QED
            BY <1>1, <3>1, LastOfMore DEF Mentions
    <2>2. e.type \in {"json", "http_error"} => Len(es) = 0
        BY EmptySeq
    <2>3. Len(es) \in Nat
        BY <1>1, LastOfMore
    <2>4. ASSUME NEW i \in 1..Len(es) + 1
          PROVE  /\ Ending(p, Append(es, e)[i]) => i = Len(es) + 1
                 /\ Append(es, e)[i].type \in {"json", "http_error"} => i = 1
        <3>1. CASE i = Len(es) + 1
            BY <1>1, <2>2, <2>3, <3>1, LastOfMore
        <3>2. CASE i # Len(es) + 1
            BY <1>1, <2>1, <2>3, <3>2, LastOfMore
        <3>. QED
            BY <3>1, <3>2
    <2>. QED
        BY <1>1, <2>4, LastOfMore DEF EndsLast
<1>. QED
    BY <1>1, <1>4, <1>5, <1>6, <1>7, <1>8, RepeatsMore, LastOfMore DEF Good

(***************************************************************************)
(* The events and items the handlers make.                                 *)
(***************************************************************************)
LEMMA MadeItems ==
    ASSUME NEW id \in Identifiers, NEW data \in Fragments
    PROVE  /\ Text(id, data) \in Items /\ Call(id, data) \in Items /\ NoItem \in Items
           /\ Emptied(Call(id, data)) = Call(id, <<>>) /\ <<>> \in Fragments
           /\ Emptied(Call(id, data)) \in Items /\ [NoItem EXCEPT !.id = id] \in Items
<1>1. <<>> \in Fragments
    BY EmptySeq DEF Fragments
<1>2. <<0, 0, 0>> \in Identifiers
    BY DEF Identifiers
<1>. QED
    BY <1>1, <1>2 DEF Items, Kinds, Text, Call, NoItem, Emptied

LEMMA MadeEvents ==
    ASSUME NEW type \in Vocabulary, NEW index \in Nat, NEW item \in Items
    PROVE  /\ Event(type, index, item) \in Events /\ Event(type, index, item).type = type
           /\ Event(type, index, item).index = index /\ Event(type, index, item).item = item
           /\ Event(type, index, item).output = <<>>
<1>1. <<>> \in Seq(Items)
    BY EmptySeq
<1>. QED
    BY <1>1 DEF Events, Event

LEMMA MadePlain ==
    ASSUME NEW type \in Vocabulary
    PROVE  Plain(type) \in Events /\ Plain(type).type = type
<1>1. NoItem \in Items
    <2>1. <<>> \in Fragments
        BY EmptySeq DEF Fragments
    <2>. QED
        BY <2>1 DEF NoItem, Items, Kinds, Identifiers
<1>. QED
    BY <1>1, MadeEvents DEF Plain

LEMMA MadeCalls ==
    ASSUME NEW type \in Vocabulary, NEW output \in Seq(Items)
    PROVE  LET e == [Plain(type) EXCEPT !.output = output]
           IN  e \in Events /\ e.type = type /\ e.output = output
<1>1. Plain(type) \in Events /\ Plain(type).type = type
    BY MadePlain
<1>. QED
    BY <1>1 DEF Events

LEMMA MadeWhole ==
    ASSUME NEW type \in Vocabulary, NEW id \in Identifiers, NEW output \in Seq(Items)
    PROVE  /\ Whole(type, id, output) \in Events /\ Whole(type, id, output).type = type
           /\ Whole(type, id, output).item.id = id /\ Whole(type, id, output).output = output
<1>1. <<>> \in Fragments
    BY EmptySeq DEF Fragments
<1>2. [NoItem EXCEPT !.id = id] \in Items /\ [NoItem EXCEPT !.id = id].id = id
    BY <1>1 DEF NoItem, Items, Kinds
<1>. QED
    BY <1>2 DEF Events, Whole

LEMMA MadeOpening ==
    ASSUME NEW id \in Identifiers
    PROVE  /\ Whole("created", id, <<>>) \in Events /\ Whole("created", id, <<>>).type = "created"
           /\ Whole("created", id, <<>>).item.id = id
           /\ Whole("in_progress", id, <<>>) \in Events
           /\ Whole("in_progress", id, <<>>).type = "in_progress"
           /\ Whole("in_progress", id, <<>>).item.id = id
<1>1. <<>> \in Seq(Items) /\ "created" \in Vocabulary /\ "in_progress" \in Vocabulary
    BY EmptySeq DEF Vocabulary
<1>2. \A type \in Vocabulary : \A output \in Seq(Items) :
        /\ Whole(type, id, output) \in Events /\ Whole(type, id, output).type = type
        /\ Whole(type, id, output).item.id = id
    BY MadeWhole
<1>. QED
    BY <1>1, <1>2

LEMMA MadeNames ==
    ASSUME NEW t \in Nat, NEW i \in Nat
    PROVE  /\ messageID(StartInstant) \in Identifiers /\ messageID(FinishInstant) \in Identifiers
           /\ responseID(t, StartInstant) \in Identifiers /\ responseID(t, FinishInstant) \in Identifiers
           /\ callID(FinishInstant, i) \in Identifiers /\ Arguments(i) \in Fragments
BY DEF messageID, responseID, callID, StartInstant, FinishInstant, Identifiers, Arguments, Fragments

(***************************************************************************)
(* A stream between two calls: the text so far, and nothing after it.      *)
(***************************************************************************)
\* What h items of text, one at most, and n calls have come to.
KindsOf(h, n) == [k \in 1..h + n |-> IF k <= h THEN "text" ELSE "call"]
DataOf(h, n, text) ==
    [k \in Nat |-> IF k < h THEN text ELSE IF k < h + n THEN Arguments(k - h + 1) ELSE <<>>]
NamesOf(h) ==
    [k \in Nat |-> IF k < h THEN messageID(StartInstant) ELSE callID(FinishInstant, k - h + 1)]

LEMMA DataOfType ==
    ASSUME NEW h \in Nat, NEW n \in Nat, NEW text \in Fragments
    PROVE  /\ DataOf(h, n, text) \in [Nat -> Fragments] /\ NamesOf(h) \in [Nat -> Identifiers]
           /\ KindsOf(h, n) \in Seq(Kinds) /\ Len(KindsOf(h, n)) = h + n
<1>1. <<>> \in Fragments
    BY EmptySeq DEF Fragments
<1>2. ASSUME NEW k \in Nat, k >= h
      PROVE  Arguments(k - h + 1) \in Fragments /\ callID(FinishInstant, k - h + 1) \in Identifiers
    <2>1. k - h + 1 \in Nat
        BY <1>2
    <2>. QED
        BY <2>1, MadeNames
<1>3. messageID(StartInstant) \in Identifiers
    BY MadeNames
<1>4. DataOf(h, n, text) \in [Nat -> Fragments]
    <2>1. ASSUME NEW k \in Nat
          PROVE  (IF k < h THEN text ELSE IF k < h + n THEN Arguments(k - h + 1) ELSE <<>>) \in Fragments
        <3>1. CASE k < h
            BY <3>1
        <3>2. CASE ~(k < h) /\ k < h + n
            BY <1>2, <3>2
        <3>3. CASE ~(k < h) /\ ~(k < h + n)
            BY <1>1, <3>3
        <3>. QED
            BY <3>1, <3>2, <3>3
    <2>. QED
        BY <2>1 DEF DataOf
<1>5. NamesOf(h) \in [Nat -> Identifiers]
    <2>1. ASSUME NEW k \in Nat
          PROVE  (IF k < h THEN messageID(StartInstant) ELSE callID(FinishInstant, k - h + 1)) \in Identifiers
        <3>1. CASE k < h
            BY <1>3, <3>1
        <3>2. CASE ~(k < h)
            BY <1>2, <3>2
        <3>. QED
            BY <3>1, <3>2
    <2>. QED
        BY <2>1 DEF NamesOf
<1>6. KindsOf(h, n) \in Seq(Kinds) /\ Len(KindsOf(h, n)) = h + n
    BY DEF KindsOf, Kinds
<1>. QED
    BY <1>4, <1>5, <1>6

Telling(p, s, t) ==
    Book(IF p # "chat" /\ s.textStarted THEN KindsOf(1, 0) ELSE KindsOf(0, 0), 0, 0, DataOf(1, 0, s.text), <<>>,
         NamesOf(1), responseID(t, StartInstant), {})

SoFar(s) == s.text \in Fragments /\ s.textStarted \in BOOLEAN /\ s.textStarted = (s.text # <<>>)

LEMMA TellingIsLedger ==
    ASSUME NEW p, NEW s, s.text \in Fragments, NEW t \in Nat
    PROVE  Telling(p, s, t) \in Ledger
<1>. DEFINE k == IF p # "chat" /\ s.textStarted THEN KindsOf(1, 0) ELSE KindsOf(0, 0)
            d == DataOf(1, 0, s.text)
            n == NamesOf(1)
<1>1. k \in Seq(Kinds)
    <2>1. KindsOf(1, 0) \in Seq(Kinds) /\ KindsOf(0, 0) \in Seq(Kinds)
        BY DataOfType
    <2>. QED
        BY <2>1
<1>2. d \in [Nat -> Fragments]
    BY DataOfType
<1>3. n \in [Nat -> Identifiers] /\ responseID(t, StartInstant) \in Identifiers
    BY MadeNames, DataOfType
<1>4. <<>> \in Seq(Items)
    BY EmptySeq
<1>5. Telling(p, s, t) = Book(k, 0, 0, d, <<>>, n, responseID(t, StartInstant), {})
    BY DEF Telling
<1>. HIDE DEF k, d, n
<1>. QED
    BY <1>1, <1>2, <1>3, <1>4, <1>5 DEF Book, Ledger

LEMMA NothingSaid ==
    ASSUME NEW p, NEW s, s.text = <<>>, ~s.textStarted, NEW t \in Nat, p \in Protocols
    PROVE  Kept(p, <<>>, Telling(p, s, t))
<1>. DEFINE led == Telling(p, s, t)
<1>1. <<>> \in Seq(Events) /\ Len(<<>>) = 0 /\ DOMAIN <<>> = {} /\ <<>> \in Fragments
    BY EmptySeq DEF Fragments
<1>2. led \in Ledger
    BY <1>1, TellingIsLedger
<1>3. /\ led.kinds = <<>> /\ led.shut = 0 /\ led.called = <<>> /\ led.shown = {}
      /\ \A k \in Nat : led.data[k] = <<>>
    BY BookFields DEF Telling, DataOf, KindsOf
<1>. HIDE DEF led
<1>4. Opened(<<>>) = <<>> /\ Called(<<>>) = <<>> /\ \A k \in Nat : Assembled(<<>>, k) = <<>>
    <2>1. \A f : DOMAIN f = {} /\ f = [i \in {} |-> f[i]] => f = <<>>
        BY <1>1
    <2>. QED
        BY <1>1, <2>1, FlattenEmpty DEF Opened, Called, Assembled
<1>5. \A type : Count(<<>>, type, 0) = 0
    <2>1. \A type : {i \in 1..0 : <<>>[i].type = type} = {}
        OBVIOUS
    <2>. QED
        BY <2>1, FS_EmptySet DEF Count
<1>6. Tallies(<<>>, led)
    BY <1>1, <1>3, <1>4, <1>5 DEF Tallies
<1>7. Mentions(p, <<>>, led) /\ Announced(<<>>, led) /\ Nested(<<>>)
    BY <1>1, <1>3 DEF Mentions, Announced, Nested
<1>8. RepeatsAlways(p, <<>>)
    <2>1. \A n \in 0..0 : SubSeq(<<>>, 1, n) = <<>>
        BY <1>1, SubSeqEmpty
    <2>. QED
        BY <1>1, <2>1 DEF RepeatsAlways, Repeats
<1>. QED
    BY <1>1, <1>2, <1>6, <1>7, <1>8 DEF Kept, led

\* An event that says nothing of items leaves the ledger as it is.
LEMMA Aside ==
    ASSUME NEW p, NEW es, NEW a, NEW b, NEW c, NEW d, NEW f, NEW g, NEW h, NEW w,
           Kept(p, es, Book(a, b, c, d, f, g, h, w)), NEW e \in Events,
           \/ e.type \in {"role", "message_start", "usage"}
           \/ e.type \in {"created", "in_progress"} /\ e.item.id = h
           \/ e.type \in {"open_part", "close_part"} /\ Len(a) = b + 1 /\ e.index = b
    PROVE  Kept(p, Append(es, e), Book(a, b, c, d, f, g, h, w))
<1>. DEFINE led == Book(a, b, c, d, f, g, h, w)
<1>1. ~Ending(p, e)
    BY DEF Ending, Kept, Protocols
<1>2. led.kinds = a /\ led.shut = b /\ led.rid = h
    BY BookFields
<1>3. Fits(p, led, e)
    BY <1>1, <1>2 DEF Fits, ItemEvents
<1>4. After(led, e) = Book(led.kinds, led.shut, led.done, led.data, led.called, led.ids, led.rid, led.shown)
    BY DEF After, Shown
<1>5. After(led, e) = led
    BY <1>4, BookFields
<1>. QED
    BY <1>3, <1>5, Enter

\* What is written when the stream starts.
LEMMA StartKept ==
    ASSUME NEW p, NEW s, s.text = <<>>, ~s.textStarted, todo \in Nat,
           p = request.protocol, p \in Protocols
    PROVE  Kept(p, startEvents, Telling(p, s, todo)) /\ startEvents # <<>>
<1>. DEFINE led == Telling(p, s, todo)
<1>1. Kept(p, <<>>, led)
    BY NothingSaid
<1>2. \A a, b \in Events : <<a>> = Append(<<>>, a) /\ <<a, b>> = Append(Append(<<>>, a), b)
    OBVIOUS
<1>3. PICK a, d, g : led = Book(a, 0, 0, d, <<>>, g, responseID(todo, StartInstant), {})
    BY DEF Telling
<1>. HIDE DEF led
<1>4. Text(messageID(StartInstant), <<>>) \in Items
    <2>1. <<>> \in Fragments /\ messageID(StartInstant) \in Identifiers
        BY MadeNames, EmptySeq DEF Fragments
    <2>. QED
        BY <2>1, MadeItems
<1>5. CASE p = "chat"
    <2>1. Plain("role") \in Events /\ Plain("role").type = "role"
        BY MadePlain DEF Vocabulary
    <2>2. startEvents = <<Plain("role")>>
        BY <1>5 DEF startEvents, chatStart
    <2>3. Kept(p, Append(<<>>, Plain("role")), led)
        BY <1>1, <1>3, <2>1, Aside
    <2>. QED
        BY <1>2, <2>1, <2>2, <2>3 DEF led
<1>6. CASE p = "anthropic"
    <2>. DEFINE e == Event("message_start", 0, Text(messageID(StartInstant), <<>>))
    <2>1. e \in Events /\ e.type = "message_start"
        BY <1>4, MadeEvents DEF Vocabulary
    <2>2. startEvents = <<e>>
        BY <1>6 DEF startEvents, anthropicStart
    <2>. HIDE DEF e
    <2>3. Kept(p, Append(<<>>, e), led)
        BY <1>1, <1>3, <2>1, Aside
    <2>. QED
        BY <1>2, <2>1, <2>2, <2>3 DEF led
<1>7. CASE p = "responses"
    <2>. DEFINE first  == Whole("created", responseID(todo, StartInstant), <<>>)
                second == Whole("in_progress", responseID(todo, StartInstant), <<>>)
    <2>1. /\ first \in Events /\ first.type = "created" /\ first.item.id = responseID(todo, StartInstant)
          /\ second \in Events /\ second.type = "in_progress" /\ second.item.id = responseID(todo, StartInstant)
        <3>1. responseID(todo, StartInstant) \in Identifiers
            BY MadeNames
        <3>. QED
            BY <3>1, MadeOpening
    <2>2. startEvents = <<first, second>>
        BY <1>7 DEF startEvents, responsesStart
    <2>. HIDE DEF first, second
    <2>3. Kept(p, Append(<<>>, first), led)
        BY <1>1, <1>3, <2>1, Aside
    <2>4. Kept(p, Append(Append(<<>>, first), second), led)
        BY <1>3, <2>1, <2>3, Aside
    <2>. QED
        BY <1>2, <2>1, <2>2, <2>4 DEF led
<1>. QED
    BY <1>5, <1>6, <1>7 DEF Protocols

(***************************************************************************)
(* Moves of the ledger.                                                    *)
(***************************************************************************)
\* Items not opened yet have no identifiers to keep.
LEMMA Renamed ==
    ASSUME NEW p, NEW es, NEW a, NEW b, NEW c, NEW d, NEW f, NEW g, NEW h, NEW w,
           Kept(p, es, Book(a, b, c, d, f, g, h, w)), NEW n \in [Nat -> Identifiers],
           \A k \in Nat : k < Len(a) => g[k] = n[k]
    PROVE  Kept(p, es, Book(a, b, c, d, f, n, h, w))
<1>. DEFINE old == Book(a, b, c, d, f, g, h, w)
            new == Book(a, b, c, d, f, n, h, w)
<1>1. /\ old.kinds = a /\ old.shut = b /\ old.done = c /\ old.data = d /\ old.called = f
      /\ old.ids = g /\ old.rid = h /\ old.shown = w /\ old \in Ledger
    BY BookFields DEF Kept
<1>2. /\ new.kinds = a /\ new.shut = b /\ new.done = c /\ new.data = d /\ new.called = f
      /\ new.ids = n /\ new.rid = h /\ new.shown = w /\ new \in Ledger
    BY <1>1 DEF Book, Ledger
<1>. HIDE DEF old, new
<1>3. Kept(p, es, old)
    BY DEF old
<1>4. \A i \in DOMAIN es : es[i].index \in Nat
    <2>1. \A i \in DOMAIN es : es[i] \in Events
        BY <1>3, LenProperties, ElementOfSeq DEF Kept
    <2>. QED
        BY <2>1 DEF Events
<1>5. Mentions(p, es, new)
    BY <1>1, <1>2, <1>3, <1>4 DEF Kept, Mentions
<1>6. Tallies(es, new) /\ Announced(es, new)
    BY <1>1, <1>2, <1>3 DEF Kept, Tallies, Announced
<1>7. Kept(p, es, new)
    BY <1>2, <1>3, <1>5, <1>6 DEF Kept
<1>. QED
    BY <1>7 DEF new

LEMMA ItemOpens ==
    ASSUME NEW p, NEW es, NEW a, NEW b, NEW c, NEW d, NEW f, NEW g, NEW h, NEW w,
           Kept(p, es, Book(a, b, c, d, f, g, h, w)),
           NEW item \in Items, Len(a) = b, item.id = g[b]
    PROVE  Kept(p, Append(es, Event("open", b, item)), Book(Append(a, item.kind), b, c, d, f, g, h, w))
<1>. DEFINE led == Book(a, b, c, d, f, g, h, w)
            e == Event("open", b, item)
<1>1. /\ led.kinds = a /\ led.shut = b /\ led.done = c /\ led.data = d /\ led.called = f
      /\ led.ids = g /\ led.rid = h /\ led.shown = w /\ b \in Nat
    BY BookFields DEF Kept
<1>2. e \in Events /\ e.type = "open" /\ e.index = b /\ e.item = item
    <2>1. "open" \in Vocabulary
        BY DEF Vocabulary
    <2>. QED
        BY <1>1, <2>1, MadeEvents
<1>. HIDE DEF e
<1>3. Fits(p, led, e)
    <2>1. ~Ending(p, e)
        BY <1>2 DEF Ending, Kept, Protocols
    <2>. HIDE DEF led
    <2>. QED
        BY <1>1, <1>2, <2>1 DEF Fits
<1>4. After(led, e) = Book(Append(a, item.kind), b, c, d, f, g, h, w)
    <2>. HIDE DEF led
    <2>. QED
        BY <1>1, <1>2 DEF After, Shown
<1>. QED
    BY <1>2, <1>3, <1>4, Enter DEF e

LEMMA ItemGrows ==
    ASSUME NEW p, NEW es, NEW a, NEW b, NEW c, NEW d, NEW f, NEW g, NEW h, NEW w,
           Kept(p, es, Book(a, b, c, d, f, g, h, w)),
           NEW item \in Items, Len(a) = b + 1, c <= b, item.id = g[b]
    PROVE  Kept(p, Append(es, Event("delta", b, item)),
                Book(a, b, c, Extended(d, b, item.data), f, g, h, w))
<1>. DEFINE led == Book(a, b, c, d, f, g, h, w)
            e == Event("delta", b, item)
<1>1. /\ led.kinds = a /\ led.shut = b /\ led.done = c /\ led.data = d /\ led.called = f
      /\ led.ids = g /\ led.rid = h /\ led.shown = w /\ b \in Nat
    BY BookFields DEF Kept
<1>2. e \in Events /\ e.type = "delta" /\ e.index = b /\ e.item = item
    <2>1. "delta" \in Vocabulary
        BY DEF Vocabulary
    <2>. QED
        BY <1>1, <2>1, MadeEvents
<1>. HIDE DEF e
<1>3. Fits(p, led, e)
    <2>1. ~Ending(p, e)
        BY <1>2 DEF Ending, Kept, Protocols
    <2>. HIDE DEF led
    <2>. QED
        BY <1>1, <1>2, <2>1 DEF Fits
<1>4. After(led, e) = Book(a, b, c, Extended(d, b, item.data), f, g, h, w)
    <2>. HIDE DEF led
    <2>. QED
        BY <1>1, <1>2 DEF After, Shown, Extended
<1>. QED
    BY <1>2, <1>3, <1>4, Enter DEF e

LEMMA ItemCompletes ==
    ASSUME NEW p, NEW es, NEW a, NEW b, NEW c, NEW d, NEW f, NEW g, NEW h, NEW w,
           Kept(p, es, Book(a, b, c, d, f, g, h, w)),
           NEW item \in Items, Len(a) = b + 1, c <= b, item.id = g[b], item.data = d[b]
    PROVE  Kept(p, Append(es, Event("complete", b, item)), Book(a, b, b + 1, d, f, g, h, w))
<1>. DEFINE led == Book(a, b, c, d, f, g, h, w)
            e == Event("complete", b, item)
<1>1. /\ led.kinds = a /\ led.shut = b /\ led.done = c /\ led.data = d /\ led.called = f
      /\ led.ids = g /\ led.rid = h /\ led.shown = w /\ b \in Nat
    BY BookFields DEF Kept
<1>2. e \in Events /\ e.type = "complete" /\ e.index = b /\ e.item = item
    <2>1. "complete" \in Vocabulary
        BY DEF Vocabulary
    <2>. QED
        BY <1>1, <2>1, MadeEvents
<1>. HIDE DEF e
<1>3. Fits(p, led, e)
    <2>1. ~Ending(p, e)
        BY <1>2 DEF Ending, Kept, Protocols
    <2>. HIDE DEF led
    <2>. QED
        BY <1>1, <1>2, <2>1 DEF Fits
<1>4. After(led, e) = Book(a, b, b + 1, d, f, g, h, w)
    <2>. HIDE DEF led
    <2>. QED
        BY <1>1, <1>2 DEF After, Shown
<1>. QED
    BY <1>2, <1>3, <1>4, Enter DEF e

LEMMA PartSaid ==
    ASSUME NEW p, NEW es, NEW a, NEW b, NEW c, NEW d, NEW f, NEW g, NEW h, NEW w,
           Kept(p, es, Book(a, b, c, d, f, g, h, w)),
           NEW type \in {"open_part", "close_part"}, NEW item \in Items, Len(a) = b + 1
    PROVE  Kept(p, Append(es, Event(type, b, item)), Book(a, b, c, d, f, g, h, w))
<1>1. b \in Nat
    BY BookFields DEF Kept
<1>2. /\ Event(type, b, item) \in Events /\ Event(type, b, item).type = type
      /\ Event(type, b, item).index = b
    <2>1. type \in Vocabulary
        BY DEF Vocabulary
    <2>. QED
        BY <1>1, <2>1, MadeEvents
<1>. QED
    BY <1>2, Aside

LEMMA ItemCloses ==
    ASSUME NEW p, NEW es, NEW a, NEW b, NEW c, NEW d, NEW f, NEW g, NEW h, NEW w,
           Kept(p, es, Book(a, b, c, d, f, g, h, w)),
           NEW item \in Items, Len(a) = b + 1, item.id = g[b]
    PROVE  Kept(p, Append(es, Event("close", b, item)), Book(a, b + 1, c, d, f, g, h, w))
<1>. DEFINE led == Book(a, b, c, d, f, g, h, w)
            e == Event("close", b, item)
<1>1. /\ led.kinds = a /\ led.shut = b /\ led.done = c /\ led.data = d /\ led.called = f
      /\ led.ids = g /\ led.rid = h /\ led.shown = w /\ b \in Nat
    BY BookFields DEF Kept
<1>2. e \in Events /\ e.type = "close" /\ e.index = b /\ e.item = item
    <2>1. "close" \in Vocabulary
        BY DEF Vocabulary
    <2>. QED
        BY <1>1, <2>1, MadeEvents
<1>. HIDE DEF e
<1>3. Fits(p, led, e)
    <2>1. ~Ending(p, e)
        BY <1>2 DEF Ending, Kept, Protocols
    <2>. HIDE DEF led
    <2>. QED
        BY <1>1, <1>2, <2>1 DEF Fits
<1>4. After(led, e) = Book(a, b + 1, c, d, f, g, h, w)
    <2>. HIDE DEF led
    <2>. QED
        BY <1>1, <1>2 DEF After, Shown
<1>. QED
    BY <1>2, <1>3, <1>4, Enter DEF e

\* The outcome is announced, and chat calls are given.
LEMMA OutcomeShown ==
    ASSUME NEW p, NEW es, NEW a, NEW b, NEW c, NEW d, NEW f, NEW g, NEW h, NEW w,
           Kept(p, es, Book(a, b, c, d, f, g, h, w)), NEW x \in Shown,
           x = "error" => p = "chat", x # "error" => Len(a) = b
    PROVE  Kept(p, Append(es, Plain(x)), Book(a, b, c, d, f, g, h, w \cup {x}))
<1>. DEFINE led == Book(a, b, c, d, f, g, h, w)
            e == Plain(x)
<1>1. /\ led.kinds = a /\ led.shut = b /\ led.done = c /\ led.data = d /\ led.called = f
      /\ led.ids = g /\ led.rid = h /\ led.shown = w
    BY BookFields DEF Kept
<1>2. e \in Events /\ e.type = x
    <2>1. x \in Vocabulary
        BY DEF Vocabulary, Shown
    <2>. QED
        BY <2>1, MadePlain
<1>. HIDE DEF e
<1>3. Fits(p, led, e)
    <2>1. ~Ending(p, e)
        BY <1>2 DEF Ending, Kept, Protocols, Shown
    <2>. HIDE DEF led
    <2>. QED
        BY <1>1, <1>2, <2>1 DEF Fits, Shown, ItemEvents
<1>4. After(led, e) = Book(a, b, c, d, f, g, h, w \cup {x})
    <2>. HIDE DEF led
    <2>. QED
        BY <1>1, <1>2 DEF After, Shown
<1>. QED
    BY <1>2, <1>3, <1>4, Enter DEF e

LEMMA CallsGiven ==
    ASSUME NEW p, NEW es, NEW a, NEW b, NEW c, NEW d, NEW f, NEW g, NEW h, NEW w,
           Kept(p, es, Book(a, b, c, d, f, g, h, w)), NEW calls \in Seq(Items),
           p = "chat"
    PROVE  Kept(p, Append(es, [Plain("tool_calls") EXCEPT !.output = calls]),
                Book(a, b, c, d, f \o calls, g, h, w))
<1>. DEFINE led == Book(a, b, c, d, f, g, h, w)
            e == [Plain("tool_calls") EXCEPT !.output = calls]
<1>1. /\ led.kinds = a /\ led.shut = b /\ led.done = c /\ led.data = d /\ led.called = f
      /\ led.ids = g /\ led.rid = h /\ led.shown = w
    BY BookFields DEF Kept
<1>2. e \in Events /\ e.type = "tool_calls" /\ e.output = calls
    <2>1. "tool_calls" \in Vocabulary
        BY DEF Vocabulary
    <2>. QED
        BY <2>1, MadeCalls
<1>. HIDE DEF e
<1>3. Fits(p, led, e)
    <2>1. ~Ending(p, e)
        BY <1>2 DEF Ending, Kept, Protocols
    <2>. HIDE DEF led
    <2>. QED
        BY <1>1, <1>2, <2>1 DEF Fits, ItemEvents
<1>4. After(led, e) = Book(a, b, c, d, f \o calls, g, h, w)
    <2>. HIDE DEF led
    <2>. QED
        BY <1>1, <1>2 DEF After, Shown
<1>. QED
    BY <1>2, <1>3, <1>4, Enter DEF e

LEMMA ContentGrows ==
    ASSUME NEW p, NEW es, NEW a, NEW b, NEW d, NEW f, NEW g, NEW h, NEW w,
           Kept(p, es, Book(a, b, 0, d, f, g, h, w)), NEW item \in Items
    PROVE  Kept(p, Append(es, Event("content", 0, item)),
                Book(a, b, 0, Extended(d, 0, item.data), f, g, h, w))
<1>. DEFINE led == Book(a, b, 0, d, f, g, h, w)
            e == Event("content", 0, item)
<1>1. /\ led.kinds = a /\ led.shut = b /\ led.done = 0 /\ led.data = d /\ led.called = f
      /\ led.ids = g /\ led.rid = h /\ led.shown = w
    BY BookFields DEF Kept
<1>2. e \in Events /\ e.type = "content" /\ e.index = 0 /\ e.item = item
    <2>1. "content" \in Vocabulary /\ 0 \in Nat
        BY DEF Vocabulary
    <2>2. \A k \in Nat : /\ Event("content", k, item) \in Events /\ Event("content", k, item).type = "content"
                         /\ Event("content", k, item).index = k /\ Event("content", k, item).item = item
        BY <2>1, MadeEvents
    <2>. QED
        BY <2>1, <2>2
<1>. HIDE DEF e
<1>3. Fits(p, led, e)
    <2>1. ~Ending(p, e)
        BY <1>2 DEF Ending, Kept, Protocols
    <2>. HIDE DEF led
    <2>. QED
        BY <1>1, <1>2, <2>1 DEF Fits, ItemEvents
<1>4. After(led, e) = Book(a, b, 0, Extended(d, 0, item.data), f, g, h, w)
    <2>. HIDE DEF led
    <2>. QED
        BY <1>1, <1>2 DEF After, Shown, Extended
<1>. QED
    BY <1>2, <1>3, <1>4, Enter DEF e

LEMMA TextMoves ==
    ASSUME NEW text \in Fragments, NEW more \in Fragments
    PROVE  /\ Extended(DataOf(1, 0, text), 0, more) = DataOf(1, 0, text \o more)
           /\ DataOf(1, 0, text)[0] = text /\ DataOf(1, 0, <<>>) = DataOf(0, 0, text)
           /\ Len(KindsOf(0, 0)) = 0 /\ Len(KindsOf(1, 0)) = 1 /\ KindsOf(0, 0) = <<>>
           /\ Append(KindsOf(0, 0), "text") = KindsOf(1, 0)
           /\ NamesOf(1)[0] = messageID(StartInstant)
<1>1. DataOf(1, 0, text)[0] = text /\ NamesOf(1)[0] = messageID(StartInstant)
    BY DEF DataOf, NamesOf
<1>2. Extended(DataOf(1, 0, text), 0, more) = DataOf(1, 0, text \o more)
    <2>1. /\ DataOf(1, 0, text) = [k \in Nat |-> DataOf(1, 0, text)[k]]
          /\ DataOf(1, 0, text \o more) = [k \in Nat |-> DataOf(1, 0, text \o more)[k]]
        BY DEF DataOf
    <2>2. \A k \in Nat : DataOf(1, 0, text \o more)[k] =
                         IF k = 0 THEN DataOf(1, 0, text)[0] \o more ELSE DataOf(1, 0, text)[k]
        BY DEF DataOf
    <2>. QED
        BY <2>1, <2>2 DEF Extended
<1>3. DataOf(1, 0, <<>>) = DataOf(0, 0, text)
    BY DEF DataOf
<1>4. KindsOf(0, 0) = <<>> /\ Len(KindsOf(0, 0)) = 0 /\ Len(KindsOf(1, 0)) = 1
    BY DEF KindsOf
<1>5. Append(KindsOf(0, 0), "text") = KindsOf(1, 0)
    BY DEF KindsOf
<1>. QED
    BY <1>1, <1>2, <1>3, <1>4, <1>5

LEMMA CallMoves ==
    ASSUME NEW h \in {0, 1}, NEW n \in Nat, NEW text \in Fragments
    PROVE  /\ NamesOf(h)[h + n] = callID(FinishInstant, n + 1)
           /\ DataOf(h, n, text)[h + n] = <<>>
           /\ Extended(DataOf(h, n, text), h + n, Arguments(n + 1)) = DataOf(h, n + 1, text)
           /\ DataOf(h, n + 1, text)[h + n] = Arguments(n + 1)
           /\ Append(KindsOf(h, n), "call") = KindsOf(h, n + 1)
<1>1. h \in Nat /\ h + n \in Nat /\ h + n - h + 1 = n + 1 /\ ~(h + n < h) /\ h + (n + 1) = h + n + 1
    OBVIOUS
<1>2. NamesOf(h)[h + n] = callID(FinishInstant, n + 1)
    BY <1>1 DEF NamesOf
<1>3. DataOf(h, n, text)[h + n] = <<>> /\ DataOf(h, n + 1, text)[h + n] = Arguments(n + 1)
    BY <1>1 DEF DataOf
<1>4. <<>> \o Arguments(n + 1) = Arguments(n + 1)
    BY DEF Arguments
<1>5. ASSUME NEW k \in Nat, k # h + n
      PROVE  DataOf(h, n, text)[k] = DataOf(h, n + 1, text)[k]
    <2>1. k < h + n <=> k < h + (n + 1)
        BY <1>5
    <2>. QED
        BY <2>1 DEF DataOf
<1>6. Extended(DataOf(h, n, text), h + n, Arguments(n + 1)) = DataOf(h, n + 1, text)
    <2>1. /\ DataOf(h, n, text) = [k \in Nat |-> DataOf(h, n, text)[k]]
          /\ DataOf(h, n + 1, text) = [k \in Nat |-> DataOf(h, n + 1, text)[k]]
        BY DEF DataOf
    <2>. QED
        BY <1>1, <1>3, <1>4, <1>5, <2>1 DEF Extended
<1>7. Append(KindsOf(h, n), "call") = KindsOf(h, n + 1)
    <2>1. /\ KindsOf(h, n) \in Seq(Kinds) /\ Len(KindsOf(h, n)) = h + n
          /\ KindsOf(h, n + 1) \in Seq(Kinds) /\ Len(KindsOf(h, n + 1)) = h + n + 1
        <3>1. n + 1 \in Nat
            OBVIOUS
        <3>2. KindsOf(h, n + 1) \in Seq(Kinds) /\ Len(KindsOf(h, n + 1)) = h + (n + 1)
            BY <1>1, <3>1, DataOfType
        <3>3. KindsOf(h, n) \in Seq(Kinds) /\ Len(KindsOf(h, n)) = h + n
            BY <1>1, DataOfType
        <3>. QED
            BY <1>1, <3>2, <3>3
    <2>2. "call" \in Kinds
        BY DEF Kinds
    <2>3. /\ Append(KindsOf(h, n), "call") \in Seq(Kinds)
          /\ Len(Append(KindsOf(h, n), "call")) = h + n + 1
          /\ Append(KindsOf(h, n), "call")[h + n + 1] = "call"
          /\ \A k \in 1..h + n : Append(KindsOf(h, n), "call")[k] = KindsOf(h, n)[k]
        BY <2>1, <2>2, AppendProperties
    <2>4. ASSUME NEW k \in 1..h + n + 1
          PROVE  Append(KindsOf(h, n), "call")[k] = KindsOf(h, n + 1)[k]
        <3>1. CASE k = h + n + 1
            BY <1>1, <2>3, <3>1 DEF KindsOf
        <3>2. CASE k # h + n + 1
            <4>1. k \in 1..h + n
                BY <1>1, <3>2
            <4>. QED
                BY <1>1, <2>3, <4>1 DEF KindsOf
        <3>. QED
            BY <3>1, <3>2
    <2>. QED
        BY <2>1, <2>3, <2>4, SeqEqual
<1>. QED
    BY <1>2, <1>3, <1>6, <1>7

\* The text item is opened before anything is said of it.
LEMMA TextOpened ==
    ASSUME NEW p, p # "chat", NEW es, NEW s, SoFar(s), NEW t \in Nat, Kept(p, es, Telling(p, s, t))
    PROVE  LET led == Book(KindsOf(1, 0), 0, 0, DataOf(1, 0, s.text), <<>>, NamesOf(1),
                           responseID(t, StartInstant), {})
           IN  /\ Kept(p, es \o startTextBlock(s), led) /\ startTextBlock(s) \in Seq(Events)
               /\ Kept(p, es \o startTextItem(s), led) /\ startTextItem(s) \in Seq(Events)
<1>. DEFINE m == messageID(StartInstant)
            r == responseID(t, StartInstant)
            item == Text(m, <<>>)
            o == Event("open", 0, item)
            o1 == Event("open_part", 0, item)
            led == Book(KindsOf(1, 0), 0, 0, DataOf(1, 0, s.text), <<>>, NamesOf(1), r, {})
<1>1. item \in Items /\ item.id = m /\ item.kind = "text"
    <2>1. m \in Identifiers /\ <<>> \in Fragments
        BY MadeNames, EmptySeq DEF Fragments
    <2>. QED
        BY <2>1, MadeItems DEF Text
<1>2. o \in Events /\ o1 \in Events
    <2>1. "open" \in Vocabulary /\ "open_part" \in Vocabulary /\ 0 \in Nat
        BY DEF Vocabulary
    <2>. QED
        BY <1>1, <2>1, MadeEvents
<1>3. es \in Seq(Events) /\ s.text \in Fragments
    BY DEF Kept, SoFar
<1>4. CASE s.textStarted
    <2>1. Telling(p, s, t) = led
        BY <1>4 DEF Telling
    <2>2. startTextBlock(s) = <<>> /\ startTextItem(s) = <<>> /\ es \o <<>> = es /\ <<>> \in Seq(Events)
        BY <1>3, <1>4, ConcatEmptySeq, EmptySeq DEF startTextBlock, startTextItem
    <2>. QED
        BY <2>1, <2>2
<1>5. CASE ~s.textStarted
    <2>1. Telling(p, s, t) = Book(KindsOf(0, 0), 0, 0, DataOf(1, 0, s.text), <<>>, NamesOf(1), r, {})
        BY <1>5 DEF Telling
    <2>2. startTextBlock(s) = <<o>> /\ startTextItem(s) = <<o, o1>>
        BY <1>5 DEF startTextBlock, startTextItem
    <2>. HIDE DEF m, r, item
    <2>3. /\ Len(KindsOf(1, 0)) = 0 + 1 /\ Len(KindsOf(0, 0)) = 0 /\ item.id = NamesOf(1)[0]
          /\ Append(KindsOf(0, 0), item.kind) = KindsOf(1, 0)
        BY <1>1, <1>3, TextMoves DEF m
    <2>4. Kept(p, Append(es, o), led)
        <3>1. Kept(p, Append(es, o), Book(Append(KindsOf(0, 0), item.kind), 0, 0, DataOf(1, 0, s.text), <<>>,
                                          NamesOf(1), r, {}))
            BY <1>1, <2>1, <2>3, ItemOpens
        <3>. QED
            BY <2>3, <3>1
    <2>5. Kept(p, Append(Append(es, o), o1), led)
        <3>1. "open_part" \in {"open_part", "close_part"}
            OBVIOUS
        <3>. QED
            BY <1>1, <2>3, <2>4, <3>1, PartSaid
    <2>. HIDE DEF o, o1, led
    <2>6. es \o <<o>> = Append(es, o) /\ es \o <<o, o1>> = Append(Append(es, o), o1)
        BY <1>2, <1>3, OneByOne
    <2>7. Kept(p, es \o startTextBlock(s), led) /\ Kept(p, es \o startTextItem(s), led)
        BY <2>2, <2>4, <2>5, <2>6
    <2>8. startTextBlock(s) \in Seq(Events) /\ startTextItem(s) \in Seq(Events)
        BY <1>2, <2>2
    <2>. QED
        BY <2>7, <2>8 DEF led, r
<1>. QED
    BY <1>4, <1>5 DEF SoFar

\* A fragment of text given away.
LEMMA DeltaKept ==
    ASSUME NEW p, p = request.protocol, NEW es, NEW s, SoFar(s), NEW t \in Nat, Kept(p, es, Telling(p, s, t)),
           NEW d \in Nat \X Nat, NEW s1, s1.text = Append(s.text, d), s1.textStarted = TRUE
    PROVE  Kept(p, es \o deltaEvents(s, d), Telling(p, s1, t))
<1>. DEFINE m == messageID(StartInstant)
            r == responseID(t, StartInstant)
            item == Text(m, <<d>>)
<1>1. m \in Identifiers /\ <<d>> \in Fragments
    <2>1. m \in Identifiers
        BY MadeNames
    <2>2. <<d>> \in Seq(Nat \X Nat)
        OBVIOUS
    <2>. QED
        BY <2>1, <2>2 DEF Fragments
<1>2. item \in Items /\ item.id = m /\ item.data = <<d>>
    BY <1>1, MadeItems DEF Text
<1>3. Event("delta", 0, item) \in Events /\ Event("content", 0, item) \in Events
    <2>1. "delta" \in Vocabulary /\ "content" \in Vocabulary /\ 0 \in Nat
        BY DEF Vocabulary
    <2>. QED
        BY <1>2, <2>1, MadeEvents
<1>. HIDE DEF m, r, item
<1>4. es \in Seq(Events) /\ p \in Protocols /\ s.text \in Fragments
    BY DEF Kept, SoFar
<1>5. s1.text = s.text \o <<d>>
    BY <1>4, AppendIsConcat DEF Fragments
<1>6. Extended(DataOf(1, 0, s.text), 0, item.data) = DataOf(1, 0, s1.text)
    BY <1>1, <1>2, <1>4, <1>5, TextMoves
<1>7. CASE p = "chat"
    <2>1. /\ Telling(p, s, t) = Book(KindsOf(0, 0), 0, 0, DataOf(1, 0, s.text), <<>>, NamesOf(1), r, {})
          /\ Telling(p, s1, t) = Book(KindsOf(0, 0), 0, 0, DataOf(1, 0, s1.text), <<>>, NamesOf(1), r, {})
        BY <1>7 DEF Telling, r
    <2>2. deltaEvents(s, d) = <<Event("content", 0, item)>>
        BY <1>7 DEF deltaEvents, chatDelta, item, m
    <2>3. Kept(p, Append(es, Event("content", 0, item)), Telling(p, s1, t))
        <3>1. Kept(p, es, Book(KindsOf(0, 0), 0, 0, DataOf(1, 0, s.text), <<>>, NamesOf(1), r, {}))
            BY <2>1
        <3>2. item \in Items
            BY <1>2
        <3>3. Kept(p, Append(es, Event("content", 0, item)),
                   Book(KindsOf(0, 0), 0, 0, Extended(DataOf(1, 0, s.text), 0, item.data), <<>>, NamesOf(1), r, {}))
            BY <3>1, <3>2, ContentGrows
        <3>. QED
            BY <1>6, <2>1, <3>3
    <2>4. es \o <<Event("content", 0, item)>> = Append(es, Event("content", 0, item))
        BY <1>3, <1>4, OneByOne
    <2>. QED
        BY <2>2, <2>3, <2>4
<1>8. CASE p # "chat"
    <2>1. Telling(p, s1, t) = Book(KindsOf(1, 0), 0, 0, DataOf(1, 0, s1.text), <<>>, NamesOf(1), r, {})
        BY <1>8 DEF Telling, r
    <2>2. ASSUME NEW first \in Seq(Events),
                 Kept(p, es \o first, Book(KindsOf(1, 0), 0, 0, DataOf(1, 0, s.text), <<>>, NamesOf(1), r, {}))
          PROVE  Kept(p, es \o (first \o <<Event("delta", 0, item)>>), Telling(p, s1, t))
        <3>1. Len(KindsOf(1, 0)) = 0 + 1 /\ 0 <= 0 /\ item.id = NamesOf(1)[0] /\ item \in Items
            BY <1>2, <1>4, TextMoves DEF m
        <3>2. Kept(p, Append(es \o first, Event("delta", 0, item)),
                   Book(KindsOf(1, 0), 0, 0, Extended(DataOf(1, 0, s.text), 0, item.data), <<>>, NamesOf(1), r, {}))
            BY <2>2, <3>1, ItemGrows, ZenonT(30)
        <3>3. es \o (first \o <<Event("delta", 0, item)>>) = Append(es \o first, Event("delta", 0, item))
            <4>. DEFINE e == Event("delta", 0, item)
            <4>1. e \in Events
                BY <1>3
            <4>. HIDE DEF e
            <4>2. es \o (first \o <<e>>) = Append(es \o first, e)
                BY <1>4, <2>2, <4>1, Chained, SMTT(30)
            <4>. QED
                BY <4>2 DEF e
        <3>. QED
            BY <1>6, <2>1, <3>2, <3>3
    <2>3. deltaEvents(s, d) \in {startTextBlock(s) \o <<Event("delta", 0, item)>>,
                                 startTextItem(s) \o <<Event("delta", 0, item)>>}
        BY <1>4, <1>8 DEF deltaEvents, anthropicDelta, responsesDelta, Protocols, item, m
    <2>. QED
        BY <1>8, <2>2, <2>3, TextOpened DEF r
<1>. QED
    BY <1>7, <1>8

(***************************************************************************)
(* The reply when it is finished: the text item is closed, and each call   *)
(* is an item opened, filled and closed.                                   *)
(***************************************************************************)
Saying(h, n, done, text, t) ==
    Book(KindsOf(h, n), h + n, done, DataOf(h, n, text), <<>>, NamesOf(h), responseID(t, StartInstant), {})

LEMMA NoTextSaid ==
    ASSUME NEW p, p # "chat", NEW es, NEW s, SoFar(s), ~s.textStarted, NEW t \in Nat, Kept(p, es, Telling(p, s, t))
    PROVE  Kept(p, es, Saying(0, 0, 0, s.text, t))
<1>. DEFINE r == responseID(t, StartInstant)
<1>1. s.text = <<>> /\ s.text \in Fragments
    BY DEF SoFar
<1>2. Telling(p, s, t) = Book(KindsOf(0, 0), 0, 0, DataOf(0, 0, s.text), <<>>, NamesOf(1), r, {})
    BY <1>1, TextMoves DEF Telling
<1>3. NamesOf(0) \in [Nat -> Identifiers] /\ \A k \in Nat : k < Len(KindsOf(0, 0)) => NamesOf(1)[k] = NamesOf(0)[k]
    <2>1. NamesOf(0) \in [Nat -> Identifiers]
        BY <1>1, DataOfType
    <2>2. Len(KindsOf(0, 0)) = 0
        BY <1>1, TextMoves
    <2>. QED
        BY <2>1, <2>2
<1>. HIDE DEF r
<1>4. Kept(p, es, Book(KindsOf(0, 0), 0, 0, DataOf(0, 0, s.text), <<>>, NamesOf(0), r, {}))
    BY <1>2, <1>3, Renamed
<1>. QED
    BY <1>4 DEF Saying, r

LEMMA TextSaid ==
    ASSUME NEW p, p # "chat", NEW es, NEW s, SoFar(s), NEW t \in Nat, Kept(p, es, Telling(p, s, t))
    PROVE  LET block == startTextBlock(s) \o <<Event("close", 0, Text(messageID(StartInstant), <<>>))>>
               whole == finishTextItem(s, 0, Text(messageID(StartInstant), s.text))
           IN  /\ Kept(p, es \o block, Saying(1, 0, 0, s.text, t)) /\ block \in Seq(Events)
               /\ Kept(p, es \o whole, Saying(1, 0, 1, s.text, t)) /\ whole \in Seq(Events)
<1>. DEFINE m == messageID(StartInstant)
            r == responseID(t, StartInstant)
            bare == Text(m, <<>>)
            item == Text(m, s.text)
            a == Event("complete", 0, item)
            b == Event("close_part", 0, item)
            c == Event("close", 0, item)
            e == Event("close", 0, bare)
            d == DataOf(1, 0, s.text)
<1>1. /\ item \in Items /\ item.id = m /\ item.data = s.text
      /\ bare \in Items /\ bare.id = m
    <2>1. m \in Identifiers /\ <<>> \in Fragments /\ s.text \in Fragments
        BY MadeNames, EmptySeq DEF Fragments, SoFar
    <2>. QED
        BY <2>1, MadeItems DEF Text
<1>2. a \in Events /\ b \in Events /\ c \in Events /\ e \in Events
    <2>1. "complete" \in Vocabulary /\ "close_part" \in Vocabulary /\ "close" \in Vocabulary /\ 0 \in Nat
        BY DEF Vocabulary
    <2>. QED
        BY <1>1, <2>1, MadeEvents
<1>3. es \in Seq(Events) /\ s.text \in Fragments
    BY DEF Kept, SoFar
<1>4. /\ Kept(p, es \o startTextBlock(s), Book(KindsOf(1, 0), 0, 0, d, <<>>, NamesOf(1), r, {}))
      /\ Kept(p, es \o startTextItem(s), Book(KindsOf(1, 0), 0, 0, d, <<>>, NamesOf(1), r, {}))
      /\ startTextBlock(s) \in Seq(Events) /\ startTextItem(s) \in Seq(Events)
    BY TextOpened
<1>. HIDE DEF m, r, bare, item
<1>5. /\ Len(KindsOf(1, 0)) = 0 + 1 /\ 0 <= 0 /\ item.id = NamesOf(1)[0] /\ bare.id = NamesOf(1)[0]
      /\ item.data = d[0]
    BY <1>1, <1>3, TextMoves DEF m
<1>. HIDE DEF d
<1>6. Kept(p, Append(es \o startTextBlock(s), e), Book(KindsOf(1, 0), 0 + 1, 0, d, <<>>, NamesOf(1), r, {}))
    BY <1>1, <1>4, <1>5, ItemCloses
<1>7. Kept(p, Append(es \o startTextItem(s), a), Book(KindsOf(1, 0), 0, 0 + 1, d, <<>>, NamesOf(1), r, {}))
    BY <1>1, <1>4, <1>5, ItemCompletes
<1>8. Kept(p, Append(Append(es \o startTextItem(s), a), b), Book(KindsOf(1, 0), 0, 0 + 1, d, <<>>, NamesOf(1), r, {}))
    <2>1. "close_part" \in {"open_part", "close_part"}
        OBVIOUS
    <2>. QED
        BY <1>1, <1>5, <1>7, <2>1, PartSaid
<1>9. Kept(p, Append(Append(Append(es \o startTextItem(s), a), b), c),
           Book(KindsOf(1, 0), 0 + 1, 0 + 1, d, <<>>, NamesOf(1), r, {}))
    BY <1>1, <1>5, <1>8, ItemCloses
<1>. HIDE DEF a, b, c, e
<1>10. /\ es \o (startTextBlock(s) \o <<e>>) = Append(es \o startTextBlock(s), e)
       /\ es \o (startTextItem(s) \o <<a, b, c>>) = Append(Append(Append(es \o startTextItem(s), a), b), c)
    <2>1. es \o (startTextBlock(s) \o <<e>>) = Append(es \o startTextBlock(s), e)
        BY <1>2, <1>3, <1>4, Chained
    <2>2. es \o (startTextItem(s) \o <<a, b, c>>) = Append(Append(Append(es \o startTextItem(s), a), b), c)
        <3>. DEFINE first == startTextItem(s)
        <3>1. first \in Seq(Events)
            BY <1>4
        <3>. HIDE DEF first
        <3>. DEFINE fs == es \o first
                    more == <<a, b, c>>
        <3>2. fs \in Seq(Events) /\ more \in Seq(Events)
            BY <1>2, <1>3, <3>1, ConcatProperties
        <3>. HIDE DEF more
        <3>3. es \o (first \o more) = fs \o more
            BY <1>3, <3>1, <3>2, Regrouped, SMTT(30)
        <3>. HIDE DEF fs
        <3>4. fs \o <<a, b, c>> = Append(Append(Append(fs, a), b), c)
            BY <1>2, <3>2, OneByOne
        <3>. QED
            BY <3>3, <3>4 DEF first, fs, more
    <2>. QED
        BY <2>1, <2>2
<1>11. /\ Saying(1, 0, 0, s.text, t) = Book(KindsOf(1, 0), 0 + 1, 0, d, <<>>, NamesOf(1), r, {})
       /\ Saying(1, 0, 1, s.text, t) = Book(KindsOf(1, 0), 0 + 1, 0 + 1, d, <<>>, NamesOf(1), r, {})
    BY DEF Saying, d, r
<1>12. finishTextItem(s, 0, item) = startTextItem(s) \o <<a, b, c>>
    BY DEF finishTextItem, a, b, c
<1>13. startTextBlock(s) \o <<e>> \in Seq(Events) /\ startTextItem(s) \o <<a, b, c>> \in Seq(Events)
    <2>1. <<e>> \in Seq(Events) /\ <<a, b, c>> \in Seq(Events)
        BY <1>2
    <2>. QED
        BY <1>4, <2>1, ConcatProperties
<1>14. /\ Kept(p, es \o (startTextBlock(s) \o <<e>>), Saying(1, 0, 0, s.text, t))
       /\ Kept(p, es \o finishTextItem(s, 0, item), Saying(1, 0, 1, s.text, t))
    BY <1>6, <1>9, <1>10, <1>11, <1>12
<1>. QED
    BY <1>12, <1>13, <1>14 DEF e, bare, item, m

LEMMA CallSaid ==
    ASSUME NEW p, NEW es, NEW h \in {0, 1}, NEW n \in Nat, NEW done, done <= h + n, NEW text \in Fragments, NEW t,
           Kept(p, es, Saying(h, n, done, text, t)),
           NEW call, call = Call(callID(FinishInstant, n + 1), Arguments(n + 1))
    PROVE  /\ Kept(p, es \o toolBlock(h + n, call), Saying(h, n + 1, done, text, t))
           /\ toolBlock(h + n, call) \in Seq(Events)
           /\ Kept(p, es \o emitCompletedToolItem(h + n, call), Saying(h, n + 1, h + n + 1, text, t))
           /\ emitCompletedToolItem(h + n, call) \in Seq(Events)
<1>. DEFINE m == h + n
            r == responseID(t, StartInstant)
            bare == Emptied(call)
            o == Event("open", m, bare)
            e == Event("delta", m, call)
            a == Event("complete", m, call)
            c == Event("close", m, bare)
            c1 == Event("close", m, call)
            k0 == KindsOf(h, n)
            k1 == KindsOf(h, n + 1)
            d0 == DataOf(h, n, text)
            d1 == DataOf(h, n + 1, text)
            ids == NamesOf(h)
<1>1. m \in Nat /\ h + (n + 1) = m + 1 /\ h \in Nat
    OBVIOUS
<1>2. /\ call \in Items /\ call.kind = "call" /\ call.id = ids[m] /\ call.data = Arguments(n + 1)
      /\ bare \in Items /\ bare.kind = "call" /\ bare.id = ids[m]
    <2>1. callID(FinishInstant, n + 1) \in Identifiers /\ Arguments(n + 1) \in Fragments
        BY MadeNames
    <2>2. ids[m] = callID(FinishInstant, n + 1)
        BY CallMoves
    <2>3. /\ call \in Items /\ Emptied(call) \in Items /\ Emptied(call) = Call(callID(FinishInstant, n + 1), <<>>)
        BY <2>1, MadeItems
    <2>. QED
        BY <2>2, <2>3 DEF Call
<1>3. o \in Events /\ e \in Events /\ a \in Events /\ c \in Events /\ c1 \in Events
    <2>1. "open" \in Vocabulary /\ "delta" \in Vocabulary /\ "complete" \in Vocabulary /\ "close" \in Vocabulary
        BY DEF Vocabulary
    <2>. QED
        BY <1>1, <1>2, <2>1, MadeEvents
<1>4. /\ Len(k0) = m /\ Len(k1) = m + 1 /\ Append(k0, bare.kind) = k1
      /\ Extended(d0, m, call.data) = d1 /\ call.data = d1[m]
    <2>1. Len(KindsOf(h, n)) = h + n
        BY <1>1, DataOfType
    <2>2. Len(KindsOf(h, n + 1)) = h + (n + 1)
        <3>1. n + 1 \in Nat
            OBVIOUS
        <3>. QED
            BY <1>1, <3>1, DataOfType
    <2>. QED
        BY <1>1, <1>2, <2>1, <2>2, CallMoves
<1>5. Kept(p, es, Book(k0, m, done, d0, <<>>, ids, r, {}))
    BY DEF Saying
<1>6. /\ Saying(h, n + 1, done, text, t) = Book(k1, m + 1, done, d1, <<>>, ids, r, {})
      /\ Saying(h, n + 1, m + 1, text, t) = Book(k1, m + 1, m + 1, d1, <<>>, ids, r, {})
    BY <1>1 DEF Saying
<1>7. es \in Seq(Events)
    BY DEF Kept
<1>8. toolBlock(m, call) = <<o, e, c>> /\ emitCompletedToolItem(m, call) = <<o, e, a, c1>>
    BY DEF toolBlock, emitCompletedToolItem
<1>. HIDE DEF m, r, bare, k0, k1, d0, d1, ids
<1>9. Kept(p, Append(es, o), Book(k1, m, done, d0, <<>>, ids, r, {}))
    BY <1>2, <1>4, <1>5, ItemOpens
<1>10. Kept(p, Append(Append(es, o), e), Book(k1, m, done, d1, <<>>, ids, r, {}))
    <2>1. done <= m
        BY DEF m
    <2>2. Kept(p, Append(Append(es, o), e), Book(k1, m, done, Extended(d0, m, call.data), <<>>, ids, r, {}))
        BY <1>2, <1>4, <1>9, <2>1, ItemGrows
    <2>. QED
        BY <1>4, <2>2
<1>11. Kept(p, Append(Append(Append(es, o), e), c), Book(k1, m + 1, done, d1, <<>>, ids, r, {}))
    BY <1>2, <1>4, <1>10, ItemCloses
<1>12. Kept(p, Append(Append(Append(es, o), e), a), Book(k1, m, m + 1, d1, <<>>, ids, r, {}))
    <2>1. done <= m
        BY DEF m
    <2>. QED
        BY <1>2, <1>4, <1>10, <2>1, ItemCompletes
<1>13. Kept(p, Append(Append(Append(Append(es, o), e), a), c1), Book(k1, m + 1, m + 1, d1, <<>>, ids, r, {}))
    BY <1>2, <1>4, <1>12, ItemCloses
<1>. HIDE DEF o, e, a, c, c1
<1>14. /\ es \o <<o, e, c>> = Append(Append(Append(es, o), e), c)
       /\ es \o <<o, e, a, c1>> = Append(Append(Append(Append(es, o), e), a), c1)
       /\ <<o, e, c>> \in Seq(Events) /\ <<o, e, a, c1>> \in Seq(Events)
    <2>1. <<o, e, c>> \in Seq(Events) /\ <<o, e, a, c1>> \in Seq(Events)
        BY <1>3
    <2>2. es \o <<o, e, c>> = Append(Append(Append(es, o), e), c)
        BY <1>3, <1>7, OneByOne, SMTT(30)
    <2>3. es \o <<o, e, a, c1>> = Append(Append(Append(Append(es, o), e), a), c1)
        BY <1>3, <1>7, OneByOne, SMTT(30)
    <2>. QED
        BY <2>1, <2>2, <2>3
<1>. QED
    BY <1>6, <1>8, <1>11, <1>13, <1>14 DEF m

\* Lists written one after the other, each taking the ledger one step on.
Grows(lists, more) ==
    \A n \in Nat : more[n] \in Seq(Events) /\ lists[n + 1] = Append(lists[n], more[n])
Leads(p, more, led) ==
    \A n \in Nat : \A es : Kept(p, es, led[n]) => Kept(p, es \o more[n], led[n + 1])

LEMMA ListSaid ==
    ASSUME NEW p, NEW es \in Seq(Events), NEW lists, NEW more, NEW led,
           lists[0] \in Seq(Seq(Events)),
           Grows(lists, more), Leads(p, more, led), Kept(p, es \o FlattenSeq(lists[0]), led[0])
    PROVE  \A n \in Nat : Kept(p, es \o FlattenSeq(lists[n]), led[n]) /\ FlattenSeq(lists[n]) \in Seq(Events)
<1>. DEFINE done == {n \in Nat : lists[n] \in Seq(Seq(Events)) /\ Kept(p, es \o FlattenSeq(lists[n]), led[n])}
<1>1. 0 \in done
    OBVIOUS
<1>2. ASSUME NEW n \in Nat, n \in done
      PROVE  n + 1 \in done
    <2>1. more[n] \in Seq(Events) /\ lists[n + 1] = Append(lists[n], more[n]) /\ lists[n] \in Seq(Seq(Events))
        BY <1>2 DEF Grows
    <2>2. lists[n + 1] \in Seq(Seq(Events))
        BY <2>1, AppendProperties
    <2>3. /\ FlattenSeq(lists[n]) \in Seq(Events)
          /\ FlattenSeq(lists[n + 1]) = FlattenSeq(lists[n]) \o more[n]
        BY <2>1, FlattenAppend
    <2>4. Kept(p, (es \o FlattenSeq(lists[n])) \o more[n], led[n + 1])
        BY <1>2 DEF Leads
    <2>5. es \o FlattenSeq(lists[n + 1]) = (es \o FlattenSeq(lists[n])) \o more[n]
        <3>. DEFINE f == FlattenSeq(lists[n])
                    g == more[n]
        <3>1. f \in Seq(Events) /\ g \in Seq(Events) /\ FlattenSeq(lists[n + 1]) = f \o g
            BY <2>1, <2>3
        <3>. HIDE DEF f, g
        <3>2. es \o (f \o g) = (es \o f) \o g
            BY <3>1, Regrouped, SMTT(30)
        <3>. QED
            BY <3>1, <3>2 DEF f, g
    <2>6. Kept(p, es \o FlattenSeq(lists[n + 1]), led[n + 1])
        BY <2>4, <2>5
    <2>. QED
        BY <2>2, <2>6
<1>. HIDE DEF done
<1>3. Nat \subseteq done
    BY <1>1, <1>2, NatInSet
<1>4. ASSUME NEW n \in Nat
      PROVE  Kept(p, es \o FlattenSeq(lists[n]), led[n]) /\ FlattenSeq(lists[n]) \in Seq(Events)
    <2>1. lists[n] \in Seq(Seq(Events)) /\ Kept(p, es \o FlattenSeq(lists[n]), led[n])
        BY <1>3 DEF done
    <2>2. <<>> \in Seq(Events)
        BY EmptySeq
    <2>. QED
        BY <2>1, <2>2, FlattenAppend
<1>. QED
    BY <1>4

FinalCall(i) == Call(callID(FinishInstant, i), Arguments(i))
ToolBlocks(hasText, n) == [i \in 1..n |-> toolBlock(ToolIndex(hasText, i), FinalCall(i))]
ItemBlocks(s, h, n) ==
    [k \in 1..h + n |-> IF k <= h THEN finishTextItem(s, 0, Text(messageID(StartInstant), s.text))
                        ELSE emitCompletedToolItem(k - 1, FinalCall(k - h))]

\* A list with one element more.
LEMMA OneMore ==
    ASSUME NEW S, NEW n \in Nat, NEW short, NEW long, DOMAIN short = 1..n, DOMAIN long = 1..n + 1,
           short = [i \in 1..n |-> short[i]], long = [i \in 1..n + 1 |-> long[i]],
           \A i \in 1..n : short[i] = long[i], short \in Seq(S), long[n + 1] \in S
    PROVE  long = Append(short, long[n + 1])
<1>1. Len(short) = n
    BY LenProperties
<1>2. long \in Seq(S) /\ Len(long) = n + 1
    <2>1. \A i \in 1..n : short[i] \in S
        BY <1>1, ElementOfSeq
    <2>2. ASSUME NEW i \in 1..n + 1
          PROVE  long[i] \in S
        <3>1. i = n + 1 \/ i \in 1..n
            OBVIOUS
        <3>. QED
            BY <2>1, <3>1
    <2>3. [i \in 1..n + 1 |-> long[i]] \in Seq(S)
        BY <2>2
    <2>4. long \in Seq(S)
        BY <2>3
    <2>. QED
        BY <2>4, LenProperties
<1>3. /\ Append(short, long[n + 1]) \in Seq(S) /\ Len(Append(short, long[n + 1])) = n + 1
      /\ \A i \in 1..n : Append(short, long[n + 1])[i] = short[i]
      /\ Append(short, long[n + 1])[n + 1] = long[n + 1]
    BY <1>1, AppendProperties
<1>4. \A i \in 1..n + 1 : Append(short, long[n + 1])[i] = long[i]
    <2>1. ASSUME NEW i \in 1..n + 1
          PROVE  Append(short, long[n + 1])[i] = long[i]
        <3>1. CASE i = n + 1
            BY <1>3, <3>1
        <3>2. CASE i # n + 1
            <4>1. i \in 1..n
                BY <3>2
            <4>. QED
                BY <1>3, <4>1
        <3>. QED
            BY <3>1, <3>2
    <2>. QED
        BY <2>1
<1>. QED
    BY <1>2, <1>3, <1>4, SeqEqual

\* The events a protocol has.
Spoken(p) == {e \in Events : e.type \in EventTypes[p] \cup {"json", "http_error"}}

LEMMA SpokenIsEvents ==
    ASSUME NEW p, NEW es \in Seq(Spoken(p))
    PROVE  es \in Seq(Events)
BY DEF Spoken

LEMMA CallBlocks ==
    ASSUME NEW index \in Nat, NEW i \in Nat
    PROVE  /\ toolBlock(index, FinalCall(i)) \in Seq(Spoken("anthropic"))
           /\ emitCompletedToolItem(index, FinalCall(i)) \in Seq(Spoken("responses"))
<1>. DEFINE call == FinalCall(i)
            types == {"open", "delta", "complete", "close"}
<1>1. call \in Items /\ Emptied(call) \in Items
    <2>1. callID(FinishInstant, i) \in Identifiers /\ Arguments(i) \in Fragments
        BY MadeNames
    <2>. QED
        BY <2>1, MadeItems DEF FinalCall
<1>2. ASSUME NEW type \in types, NEW item \in {call, Emptied(call)}
      PROVE  /\ Event(type, index, item) \in Spoken("responses")
             /\ type # "complete" => Event(type, index, item) \in Spoken("anthropic")
    <2>1. type \in Vocabulary
        BY DEF Vocabulary
    <2>2. Event(type, index, item) \in Events /\ Event(type, index, item).type = type
        BY <1>1, <2>1, MadeEvents
    <2>. QED
        BY <2>2 DEF Spoken, EventTypes
<1>. HIDE DEF call
<1>3. toolBlock(index, call) \in Seq(Spoken("anthropic"))
    BY <1>2 DEF toolBlock
<1>4. emitCompletedToolItem(index, call) \in Seq(Spoken("responses"))
    BY <1>2 DEF emitCompletedToolItem
<1>. QED
    BY <1>3, <1>4 DEF call

LEMMA ToolBlocksGrow ==
    ASSUME NEW h \in {0, 1}, NEW hasText, hasText = (h = 1), NEW n \in Nat
    PROVE  /\ ToolBlocks(hasText, n) \in Seq(Seq(Spoken("anthropic")))
           /\ ToolBlocks(hasText, n + 1) = Append(ToolBlocks(hasText, n), toolBlock(h + n, FinalCall(n + 1)))
           /\ ToolBlocks(hasText, 0) = <<>>
<1>1. \A i \in 1..n : toolBlock(ToolIndex(hasText, i), FinalCall(i)) \in Seq(Spoken("anthropic"))
    <2>1. \A i \in 1..n : i \in Nat /\ ToolIndex(hasText, i) \in Nat
        BY DEF ToolIndex
    <2>. QED
        BY <2>1, CallBlocks
<1>2. ToolBlocks(hasText, n) \in Seq(Seq(Spoken("anthropic")))
    BY <1>1 DEF ToolBlocks
<1>3. ToolIndex(hasText, n + 1) = h + n /\ h + n \in Nat /\ n + 1 \in Nat
    <2>1. CASE h = 1
        <3>1. hasText
            BY <2>1
        <3>. QED
            BY <2>1, <3>1 DEF ToolIndex
    <2>2. CASE h = 0
        <3>1. (h = 1) = FALSE
            BY <2>2
        <3>2. ~hasText
            BY <3>1
        <3>. QED
            BY <2>2, <3>2 DEF ToolIndex
    <2>. QED
        BY <2>1, <2>2
<1>. DEFINE short == ToolBlocks(hasText, n)
            long == ToolBlocks(hasText, n + 1)
<1>4. /\ DOMAIN short = 1..n /\ DOMAIN long = 1..n + 1
      /\ short = [i \in 1..n |-> short[i]] /\ long = [i \in 1..n + 1 |-> long[i]]
      /\ \A i \in 1..n : short[i] = long[i]
    BY DEF ToolBlocks
<1>5. long[n + 1] = toolBlock(h + n, FinalCall(n + 1))
    BY <1>3 DEF ToolBlocks
<1>6. long[n + 1] \in Seq(Spoken("anthropic"))
    BY <1>3, <1>5, CallBlocks
<1>. HIDE DEF short, long
<1>7. long = Append(short, long[n + 1])
    <2>. DEFINE S == Seq(Spoken("anthropic"))
    <2>1. short \in Seq(S) /\ long[n + 1] \in S
        BY <1>2, <1>6 DEF short
    <2>. HIDE DEF S
    <2>. QED
        BY <1>4, <2>1, OneMore
<1>8. ToolBlocks(hasText, 0) = <<>>
    BY DEF ToolBlocks
<1>. QED
    BY <1>2, <1>5, <1>7, <1>8 DEF short, long

LEMMA ToolBlocksSaid ==
    ASSUME NEW p, NEW es, NEW h \in {0, 1}, NEW done \in Nat, done <= h, NEW text \in Fragments, NEW t,
           Kept(p, es, Saying(h, 0, done, text, t)), NEW hasText, hasText = (h = 1), NEW n \in Nat
    PROVE  Kept(p, es \o FlattenSeq(ToolBlocks(hasText, n)), Saying(h, n, done, text, t))
<1>. DEFINE block(k) == toolBlock(h + k, FinalCall(k + 1))
            lists == [k \in Nat |-> ToolBlocks(hasText, k)]
            more == [k \in Nat |-> block(k)]
            led == [k \in Nat |-> Saying(h, k, done, text, t)]
<1>1. es \in Seq(Events) /\ FlattenSeq(<<>>) = <<>> /\ <<>> \in Seq(Seq(Events)) /\ es \o <<>> = es
    BY FlattenEmpty, EmptySeq, ConcatEmptySeq DEF Kept
<1>2. ASSUME NEW k \in Nat, NEW fs, Kept(p, fs, Saying(h, k, done, text, t))
      PROVE  Kept(p, fs \o block(k), Saying(h, k + 1, done, text, t))
    <2>1. done <= h + k
        OBVIOUS
    <2>. QED
        BY <1>2, <2>1, CallSaid DEF FinalCall
<1>3. ASSUME NEW k \in Nat
      PROVE  /\ block(k) \in Seq(Events) /\ ToolBlocks(hasText, 0) = <<>>
             /\ ToolBlocks(hasText, k + 1) = Append(ToolBlocks(hasText, k), block(k))
    <2>1. h + k \in Nat /\ k + 1 \in Nat
        OBVIOUS
    <2>. QED
        BY <2>1, CallBlocks, SpokenIsEvents, ToolBlocksGrow
<1>. HIDE DEF block
<1>4. lists[0] = <<>> /\ led[0] = Saying(h, 0, done, text, t)
    BY <1>3
<1>5. Grows(lists, more)
    <2>1. ASSUME NEW k \in Nat
          PROVE  more[k] \in Seq(Events) /\ lists[k + 1] = Append(lists[k], more[k])
        <3>1. k + 1 \in Nat /\ more[k] = block(k)
            OBVIOUS
        <3>. QED
            BY <1>3, <3>1
    <2>. HIDE DEF lists, more
    <2>. QED
        BY <2>1 DEF Grows
<1>6. Leads(p, more, led)
    BY <1>2 DEF Leads
<1>7. lists[n] = ToolBlocks(hasText, n) /\ led[n] = Saying(h, n, done, text, t)
    OBVIOUS
<1>. HIDE DEF lists, more, led
<1>8. Kept(p, es \o FlattenSeq(lists[n]), led[n])
    <2>1. lists[0] \in Seq(Seq(Events)) /\ Kept(p, es \o FlattenSeq(lists[0]), led[0])
        BY <1>1, <1>4
    <2>. QED
        BY <1>1, <1>5, <1>6, <2>1, ListSaid
<1>. QED
    BY <1>7, <1>8

LEMMA ItemBlocksGrow ==
    ASSUME NEW s, NEW h \in {0, 1}, NEW n \in Nat, NEW S, Seq(Spoken("responses")) \subseteq S,
           finishTextItem(s, 0, Text(messageID(StartInstant), s.text)) \in S
    PROVE  /\ ItemBlocks(s, h, n) \in Seq(S)
           /\ ItemBlocks(s, h, n + 1) = Append(ItemBlocks(s, h, n), emitCompletedToolItem(h + n, FinalCall(n + 1)))
           /\ ItemBlocks(s, 0, 0) = <<>>
           /\ ItemBlocks(s, 1, 0) = <<finishTextItem(s, 0, Text(messageID(StartInstant), s.text))>>
<1>. DEFINE block(k) == IF k <= h THEN finishTextItem(s, 0, Text(messageID(StartInstant), s.text))
                        ELSE emitCompletedToolItem(k - 1, FinalCall(k - h))
<1>1. \A i \in 1..h + n : block(i) \in S
    <2>1. \A i \in 1..h + n : i <= h \/ (i - 1 \in Nat /\ i - h \in Nat)
        OBVIOUS
    <2>2. \A i \in 1..h + n : i <= h \/ emitCompletedToolItem(i - 1, FinalCall(i - h)) \in S
        BY <2>1, CallBlocks
    <2>. QED
        BY <2>2
<1>2. ItemBlocks(s, h, n) \in Seq(S)
    <2>1. ItemBlocks(s, h, n) = [i \in 1..h + n |-> block(i)]
        BY DEF ItemBlocks
    <2>. HIDE DEF block
    <2>. QED
        BY <1>1, <2>1
<1>3. ~(h + n + 1 <= h) /\ h + n + 1 - 1 = h + n /\ h + n + 1 - h = n + 1 /\ h + (n + 1) = h + n + 1
      /\ h + n \in Nat /\ n + 1 \in Nat
    OBVIOUS
<1>. DEFINE short == ItemBlocks(s, h, n)
            long == ItemBlocks(s, h, n + 1)
<1>4. /\ DOMAIN short = 1..h + n /\ DOMAIN long = 1..h + n + 1
      /\ short = [i \in 1..h + n |-> short[i]] /\ long = [i \in 1..h + n + 1 |-> long[i]]
      /\ \A i \in 1..h + n : short[i] = long[i]
    BY <1>3 DEF ItemBlocks
<1>5. long[h + n + 1] = emitCompletedToolItem(h + n, FinalCall(n + 1))
    BY <1>3 DEF ItemBlocks
<1>6. long[h + n + 1] \in S
    BY <1>3, <1>5, CallBlocks
<1>. HIDE DEF short, long, block
<1>7. long = Append(short, long[h + n + 1])
    BY <1>2, <1>3, <1>4, <1>6, OneMore DEF short
<1>8. ItemBlocks(s, 0, 0) = <<>>
    BY DEF ItemBlocks
<1>9. ItemBlocks(s, 1, 0) = <<finishTextItem(s, 0, Text(messageID(StartInstant), s.text))>>
    BY DEF ItemBlocks
<1>. QED
    BY <1>2, <1>5, <1>7, <1>8, <1>9 DEF short, long

LEMMA ItemBlocksSaid ==
    ASSUME NEW p, NEW es \in Seq(Events), NEW h \in {0, 1}, NEW s, s.text \in Fragments, NEW t, NEW n \in Nat,
           finishTextItem(s, 0, Text(messageID(StartInstant), s.text)) \in Seq(Events),
           Kept(p, es \o FlattenSeq(ItemBlocks(s, h, 0)), Saying(h, 0, h, s.text, t))
    PROVE  Kept(p, es \o FlattenSeq(ItemBlocks(s, h, n)), Saying(h, n, h + n, s.text, t))
<1>. DEFINE block(k) == emitCompletedToolItem(h + k, FinalCall(k + 1))
            lists == [k \in Nat |-> ItemBlocks(s, h, k)]
            more == [k \in Nat |-> block(k)]
            led == [k \in Nat |-> Saying(h, k, h + k, s.text, t)]
<1>1. ASSUME NEW k \in Nat, NEW fs, Kept(p, fs, Saying(h, k, h + k, s.text, t))
      PROVE  Kept(p, fs \o block(k), Saying(h, k + 1, h + (k + 1), s.text, t))
    <2>1. h + k <= h + k /\ h + (k + 1) = h + k + 1
        OBVIOUS
    <2>. QED
        BY <1>1, <2>1, CallSaid DEF FinalCall
<1>2. ASSUME NEW k \in Nat
      PROVE  /\ block(k) \in Seq(Events) /\ ItemBlocks(s, h, k) \in Seq(Seq(Events))
             /\ ItemBlocks(s, h, k + 1) = Append(ItemBlocks(s, h, k), block(k))
    <2>1. h + k \in Nat /\ k + 1 \in Nat
        OBVIOUS
    <2>2. Seq(Spoken("responses")) \subseteq Seq(Events)
        BY SpokenIsEvents
    <2>3. block(k) \in Seq(Events)
        BY <2>1, <2>2, CallBlocks
    <2>. QED
        BY <2>2, <2>3, ItemBlocksGrow
<1>. HIDE DEF block
<1>3. lists[0] = ItemBlocks(s, h, 0) /\ led[0] = Saying(h, 0, h, s.text, t)
    OBVIOUS
<1>4. Grows(lists, more)
    <2>1. ASSUME NEW k \in Nat
          PROVE  more[k] \in Seq(Events) /\ lists[k + 1] = Append(lists[k], more[k])
        <3>1. k + 1 \in Nat /\ more[k] = block(k)
            OBVIOUS
        <3>. QED
            BY <1>2, <3>1
    <2>. HIDE DEF lists, more
    <2>. QED
        BY <2>1 DEF Grows
<1>5. Leads(p, more, led)
    BY <1>1 DEF Leads
<1>6. lists[n] = ItemBlocks(s, h, n) /\ led[n] = Saying(h, n, h + n, s.text, t)
    OBVIOUS
<1>. HIDE DEF lists, more, led
<1>7. Kept(p, es \o FlattenSeq(lists[n]), led[n])
    <2>1. lists[0] \in Seq(Seq(Events)) /\ Kept(p, es \o FlattenSeq(lists[0]), led[0])
        BY <1>2, <1>3
    <2>. QED
        BY <1>4, <1>5, <2>1, ListSaid
<1>. QED
    BY <1>6, <1>7

(***************************************************************************)
(* How a stream ends.                                                      *)
(***************************************************************************)
ShownBy(es, types) == \E i \in DOMAIN es : es[i].type \in types
Failures  == {"error", "http_error"}
Successes == {"json", "finish_stop", "finish_tool_calls", "completed"}

Told(p, es, kind) ==
    /\ es \in Seq(Events) /\ es # <<>> /\ Good(p, es) /\ Ending(p, es[Len(es)])
    /\ kind = "error" <=> ShownBy(es, Failures)
    /\ kind = "reply" <=> ShownBy(es, Successes)

\* The response names the todo.
Named(es, t) ==
    \A i \in DOMAIN es : es[i].type \in {"created", "completed"} => todoIDFromResponseID(es[i].item.id) = t

LEMMA KeptIsNamed ==
    ASSUME NEW p, NEW es, NEW led, Kept(p, es, led), NEW t, led.rid = responseID(t, StartInstant)
    PROVE  Named(es, t)
BY DEF Kept, Mentions, Named, todoIDFromResponseID, responseID

LEMMA Concluded ==
    ASSUME NEW p, NEW es, NEW a, NEW b, NEW c, NEW d, NEW f, NEW g, NEW h, NEW w,
           Kept(p, es, Book(a, b, c, d, f, g, h, w)), NEW t, h = responseID(t, StartInstant),
           NEW e \in Events, Ending(p, e), NEW kind,
           e.type \in {"done", "message_stop", "error", "completed", "json", "http_error"},
           e.type \in {"json", "http_error"} => es = <<>>,
           e.type = "completed" =>
             /\ Len(a) = b
             /\ Contents(e.output) = SeenOf(p, Book(a, b, c, d, f, g, h, w))
             /\ e.item.id = h
             /\ \A k \in Nat : k < Len(e.output) => e.output[k + 1].id = g[k],
           kind = "error" <=> "error" \in w \/ e.type \in Failures,
           kind = "reply" <=> "finish_stop" \in w \/ "finish_tool_calls" \in w \/ e.type \in Successes
    PROVE  /\ Told(p, Append(es, e), kind) /\ Named(Append(es, e), t)
           /\ Seen(p, Append(es, e)) = SeenOf(p, Book(a, b, c, d, f, g, h, w))
<1>. DEFINE led == Book(a, b, c, d, f, g, h, w)
<1>1. led.kinds = a /\ led.shut = b /\ led.ids = g /\ led.rid = h /\ led.shown = w
    BY BookFields
<1>. HIDE DEF led
<1>2. Kept(p, es, led) /\ (e.type = "completed" => Contents(e.output) = SeenOf(p, led))
    BY DEF led
<1>3. es \in Seq(Events) /\ Mentions(p, es, led) /\ Announced(es, led) /\ p \in Protocols
    BY <1>2 DEF Kept
<1>4. /\ Good(p, Append(es, e)) /\ Append(es, e) \in Seq(Events)
      /\ Seen(p, Append(es, e)) = SeenOf(p, led)
    BY <1>1, <1>2, Conclude
<1>5. \A types : ShownBy(Append(es, e), types) <=> ShownBy(es, types) \/ e.type \in types
    BY <1>3, LastOfMore DEF ShownBy
<1>6. \A i \in DOMAIN es : es[i].type \notin {"json", "http_error", "completed"}
    BY <1>3 DEF Mentions, Ending, Protocols
<1>7. ShownBy(es, Failures) <=> "error" \in w
    BY <1>1, <1>3, <1>6 DEF ShownBy, Failures, Announced, Shown
<1>8. ShownBy(es, Successes) <=> "finish_stop" \in w \/ "finish_tool_calls" \in w
    BY <1>1, <1>3, <1>6 DEF ShownBy, Successes, Announced, Shown
<1>9. /\ Append(es, e) # <<>> /\ Ending(p, Append(es, e)[Len(Append(es, e))])
    BY <1>3, LastOfMore, EmptySeq
<1>10. Named(Append(es, e), t)
    <2>1. Named(es, t)
        BY <1>1, <1>2, KeptIsNamed
    <2>2. e.type \in {"created", "completed"} => todoIDFromResponseID(e.item.id) = t
        BY DEF todoIDFromResponseID, responseID
    <2>. QED
        BY <1>3, <2>1, <2>2, LastOfMore DEF Named
<1>11. Told(p, Append(es, e), kind)
    BY <1>4, <1>5, <1>7, <1>8, <1>9 DEF Told
<1>. QED
    BY <1>4, <1>10, <1>11 DEF led

LEMMA ErrorTold ==
    ASSUME NEW p, NEW es, NEW s, NEW t, Kept(p, es, Telling(p, s, t))
    PROVE  Told(p, es \o errorEvents(p), "error") /\ Named(es \o errorEvents(p), t)
<1>. DEFINE r == responseID(t, StartInstant)
<1>1. PICK a, d, g : Telling(p, s, t) = Book(a, 0, 0, d, <<>>, g, r, {})
    BY DEF Telling
<1>2. es \in Seq(Events) /\ p \in Protocols
    BY DEF Kept
<1>3. /\ Plain("error") \in Events /\ Plain("error").type = "error"
      /\ Plain("done") \in Events /\ Plain("done").type = "done"
    BY MadePlain DEF Vocabulary
<1>4. CASE p = "chat"
    <2>1. es \o errorEvents(p) = Append(Append(es, Plain("error")), Plain("done"))
        BY <1>2, <1>3, <1>4, OneByOne DEF errorEvents
    <2>2. Kept(p, Append(es, Plain("error")), Book(a, 0, 0, d, <<>>, g, r, {} \cup {"error"}))
        BY <1>1, <1>4, OutcomeShown DEF Shown
    <2>3. Ending(p, Plain("done"))
        BY <1>3, <1>4 DEF Ending
    <2>4. /\ "error" \in {} \cup {"error"}
          /\ ~("finish_stop" \in {} \cup {"error"} \/ "finish_tool_calls" \in {} \cup {"error"}
               \/ Plain("done").type \in Successes)
        BY <1>3 DEF Successes
    <2>. DEFINE w == {} \cup {"error"}
                e == Plain("done")
                fs == Append(es, Plain("error"))
    <2>. HIDE DEF w, e, fs
    <2>5. Told(p, Append(fs, e), "error") /\ Named(Append(fs, e), t)
        <3>1. Kept(p, fs, Book(a, 0, 0, d, <<>>, g, r, w)) /\ e \in Events /\ e.type = "done" /\ Ending(p, e)
            BY <1>3, <2>2, <2>3 DEF w, e, fs
        <3>2. "error" \in w /\ ~("finish_stop" \in w \/ "finish_tool_calls" \in w \/ e.type \in Successes)
            BY <2>4 DEF w, e
        <3>. QED
            BY <3>1, <3>2, Concluded
    <2>. QED
        BY <2>1, <2>5 DEF e, fs
<1>5. CASE p # "chat"
    <2>1. es \o errorEvents(p) = Append(es, Plain("error"))
        BY <1>2, <1>3, <1>5, OneByOne DEF errorEvents
    <2>2. Ending(p, Plain("error"))
        BY <1>2, <1>3, <1>5 DEF Ending, Protocols
    <2>. QED
        BY <1>1, <1>3, <2>1, <2>2, Concluded DEF Failures, Successes
<1>. QED
    BY <1>4, <1>5

(***************************************************************************)
(* A finished reply.                                                       *)
(***************************************************************************)
FinalCalls(n) == [i \in 1..n |-> FinalCall(i)]
FinalItems(h, n, text, instant) ==
    [k \in 1..h + n |-> IF k <= h THEN Text(messageID(instant), text) ELSE FinalCall(k - h)]

LEMMA FinalTypes ==
    ASSUME NEW h \in {0, 1}, NEW n \in Nat, NEW text \in Fragments, NEW instant \in {StartInstant, FinishInstant}
    PROVE  /\ FinalCalls(n) \in Seq(Items) /\ Len(FinalCalls(n)) = n
           /\ FinalItems(h, n, text, instant) \in Seq(Items) /\ Len(FinalItems(h, n, text, instant)) = h + n
           /\ <<Text(messageID(instant), text)>> \in Seq(Items)
<1>1. \A i \in Nat : FinalCall(i) \in Items
    <2>1. \A i \in Nat : callID(FinishInstant, i) \in Identifiers /\ Arguments(i) \in Fragments
        BY MadeNames
    <2>. QED
        BY <2>1, MadeItems DEF FinalCall
<1>2. Text(messageID(instant), text) \in Items
    <2>1. messageID(instant) \in Identifiers
        BY MadeNames
    <2>. QED
        BY <2>1, MadeItems
<1>3. FinalCalls(n) \in Seq(Items) /\ Len(FinalCalls(n)) = n
    BY <1>1 DEF FinalCalls
<1>4. FinalItems(h, n, text, instant) \in Seq(Items) /\ Len(FinalItems(h, n, text, instant)) = h + n
    <2>1. ASSUME NEW k \in 1..h + n
          PROVE  (IF k <= h THEN Text(messageID(instant), text) ELSE FinalCall(k - h)) \in Items
        <3>1. CASE k <= h
            BY <1>2, <3>1
        <3>2. CASE ~(k <= h)
            <4>1. k - h \in Nat
                BY <3>2
            <4>. QED
                BY <1>1, <3>2, <4>1
        <3>. QED
            BY <3>1, <3>2
    <2>2. FinalItems(h, n, text, instant) \in Seq(Items)
        BY <2>1 DEF FinalItems
    <2>. QED
        BY <2>2, LenProperties DEF FinalItems
<1>. QED
    BY <1>2, <1>3, <1>4

LEMMA BuildIs ==
    ASSUME NEW h, NEW n \in Nat, NEW text \in Fragments, h = IF HasText(text, n) THEN 1 ELSE 0
    PROVE  /\ build(text, n, FinishInstant) = FinalItems(h, n, text, FinishInstant)
           /\ buildChat(text, n, FinishInstant) = <<Text(messageID(FinishInstant), text)>> \o FinalCalls(n)
           /\ h \in {0, 1}
<1>1. buildChat(text, n, FinishInstant) = <<Text(messageID(FinishInstant), text)>> \o FinalCalls(n)
    BY DEF buildChat, FinalCalls, FinalCall
<1>2. build(text, n, FinishInstant) =
        (IF HasText(text, n) THEN <<Text(messageID(FinishInstant), text)>> ELSE <<>>) \o FinalCalls(n)
    BY DEF build, FinalCalls, FinalCall
<1>. DEFINE calls == FinalCalls(n)
            items == FinalItems(h, n, text, FinishInstant)
            x == Text(messageID(FinishInstant), text)
<1>3. /\ calls \in Seq(Items) /\ Len(calls) = n /\ items \in Seq(Items) /\ Len(items) = h + n
      /\ <<x>> \in Seq(Items) /\ h \in {0, 1}
    BY FinalTypes
<1>4. ASSUME NEW i \in 1..n
      PROVE  calls[i] = FinalCall(i)
    BY DEF FinalCalls
<1>5. ASSUME NEW k \in 1..h + n
      PROVE  items[k] = IF k <= h THEN x ELSE FinalCall(k - h)
    BY DEF FinalItems
<1>. HIDE DEF calls, items, x
<1>6. CASE HasText(text, n)
    <2>1. h = 1
        BY <1>6
    <2>2. /\ <<x>> \o calls \in Seq(Items) /\ Len(<<x>> \o calls) = 1 + n
          /\ \A k \in 1..1 + n : (<<x>> \o calls)[k] = IF k <= 1 THEN x ELSE calls[k - 1]
        BY <1>3, ConcatProperties
    <2>3. ASSUME NEW k \in 1..1 + n
          PROVE  (<<x>> \o calls)[k] = items[k]
        <3>1. CASE k <= 1
            BY <1>5, <2>1, <2>2, <3>1
        <3>2. CASE ~(k <= 1)
            <4>1. k - 1 \in 1..n
                BY <3>2
            <4>. QED
                BY <1>4, <1>5, <2>1, <2>2, <3>2, <4>1
        <3>. QED
            BY <3>1, <3>2
    <2>4. <<x>> \o calls = items
        BY <1>3, <2>1, <2>2, <2>3, SeqEqual
    <2>. QED
        BY <1>1, <1>2, <1>3, <1>6, <2>4 DEF calls, items, x
<1>7. CASE ~HasText(text, n)
    <2>1. h = 0
        BY <1>7
    <2>2. <<>> \o calls = calls
        BY <1>3, ConcatEmptySeq
    <2>3. ASSUME NEW k \in 1..n
          PROVE  calls[k] = items[k]
        BY <1>4, <1>5, <2>1
    <2>4. calls = items
        BY <1>3, <2>1, <2>3, SeqEqual
    <2>. QED
        BY <1>1, <1>2, <1>3, <1>7, <2>2, <2>4 DEF calls, items, x
<1>. QED
    BY <1>6, <1>7

\* The items opened are those of the reply.
LEMMA SeenIsFinal ==
    ASSUME NEW p, p # "chat", NEW h \in {0, 1}, NEW n \in Nat, NEW text, NEW instant,
           NEW led, led.kinds = KindsOf(h, n), led.data = DataOf(h, n, text)
    PROVE  SeenOf(p, led) = Contents(FinalItems(h, n, text, instant))
<1>. DEFINE items == FinalItems(h, n, text, instant)
<1>1. DOMAIN KindsOf(h, n) = 1..h + n /\ DOMAIN items = 1..h + n
    BY DEF KindsOf, FinalItems
<1>2. ASSUME NEW k \in 1..h + n
      PROVE  KindsOf(h, n)[k] = items[k].kind /\ DataOf(h, n, text)[k - 1] = items[k].data
    <2>1. k - 1 \in Nat /\ h \in Nat /\ (k - 1 < h <=> k <= h) /\ k - 1 < h + n /\ k - 1 - h + 1 = k - h
        OBVIOUS
    <2>2. /\ KindsOf(h, n)[k] = IF k <= h THEN "text" ELSE "call"
          /\ items[k] = IF k <= h THEN Text(messageID(instant), text) ELSE FinalCall(k - h)
        BY DEF KindsOf, FinalItems
    <2>3. DataOf(h, n, text)[k - 1] = IF k <= h THEN text ELSE Arguments(k - h)
        BY <2>1 DEF DataOf
    <2>. QED
        BY <2>2, <2>3 DEF Text, Call, FinalCall
<1>. HIDE DEF items
<1>3. SeenOf(p, led) = [k \in 1..h + n |-> [kind |-> KindsOf(h, n)[k], data |-> DataOf(h, n, text)[k - 1]]]
    BY <1>1 DEF SeenOf
<1>4. Contents(items) = [k \in 1..h + n |-> [kind |-> items[k].kind, data |-> items[k].data]]
    BY <1>1 DEF Contents
<1>5. SeenOf(p, led) = Contents(items)
    BY <1>2, <1>3, <1>4
<1>. QED
    BY <1>5 DEF items

LEMMA ContentsMore ==
    ASSUME NEW x, x \in Items, NEW items, items \in Seq(Items)
    PROVE  Contents(<<x>> \o items) = <<[kind |-> x.kind, data |-> x.data]>> \o Contents(items)
<1>. DEFINE S == [kind : Kinds, data : Fragments]
            y == [kind |-> x.kind, data |-> x.data]
            c == Contents(items)
            l == <<x>> \o items
<1>1. Len(items) \in Nat /\ DOMAIN items = 1..Len(items) /\ \A i \in 1..Len(items) : items[i] \in Items
    BY LenProperties, ElementOfSeq
<1>2. y \in S
    BY DEF Items
<1>3. /\ c \in Seq(S) /\ Len(c) = Len(items)
      /\ \A i \in 1..Len(items) : c[i] = [kind |-> items[i].kind, data |-> items[i].data]
    <2>1. c = [i \in 1..Len(items) |-> [kind |-> items[i].kind, data |-> items[i].data]]
        BY <1>1 DEF Contents
    <2>2. \A i \in 1..Len(items) : [kind |-> items[i].kind, data |-> items[i].data] \in S
        BY <1>1 DEF Items
    <2>. HIDE DEF c, S
    <2>. QED
        BY <1>1, <2>1, <2>2
<1>4. /\ l \in Seq(Items) /\ Len(l) = 1 + Len(items)
      /\ \A i \in 1..1 + Len(items) : l[i] = IF i <= 1 THEN x ELSE items[i - 1]
    <2>1. <<x>> \in Seq(Items) /\ Len(<<x>>) = 1 /\ <<x>>[1] = x
        OBVIOUS
    <2>. QED
        BY <1>1, <2>1, ConcatProperties
<1>. HIDE DEF S, y, c, l
<1>5. /\ <<y>> \o c \in Seq(S) /\ Len(<<y>> \o c) = 1 + Len(items)
      /\ \A i \in 1..1 + Len(items) : (<<y>> \o c)[i] = IF i <= 1 THEN y ELSE c[i - 1]
    <2>1. <<y>> \in Seq(S) /\ Len(<<y>>) = 1 /\ <<y>>[1] = y
        BY <1>2
    <2>. QED
        BY <1>1, <1>3, <2>1, ConcatProperties
<1>6. DOMAIN l = 1..1 + Len(items) /\ DOMAIN (<<y>> \o c) = 1..1 + Len(items)
    BY <1>4, <1>5, LenProperties
<1>7. Contents(l) = [i \in 1..1 + Len(items) |-> [kind |-> l[i].kind, data |-> l[i].data]]
    BY <1>6 DEF Contents
<1>8. ASSUME NEW i \in 1..1 + Len(items)
      PROVE  (<<y>> \o c)[i] = [kind |-> l[i].kind, data |-> l[i].data]
    <2>1. CASE i <= 1
        BY <1>4, <1>5, <2>1 DEF y
    <2>2. CASE ~(i <= 1)
        <3>1. i - 1 \in 1..Len(items)
            BY <1>1, <2>2
        <3>. QED
            BY <1>3, <1>4, <1>5, <2>2, <3>1
    <2>. QED
        BY <2>1, <2>2
<1>9. <<y>> \o c = [i \in 1..1 + Len(items) |-> (<<y>> \o c)[i]]
    BY <1>5, <1>6
<1>. QED
    BY <1>7, <1>8, <1>9 DEF l, y, c

LEMMA ChatFinished ==
    ASSUME NEW p, p = "chat", NEW es, NEW s, SoFar(s), NEW t, Kept(p, es, Telling(p, s, t)),
           NEW r, r.calls \in Nat
    PROVE  /\ Told(p, es \o chatFinish(r), "reply") /\ Named(es \o chatFinish(r), t)
           /\ Seen(p, es \o chatFinish(r)) = Contents(buildChat(s.text, r.calls, FinishInstant))
<1>. DEFINE n == r.calls
            calls == FinalCalls(n)
            id == responseID(t, StartInstant)
            d == DataOf(1, 0, s.text)
            led(f, w) == Book(KindsOf(0, 0), 0, 0, d, f, NamesOf(1), id, w)
            given == [Plain("tool_calls") EXCEPT !.output = calls]
            first == IF n > 0 THEN <<given, Plain("finish_tool_calls")>> ELSE <<Plain("finish_stop")>>
            usage == IF request.includeUsage /\ r.usage THEN <<Plain("usage")>> ELSE <<>>
            done == Plain("done")
<1>1. chatFinish(r) = (first \o usage) \o <<done>>
    BY DEF chatFinish, FinalCalls, FinalCall
<1>2. es \in Seq(Events) /\ s.text \in Fragments /\ Kept(p, es, led(<<>>, {}))
    BY DEF Kept, SoFar, Telling
<1>3. calls \in Seq(Items) /\ <<>> \o calls = calls /\ (n = 0 => calls = <<>>)
    <2>1. calls \in Seq(Items) /\ Len(calls) = n
        BY <1>2, FinalTypes
    <2>. QED
        BY <2>1, ConcatEmptySeq, EmptySeq
<1>4. /\ \A x \in {"finish_tool_calls", "finish_stop", "usage", "done"} :
           Plain(x) \in Events /\ Plain(x).type = x /\ Plain(x) \in Spoken("chat")
      /\ given \in Events /\ given.type = "tool_calls" /\ given \in Spoken("chat")
    <2>1. ASSUME NEW x \in {"finish_tool_calls", "finish_stop", "usage", "done"}
          PROVE  Plain(x) \in Events /\ Plain(x).type = x /\ Plain(x) \in Spoken("chat")
        <3>1. x \in Vocabulary /\ x \in EventTypes["chat"]
            BY DEF Vocabulary, EventTypes
        <3>. QED
            BY <3>1, MadePlain DEF Spoken
    <2>2. given \in Events /\ given.type = "tool_calls"
        <3>1. "tool_calls" \in Vocabulary
            BY DEF Vocabulary
        <3>. QED
            BY <1>3, <3>1, MadeCalls
    <2>3. given \in Spoken("chat")
        <3>. HIDE DEF given
        <3>. QED
            BY <2>2 DEF Spoken, EventTypes
    <2>. QED
        BY <2>1, <2>2, <2>3
<1>5. Len(KindsOf(0, 0)) = 0
    BY <1>2, TextMoves
<1>. HIDE DEF d, id, calls
<1>6. \E x \in {"finish_tool_calls", "finish_stop"} :
        Kept(p, es \o first, led(calls, {} \cup {x}))
    <2>1. CASE n > 0
        <3>1. Kept(p, Append(es, given), led(<<>> \o calls, {}))
            BY <1>2, <1>3, CallsGiven
        <3>2. Kept(p, Append(es, given), led(calls, {}))
            BY <1>3, <3>1
        <3>. HIDE DEF given
        <3>3. Kept(p, Append(Append(es, given), Plain("finish_tool_calls")), led(calls, {} \cup {"finish_tool_calls"}))
            <4>1. "finish_tool_calls" \in Shown
                BY DEF Shown
            <4>. QED
                BY <1>5, <3>2, <4>1, OutcomeShown
        <3>4. es \o first = Append(Append(es, given), Plain("finish_tool_calls"))
            BY <1>2, <1>4, <2>1, OneByOne
        <3>. QED
            BY <3>3, <3>4
    <2>2. CASE ~(n > 0)
        <3>1. calls = <<>>
            BY <1>3, <2>2
        <3>2. Kept(p, Append(es, Plain("finish_stop")), led(<<>>, {} \cup {"finish_stop"}))
            <4>1. "finish_stop" \in Shown
                BY DEF Shown
            <4>. QED
                BY <1>2, <1>5, <4>1, OutcomeShown
        <3>3. es \o first = Append(es, Plain("finish_stop"))
            BY <1>2, <1>4, <2>2, OneByOne
        <3>. QED
            BY <3>1, <3>2, <3>3
    <2>. QED
        BY <2>1, <2>2
<1>7. first \in Seq(Spoken("chat")) /\ usage \in Seq(Spoken("chat")) /\ <<done>> \in Seq(Spoken("chat"))
    <2>1. first \in Seq(Spoken("chat"))
        BY <1>4
    <2>2. usage \in Seq(Spoken("chat"))
        BY <1>4
    <2>. QED
        BY <1>4, <2>1, <2>2
<1>. HIDE DEF given, first
<1>8. PICK x \in {"finish_tool_calls", "finish_stop"} :
        Kept(p, (es \o first) \o usage, led(calls, {} \cup {x}))
    <2>1. PICK x \in {"finish_tool_calls", "finish_stop"} : Kept(p, es \o first, led(calls, {} \cup {x}))
        BY <1>6
    <2>2. es \o first \in Seq(Events)
        BY <2>1 DEF Kept
    <2>3. CASE request.includeUsage /\ r.usage
        <3>1. Kept(p, Append(es \o first, Plain("usage")), led(calls, {} \cup {x}))
            BY <1>4, <2>1, Aside
        <3>2. (es \o first) \o usage = Append(es \o first, Plain("usage"))
            BY <1>4, <2>2, <2>3, OneByOne
        <3>. QED
            BY <3>1, <3>2
    <2>4. CASE ~(request.includeUsage /\ r.usage)
        <3>1. (es \o first) \o usage = es \o first
            BY <2>2, <2>4, ConcatEmptySeq
        <3>. QED
            BY <2>1, <3>1
    <2>. QED
        BY <2>3, <2>4
<1>. HIDE DEF usage
<1>9. es \o chatFinish(r) = Append((es \o first) \o usage, done)
    <2>1. first \in Seq(Events) /\ usage \in Seq(Events) /\ done \in Events
        BY <1>4, <1>7, SpokenIsEvents
    <2>2. first \o usage \in Seq(Events) /\ es \o (first \o usage) = (es \o first) \o usage
        BY <1>2, <2>1, ConcatProperties, Regrouped, SMTT(30)
    <2>. HIDE DEF done
    <2>3. es \o ((first \o usage) \o <<done>>) = Append(es \o (first \o usage), done)
        <3>. DEFINE fs == first \o usage
        <3>1. fs \in Seq(Events)
            BY <2>2
        <3>. HIDE DEF fs
        <3>2. es \o (fs \o <<done>>) = Append(es \o fs, done)
            BY <1>2, <2>1, <3>1, Chained
        <3>. QED
            BY <3>2 DEF fs
    <2>. QED
        BY <1>1, <2>2, <2>3
<1>10. /\ Told(p, Append((es \o first) \o usage, done), "reply") /\ Named(Append((es \o first) \o usage, done), t)
       /\ Seen(p, Append((es \o first) \o usage, done)) = SeenOf(p, led(calls, {} \cup {x}))
    <2>. DEFINE w == {} \cup {x}
                fs == (es \o first) \o usage
    <2>1. "error" \notin w /\ ("finish_stop" \in w \/ "finish_tool_calls" \in w)
        OBVIOUS
    <2>2. done \in Events /\ done.type = "done" /\ Ending(p, done) /\ done.type \notin Failures
        BY <1>4 DEF Ending, Failures
    <2>3. Kept(p, fs, led(calls, w))
        BY <1>8
    <2>. HIDE DEF w, fs, done
    <2>4. /\ Told(p, Append(fs, done), "reply") /\ Named(Append(fs, done), t)
          /\ Seen(p, Append(fs, done)) = SeenOf(p, led(calls, w))
        BY <2>1, <2>2, <2>3, Concluded DEF id
    <2>. QED
        BY <2>4 DEF w, fs
<1>11. SeenOf(p, led(calls, {} \cup {x})) = Contents(buildChat(s.text, r.calls, FinishInstant))
    <2>. DEFINE y == Text(messageID(FinishInstant), s.text)
    <2>1. led(calls, {} \cup {x}).data = d /\ led(calls, {} \cup {x}).called = calls
        BY BookFields
    <2>2. d[0] = s.text
        BY <1>2, TextMoves DEF d
    <2>3. SeenOf(p, led(calls, {} \cup {x})) = <<[kind |-> "text", data |-> s.text]>> \o Contents(calls)
        BY <2>1, <2>2 DEF SeenOf
    <2>4. y \in Items /\ y.kind = "text" /\ y.data = s.text
        <3>1. messageID(FinishInstant) \in Identifiers
            BY MadeNames
        <3>. QED
            BY <1>2, <3>1, MadeItems DEF Text
    <2>5. buildChat(s.text, r.calls, FinishInstant) = <<y>> \o calls
        BY DEF buildChat, calls, FinalCalls, FinalCall
    <2>. HIDE DEF y
    <2>6. Contents(<<y>> \o calls) = <<[kind |-> y.kind, data |-> y.data]>> \o Contents(calls)
        BY <1>3, <2>4, ContentsMore
    <2>. QED
        BY <2>3, <2>4, <2>5, <2>6
<1>. QED
    BY <1>9, <1>10, <1>11

LEMMA AnthropicFinished ==
    ASSUME NEW p, p = "anthropic", NEW es, NEW s, SoFar(s), NEW t \in Nat, Kept(p, es, Telling(p, s, t)),
           NEW r, r.calls \in Nat
    PROVE  /\ Told(p, es \o anthropicFinish(s, r), "reply") /\ Named(es \o anthropicFinish(s, r), t)
           /\ Seen(p, es \o anthropicFinish(s, r)) = Contents(build(s.text, r.calls, FinishInstant))
<1>. DEFINE n == r.calls
            hasText == s.textStarted \/ r.calls = 0
            h == IF HasText(s.text, n) THEN 1 ELSE 0
            close == Event("close", 0, Text(messageID(StartInstant), <<>>))
            first == IF hasText THEN startTextBlock(s) \o <<close>> ELSE <<>>
            blocks == FlattenSeq(ToolBlocks(hasText, n))
            outcome == Plain(IF r.calls > 0 THEN "finish_tool_calls" ELSE "finish_stop")
            stop == Plain("message_stop")
            id == responseID(t, StartInstant)
            led(w) == Book(KindsOf(h, n), h + n, 0, DataOf(h, n, s.text), <<>>, NamesOf(h), id, w)
<1>1. anthropicFinish(s, r) = (first \o blocks) \o <<outcome, stop>>
    BY DEF anthropicFinish, ToolBlocks, FinalCall
<1>2. es \in Seq(Events) /\ s.text \in Fragments /\ s.textStarted \in BOOLEAN /\ h \in {0, 1}
      /\ hasText = (h = 1) /\ s.textStarted = (s.text # <<>>)
    <2>1. es \in Seq(Events) /\ s.text \in Fragments /\ s.textStarted \in BOOLEAN /\ s.textStarted = (s.text # <<>>)
        BY DEF Kept, SoFar
    <2>2. hasText <=> HasText(s.text, n)
        BY <2>1 DEF HasText
    <2>3. CASE HasText(s.text, n)
        BY <2>1, <2>2, <2>3
    <2>4. CASE ~HasText(s.text, n)
        BY <2>1, <2>2, <2>4
    <2>. QED
        BY <2>3, <2>4
<1>3. PICK x \in {"finish_tool_calls", "finish_stop"} : outcome = Plain(x)
    OBVIOUS
<1>4. /\ outcome \in Events /\ outcome \in Spoken("anthropic")
      /\ stop \in Events /\ stop.type = "message_stop" /\ stop \in Spoken("anthropic")
    <2>1. x \in Vocabulary /\ x \in EventTypes["anthropic"]
        BY DEF Vocabulary, EventTypes
    <2>2. "message_stop" \in Vocabulary /\ "message_stop" \in EventTypes["anthropic"]
        BY DEF Vocabulary, EventTypes
    <2>. QED
        BY <1>3, <2>1, <2>2, MadePlain DEF Spoken
<1>5. first \in Seq(Spoken("anthropic"))
    <2>1. messageID(StartInstant) \in Identifiers /\ <<>> \in Fragments
        BY MadeNames, EmptySeq DEF Fragments
    <2>2. Text(messageID(StartInstant), <<>>) \in Items
        BY <2>1, MadeItems
    <2>3. \A type \in {"open", "close"} :
             Event(type, 0, Text(messageID(StartInstant), <<>>)) \in Spoken("anthropic")
        <3>1. \A type \in {"open", "close"} : type \in Vocabulary /\ type \in EventTypes["anthropic"]
            BY DEF Vocabulary, EventTypes
        <3>2. 0 \in Nat
            OBVIOUS
        <3>. QED
            BY <2>2, <3>1, <3>2, MadeEvents DEF Spoken
    <2>4. startTextBlock(s) \in Seq(Spoken("anthropic"))
        <3>1. CASE s.textStarted
            BY <3>1, EmptySeq DEF startTextBlock
        <3>2. CASE ~s.textStarted
            BY <2>3, <3>2 DEF startTextBlock
        <3>. QED
            BY <3>1, <3>2
    <2>5. <<close>> \in Seq(Spoken("anthropic"))
        BY <2>3
    <2>6. startTextBlock(s) \o <<close>> \in Seq(Spoken("anthropic"))
        BY <2>4, <2>5, ConcatProperties
    <2>7. <<>> \in Seq(Spoken("anthropic"))
        BY EmptySeq
    <2>. QED
        BY <2>6, <2>7
<1>6. blocks \in Seq(Spoken("anthropic"))
    <2>1. ToolBlocks(hasText, n) \in Seq(Seq(Spoken("anthropic")))
        BY <1>2, ToolBlocksGrow
    <2>2. <<>> \in Seq(Spoken("anthropic"))
        BY EmptySeq
    <2>. QED
        BY <2>1, <2>2, FlattenAppend
<1>7. Kept(p, es \o first, Saying(h, 0, 0, s.text, t))
    <2>1. CASE HasText(s.text, n)
        <3>1. h = 1 /\ hasText
            BY <1>2, <2>1
        <3>2. Kept(p, es \o (startTextBlock(s) \o <<close>>), Saying(1, 0, 0, s.text, t))
            BY TextSaid
        <3>. QED
            BY <3>1, <3>2
    <2>2. CASE ~HasText(s.text, n)
        <3>1. h = 0 /\ ~hasText /\ ~s.textStarted
            BY <1>2, <2>2 DEF HasText
        <3>2. es \o first = es
            BY <1>2, <3>1, ConcatEmptySeq
        <3>3. Kept(p, es, Saying(0, 0, 0, s.text, t))
            BY <3>1, NoTextSaid
        <3>. QED
            BY <3>1, <3>2, <3>3
    <2>. QED
        BY <2>1, <2>2
<1>. HIDE DEF first, blocks, outcome, stop, hasText, h
<1>8. Kept(p, (es \o first) \o blocks, led({}))
    <2>1. 0 <= h /\ 0 \in Nat
        BY <1>2
    <2>2. Kept(p, (es \o first) \o FlattenSeq(ToolBlocks(hasText, n)), Saying(h, n, 0, s.text, t))
        BY <1>2, <1>7, <2>1, ToolBlocksSaid
    <2>. QED
        BY <2>2 DEF blocks, Saying
<1>9. Kept(p, Append((es \o first) \o blocks, outcome), led({} \cup {x}))
    <2>1. Len(KindsOf(h, n)) = h + n
        <3>1. h \in Nat /\ s.text \in Fragments
            BY <1>2
        <3>. QED
            BY <3>1, DataOfType
    <2>2. x \in Shown /\ x # "error"
        BY DEF Shown
    <2>. QED
        BY <1>3, <1>8, <2>1, <2>2, OutcomeShown
<1>. DEFINE fs == Append((es \o first) \o blocks, outcome)
<1>10. es \o anthropicFinish(s, r) = Append(fs, stop)
    <2>1. first \in Seq(Events) /\ blocks \in Seq(Events)
        BY <1>5, <1>6, SpokenIsEvents
    <2>. DEFINE gs == first \o blocks
    <2>2. gs \in Seq(Events) /\ es \o gs = (es \o first) \o blocks
        BY <1>2, <2>1, ConcatProperties, Regrouped, SMTT(30)
    <2>. HIDE DEF gs
    <2>3. es \o (gs \o <<outcome, stop>>) = Append(Append(es \o gs, outcome), stop)
        <3>1. es \in Seq(Events) /\ gs \in Seq(Events)
            BY <1>2, <2>2
        <3>2. outcome \in Events /\ stop \in Events
            BY <1>4
        <3>. DEFINE hs == es \o gs
                    more == <<outcome, stop>>
        <3>3. hs \in Seq(Events)
            BY <3>1, ConcatProperties
        <3>4. more \in Seq(Events)
            BY <3>2
        <3>. HIDE DEF more
        <3>5. es \o (gs \o more) = hs \o more
            BY <3>1, <3>4, Regrouped, SMTT(30)
        <3>. HIDE DEF hs
        <3>6. hs \o <<outcome, stop>> = Append(Append(hs, outcome), stop)
            BY <3>2, <3>3, OneByOne
        <3>. QED
            BY <3>5, <3>6 DEF hs, more
    <2>. QED
        BY <1>1, <2>2, <2>3 DEF gs
<1>11. Told(p, Append(fs, stop), "reply") /\ Named(Append(fs, stop), t)
       /\ Seen(p, Append(fs, stop)) = SeenOf(p, led({} \cup {x}))
    <2>. DEFINE w == {} \cup {x}
    <2>1. "error" \notin w /\ ("finish_stop" \in w \/ "finish_tool_calls" \in w)
        OBVIOUS
    <2>2. stop.type = "message_stop" /\ stop.type \notin Failures /\ stop.type \notin Successes /\ Ending(p, stop)
        BY <1>4 DEF Ending, Failures, Successes
    <2>3. Kept(p, fs, led(w))
        BY <1>9
    <2>. HIDE DEF w, fs
    <2>4. /\ Told(p, Append(fs, stop), "reply") /\ Named(Append(fs, stop), t)
          /\ Seen(p, Append(fs, stop)) = SeenOf(p, led(w))
        <3>1. stop \in Events
            BY <1>4
        <3>. DEFINE a == KindsOf(h, n)
                    b == h + n
                    d == DataOf(h, n, s.text)
                    g == NamesOf(h)
        <3>2. Kept(p, fs, Book(a, b, 0, d, <<>>, g, id, w)) /\ id = responseID(t, StartInstant)
              /\ led(w) = Book(a, b, 0, d, <<>>, g, id, w)
            BY <2>3
        <3>. HIDE DEF a, b, d, g, id, led
        <3>3. /\ Told(p, Append(fs, stop), "reply") /\ Named(Append(fs, stop), t)
              /\ Seen(p, Append(fs, stop)) = SeenOf(p, Book(a, b, 0, d, <<>>, g, id, w))
            BY <2>1, <2>2, <3>1, <3>2, Concluded
        <3>. QED
            BY <3>2, <3>3
    <2>. QED
        BY <2>4 DEF w
<1>12. SeenOf(p, led({} \cup {x})) = Contents(build(s.text, n, FinishInstant))
    <2>1. SeenOf(p, led({} \cup {x})) = Contents(FinalItems(h, n, s.text, FinishInstant))
        <3>. DEFINE l == led({} \cup {x})
        <3>1. l.kinds = KindsOf(h, n) /\ l.data = DataOf(h, n, s.text) /\ p # "chat" /\ n \in Nat
            BY BookFields
        <3>. HIDE DEF l, n
        <3>2. h \in {0, 1}
            BY <1>2
        <3>3. SeenOf(p, l) = Contents(FinalItems(h, n, s.text, FinishInstant))
            BY <3>1, <3>2, SeenIsFinal
        <3>. QED
            BY <3>3 DEF l
    <2>2. build(s.text, n, FinishInstant) = FinalItems(h, n, s.text, FinishInstant)
        BY <1>2, BuildIs DEF h
    <2>. QED
        BY <2>1, <2>2
<1>. QED
    BY <1>10, <1>11, <1>12

\* The items of a final response under the identifiers they were opened with,
\* and what is written of them.
Renewed(items) ==
    [k \in DOMAIN items |->
        IF items[k].kind = "text" THEN Text(messageID(StartInstant), items[k].data) ELSE items[k]]
Written(s, items) ==
    [k \in DOMAIN items |->
        IF items[k].kind = "text" THEN finishTextItem(s, k - 1, items[k])
        ELSE emitCompletedToolItem(k - 1, items[k])]

LEMMA ResponsesWritten ==
    ASSUME NEW s, s.text \in Fragments, NEW r, r.calls \in Nat,
           NEW h, h = IF HasText(s.text, r.calls) THEN 1 ELSE 0
    PROVE  responsesFinish(s, r) =
             FlattenSeq(ItemBlocks(s, h, r.calls))
             \o <<Whole("completed", responseID(todo, StartInstant), FinalItems(h, r.calls, s.text, StartInstant))>>
<1>. DEFINE n == r.calls
            b == build(s.text, n, FinishInstant)
            old == FinalItems(h, n, s.text, FinishInstant)
            new == FinalItems(h, n, s.text, StartInstant)
<1>1. b = old /\ h \in {0, 1} /\ n \in Nat
    BY BuildIs
<1>2. responsesFinish(s, r) =
        FlattenSeq(Written(s, Renewed(b))) \o <<Whole("completed", responseID(todo, StartInstant), Renewed(b))>>
    BY DEF responsesFinish, Written, Renewed, FinalText, FinalID
<1>3. ASSUME NEW k \in 1..h + n
      PROVE  /\ k <= h => /\ old[k] = Text(messageID(FinishInstant), s.text)
                          /\ new[k] = Text(messageID(StartInstant), s.text)
             /\ ~(k <= h) => old[k] = FinalCall(k - h) /\ new[k] = FinalCall(k - h)
    BY DEF FinalItems
<1>4. DOMAIN old = 1..h + n /\ DOMAIN new = 1..h + n /\ new = [k \in 1..h + n |-> new[k]]
    BY DEF FinalItems
<1>5. /\ \A i : FinalCall(i).kind = "call"
      /\ \A id, d : Text(id, d).kind = "text" /\ Text(id, d).data = d
    BY DEF FinalCall, Call, Text
<1>. HIDE DEF old, new, b, n
<1>6. Renewed(old) = new
    <2>1. \A k \in 1..h + n :
            new[k] = IF old[k].kind = "text" THEN Text(messageID(StartInstant), old[k].data) ELSE old[k]
        BY <1>3, <1>5
    <2>2. Renewed(old) = [k \in 1..h + n |-> IF old[k].kind = "text"
                                              THEN Text(messageID(StartInstant), old[k].data) ELSE old[k]]
        BY <1>4 DEF Renewed
    <2>. QED
        BY <1>4, <2>1, <2>2
<1>7. Written(s, new) = ItemBlocks(s, h, n)
    <2>1. Written(s, new) = [k \in 1..h + n |-> IF new[k].kind = "text" THEN finishTextItem(s, k - 1, new[k])
                                                 ELSE emitCompletedToolItem(k - 1, new[k])]
        BY <1>4 DEF Written
    <2>2. ASSUME NEW k \in 1..h + n
          PROVE  (IF new[k].kind = "text" THEN finishTextItem(s, k - 1, new[k])
                  ELSE emitCompletedToolItem(k - 1, new[k]))
                 = (IF k <= h THEN finishTextItem(s, 0, Text(messageID(StartInstant), s.text))
                    ELSE emitCompletedToolItem(k - 1, FinalCall(k - h)))
        <3>1. CASE k <= h
            <4>1. k - 1 = 0
                BY <1>1, <3>1
            <4>2. new[k] = Text(messageID(StartInstant), s.text) /\ new[k].kind = "text"
                BY <1>3, <1>5, <3>1
            <4>. QED
                BY <3>1, <4>1, <4>2
        <3>2. CASE ~(k <= h)
            <4>1. new[k] = FinalCall(k - h) /\ new[k].kind # "text"
                BY <1>3, <1>5, <3>2
            <4>. QED
                BY <3>2, <4>1
        <3>. QED
            BY <3>1, <3>2
    <2>. QED
        BY <2>1, <2>2 DEF ItemBlocks
<1>. QED
    BY <1>1, <1>2, <1>6, <1>7 DEF old, new, n

LEMMA ResponsesFinished ==
    ASSUME NEW p, p = "responses", NEW es, NEW s, SoFar(s), todo \in Nat, Kept(p, es, Telling(p, s, todo)),
           NEW r, r.calls \in Nat
    PROVE  /\ Told(p, es \o responsesFinish(s, r), "reply") /\ Named(es \o responsesFinish(s, r), todo)
           /\ Seen(p, es \o responsesFinish(s, r)) = Contents(build(s.text, r.calls, FinishInstant))
<1>. DEFINE n == r.calls
            h == IF HasText(s.text, n) THEN 1 ELSE 0
            id == responseID(todo, StartInstant)
            items == FinalItems(h, n, s.text, StartInstant)
            last == Whole("completed", id, items)
            blocks == FlattenSeq(ItemBlocks(s, h, n))
            whole == finishTextItem(s, 0, Text(messageID(StartInstant), s.text))
<1>1. responsesFinish(s, r) = blocks \o <<last>>
    BY ResponsesWritten DEF SoFar
<1>2. es \in Seq(Events) /\ s.text \in Fragments /\ s.textStarted \in BOOLEAN /\ s.textStarted = (s.text # <<>>)
    BY DEF Kept, SoFar
<1>3. whole \in Seq(Events) /\ Kept(p, es \o whole, Saying(1, 0, 1, s.text, todo))
    BY TextSaid
<1>4. h \in {0, 1} /\ (h = 0 => ~s.textStarted)
    <2>1. CASE HasText(s.text, n)
        BY <2>1
    <2>2. CASE ~HasText(s.text, n)
        <3>1. s.text = <<>>
            BY <2>2 DEF HasText
        <3>. QED
            BY <1>2, <2>2, <3>1
    <2>. QED
        BY <2>1, <2>2
<1>5. Kept(p, es \o FlattenSeq(ItemBlocks(s, h, 0)), Saying(h, 0, h, s.text, todo))
    <2>1. CASE HasText(s.text, n)
        <3>1. h = 1
            BY <2>1
        <3>2. ItemBlocks(s, 1, 0) = <<whole>>
            BY DEF ItemBlocks
        <3>. DEFINE b == whole
        <3>3. b \in Seq(Events)
            BY <1>3
        <3>. HIDE DEF b
        <3>4. FlattenSeq(<<b>>) = b
            <4>1. <<>> \in Seq(Seq(Events)) /\ Append(<<>>, b) = <<b>>
                BY EmptySeq
            <4>2. FlattenSeq(Append(<<>>, b)) = FlattenSeq(<<>>) \o b
                BY <3>3, <4>1, FlattenAppend
            <4>3. <<>> \o b = b
                BY <3>3, ConcatEmptySeq
            <4>. QED
                BY <4>1, <4>2, <4>3, FlattenEmpty
        <3>. QED
            BY <1>3, <3>1, <3>2, <3>4 DEF b
    <2>2. CASE ~HasText(s.text, n)
        <3>1. h = 0 /\ ~s.textStarted
            BY <1>4, <2>2
        <3>2. FlattenSeq(ItemBlocks(s, 0, 0)) = <<>>
            <4>1. ItemBlocks(s, 0, 0) = <<>>
                BY DEF ItemBlocks
            <4>. QED
                BY <4>1, FlattenEmpty
        <3>3. es \o <<>> = es
            BY <1>2, ConcatEmptySeq
        <3>4. Kept(p, es, Saying(0, 0, 0, s.text, todo))
            BY <3>1, NoTextSaid
        <3>. QED
            BY <3>1, <3>2, <3>3, <3>4
    <2>. QED
        BY <2>1, <2>2
<1>. HIDE DEF h, n
<1>6. n \in Nat
    BY DEF n
<1>7. Kept(p, es \o blocks, Book(KindsOf(h, n), h + n, h + n, DataOf(h, n, s.text), <<>>, NamesOf(h), id, {}))
    <2>1. Kept(p, es \o blocks, Saying(h, n, h + n, s.text, todo))
        BY <1>2, <1>3, <1>4, <1>5, <1>6, ItemBlocksSaid
    <2>. QED
        BY <2>1 DEF Saying
<1>8. items \in Seq(Items) /\ Len(items) = h + n /\ id \in Identifiers
    <2>1. id \in Identifiers
        BY MadeNames
    <2>. QED
        BY <1>2, <1>4, <1>6, <2>1, FinalTypes
<1>9. /\ last \in Events /\ last.type = "completed" /\ last.item.id = id /\ last.output = items
      /\ last \in Spoken("responses") /\ Ending(p, last)
    <2>1. "completed" \in Vocabulary
        BY DEF Vocabulary
    <2>. HIDE DEF id, items
    <2>2. last \in Events /\ last.type = "completed" /\ last.item.id = id /\ last.output = items
        BY <1>8, <2>1, MadeWhole
    <2>. HIDE DEF last
    <2>. QED
        BY <2>2 DEF Spoken, EventTypes, Ending
<1>10. ASSUME NEW k \in Nat, k < h + n
       PROVE  items[k + 1].id = NamesOf(h)[k]
    <2>1. k + 1 \in 1..h + n /\ h \in Nat /\ (k < h <=> k + 1 <= h) /\ k + 1 - h = k - h + 1
        BY <1>4, <1>6, <1>10
    <2>2. items[k + 1] = IF k + 1 <= h THEN Text(messageID(StartInstant), s.text) ELSE FinalCall(k + 1 - h)
        BY <2>1 DEF FinalItems
    <2>3. NamesOf(h)[k] = IF k < h THEN messageID(StartInstant) ELSE callID(FinishInstant, k - h + 1)
        BY DEF NamesOf
    <2>. QED
        BY <2>1, <2>2, <2>3 DEF Text, Call, FinalCall
<1>11. Len(KindsOf(h, n)) = h + n
    BY <1>2, <1>4, <1>6, DataOfType
<1>. DEFINE led == Book(KindsOf(h, n), h + n, h + n, DataOf(h, n, s.text), <<>>, NamesOf(h), id, {})
<1>12. led.kinds = KindsOf(h, n) /\ led.data = DataOf(h, n, s.text) /\ p # "chat"
    BY BookFields
<1>13. \A instant : SeenOf(p, led) = Contents(FinalItems(h, n, s.text, instant))
    <2>1. ASSUME NEW instant
          PROVE  SeenOf(p, led) = Contents(FinalItems(h, n, s.text, instant))
        <3>. HIDE DEF led
        <3>. QED
            BY <1>4, <1>6, <1>12, SeenIsFinal
    <2>. QED
        BY <2>1
<1>. HIDE DEF blocks, id
<1>14. /\ Told(p, Append(es \o blocks, last), "reply") /\ Named(Append(es \o blocks, last), todo)
       /\ Seen(p, Append(es \o blocks, last)) = SeenOf(p, led)
    <2>1. Contents(last.output) = SeenOf(p, led) /\ last.item.id = id
        BY <1>9, <1>13
    <2>2. \A k \in Nat : k < Len(last.output) => last.output[k + 1].id = NamesOf(h)[k]
        BY <1>8, <1>9, <1>10
    <2>3. last.type \notin Failures /\ last.type \in Successes /\ "error" \notin {}
        BY <1>9 DEF Failures, Successes
    <2>4. last \in Events /\ last.type = "completed" /\ Ending(p, last)
        BY <1>9
    <2>5. id = responseID(todo, StartInstant)
        BY DEF id
    <2>. DEFINE fs == es \o blocks
                w == {}
    <2>6. Kept(p, fs, Book(KindsOf(h, n), h + n, h + n, DataOf(h, n, s.text), <<>>, NamesOf(h), id, w))
        BY <1>7
    <2>7. /\ Contents(last.output) = SeenOf(p, Book(KindsOf(h, n), h + n, h + n, DataOf(h, n, s.text), <<>>, NamesOf(h), id, w))
          /\ "error" \notin w
        BY <2>1, <2>3
    <2>8. led = Book(KindsOf(h, n), h + n, h + n, DataOf(h, n, s.text), <<>>, NamesOf(h), id, w)
        OBVIOUS
    <2>. HIDE DEF fs, w, last, led
    <2>9. /\ Told(p, Append(fs, last), "reply") /\ Named(Append(fs, last), todo)
          /\ Seen(p, Append(fs, last)) = SeenOf(p, Book(KindsOf(h, n), h + n, h + n, DataOf(h, n, s.text), <<>>, NamesOf(h), id, w))
        BY <1>11, <2>1, <2>2, <2>3, <2>4, <2>5, <2>6, <2>7, Concluded
    <2>. QED
        BY <2>8, <2>9 DEF fs
<1>15. blocks \in Seq(Events) /\ es \o responsesFinish(s, r) = Append(es \o blocks, last)
    <2>1. ItemBlocks(s, h, n) \in Seq(Seq(Events))
        <3>1. Seq(Spoken("responses")) \subseteq Seq(Events)
            BY SpokenIsEvents
        <3>. QED
            BY <1>3, <1>4, <1>6, <3>1, ItemBlocksGrow
    <2>2. blocks \in Seq(Events)
        <3>1. <<>> \in Seq(Events)
            BY EmptySeq
        <3>. QED
            BY <2>1, <3>1, FlattenAppend DEF blocks
    <2>3. last \in Events
        BY <1>9
    <2>. HIDE DEF last
    <2>4. es \o (blocks \o <<last>>) = Append(es \o blocks, last)
        BY <1>2, <2>2, <2>3, Chained
    <2>. QED
        BY <1>1, <2>2, <2>4 DEF last, id, items
<1>16. build(s.text, r.calls, FinishInstant) = FinalItems(h, n, s.text, FinishInstant)
    BY <1>2, <1>6, BuildIs DEF h, n
<1>. QED
    BY <1>13, <1>14, <1>15, <1>16

(***************************************************************************)
(* A call of a transport, whatever the protocol.                           *)
(***************************************************************************)
LEMMA TextSpoken ==
    ASSUME NEW s, NEW data \in Fragments
    PROVE  /\ startTextBlock(s) \in Seq(Spoken("anthropic")) /\ startTextItem(s) \in Seq(Spoken("responses"))
           /\ finishTextItem(s, 0, Text(messageID(StartInstant), data)) \in Seq(Spoken("responses"))
           /\ <<Event("content", 0, Text(messageID(StartInstant), data))>> \in Seq(Spoken("chat"))
           /\ <<Event("delta", 0, Text(messageID(StartInstant), data))>> \in Seq(Spoken("anthropic"))
           /\ <<Event("delta", 0, Text(messageID(StartInstant), data))>> \in Seq(Spoken("responses"))
           /\ <<Event("message_start", 0, Text(messageID(StartInstant), <<>>))>> \in Seq(Spoken("anthropic"))
<1>. DEFINE item(d) == Text(messageID(StartInstant), d)
<1>1. <<>> \in Fragments
    BY EmptySeq DEF Fragments
<1>2. ASSUME NEW d \in Fragments
      PROVE  item(d) \in Items
    <2>1. messageID(StartInstant) \in Identifiers
        BY MadeNames
    <2>. QED
        BY <2>1, MadeItems
<1>. HIDE DEF item
<1>3. ASSUME NEW p \in Protocols, NEW type \in EventTypes[p], type \in Vocabulary, NEW d \in Fragments
      PROVE  Event(type, 0, item(d)) \in Spoken(p)
    <2>1. item(d) \in Items /\ 0 \in Nat
        BY <1>2
    <2>2. Event(type, 0, item(d)) \in Events /\ Event(type, 0, item(d)).type = type
        BY <1>3, <2>1, MadeEvents
    <2>. QED
        BY <2>2 DEF Spoken
<1>4. /\ "chat" \in Protocols /\ "anthropic" \in Protocols /\ "responses" \in Protocols
      /\ "content" \in EventTypes["chat"]
      /\ \A type \in {"message_start", "open", "delta", "close"} : type \in EventTypes["anthropic"]
      /\ \A type \in {"open", "open_part", "delta", "complete", "close_part", "close"} : type \in EventTypes["responses"]
      /\ \A type \in {"content", "message_start", "open", "open_part", "delta", "complete", "close_part", "close"} :
            type \in Vocabulary
    BY DEF Protocols, EventTypes, Vocabulary
<1>5. /\ Event("content", 0, item(data)) \in Spoken("chat")
      /\ Event("delta", 0, item(data)) \in Spoken("anthropic")
      /\ Event("message_start", 0, item(<<>>)) \in Spoken("anthropic")
      /\ Event("open", 0, item(<<>>)) \in Spoken("anthropic")
    BY <1>1, <1>3, <1>4
<1>6. \A type \in {"open", "open_part", "delta", "complete", "close_part", "close"} : \A d \in Fragments :
        Event(type, 0, item(d)) \in Spoken("responses")
    BY <1>3, <1>4
<1>7. startTextBlock(s) \in Seq(Spoken("anthropic"))
    <2>. DEFINE o == Event("open", 0, item(<<>>))
    <2>1. startTextBlock(s) = IF s.textStarted THEN <<>> ELSE <<o>>
        BY DEF startTextBlock, item
    <2>2. o \in Spoken("anthropic")
        BY <1>5
    <2>. HIDE DEF o
    <2>3. <<>> \in Seq(Spoken("anthropic")) /\ <<o>> \in Seq(Spoken("anthropic"))
        BY <2>2, EmptySeq
    <2>. QED
        BY <2>1, <2>3
<1>8. startTextItem(s) \in Seq(Spoken("responses"))
    <2>. DEFINE o == Event("open", 0, item(<<>>))
                o1 == Event("open_part", 0, item(<<>>))
    <2>1. startTextItem(s) = IF s.textStarted THEN <<>> ELSE <<o, o1>>
        BY DEF startTextItem, item
    <2>2. o \in Spoken("responses") /\ o1 \in Spoken("responses")
        BY <1>1, <1>6
    <2>. HIDE DEF o, o1
    <2>3. <<>> \in Seq(Spoken("responses")) /\ <<o, o1>> \in Seq(Spoken("responses"))
        BY <2>2, EmptySeq
    <2>. QED
        BY <2>1, <2>3
<1>9. finishTextItem(s, 0, item(data)) \in Seq(Spoken("responses"))
    <2>. DEFINE a == Event("complete", 0, item(data))
                b == Event("close_part", 0, item(data))
                c == Event("close", 0, item(data))
    <2>1. finishTextItem(s, 0, item(data)) = startTextItem(s) \o <<a, b, c>>
        BY DEF finishTextItem
    <2>2. a \in Spoken("responses") /\ b \in Spoken("responses") /\ c \in Spoken("responses")
        BY <1>6
    <2>. HIDE DEF a, b, c
    <2>3. <<a, b, c>> \in Seq(Spoken("responses"))
        BY <2>2
    <2>. QED
        BY <1>8, <2>1, <2>3, ConcatProperties
<1>10. Event("delta", 0, item(data)) \in Spoken("responses")
    BY <1>6
<1>11. /\ <<Event("content", 0, item(data))>> \in Seq(Spoken("chat"))
       /\ <<Event("delta", 0, item(data))>> \in Seq(Spoken("anthropic"))
       /\ <<Event("delta", 0, item(data))>> \in Seq(Spoken("responses"))
       /\ <<Event("message_start", 0, item(<<>>))>> \in Seq(Spoken("anthropic"))
    BY <1>5, <1>10
<1>. QED
    BY <1>7, <1>8, <1>9, <1>11 DEF item

LEMMA StartSpoken ==
    ASSUME request.protocol \in Protocols, todo \in Nat
    PROVE  startEvents \in Seq(Spoken(request.protocol)) /\ startEvents # <<>>
<1>1. CASE request.protocol = "chat"
    <2>. DEFINE e == Plain("role")
    <2>1. "role" \in Vocabulary /\ "role" \in EventTypes["chat"]
        BY DEF Vocabulary, EventTypes
    <2>2. e \in Spoken("chat")
        BY <2>1, MadePlain DEF Spoken
    <2>3. startEvents = <<e>>
        BY <1>1 DEF startEvents, chatStart
    <2>. HIDE DEF e
    <2>. QED
        BY <1>1, <2>2, <2>3
<1>2. CASE request.protocol = "anthropic"
    <2>. DEFINE e == Event("message_start", 0, Text(messageID(StartInstant), <<>>))
    <2>1. <<>> \in Fragments
        BY EmptySeq DEF Fragments
    <2>2. <<e>> \in Seq(Spoken("anthropic"))
        BY <2>1, TextSpoken
    <2>3. startEvents = <<e>>
        BY <1>2 DEF startEvents, anthropicStart
    <2>. HIDE DEF e
    <2>. QED
        BY <1>2, <2>2, <2>3
<1>3. CASE request.protocol = "responses"
    <2>. DEFINE a == Whole("created", responseID(todo, StartInstant), <<>>)
                b == Whole("in_progress", responseID(todo, StartInstant), <<>>)
    <2>1. a \in Events /\ a.type = "created" /\ b \in Events /\ b.type = "in_progress"
        <3>1. responseID(todo, StartInstant) \in Identifiers
            BY MadeNames
        <3>. QED
            BY <3>1, MadeOpening
    <2>2. startEvents = <<a, b>>
        BY <1>3 DEF startEvents, responsesStart
    <2>. HIDE DEF a, b
    <2>3. a \in Spoken("responses") /\ b \in Spoken("responses")
        BY <2>1 DEF Spoken, EventTypes
    <2>. QED
        BY <1>3, <2>2, <2>3
<1>. QED
    BY <1>1, <1>2, <1>3 DEF Protocols

LEMMA DeltaSpoken ==
    ASSUME request.protocol \in Protocols, NEW s, NEW d \in Nat \X Nat
    PROVE  deltaEvents(s, d) \in Seq(Spoken(request.protocol)) /\ deltaEvents(s, d) # <<>>
<1>1. <<d>> \in Fragments
    BY DEF Fragments
<1>2. ASSUME NEW S, NEW first \in Seq(S), NEW e, <<e>> \in Seq(S)
      PROVE  first \o <<e>> \in Seq(S) /\ first \o <<e>> # <<>>
    <2>1. e \in S
        BY <1>2, ElementOfSeq
    <2>2. first \o <<e>> = Append(first, e)
        BY <2>1, OneByOne
    <2>. QED
        BY <2>1, <2>2, AppendProperties
<1>. DEFINE item == Text(messageID(StartInstant), <<d>>)
            c == Event("content", 0, item)
            e == Event("delta", 0, item)
<1>3. <<c>> \in Seq(Spoken("chat")) /\ <<e>> \in Seq(Spoken("anthropic")) /\ <<e>> \in Seq(Spoken("responses"))
      /\ startTextBlock(s) \in Seq(Spoken("anthropic")) /\ startTextItem(s) \in Seq(Spoken("responses"))
    BY <1>1, TextSpoken
<1>4. /\ request.protocol = "chat" => deltaEvents(s, d) = <<c>>
      /\ request.protocol = "anthropic" => deltaEvents(s, d) = startTextBlock(s) \o <<e>>
      /\ request.protocol = "responses" => deltaEvents(s, d) = startTextItem(s) \o <<e>>
    BY DEF deltaEvents, chatDelta, anthropicDelta, responsesDelta
<1>. HIDE DEF c, e
<1>5. CASE request.protocol = "chat"
    <2>1. <<c>> # <<>>
        OBVIOUS
    <2>. QED
        BY <1>3, <1>4, <1>5, <2>1
<1>6. CASE request.protocol = "anthropic"
    BY <1>2, <1>3, <1>4, <1>6
<1>7. CASE request.protocol = "responses"
    BY <1>2, <1>3, <1>4, <1>7
<1>. QED
    BY <1>5, <1>6, <1>7 DEF Protocols

LEMMA ErrorSpoken ==
    ASSUME NEW p \in Protocols
    PROVE  /\ errorEvents(p) \in Seq(Spoken(p)) /\ errorEvents(p) # <<>>
           /\ <<Plain("http_error")>> \in Seq(Spoken(p)) /\ <<Plain("http_error")>> # <<>>
<1>1. \A type \in {"error", "http_error", "done"} : Plain(type) \in Events /\ Plain(type).type = type
    <2>1. \A type \in {"error", "http_error", "done"} : type \in Vocabulary
        BY DEF Vocabulary
    <2>. QED
        BY <2>1, MadePlain
<1>. DEFINE e == Plain("error")
            d == Plain("done")
            f == Plain("http_error")
<1>2. errorEvents(p) = IF p = "chat" THEN <<e, d>> ELSE <<e>>
    BY DEF errorEvents
<1>3. e \in Events /\ e.type = "error" /\ d \in Events /\ d.type = "done" /\ f \in Events /\ f.type = "http_error"
    BY <1>1
<1>. HIDE DEF e, d, f
<1>4. e \in Spoken(p) /\ f \in Spoken(p) /\ (p = "chat" => d \in Spoken(p))
    BY <1>3 DEF Spoken, EventTypes, Protocols
<1>5. <<f>> \in Seq(Spoken(p)) /\ <<f>> # <<>> /\ <<e>> \in Seq(Spoken(p)) /\ <<e>> # <<>>
    BY <1>4
<1>6. p = "chat" => <<e, d>> \in Seq(Spoken(p)) /\ <<e, d>> # <<>>
    BY <1>4
<1>. QED
    BY <1>2, <1>5, <1>6 DEF f

LEMMA ResponsesSpoken ==
    ASSUME NEW s, s.text \in Fragments, NEW r, r.calls \in Nat, todo \in Nat
    PROVE  responsesFinish(s, r) \in Seq(Spoken("responses"))
<1>. DEFINE n == r.calls
            h == IF HasText(s.text, n) THEN 1 ELSE 0
            items == FinalItems(h, n, s.text, StartInstant)
            last == Whole("completed", responseID(todo, StartInstant), items)
            blocks == ItemBlocks(s, h, n)
            S == Spoken("responses")
<1>1. responsesFinish(s, r) = FlattenSeq(blocks) \o <<last>>
    BY ResponsesWritten
<1>2. h \in {0, 1} /\ n \in Nat
    OBVIOUS
<1>. HIDE DEF h, n
<1>3. blocks \in Seq(Seq(S))
    BY <1>2, TextSpoken, ItemBlocksGrow
<1>4. last \in S
    <2>1. items \in Seq(Items) /\ responseID(todo, StartInstant) \in Identifiers /\ "completed" \in Vocabulary
        BY <1>2, FinalTypes, MadeNames DEF Vocabulary
    <2>2. last \in Events /\ last.type = "completed"
        BY <2>1, MadeWhole
    <2>. HIDE DEF last
    <2>. QED
        BY <2>2 DEF Spoken, EventTypes
<1>. HIDE DEF blocks, last, S
<1>5. FlattenSeq(blocks) \in Seq(S)
    <2>1. <<>> \in Seq(S)
        BY EmptySeq
    <2>. QED
        BY <1>3, <2>1, FlattenAppend
<1>6. <<last>> \in Seq(S)
    BY <1>4
<1>. QED
    BY <1>1, <1>5, <1>6, ConcatProperties DEF S

LEMMA ChatSpoken ==
    ASSUME NEW r, r.calls \in Nat
    PROVE  chatFinish(r) \in Seq(Spoken("chat"))
<1>. DEFINE given == [Plain("tool_calls") EXCEPT !.output = FinalCalls(r.calls)]
            first == IF r.calls > 0 THEN <<given, Plain("finish_tool_calls")>> ELSE <<Plain("finish_stop")>>
            usage == IF request.includeUsage /\ r.usage THEN <<Plain("usage")>> ELSE <<>>
            done == <<Plain("done")>>
<1>1. chatFinish(r) = (first \o usage) \o done
    BY DEF chatFinish, FinalCalls, FinalCall
<1>2. ASSUME NEW x \in {"finish_tool_calls", "finish_stop", "usage", "done"}
      PROVE  Plain(x) \in Spoken("chat")
    <2>1. x \in Vocabulary /\ x \in EventTypes["chat"]
        BY DEF Vocabulary, EventTypes
    <2>. QED
        BY <2>1, MadePlain DEF Spoken
<1>3. given \in Spoken("chat")
    <2>1. "tool_calls" \in Vocabulary
        BY DEF Vocabulary
    <2>2. FinalCalls(r.calls) \in Seq(Items)
        <3>1. <<>> \in Fragments /\ 0 \in {0, 1} /\ StartInstant \in {StartInstant, FinishInstant}
            BY EmptySeq DEF Fragments
        <3>. QED
            BY <3>1, FinalTypes
    <2>3. given \in Events /\ given.type = "tool_calls"
        BY <2>1, <2>2, MadeCalls
    <2>. HIDE DEF given
    <2>. QED
        BY <2>3 DEF Spoken, EventTypes
<1>. HIDE DEF given
<1>4. first \in Seq(Spoken("chat"))
    BY <1>2, <1>3
<1>5. usage \in Seq(Spoken("chat")) /\ done \in Seq(Spoken("chat"))
    BY <1>2
<1>. HIDE DEF first, usage, done
<1>. QED
    BY <1>1, <1>4, <1>5, ConcatProperties

LEMMA AnthropicSpoken ==
    ASSUME NEW s, s.textStarted \in BOOLEAN, NEW r, r.calls \in Nat
    PROVE  anthropicFinish(s, r) \in Seq(Spoken("anthropic"))
<1>. DEFINE hasText == s.textStarted \/ r.calls = 0
            close == Event("close", 0, Text(messageID(StartInstant), <<>>))
            first == IF hasText THEN startTextBlock(s) \o <<close>> ELSE <<>>
            blocks == FlattenSeq(ToolBlocks(hasText, r.calls))
            outcome == Plain(IF r.calls > 0 THEN "finish_tool_calls" ELSE "finish_stop")
            stop == Plain("message_stop")
            S == Spoken("anthropic")
<1>1. anthropicFinish(s, r) = (first \o blocks) \o <<outcome, stop>>
    BY DEF anthropicFinish, ToolBlocks, FinalCall
<1>2. \A x \in {"finish_tool_calls", "finish_stop", "message_stop"} : Plain(x) \in S
    <2>1. \A x \in {"finish_tool_calls", "finish_stop", "message_stop"} : x \in Vocabulary /\ x \in EventTypes["anthropic"]
        BY DEF Vocabulary, EventTypes
    <2>. QED
        BY <2>1, MadePlain DEF Spoken
<1>3. close \in S
    <2>1. <<>> \in Fragments
        BY EmptySeq DEF Fragments
    <2>2. Text(messageID(StartInstant), <<>>) \in Items
        <3>1. messageID(StartInstant) \in Identifiers
            BY MadeNames
        <3>. QED
            BY <2>1, <3>1, MadeItems
    <2>3. "close" \in Vocabulary /\ 0 \in Nat
        BY DEF Vocabulary
    <2>4. close \in Events /\ close.type = "close"
        BY <2>2, <2>3, MadeEvents
    <2>. HIDE DEF close
    <2>. QED
        BY <2>4 DEF Spoken, EventTypes
<1>. HIDE DEF close, S
<1>4. first \in Seq(S)
    <2>1. <<>> \in Fragments
        BY EmptySeq DEF Fragments
    <2>2. startTextBlock(s) \in Seq(S)
        BY <2>1, TextSpoken DEF S
    <2>3. <<close>> \in Seq(S) /\ <<>> \in Seq(S)
        BY <1>3, EmptySeq
    <2>4. startTextBlock(s) \o <<close>> \in Seq(S)
        BY <2>2, <2>3, ConcatProperties
    <2>. QED
        BY <2>3, <2>4
<1>5. blocks \in Seq(S)
    <2>1. ToolBlocks(hasText, r.calls) \in Seq(Seq(S))
        <3>1. hasText \in BOOLEAN
            OBVIOUS
        <3>2. CASE hasText
            <4>1. 1 \in {0, 1} /\ hasText = (1 = 1)
                BY <3>2
            <4>. QED
                BY <4>1, ToolBlocksGrow DEF S
        <3>3. CASE ~hasText
            <4>1. 0 \in {0, 1} /\ hasText = (0 = 1)
                BY <3>3
            <4>. QED
                BY <4>1, ToolBlocksGrow DEF S
        <3>. QED
            BY <3>1, <3>2, <3>3
    <2>2. <<>> \in Seq(S)
        BY EmptySeq
    <2>. HIDE DEF hasText
    <2>. QED
        BY <2>1, <2>2, FlattenAppend
<1>6. <<outcome, stop>> \in Seq(S)
    <2>1. outcome \in S /\ stop \in S
        BY <1>2
    <2>. HIDE DEF outcome, stop
    <2>. QED
        BY <2>1
<1>. HIDE DEF first, blocks, outcome, stop
<1>. QED
    BY <1>1, <1>4, <1>5, <1>6, ConcatProperties DEF S

LEMMA FinishSpoken ==
    ASSUME NEW s, SoFar(s), NEW r, r.calls \in Nat, todo \in Nat, request.protocol \in Protocols
    PROVE  finishEvents(s, r) \in Seq(Spoken(request.protocol))
<1>1. s.text \in Fragments /\ s.textStarted \in BOOLEAN
    BY DEF SoFar
<1>2. /\ chatFinish(r) \in Seq(Spoken("chat")) /\ anthropicFinish(s, r) \in Seq(Spoken("anthropic"))
      /\ responsesFinish(s, r) \in Seq(Spoken("responses"))
    BY <1>1, ChatSpoken, AnthropicSpoken, ResponsesSpoken
<1>. QED
    BY <1>2 DEF finishEvents, Protocols

LEMMA FinishTold ==
    ASSUME NEW p, p = request.protocol, NEW es, NEW s, SoFar(s), todo \in Nat, Kept(p, es, Telling(p, s, todo)),
           NEW r, r.calls \in Nat
    PROVE  /\ Told(p, es \o finishEvents(s, r), "reply") /\ Named(es \o finishEvents(s, r), todo)
           /\ Seen(p, es \o finishEvents(s, r)) = Contents(Built(p, s.text, r.calls))
<1>1. CASE p = "chat"
    <2>1. finishEvents(s, r) = chatFinish(r) /\ Built(p, s.text, r.calls) = buildChat(s.text, r.calls, FinishInstant)
        BY <1>1 DEF finishEvents, Built
    <2>. QED
        BY <1>1, <2>1, ChatFinished
<1>2. CASE p = "anthropic"
    <2>1. finishEvents(s, r) = anthropicFinish(s, r) /\ Built(p, s.text, r.calls) = build(s.text, r.calls, FinishInstant)
        BY <1>2 DEF finishEvents, Built
    <2>. QED
        BY <1>2, <2>1, AnthropicFinished
<1>3. CASE p = "responses"
    <2>1. finishEvents(s, r) = responsesFinish(s, r) /\ Built(p, s.text, r.calls) = build(s.text, r.calls, FinishInstant)
        BY <1>3 DEF finishEvents, Built
    <2>. QED
        BY <1>3, <2>1, ResponsesFinished
<1>. QED
    BY <1>1, <1>2, <1>3 DEF Kept, Protocols

\* An answer that is one event.
LEMMA AloneTold ==
    ASSUME NEW p \in Protocols, NEW t \in Nat, NEW e \in Events, NEW kind,
           \/ e.type = "json" /\ kind = "reply"
           \/ e.type = "http_error" /\ kind = "error"
    PROVE  Told(p, <<e>>, kind) /\ Named(<<e>>, t)
<1>. DEFINE s == [text |-> <<>>, textStarted |-> FALSE]
            id == responseID(t, StartInstant)
<1>1. Kept(p, <<>>, Telling(p, s, t))
    BY NothingSaid
<1>2. PICK a, d, g : Telling(p, s, t) = Book(a, 0, 0, d, <<>>, g, id, {})
    BY DEF Telling
<1>3. Ending(p, e)
    BY DEF Ending, Protocols
<1>4. /\ kind = "error" <=> e.type \in Failures
      /\ kind = "reply" <=> e.type \in Successes
    BY DEF Failures, Successes
<1>5. Kept(p, <<>>, Book(a, 0, 0, d, <<>>, g, id, {}))
    BY <1>1, <1>2
<1>. DEFINE w == {}
            es == <<>>
<1>6. /\ kind = "error" <=> "error" \in w \/ e.type \in Failures
      /\ kind = "reply" <=> "finish_stop" \in w \/ "finish_tool_calls" \in w \/ e.type \in Successes
      /\ e.type # "completed" /\ e.type \in {"json", "http_error"}
      /\ Kept(p, es, Book(a, 0, 0, d, <<>>, g, id, w))
    BY <1>4, <1>5
<1>7. es = <<>> /\ Append(es, e) = <<e>>
    OBVIOUS
<1>. HIDE DEF w, es
<1>8. Told(p, Append(es, e), kind) /\ Named(Append(es, e), t)
    <2>1. e.type \in {"done", "message_stop", "error", "completed", "json", "http_error"}
        BY <1>6
    <2>2. e.type \in {"json", "http_error"} => es = <<>>
        BY <1>7
    <2>3. id = responseID(t, StartInstant)
        OBVIOUS
    <2>. HIDE DEF id
    <2>. QED
        BY <1>3, <1>6, <2>1, <2>2, <2>3, Concluded
<1>. QED
    BY <1>7, <1>8

LEMMA JsonTold ==
    ASSUME NEW p \in Protocols, todo \in Nat, NEW text \in Fragments, NEW n \in Nat
    PROVE  LET es == <<Whole("json", responseID(todo, FinishInstant), Built(p, text, n))>>
           IN  Told(p, es, "reply") /\ Named(es, todo) /\ es \in Seq(Spoken(p))
<1>. DEFINE output == Built(p, text, n)
            h == IF HasText(text, n) THEN 1 ELSE 0
            e == Whole("json", responseID(todo, FinishInstant), output)
<1>1. output \in Seq(Items)
    <2>1. /\ build(text, n, FinishInstant) = FinalItems(h, n, text, FinishInstant)
          /\ buildChat(text, n, FinishInstant) = <<Text(messageID(FinishInstant), text)>> \o FinalCalls(n)
          /\ h \in {0, 1}
        BY BuildIs
    <2>. HIDE DEF h
    <2>2. /\ FinalItems(h, n, text, FinishInstant) \in Seq(Items) /\ FinalCalls(n) \in Seq(Items)
          /\ <<Text(messageID(FinishInstant), text)>> \in Seq(Items)
        BY <2>1, FinalTypes
    <2>. QED
        BY <2>1, <2>2, ConcatProperties DEF Built
<1>2. e \in Events /\ e.type = "json"
    <2>1. "json" \in Vocabulary /\ responseID(todo, FinishInstant) \in Identifiers
        BY MadeNames DEF Vocabulary
    <2>. HIDE DEF output
    <2>. QED
        BY <1>1, <2>1, MadeWhole
<1>. HIDE DEF e
<1>3. e \in Spoken(p)
    BY <1>2 DEF Spoken
<1>4. Told(p, <<e>>, "reply") /\ Named(<<e>>, todo)
    BY <1>2, AloneTold
<1>5. <<e>> \in Seq(Spoken(p))
    BY <1>3
<1>. QED
    BY <1>4, <1>5 DEF e

LEMMA HttpErrorTold ==
    ASSUME NEW p \in Protocols, NEW t \in Nat
    PROVE  Told(p, <<Plain("http_error")>>, "error") /\ Named(<<Plain("http_error")>>, t)
<1>1. Plain("http_error") \in Events /\ Plain("http_error").type = "http_error"
    BY MadePlain DEF Vocabulary
<1>. QED
    BY <1>1, AloneTold

\* The reply of the gateway.
LEMMA RepliesType ==
    ASSUME todo \in Nat, NEW r, r \in Replies
    PROVE  /\ r \in [kind: {"none", "reply", "error"}, text: Fragments, calls: Nat, usage: BOOLEAN]
           /\ r.kind = "reply" /\ r.calls \in Nat /\ r.text \in Fragments
<1>. DEFINE text(n) == [i \in 1..n |-> <<todo, i>>]
<1>1. ASSUME NEW n \in 0..MaxText
      PROVE  text(n) \in Fragments
    <2>1. \A i \in 1..n : <<todo, i>> \in Nat \X Nat
        OBVIOUS
    <2>2. n \in Nat
        BY StreamAssumption
    <2>. QED
        BY <2>1, <2>2 DEF Fragments
<1>2. r \in [kind: {"reply"}, text: {text(n) : n \in 0..MaxText}, calls: 0..MaxCalls, usage: BOOLEAN]
    BY DEF Replies
<1>. HIDE DEF text
<1>3. r.text \in Fragments
    BY <1>1, <1>2
<1>4. r.calls \in Nat
    BY <1>2, StreamAssumption
<1>. QED
    BY <1>2, <1>3, <1>4

(***************************************************************************)
(* The inductive invariant of the stream: what has been received, with     *)
(* what is left to write, is kept as one list while the connection is up;  *)
(* a client that left has the beginning of a good one.                     *)
(***************************************************************************)
EventsOf(o) == [i \in DOMAIN o |-> o[i].event]
Wire == [event: Events, number: Nat]
Answer == EventsOf(out) \o pending

StreamTyped ==
    /\ request \in [protocol: Protocols, stream: BOOLEAN, resuming: BOOLEAN, includeUsage: BOOLEAN]
    /\ pc \in {"gateway", "start", "emit", "finish", "error", "done"}
    /\ todo \in 1..MaxTries /\ announced \in BOOLEAN
    /\ sse \in [started: BOOLEAN, textStarted: BOOLEAN,
                text: Seq((1..MaxTries) \X (1..MaxText)), sequence: Nat]
    /\ result \in [kind: {"none", "reply", "error"}, text: Fragments, calls: Nat, usage: BOOLEAN]
    /\ conn \in {"up", "down", "broken"}
    /\ pending \in Seq(Spoken(request.protocol)) /\ out \in Seq(Wire)

\* The text is that of the todo announced; a stream that has started is
\* announced unless it still starts or could not.
TextKept ==
    /\ (announced => sse.started) /\ (sse.started => request.stream)
    /\ sse.started /\ ~announced => pc = "start" \/ conn = "broken"
    /\ sse.textStarted = (sse.text # <<>>) /\ (~announced => sse.text = <<>>)
    /\ \A k \in DOMAIN sse.text : sse.text[k][1] = todo

\* A call is written before the gateway goes on.
Placed ==
    /\ (pc = "emit" => announced) /\ (pc = "start" => sse.started)
    /\ pc \in {"gateway", "done"} => pending = <<>>
    /\ pc = "gateway" /\ announced => conn # "broken"
    /\ pc = "gateway" /\ ~sse.started => out = <<>>

SequenceKept ==
    request.protocol = "responses" =>
        /\ \A i \in DOMAIN out : out[i].number = i - 1
        /\ conn = "up" =>
             /\ sse.sequence = IF sse.started THEN Len(out) ELSE 0
             /\ ~sse.started /\ pending # <<>> => out = <<>> /\ Len(pending) = 1

\* What was received is that todo's, unless its start was lost.
ReceivedGood ==
    /\ Good(request.protocol, EventsOf(out))
    /\ Named(EventsOf(out), todo) \/ (conn = "broken" /\ sse.text = <<>>)

AnswerKept ==
    conn = "up" =>
        /\ pc \in {"gateway", "start", "emit"} /\ sse.started =>
             Kept(request.protocol, Answer, Telling(request.protocol, sse, todo))
        /\ pc \in {"finish", "error", "done"} =>
             /\ Told(request.protocol, Answer, result.kind) /\ Named(Answer, todo)
             /\ request.stream /\ result.kind = "reply" =>
                  Seen(request.protocol, Answer)
                  = Contents(Built(request.protocol, sse.text, result.calls))

StreamInv == StreamTyped /\ TextKept /\ Placed /\ SequenceKept /\ ReceivedGood /\ AnswerKept

LEMMA Delivered ==
    ASSUME NEW o \in Seq(Wire)
    PROVE  /\ EventsOf(o) \in Seq(Events) /\ Len(EventsOf(o)) = Len(o) /\ DOMAIN EventsOf(o) = DOMAIN o
           /\ \A i \in DOMAIN o : EventsOf(o)[i] = o[i].event
<1>1. Len(o) \in Nat /\ DOMAIN o = 1..Len(o) /\ \A i \in 1..Len(o) : o[i] \in Wire
    BY LenProperties, ElementOfSeq
<1>2. \A i \in 1..Len(o) : o[i].event \in Events
    BY <1>1 DEF Wire
<1>3. EventsOf(o) = [i \in 1..Len(o) |-> o[i].event]
    BY <1>1 DEF EventsOf
<1>. QED
    BY <1>1, <1>2, <1>3

LEMMA DeliveredMore ==
    ASSUME NEW o \in Seq(Wire), NEW e \in Events, NEW n \in Nat
    PROVE  /\ EventsOf(Append(o, [event |-> e, number |-> n])) = Append(EventsOf(o), e)
           /\ Append(o, [event |-> e, number |-> n]) \in Seq(Wire)
<1>. DEFINE x == [event |-> e, number |-> n]
            fs == EventsOf(o)
            gs == EventsOf(Append(o, x))
<1>1. x \in Wire /\ x.event = e
    BY DEF Wire
<1>. HIDE DEF x
<1>2. /\ Append(o, x) \in Seq(Wire) /\ Len(o) \in Nat /\ Len(Append(o, x)) = Len(o) + 1
      /\ DOMAIN o = 1..Len(o) /\ DOMAIN Append(o, x) = 1..Len(o) + 1
      /\ Append(o, x)[Len(o) + 1] = x /\ \A i \in 1..Len(o) : Append(o, x)[i] = o[i]
    BY <1>1, LastOfMore
<1>3. /\ fs \in Seq(Events) /\ Len(fs) = Len(o) /\ \A i \in 1..Len(o) : fs[i] = o[i].event
      /\ gs \in Seq(Events) /\ Len(gs) = Len(o) + 1
      /\ \A i \in 1..Len(o) + 1 : gs[i] = Append(o, x)[i].event
    BY <1>2, Delivered
<1>. HIDE DEF fs, gs
<1>4. /\ Append(fs, e) \in Seq(Events) /\ Len(Append(fs, e)) = Len(o) + 1
      /\ Append(fs, e)[Len(o) + 1] = e /\ \A i \in 1..Len(o) : Append(fs, e)[i] = fs[i]
    BY <1>3, LastOfMore
<1>5. ASSUME NEW i \in 1..Len(o) + 1
      PROVE  gs[i] = Append(fs, e)[i]
    <2>1. CASE i = Len(o) + 1
        BY <1>1, <1>2, <1>3, <1>4, <2>1
    <2>2. CASE i # Len(o) + 1
        <3>1. i \in 1..Len(o)
            BY <1>2, <2>2
        <3>. QED
            BY <1>2, <1>3, <1>4, <3>1
    <2>. QED
        BY <2>1, <2>2
<1>6. gs = Append(fs, e)
    BY <1>3, <1>4, <1>5, SeqEqual
<1>. QED
    BY <1>2, <1>6 DEF fs, gs, x

\* What the text and the sequence number say of the ledger.
LEMMA TellingSame ==
    ASSUME NEW p, NEW s, NEW s1, s1.text = s.text, s1.textStarted = s.textStarted, NEW t
    PROVE  Telling(p, s1, t) = Telling(p, s, t)
BY DEF Telling

\* The facts every step starts from.
LEMMA InvFacts ==
    ASSUME StreamInv
    PROVE  /\ request.protocol \in Protocols /\ todo \in Nat /\ MaxTries \in Nat /\ MaxText \in Nat
           /\ SoFar(sse) /\ EventsOf(out) \in Seq(Events) /\ pending \in Seq(Events)
           /\ EventsOf(out) \o <<>> = EventsOf(out) /\ EventsOf(<<>>) = <<>> /\ <<>> \o pending = pending
           /\ <<>> \in Seq(Spoken(request.protocol))
<1>1. StreamTyped /\ TextKept
    BY DEF StreamInv
<1>2. request.protocol \in Protocols /\ MaxTries \in Nat /\ MaxText \in Nat /\ todo \in Nat
    BY <1>1, StreamAssumption DEF StreamTyped
<1>3. SoFar(sse)
    <2>1. (1..MaxTries) \X (1..MaxText) \subseteq Nat \X Nat
        BY <1>2
    <2>2. sse.text \in Seq((1..MaxTries) \X (1..MaxText)) /\ sse.textStarted \in BOOLEAN
        BY <1>1 DEF StreamTyped
    <2>3. sse.text \in Fragments
        BY <2>1, <2>2 DEF Fragments
    <2>. QED
        BY <1>1, <2>2, <2>3 DEF SoFar, TextKept
<1>4. EventsOf(out) \in Seq(Events)
    BY <1>1, Delivered DEF StreamTyped
<1>5. pending \in Seq(Events)
    BY <1>1, SpokenIsEvents DEF StreamTyped
<1>6. EventsOf(out) \o <<>> = EventsOf(out) /\ <<>> \o pending = pending
    BY <1>4, <1>5, ConcatEmptySeq
<1>7. EventsOf(<<>>) = <<>>
    <2>1. <<>> \in Seq(Wire)
        BY EmptySeq
    <2>2. EventsOf(<<>>) \in Seq(Events) /\ Len(EventsOf(<<>>)) = Len(<<>>)
        BY <2>1, Delivered
    <2>. QED
        BY <2>2, EmptySeq
<1>8. <<>> \in Seq(Spoken(request.protocol))
    BY EmptySeq
<1>. QED
    BY <1>2, <1>3, <1>4, <1>5, <1>6, <1>7, <1>8

LEMMA NothingGood ==
    ASSUME NEW p \in Protocols, NEW t
    PROVE  Good(p, <<>>) /\ Named(<<>>, t)
<1>1. Kept(p, <<>>, Telling(p, [text |-> <<>>, textStarted |-> FALSE], 0))
    BY NothingSaid
<1>2. Good(p, <<>>)
    BY <1>1, KeptIsGood
<1>3. Named(<<>>, t)
    BY DEF Named
<1>. QED
    BY <1>2, <1>3

LEMMA StreamInit == Init => StreamInv
<1>. SUFFICES ASSUME Init PROVE StreamInv
    OBVIOUS
<1>1. /\ request \in [protocol: Protocols, stream: BOOLEAN, resuming: BOOLEAN, includeUsage: BOOLEAN]
      /\ pc = "gateway" /\ todo = 1 /\ announced = FALSE /\ pending = <<>> /\ conn = "up" /\ out = <<>>
      /\ sse = [started |-> FALSE, textStarted |-> FALSE, text |-> <<>>, sequence |-> 0]
      /\ result = [kind |-> "none", text |-> <<>>, calls |-> 0, usage |-> FALSE]
    BY DEF Init, Idle
<1>2. request.protocol \in Protocols
    BY <1>1
<1>3. StreamTyped
    <2>1. <<>> \in Fragments /\ <<>> \in Seq((1..MaxTries) \X (1..MaxText))
          /\ <<>> \in Seq(Spoken(request.protocol)) /\ <<>> \in Seq(Wire)
        BY EmptySeq DEF Fragments
    <2>2. 1 \in 1..MaxTries
        BY StreamAssumption
    <2>. QED
        BY <1>1, <2>1, <2>2 DEF StreamTyped
<1>4. TextKept /\ Placed /\ SequenceKept /\ AnswerKept
    <2>1. DOMAIN <<>> = {} /\ Len(<<>>) = 0
        OBVIOUS
    <2>2. TextKept
        BY <1>1, <2>1 DEF TextKept
    <2>3. Placed /\ AnswerKept
        BY <1>1 DEF Placed, AnswerKept
    <2>4. SequenceKept
        BY <1>1, <2>1 DEF SequenceKept
    <2>. QED
        BY <2>2, <2>3, <2>4
<1>5. ReceivedGood
    <2>1. EventsOf(<<>>) = <<>>
        <3>1. <<>> \in Seq(Wire)
            BY EmptySeq
        <3>2. EventsOf(<<>>) \in Seq(Events) /\ Len(EventsOf(<<>>)) = Len(<<>>)
            BY <3>1, Delivered
        <3>. QED
            BY <3>2, EmptySeq
    <2>. QED
        BY <1>1, <1>2, <2>1, NothingGood DEF ReceivedGood
<1>. QED
    BY <1>3, <1>4, <1>5 DEF StreamInv

(***************************************************************************)
(* The steps of the gateway.                                               *)
(***************************************************************************)
LEMMA StartStep == StreamInv /\ Start => StreamInv'
<1>. SUFFICES ASSUME StreamInv, Start PROVE StreamInv'
    OBVIOUS
<1>. DEFINE p == request.protocol
<1>1. StreamTyped /\ TextKept /\ Placed /\ SequenceKept /\ ReceivedGood /\ AnswerKept
    BY DEF StreamInv
<1>2. /\ p \in Protocols /\ todo \in Nat /\ EventsOf(<<>>) = <<>>
    BY InvFacts
<1>3. pc = "gateway" /\ request.stream /\ ~announced /\ UNCHANGED <<request, todo, announced, conn, out>>
    BY DEF Start
<1>4. sse.text = <<>> /\ ~sse.textStarted /\ pending = <<>>
    BY <1>1, <1>3 DEF TextKept, Placed
<1>5. CASE sse.started
    <2>1. /\ pc' = "error" /\ pending' = errorEvents(p) /\ result' = [result EXCEPT !.kind = "error"]
          /\ UNCHANGED sse
        BY <1>5 DEF Start, Writing
    <2>2. conn = "broken"
        BY <1>1, <1>3, <1>5 DEF TextKept
    <2>3. result' \in [kind: {"none", "reply", "error"}, text: Fragments, calls: Nat, usage: BOOLEAN]
        BY <1>1, <2>1 DEF StreamTyped
    <2>4. pending' \in Seq(Spoken(p))
        BY <1>2, <2>1, ErrorSpoken
    <2>5. StreamTyped'
        BY <1>1, <1>3, <2>1, <2>3, <2>4 DEF StreamTyped
    <2>6. TextKept' /\ Placed'
        BY <1>1, <1>3, <2>1, <2>2 DEF TextKept, Placed
    <2>7. SequenceKept' /\ ReceivedGood' /\ AnswerKept'
        BY <1>1, <1>3, <2>1, <2>2 DEF SequenceKept, ReceivedGood, AnswerKept
    <2>. QED
        BY <2>5, <2>6, <2>7 DEF StreamInv
<1>6. CASE ~sse.started
    <2>1. /\ pc' = "start" /\ pending' = startEvents /\ sse' = [sse EXCEPT !.started = TRUE]
          /\ UNCHANGED result
        BY <1>6 DEF Start, Writing
    <2>2. out = <<>>
        BY <1>1, <1>3, <1>6 DEF Placed
    <2>3. /\ sse' \in [started: BOOLEAN, textStarted: BOOLEAN,
                       text: Seq((1..MaxTries) \X (1..MaxText)), sequence: Nat]
          /\ sse'.text = <<>> /\ ~sse'.textStarted /\ sse'.started = TRUE /\ sse'.sequence = sse.sequence
        BY <1>1, <1>4, <2>1 DEF StreamTyped
    <2>4. startEvents \in Seq(Spoken(p))
        BY <1>2, StartSpoken
    <2>5. StreamTyped'
        BY <1>1, <1>3, <2>1, <2>3, <2>4 DEF StreamTyped
    <2>6. TextKept' /\ Placed'
        BY <1>3, <2>1, <2>3 DEF TextKept, Placed
    <2>7. SequenceKept'
        <3>1. Len(<<>>) = 0 /\ DOMAIN <<>> = {}
            OBVIOUS
        <3>. QED
            BY <1>1, <1>3, <1>6, <2>1, <2>2, <2>3, <3>1 DEF SequenceKept
    <2>8. ReceivedGood'
        BY <1>1, <1>3, <1>4, <2>3 DEF ReceivedGood
    <2>9. AnswerKept'
        <3>1. Kept(p, startEvents, Telling(p, sse', todo))
            BY <1>2, <2>3, StartKept
        <3>2. <<>> \o startEvents = startEvents
            BY <2>4, ConcatEmptySeq
        <3>3. Answer' = startEvents
            BY <1>2, <1>3, <2>1, <2>2, <3>2 DEF Answer
        <3>. QED
            BY <1>3, <2>1, <3>1, <3>3 DEF AnswerKept
    <2>. QED
        BY <2>5, <2>6, <2>7, <2>8, <2>9 DEF StreamInv
<1>. QED
    BY <1>1, <1>5, <1>6 DEF StreamTyped

LEMMA TextDeltaStep == StreamInv /\ TextDelta => StreamInv'
<1>. SUFFICES ASSUME StreamInv, TextDelta PROVE StreamInv'
    OBVIOUS
<1>. DEFINE p == request.protocol
            d == <<todo, Len(sse.text) + 1>>
            S == (1..MaxTries) \X (1..MaxText)
<1>1. StreamTyped /\ TextKept /\ Placed /\ SequenceKept /\ ReceivedGood /\ AnswerKept
    BY DEF StreamInv
<1>2. /\ p \in Protocols /\ todo \in Nat /\ MaxText \in Nat /\ SoFar(sse)
      /\ EventsOf(out) \in Seq(Events) /\ EventsOf(out) \o <<>> = EventsOf(out)
    BY InvFacts
<1>3. /\ pc = "gateway" /\ announced /\ Len(sse.text) < MaxText
      /\ pc' = "emit" /\ pending' = deltaEvents(sse, d)
      /\ sse' = [sse EXCEPT !.textStarted = TRUE, !.text = Append(@, d)]
      /\ UNCHANGED <<request, todo, announced, result, conn, out>>
    BY DEF TextDelta, Writing
<1>4. pending = <<>> /\ sse.text \in Seq(S) /\ Len(sse.text) \in Nat /\ todo \in 1..MaxTries
    BY <1>1, <1>3, LenProperties DEF Placed, StreamTyped
<1>5. d \in S /\ d \in Nat \X Nat /\ d[1] = todo
    BY <1>2, <1>3, <1>4
<1>. HIDE DEF d, S
<1>6. /\ Append(sse.text, d) \in Seq(S) /\ Append(sse.text, d) # <<>>
      /\ \A k \in DOMAIN Append(sse.text, d) : Append(sse.text, d)[k][1] = todo
    <2>1. /\ Append(sse.text, d) \in Seq(S) /\ Len(Append(sse.text, d)) = Len(sse.text) + 1
          /\ DOMAIN sse.text = 1..Len(sse.text) /\ DOMAIN Append(sse.text, d) = 1..Len(sse.text) + 1
          /\ Append(sse.text, d)[Len(sse.text) + 1] = d
          /\ \A i \in 1..Len(sse.text) : Append(sse.text, d)[i] = sse.text[i]
        BY <1>4, <1>5, LastOfMore
    <2>2. ASSUME NEW k \in 1..Len(sse.text) + 1
          PROVE  Append(sse.text, d)[k][1] = todo
        <3>1. CASE k = Len(sse.text) + 1
            BY <1>5, <2>1, <3>1
        <3>2. CASE k # Len(sse.text) + 1
            <4>1. k \in 1..Len(sse.text)
                BY <1>4, <3>2
            <4>. QED
                BY <1>1, <2>1, <4>1 DEF TextKept
        <3>. QED
            BY <3>1, <3>2
    <2>3. Append(sse.text, d) # <<>>
        BY <1>4, <2>1, EmptySeq
    <2>. QED
        BY <2>1, <2>2, <2>3
<1>7. /\ sse' \in [started: BOOLEAN, textStarted: BOOLEAN, text: Seq(S), sequence: Nat]
      /\ sse'.text = Append(sse.text, d) /\ sse'.textStarted = TRUE /\ sse'.started = sse.started
      /\ sse'.sequence = sse.sequence
    BY <1>1, <1>3, <1>6 DEF StreamTyped, S
<1>8. deltaEvents(sse, d) \in Seq(Spoken(p))
    BY <1>2, <1>5, DeltaSpoken
<1>9. StreamTyped'
    BY <1>1, <1>3, <1>7, <1>8 DEF StreamTyped, S
<1>10. TextKept'
    BY <1>1, <1>3, <1>6, <1>7 DEF TextKept
<1>11. Placed'
    BY <1>3 DEF Placed
<1>12. SequenceKept'
    BY <1>1, <1>3, <1>7 DEF SequenceKept, TextKept
<1>13. ReceivedGood'
    BY <1>1, <1>3 DEF ReceivedGood, Placed
<1>14. AnswerKept'
    <2>1. ASSUME conn = "up"
          PROVE  Kept(p, EventsOf(out) \o deltaEvents(sse, d), Telling(p, sse', todo))
        <3>1. Answer = EventsOf(out)
            BY <1>2, <1>4 DEF Answer
        <3>2. Kept(p, EventsOf(out), Telling(p, sse, todo))
            BY <1>1, <1>3, <2>1, <3>1 DEF AnswerKept, TextKept
        <3>. QED
            BY <1>2, <1>5, <1>7, <3>2, DeltaKept
    <2>2. Answer' = EventsOf(out) \o deltaEvents(sse, d)
        BY <1>3 DEF Answer
    <2>. QED
        BY <1>3, <2>1, <2>2 DEF AnswerKept
<1>. QED
    BY <1>9, <1>10, <1>11, <1>12, <1>13, <1>14 DEF StreamInv

LEMMA FailOverStep == StreamInv /\ FailOver => StreamInv'
<1>. SUFFICES ASSUME StreamInv, FailOver PROVE StreamInv'
    OBVIOUS
<1>1. StreamTyped /\ TextKept /\ Placed /\ SequenceKept /\ ReceivedGood /\ AnswerKept
    BY DEF StreamInv
<1>2. request.protocol \in Protocols /\ todo \in Nat /\ MaxTries \in Nat /\ EventsOf(<<>>) = <<>>
    BY InvFacts
<1>3. /\ pc = "gateway" /\ ~announced /\ todo < MaxTries /\ todo' = todo + 1
      /\ UNCHANGED <<request, pc, announced, sse, result, pending, conn, out>>
    BY DEF FailOver, MayFailOver
<1>4. sse.text = <<>> /\ (~sse.started => out = <<>>) /\ (sse.started => conn = "broken")
    BY <1>1, <1>3 DEF TextKept, Placed
<1>5. StreamTyped'
    <2>1. todo' \in 1..MaxTries
        BY <1>1, <1>2, <1>3 DEF StreamTyped
    <2>. QED
        BY <1>1, <1>3, <2>1 DEF StreamTyped
<1>6. TextKept'
    BY <1>1, <1>3, <1>4 DEF TextKept
<1>7. Placed' /\ SequenceKept'
    BY <1>1, <1>3 DEF Placed, SequenceKept
<1>8. ReceivedGood'
    <2>1. CASE sse.started
        BY <1>1, <1>3, <1>4, <2>1 DEF ReceivedGood
    <2>2. CASE ~sse.started
        BY <1>2, <1>3, <1>4, <2>2, NothingGood DEF ReceivedGood
    <2>. QED
        BY <1>1, <2>1, <2>2 DEF StreamTyped
<1>9. AnswerKept'
    BY <1>3, <1>4 DEF AnswerKept
<1>. QED
    BY <1>5, <1>6, <1>7, <1>8, <1>9 DEF StreamInv

LEMMA FinishStep == StreamInv /\ Finish => StreamInv'
<1>. SUFFICES ASSUME StreamInv, Finish PROVE StreamInv'
    OBVIOUS
<1>. DEFINE p == request.protocol
<1>1. StreamTyped /\ TextKept /\ Placed /\ SequenceKept /\ ReceivedGood /\ AnswerKept
    BY DEF StreamInv
<1>2. /\ p \in Protocols /\ todo \in Nat /\ SoFar(sse)
      /\ EventsOf(out) \in Seq(Events) /\ EventsOf(out) \o <<>> = EventsOf(out)
    BY InvFacts
<1>3. /\ pc = "gateway" /\ announced /\ result' \in Replies
      /\ pc' = "finish" /\ pending' = finishEvents(sse, result')
      /\ UNCHANGED <<request, todo, announced, sse, conn, out>>
    BY DEF Finish, Writing
<1>4. result' \in [kind: {"none", "reply", "error"}, text: Fragments, calls: Nat, usage: BOOLEAN]
      /\ result'.kind = "reply" /\ result'.calls \in Nat
    BY <1>2, <1>3, RepliesType
<1>5. pending = <<>> /\ sse.started
    BY <1>1, <1>3 DEF Placed, TextKept
<1>6. finishEvents(sse, result') \in Seq(Spoken(p))
    BY <1>2, <1>4, FinishSpoken
<1>7. StreamTyped'
    BY <1>1, <1>3, <1>4, <1>6 DEF StreamTyped
<1>8. TextKept' /\ Placed'
    BY <1>1, <1>3 DEF TextKept, Placed
<1>9. SequenceKept'
    BY <1>1, <1>3, <1>5 DEF SequenceKept
<1>10. ReceivedGood'
    BY <1>1, <1>3 DEF ReceivedGood
<1>11. AnswerKept'
    <2>1. ASSUME conn = "up"
          PROVE  /\ Told(p, EventsOf(out) \o finishEvents(sse, result'), "reply")
                 /\ Named(EventsOf(out) \o finishEvents(sse, result'), todo)
                 /\ Seen(p, EventsOf(out) \o finishEvents(sse, result')) = Contents(Built(p, sse.text, result'.calls))
        <3>1. Answer = EventsOf(out)
            BY <1>2, <1>5 DEF Answer
        <3>2. Kept(p, EventsOf(out), Telling(p, sse, todo))
            BY <1>1, <1>3, <1>5, <2>1, <3>1 DEF AnswerKept
        <3>. QED
            BY <1>2, <1>4, <3>2, FinishTold
    <2>2. Answer' = EventsOf(out) \o finishEvents(sse, result')
        BY <1>3 DEF Answer
    <2>. QED
        BY <1>3, <1>4, <2>1, <2>2 DEF AnswerKept
<1>. QED
    BY <1>7, <1>8, <1>9, <1>10, <1>11 DEF StreamInv

LEMMA WriteJSONStep == StreamInv /\ WriteJSON => StreamInv'
<1>. SUFFICES ASSUME StreamInv, WriteJSON PROVE StreamInv'
    OBVIOUS
<1>. DEFINE p == request.protocol
            document == <<Whole("json", responseID(todo, FinishInstant), Built(p, result'.text, result'.calls))>>
<1>1. StreamTyped /\ TextKept /\ Placed /\ SequenceKept /\ ReceivedGood /\ AnswerKept
    BY DEF StreamInv
<1>2. p \in Protocols /\ todo \in Nat /\ EventsOf(<<>>) = <<>>
    BY InvFacts
<1>3. /\ pc = "gateway" /\ ~request.stream /\ result' \in Replies
      /\ pc' = "finish" /\ pending' = document
      /\ UNCHANGED <<request, todo, announced, sse, conn, out>>
    BY DEF WriteJSON, Writing
<1>4. /\ result' \in [kind: {"none", "reply", "error"}, text: Fragments, calls: Nat, usage: BOOLEAN]
      /\ result'.kind = "reply" /\ result'.calls \in Nat /\ result'.text \in Fragments
    BY <1>2, <1>3, RepliesType
<1>5. ~announced /\ ~sse.started /\ out = <<>>
    BY <1>1, <1>3 DEF Placed, TextKept
<1>6. Told(p, document, "reply") /\ Named(document, todo) /\ document \in Seq(Spoken(p))
    BY <1>2, <1>4, JsonTold
<1>7. Len(document) = 1
    OBVIOUS
<1>. HIDE DEF document
<1>8. StreamTyped'
    BY <1>1, <1>3, <1>4, <1>6 DEF StreamTyped
<1>9. TextKept' /\ Placed'
    BY <1>1, <1>3 DEF TextKept, Placed
<1>10. SequenceKept'
    BY <1>1, <1>3, <1>5, <1>7 DEF SequenceKept
<1>11. ReceivedGood'
    BY <1>1, <1>3 DEF ReceivedGood
<1>12. AnswerKept'
    <2>1. <<>> \o document = document
        BY <1>6, ConcatEmptySeq
    <2>2. Answer' = document
        BY <1>2, <1>3, <1>5, <2>1 DEF Answer
    <2>. QED
        BY <1>3, <1>4, <1>6, <2>2 DEF AnswerKept
<1>. QED
    BY <1>8, <1>9, <1>10, <1>11, <1>12 DEF StreamInv

LEMMA FailStep == StreamInv /\ Fail => StreamInv'
<1>. SUFFICES ASSUME StreamInv, Fail PROVE StreamInv'
    OBVIOUS
<1>. DEFINE p == request.protocol
            alone == <<Plain("http_error")>>
<1>1. StreamTyped /\ TextKept /\ Placed /\ SequenceKept /\ ReceivedGood /\ AnswerKept
    BY DEF StreamInv
<1>2. /\ p \in Protocols /\ todo \in Nat /\ EventsOf(<<>>) = <<>>
      /\ EventsOf(out) \in Seq(Events) /\ EventsOf(out) \o <<>> = EventsOf(out)
    BY InvFacts
<1>3. /\ pc = "gateway" /\ pc' = "error"
      /\ pending' = IF sse.started THEN errorEvents(p) ELSE alone
      /\ result' = [result EXCEPT !.kind = "error"]
      /\ UNCHANGED <<request, todo, announced, sse, conn, out>>
    BY DEF Fail, Writing
<1>4. /\ result' \in [kind: {"none", "reply", "error"}, text: Fragments, calls: Nat, usage: BOOLEAN]
      /\ result'.kind = "error"
    BY <1>1, <1>3 DEF StreamTyped
<1>5. pending = <<>> /\ (~sse.started => out = <<>>)
    BY <1>1, <1>3 DEF Placed, TextKept
<1>6. errorEvents(p) \in Seq(Spoken(p)) /\ alone \in Seq(Spoken(p)) /\ Len(alone) = 1
    BY <1>2, ErrorSpoken
<1>7. Told(p, alone, "error") /\ Named(alone, todo)
    BY <1>2, HttpErrorTold
<1>. HIDE DEF alone
<1>8. StreamTyped'
    <2>1. pending' \in Seq(Spoken(p))
        BY <1>3, <1>6
    <2>. QED
        BY <1>1, <1>3, <1>4, <2>1 DEF StreamTyped
<1>9. TextKept' /\ Placed'
    BY <1>1, <1>3 DEF TextKept, Placed
<1>10. SequenceKept'
    BY <1>1, <1>3, <1>5, <1>6 DEF SequenceKept
<1>11. ReceivedGood'
    BY <1>1, <1>3 DEF ReceivedGood
<1>12. AnswerKept'
    <2>1. ASSUME conn = "up"
          PROVE  Told(p, Answer', "error") /\ Named(Answer', todo)
        <3>1. CASE sse.started
            <4>1. Answer = EventsOf(out)
                BY <1>2, <1>5 DEF Answer
            <4>2. Kept(p, EventsOf(out), Telling(p, sse, todo))
                BY <1>1, <1>3, <1>5, <2>1, <3>1, <4>1 DEF AnswerKept
            <4>3. Answer' = EventsOf(out) \o errorEvents(p)
                BY <1>3, <3>1 DEF Answer
            <4>. QED
                BY <4>2, <4>3, ErrorTold
        <3>2. CASE ~sse.started
            <4>1. <<>> \o alone = alone
                BY <1>6, ConcatEmptySeq
            <4>2. Answer' = alone
                BY <1>2, <1>3, <1>5, <3>2, <4>1 DEF Answer
            <4>. QED
                BY <1>7, <4>2
        <3>. QED
            BY <1>1, <3>1, <3>2 DEF StreamTyped
    <2>. QED
        BY <1>3, <1>4, <2>1 DEF AnswerKept
<1>. QED
    BY <1>8, <1>9, <1>10, <1>11, <1>12 DEF StreamInv

(***************************************************************************)
(* The steps of the connection.                                            *)
(***************************************************************************)
LEMMA Moved ==
    ASSUME NEW S, NEW done \in Seq(S), NEW left \in Seq(S), left # <<>>
    PROVE  /\ Head(left) \in S /\ Tail(left) \in Seq(S) /\ Len(Tail(left)) = Len(left) - 1
           /\ Append(done, Head(left)) \o Tail(left) = done \o left
<1>. DEFINE e == Head(left)
            rest == Tail(left)
<1>1. e \in S /\ rest \in Seq(S) /\ Len(rest) = Len(left) - 1
    BY HeadTailProperties
<1>2. <<e>> \o rest = left
    BY HeadTailProperties
<1>. HIDE DEF e, rest
<1>3. <<e>> \in Seq(S) /\ done \o <<e>> = Append(done, e)
    BY <1>1, OneByOne
<1>4. done \o (<<e>> \o rest) = (done \o <<e>>) \o rest
    <2>. DEFINE one == <<e>>
    <2>1. one \in Seq(S)
        BY <1>3
    <2>. HIDE DEF one
    <2>2. done \o (one \o rest) = (done \o one) \o rest
        BY <1>1, <2>1, Regrouped, SMTT(30)
    <2>. QED
        BY <2>2 DEF one
<1>. QED
    BY <1>1, <1>2, <1>3, <1>4 DEF e, rest

\* The beginning of a good answer.
LEMMA BeginningGood ==
    ASSUME NEW p, NEW t, NEW es \in Seq(Events), NEW rest \in Seq(Events),
           Good(p, es \o rest), Named(es \o rest, t)
    PROVE  Good(p, es) /\ Named(es, t)
<1>. DEFINE all == es \o rest
<1>1. /\ all \in Seq(Events) /\ Len(all) = Len(es) + Len(rest) /\ Len(es) \in Nat /\ Len(rest) \in Nat
      /\ DOMAIN es = 1..Len(es) /\ DOMAIN all = 1..Len(all)
    BY ConcatProperties, LenProperties
<1>2. \A i \in 1..Len(es) : all[i] = es[i]
    BY <1>1, ConcatProperties
<1>. HIDE DEF all
<1>3. Len(es) \in 0..Len(all)
    BY <1>1
<1>4. /\ SubSeq(all, 1, Len(es)) \in Seq(Events) /\ Len(SubSeq(all, 1, Len(es))) = Len(es)
      /\ \A i \in 1..Len(es) : SubSeq(all, 1, Len(es))[i] = all[i]
    BY <1>1, <1>3, SubSeqProperties
<1>5. SubSeq(all, 1, Len(es)) = es
    <2>. DEFINE part == SubSeq(all, 1, Len(es))
    <2>. HIDE DEF part
    <2>1. part \in Seq(Events) /\ Len(part) = Len(es) /\ \A i \in 1..Len(es) : part[i] = es[i]
        BY <1>2, <1>4 DEF part
    <2>2. part = es
        BY <2>1, SeqEqual
    <2>. QED
        BY <2>2 DEF part
<1>6. Good(p, es)
    <2>1. Good(p, all)
        BY DEF all
    <2>. QED
        BY <1>1, <1>3, <1>5, <2>1, PartIsGood
<1>7. Named(es, t)
    <2>1. Named(all, t)
        BY DEF all
    <2>. QED
        BY <1>1, <1>2, <2>1 DEF Named
<1>. QED
    BY <1>6, <1>7

\* While the connection is up, the answer is good as far as it is known.
LEMMA AnswerGood ==
    ASSUME StreamInv, conn = "up", pending # <<>>
    PROVE  Good(request.protocol, Answer) /\ Named(Answer, todo) /\ pc \in {"start", "emit", "finish", "error"}
<1>1. StreamTyped /\ TextKept /\ Placed /\ AnswerKept
    BY DEF StreamInv
<1>2. pc \in {"start", "emit", "finish", "error"}
    BY <1>1 DEF StreamTyped, Placed
<1>3. CASE pc \in {"start", "emit"}
    <2>. DEFINE led == Telling(request.protocol, sse, todo)
    <2>1. Kept(request.protocol, Answer, led)
        BY <1>1, <1>3 DEF AnswerKept, Placed, TextKept
    <2>2. led.rid = responseID(todo, StartInstant)
        BY BookFields DEF Telling
    <2>. HIDE DEF led
    <2>. QED
        BY <1>3, <2>1, <2>2, KeptIsGood, KeptIsNamed
<1>4. CASE pc \notin {"start", "emit"}
    BY <1>1, <1>2, <1>4 DEF AnswerKept, Told
<1>. QED
    BY <1>3, <1>4

LEMMA WriteStep == StreamInv /\ Write => StreamInv'
<1>. SUFFICES ASSUME StreamInv, Write PROVE StreamInv'
    OBVIOUS
<1>. DEFINE p == request.protocol
            e == Head(pending)
            rest == Tail(pending)
<1>1. StreamTyped /\ TextKept /\ Placed /\ SequenceKept /\ ReceivedGood /\ AnswerKept
    BY DEF StreamInv
<1>2. p \in Protocols /\ todo \in Nat /\ EventsOf(out) \in Seq(Events) /\ pending \in Seq(Events)
    BY InvFacts
<1>3. /\ pending # <<>> /\ conn # "broken"
      /\ sse' = [sse EXCEPT !.sequence = IF p = "responses" /\ sse.started THEN @ + 1 ELSE @]
      /\ out' = IF conn = "up" THEN Append(out, [event |-> e, number |-> sse.sequence]) ELSE out
      /\ pending' = rest /\ pc' = IF Len(pending) = 1 THEN Return(pc) ELSE pc
      /\ announced' = (announced \/ (pc = "start" /\ Len(pending) = 1))
      /\ UNCHANGED <<request, todo, result, conn>>
    BY DEF Write, Numbered
<1>4. /\ pending \in Seq(Spoken(p)) /\ out \in Seq(Wire) /\ sse.sequence \in Nat
      /\ pc \in {"start", "emit", "finish", "error"}
    BY <1>1, <1>3 DEF StreamTyped, Placed
<1>5. /\ sse' \in [started: BOOLEAN, textStarted: BOOLEAN,
                   text: Seq((1..MaxTries) \X (1..MaxText)), sequence: Nat]
      /\ sse'.text = sse.text /\ sse'.textStarted = sse.textStarted /\ sse'.started = sse.started
      /\ sse'.sequence = IF p = "responses" /\ sse.started THEN sse.sequence + 1 ELSE sse.sequence
    <2>. DEFINE next == IF p = "responses" /\ sse.started THEN sse.sequence + 1 ELSE sse.sequence
    <2>1. sse' = [sse EXCEPT !.sequence = next]
        BY <1>3
    <2>2. next \in Nat
        BY <1>1 DEF StreamTyped
    <2>. HIDE DEF next
    <2>3. sse' \in [started: BOOLEAN, textStarted: BOOLEAN,
                    text: Seq((1..MaxTries) \X (1..MaxText)), sequence: Nat]
          /\ sse'.text = sse.text /\ sse'.textStarted = sse.textStarted /\ sse'.started = sse.started
          /\ sse'.sequence = next
        BY <1>1, <2>1, <2>2 DEF StreamTyped
    <2>. QED
        BY <2>3 DEF next
<1>6. /\ e \in Events /\ rest \in Seq(Spoken(p)) /\ rest \in Seq(Events) /\ Len(rest) = Len(pending) - 1
      /\ Append(EventsOf(out), e) \o rest = EventsOf(out) \o pending
    <2>1. e \in Events /\ rest \in Seq(Events) /\ Append(EventsOf(out), e) \o rest = EventsOf(out) \o pending
        BY <1>2, <1>3, Moved
    <2>2. rest \in Seq(Spoken(p)) /\ Len(rest) = Len(pending) - 1
        BY <1>3, <1>4, HeadTailProperties
    <2>. QED
        BY <2>1, <2>2
<1>7. Len(pending) = 1 => rest = <<>>
    <2>1. SUFFICES ASSUME Len(pending) = 1 PROVE rest = <<>>
        OBVIOUS
    <2>2. Len(rest) = 0
        BY <1>6, <2>1
    <2>. QED
        BY <1>6, <2>2, EmptySeq
<1>. HIDE DEF e, rest
<1>8. /\ EventsOf(Append(out, [event |-> e, number |-> sse.sequence])) = Append(EventsOf(out), e)
      /\ Append(out, [event |-> e, number |-> sse.sequence]) \in Seq(Wire)
    BY <1>4, <1>6, DeliveredMore
<1>9. pc' = (IF Len(pending) = 1 THEN IF pc \in {"start", "emit"} THEN "gateway" ELSE "done" ELSE pc)
    BY <1>3 DEF Return
<1>10. StreamTyped'
    <2>1. out' \in Seq(Wire)
        BY <1>3, <1>4, <1>8
    <2>2. pc' \in {"gateway", "start", "emit", "finish", "error", "done"} /\ announced' \in BOOLEAN
        BY <1>1, <1>3, <1>4, <1>9 DEF StreamTyped
    <2>. QED
        BY <1>1, <1>3, <1>5, <1>6, <2>1, <2>2 DEF StreamTyped
<1>11. TextKept'
    <2>1. announced => announced'
        BY <1>3
    <2>2. announced' => announced \/ pc = "start"
        BY <1>3
    <2>3. pc = "start" /\ ~announced' => pc' = "start"
        BY <1>3, <1>9
    <2>. QED
        BY <1>1, <1>3, <1>5, <2>1, <2>2, <2>3 DEF TextKept, Placed
<1>12. Placed'
    <2>1. pc' = "emit" => pc = "emit"
        BY <1>4, <1>9
    <2>2. pc' = "start" => pc = "start"
        BY <1>4, <1>9
    <2>3. pc' = "gateway" => Len(pending) = 1 /\ pc \in {"start", "emit"}
        BY <1>4, <1>9
    <2>4. pc' = "done" => Len(pending) = 1
        BY <1>4, <1>9
    <2>5. pc \in {"start", "emit"} => sse.started
        BY <1>1 DEF Placed, TextKept
    <2>. QED
        BY <1>1, <1>3, <1>5, <1>7, <2>1, <2>2, <2>3, <2>4, <2>5 DEF Placed
<1>13. CASE conn = "up"
    <2>1. out' = Append(out, [event |-> e, number |-> sse.sequence])
        BY <1>3, <1>13
    <2>2. EventsOf(out') = Append(EventsOf(out), e) /\ Answer' = Answer
        BY <1>3, <1>6, <1>8, <2>1 DEF Answer
    <2>3. SequenceKept'
        <3>1. /\ Len(out) \in Nat /\ Len(out') = Len(out) + 1
              /\ DOMAIN out = 1..Len(out) /\ DOMAIN out' = 1..Len(out) + 1
              /\ out'[Len(out) + 1].number = sse.sequence
              /\ \A i \in 1..Len(out) : out'[i] = out[i]
            <4>. DEFINE x == [event |-> e, number |-> sse.sequence]
            <4>1. x \in Wire /\ x.number = sse.sequence
                BY <1>4, <1>6 DEF Wire
            <4>. HIDE DEF x
            <4>2. out' = Append(out, x)
                BY <2>1 DEF x
            <4>. QED
                BY <1>4, <4>1, <4>2, LastOfMore
        <3>2. ASSUME p = "responses"
              PROVE  sse.sequence = Len(out) /\ (~sse.started => rest = <<>>)
            <4>1. CASE sse.started
                BY <1>1, <1>13, <3>2, <4>1 DEF SequenceKept
            <4>2. CASE ~sse.started
                <5>1. sse.sequence = 0 /\ out = <<>> /\ Len(pending) = 1
                    BY <1>1, <1>3, <1>13, <3>2, <4>2 DEF SequenceKept
                <5>. QED
                    BY <1>7, <5>1
            <4>. QED
                BY <4>1, <4>2
        <3>3. ASSUME p = "responses", NEW i \in DOMAIN out'
              PROVE  out'[i].number = i - 1
            <4>1. CASE i = Len(out) + 1
                BY <3>1, <3>2, <3>3, <4>1
            <4>2. CASE i # Len(out) + 1
                <5>1. i \in 1..Len(out)
                    BY <3>1, <3>3, <4>2
                <5>. QED
                    BY <1>1, <3>1, <3>3, <5>1 DEF SequenceKept
            <4>. QED
                BY <4>1, <4>2
        <3>4. p = "responses" => /\ sse'.sequence = IF sse'.started THEN Len(out') ELSE 0
                                 /\ ~sse'.started => pending' = <<>>
            <4>1. p = "responses" /\ ~sse.started => sse.sequence = 0
                BY <1>1, <1>13 DEF SequenceKept
            <4>. QED
                BY <1>3, <1>5, <3>1, <3>2, <4>1
        <3>. QED
            BY <1>3, <3>3, <3>4 DEF SequenceKept
    <2>4. ReceivedGood'
        <3>1. Good(p, Answer) /\ Named(Answer, todo)
            BY <1>3, <1>13, AnswerGood
        <3>2. Answer = Append(EventsOf(out), e) \o rest /\ Append(EventsOf(out), e) \in Seq(Events)
            BY <1>2, <1>6, LastOfMore DEF Answer
        <3>3. Good(p, Append(EventsOf(out), e)) /\ Named(Append(EventsOf(out), e), todo)
            BY <1>6, <3>1, <3>2, BeginningGood
        <3>. QED
            BY <1>3, <2>2, <3>3 DEF ReceivedGood
    <2>5. AnswerKept'
        <3>1. Telling(p, sse', todo) = Telling(p, sse, todo)
            BY <1>5, TellingSame
        <3>2. pc' \in {"gateway", "start", "emit"} => pc \in {"start", "emit"}
            BY <1>4, <1>9
        <3>3. pc' \in {"finish", "error", "done"} => pc \in {"finish", "error"}
            BY <1>4, <1>9
        <3>. QED
            BY <1>1, <1>3, <1>5, <2>2, <3>1, <3>2, <3>3 DEF AnswerKept
    <2>. QED
        BY <1>10, <1>11, <1>12, <2>3, <2>4, <2>5 DEF StreamInv
<1>14. CASE conn # "up"
    <2>1. out' = out /\ conn' # "up"
        BY <1>3, <1>14
    <2>2. SequenceKept' /\ ReceivedGood' /\ AnswerKept'
        BY <1>1, <1>3, <2>1 DEF SequenceKept, ReceivedGood, AnswerKept
    <2>. QED
        BY <1>10, <1>11, <1>12, <2>2 DEF StreamInv
<1>. QED
    BY <1>13, <1>14

LEMMA WriteFailsStep == StreamInv /\ WriteFails => StreamInv'
<1>. SUFFICES ASSUME StreamInv, WriteFails PROVE StreamInv'
    OBVIOUS
<1>. DEFINE p == request.protocol
<1>1. StreamTyped /\ TextKept /\ Placed /\ SequenceKept /\ ReceivedGood /\ AnswerKept
    BY DEF StreamInv
<1>2. p \in Protocols /\ <<>> \in Seq(Spoken(p))
    BY InvFacts
<1>3. /\ pending # <<>> /\ conn' = "broken" /\ UNCHANGED <<request, todo, announced, out>>
      /\ sse' = [sse EXCEPT !.sequence = IF p = "responses" /\ sse.started THEN @ + 1 ELSE @]
    BY DEF WriteFails, Numbered
<1>4. /\ sse' \in [started: BOOLEAN, textStarted: BOOLEAN,
                   text: Seq((1..MaxTries) \X (1..MaxText)), sequence: Nat]
      /\ sse'.text = sse.text /\ sse'.textStarted = sse.textStarted /\ sse'.started = sse.started
    <2>. DEFINE next == IF p = "responses" /\ sse.started THEN sse.sequence + 1 ELSE sse.sequence
    <2>1. sse' = [sse EXCEPT !.sequence = next]
        BY <1>3
    <2>2. next \in Nat
        BY <1>1 DEF StreamTyped
    <2>. HIDE DEF next
    <2>3. sse' \in [started: BOOLEAN, textStarted: BOOLEAN,
                    text: Seq((1..MaxTries) \X (1..MaxText)), sequence: Nat]
          /\ sse'.text = sse.text /\ sse'.textStarted = sse.textStarted /\ sse'.started = sse.started
          /\ sse'.sequence = next
        BY <1>1, <2>1, <2>2 DEF StreamTyped
    <2>. QED
        BY <2>3 DEF next
<1>5. \/ pc' = "error" /\ pending' = errorEvents(p) /\ result' = [result EXCEPT !.kind = "error"]
      \/ pc' = "error" /\ pending' = Tail(pending) /\ result' = result
      \/ pc' = "done" /\ pending' = <<>> /\ result' = result
    <2>1. CASE pc \in {"start", "emit"}
        BY <2>1 DEF WriteFails, Writing
    <2>2. CASE pc = "error" /\ Len(pending) > 1
        BY <2>2 DEF WriteFails, Writing
    <2>3. CASE pc \notin {"start", "emit"} /\ ~(pc = "error" /\ Len(pending) > 1)
        BY <2>3 DEF WriteFails, Writing
    <2>. QED
        BY <2>1, <2>2, <2>3
<1>6. errorEvents(p) \in Seq(Spoken(p))
    BY <1>2, ErrorSpoken
<1>7. Tail(pending) \in Seq(Spoken(p))
    BY <1>1, <1>3, HeadTailProperties DEF StreamTyped
<1>8. StreamTyped'
    <2>1. result' \in [kind: {"none", "reply", "error"}, text: Fragments, calls: Nat, usage: BOOLEAN]
        BY <1>1, <1>5 DEF StreamTyped
    <2>2. pending' \in Seq(Spoken(p)) /\ pc' \in {"gateway", "start", "emit", "finish", "error", "done"}
        BY <1>2, <1>5, <1>6, <1>7
    <2>. QED
        BY <1>1, <1>3, <1>4, <2>1, <2>2 DEF StreamTyped
<1>9. TextKept'
    BY <1>1, <1>3, <1>4 DEF TextKept
<1>10. Placed'
    BY <1>5 DEF Placed
<1>11. SequenceKept' /\ ReceivedGood' /\ AnswerKept'
    BY <1>1, <1>3, <1>4 DEF SequenceKept, ReceivedGood, AnswerKept
<1>. QED
    BY <1>8, <1>9, <1>10, <1>11 DEF StreamInv

LEMMA StartLostStep == StreamInv /\ StartLost => StreamInv'
<1>. SUFFICES ASSUME StreamInv, StartLost PROVE StreamInv'
    OBVIOUS
<1>. DEFINE p == request.protocol
<1>1. StreamTyped /\ TextKept /\ Placed /\ SequenceKept /\ ReceivedGood /\ AnswerKept
    BY DEF StreamInv
<1>2. p \in Protocols /\ <<>> \in Seq(Spoken(p)) /\ todo \in Nat /\ MaxTries \in Nat
    BY InvFacts
<1>3. /\ pc = "start" /\ ~announced /\ conn' = "broken" /\ todo < MaxTries /\ todo' = todo + 1
      /\ pc' = "gateway" /\ pending' = <<>> /\ UNCHANGED <<request, announced, result, out>>
      /\ sse' = [sse EXCEPT !.sequence = IF p = "responses" /\ sse.started THEN @ + 1 ELSE @]
    BY DEF StartLost, MayFailOver, Writing, Numbered
<1>4. /\ sse' \in [started: BOOLEAN, textStarted: BOOLEAN,
                   text: Seq((1..MaxTries) \X (1..MaxText)), sequence: Nat]
      /\ sse'.text = sse.text /\ sse'.textStarted = sse.textStarted /\ sse'.started = sse.started
    <2>. DEFINE next == IF p = "responses" /\ sse.started THEN sse.sequence + 1 ELSE sse.sequence
    <2>1. sse' = [sse EXCEPT !.sequence = next]
        BY <1>3
    <2>2. next \in Nat
        BY <1>1 DEF StreamTyped
    <2>. HIDE DEF next
    <2>. QED
        BY <1>1, <2>1, <2>2 DEF StreamTyped
<1>5. sse.text = <<>> /\ sse.started
    BY <1>1, <1>3 DEF TextKept, Placed
<1>6. StreamTyped'
    <2>1. todo' \in 1..MaxTries
        BY <1>1, <1>2, <1>3 DEF StreamTyped
    <2>. QED
        BY <1>1, <1>2, <1>3, <1>4, <2>1 DEF StreamTyped
<1>7. TextKept'
    <2>1. announced' = FALSE /\ sse'.text = <<>> /\ sse'.started = TRUE /\ sse'.textStarted = sse.textStarted
        BY <1>1, <1>3, <1>4, <1>5 DEF StreamTyped
    <2>2. request' = request /\ conn' = "broken" /\ request.stream /\ sse.textStarted = FALSE
        BY <1>1, <1>3, <1>5 DEF TextKept
    <2>3. DOMAIN <<>> = {}
        OBVIOUS
    <2>. QED
        BY <2>1, <2>2, <2>3 DEF TextKept
<1>8. Placed'
    <2>1. pc' = "gateway" /\ pending' = <<>> /\ announced' = FALSE /\ sse'.started = TRUE
        BY <1>1, <1>3, <1>4, <1>5 DEF StreamTyped
    <2>. QED
        BY <2>1 DEF Placed
<1>9. SequenceKept' /\ ReceivedGood' /\ AnswerKept'
    BY <1>1, <1>3, <1>4, <1>5 DEF SequenceKept, ReceivedGood, AnswerKept
<1>. QED
    BY <1>6, <1>7, <1>8, <1>9 DEF StreamInv

LEMMA DisconnectStep == StreamInv /\ Disconnect => StreamInv'
<1>. SUFFICES ASSUME StreamInv, Disconnect PROVE StreamInv'
    OBVIOUS
<1>1. StreamTyped /\ TextKept /\ Placed /\ SequenceKept /\ ReceivedGood /\ AnswerKept
    BY DEF StreamInv
<1>2. /\ conn = "up" /\ conn' = "down"
      /\ UNCHANGED <<request, pc, todo, announced, sse, result, pending, out>>
    BY DEF Disconnect
<1>3. StreamTyped' /\ TextKept' /\ Placed'
    BY <1>1, <1>2 DEF StreamTyped, TextKept, Placed
<1>4. SequenceKept' /\ ReceivedGood' /\ AnswerKept'
    BY <1>1, <1>2 DEF SequenceKept, ReceivedGood, AnswerKept
<1>. QED
    BY <1>3, <1>4 DEF StreamInv

LEMMA StreamSame == StreamInv /\ UNCHANGED vars => StreamInv'
<1>. SUFFICES ASSUME StreamInv, UNCHANGED vars PROVE StreamInv'
    OBVIOUS
<1>1. StreamTyped /\ TextKept /\ Placed /\ SequenceKept /\ ReceivedGood /\ AnswerKept
    BY DEF StreamInv
<1>2. UNCHANGED <<request, pc, todo, announced, sse, result, pending, conn, out>>
    BY DEF vars
<1>3. StreamTyped' /\ TextKept' /\ Placed'
    BY <1>1, <1>2 DEF StreamTyped, TextKept, Placed
<1>4. SequenceKept' /\ ReceivedGood'
    BY <1>1, <1>2 DEF SequenceKept, ReceivedGood
<1>5. AnswerKept'
    BY <1>1, <1>2 DEF AnswerKept, Answer
<1>. QED
    BY <1>3, <1>4, <1>5 DEF StreamInv

LEMMA StreamKeeps == StreamInv /\ [Next]_vars => StreamInv'
<1>. SUFFICES ASSUME StreamInv, [Next]_vars PROVE StreamInv'
    OBVIOUS
<1>1. CASE Start
    BY <1>1, StartStep
<1>2. CASE TextDelta
    BY <1>2, TextDeltaStep
<1>3. CASE FailOver
    BY <1>3, FailOverStep
<1>4. CASE Finish
    BY <1>4, FinishStep
<1>5. CASE WriteJSON
    BY <1>5, WriteJSONStep
<1>6. CASE Fail
    BY <1>6, FailStep
<1>7. CASE Write
    BY <1>7, WriteStep
<1>8. CASE WriteFails
    BY <1>8, WriteFailsStep
<1>9. CASE Disconnect
    BY <1>9, DisconnectStep
<1>10. CASE Done \/ UNCHANGED vars
    BY <1>10, StreamSame DEF Done
<1>11. CASE StartLost
    BY <1>11, StartLostStep
<1>. QED
    BY <1>1, <1>2, <1>3, <1>4, <1>5, <1>6, <1>7, <1>8, <1>9, <1>10, <1>11 DEF Next

LEMMA StreamAlways == Spec => []StreamInv
<1>. QED
    BY StreamInit, StreamKeeps, PTL DEF Spec

(***************************************************************************)
(* What a client may rely on.                                              *)
(***************************************************************************)
LEMMA ReceivedIs == Received = EventsOf(out)
BY DEF Received, EventsOf

\* What is known of what a client has received, at any time.
LEMMA ClientFacts ==
    ASSUME StreamInv
    PROVE  /\ request.protocol \in Protocols /\ out \in Seq(Wire)
           /\ Received \in Seq(Events) /\ Len(Received) = Len(out) /\ DOMAIN Received = DOMAIN out
           /\ Len(out) \in Nat /\ DOMAIN out = 1..Len(out)
           /\ Good(request.protocol, Received) /\ (Named(Received, todo) \/ sse.text = <<>>)
           /\ \A k \in DOMAIN sse.text : sse.text[k][1] = todo
<1>1. StreamTyped /\ TextKept /\ ReceivedGood
    BY DEF StreamInv
<1>2. out \in Seq(Wire)
    BY <1>1 DEF StreamTyped
<1>3. Len(out) \in Nat /\ DOMAIN out = 1..Len(out)
    BY <1>2, LenProperties
<1>. QED
    BY <1>1, <1>2, <1>3, Delivered, InvFacts, ReceivedIs DEF TextKept, ReceivedGood

LEMMA DoneFacts ==
    ASSUME StreamInv, pc = "done", conn = "up"
    PROVE  /\ Told(request.protocol, Received, result.kind)
           /\ request.stream /\ result.kind = "reply" =>
                Seen(request.protocol, Received) = Contents(Built(request.protocol, sse.text, result.calls))
<1>1. Placed /\ AnswerKept
    BY DEF StreamInv
<1>2. pending = <<>>
    BY <1>1 DEF Placed
<1>3. Answer = Received
    BY <1>2, InvFacts, ReceivedIs DEF Answer
<1>. QED
    BY <1>1, <1>3 DEF AnswerKept

LEMMA TypeFromInv == StreamInv => StreamTypeOK
<1>. SUFFICES ASSUME StreamInv PROVE StreamTypeOK
    OBVIOUS
<1>1. StreamTyped
    BY DEF StreamInv
<1>2. /\ sse.started \in BOOLEAN /\ sse.textStarted \in BOOLEAN
      /\ sse.text \in Seq((1..MaxTries) \X (1..MaxText)) /\ sse.sequence \in Nat
      /\ result.kind \in {"none", "reply", "error"}
    BY <1>1 DEF StreamTyped
<1>3. ASSUME NEW i \in DOMAIN pending
      PROVE  pending[i].type \in EventTypes[request.protocol] \cup {"json", "http_error"}
    <2>1. pending[i] \in Spoken(request.protocol)
        BY <1>1, LenProperties, ElementOfSeq DEF StreamTyped
    <2>. QED
        BY <2>1 DEF Spoken
<1>4. ASSUME NEW i \in DOMAIN out
      PROVE  out[i].number \in Nat
    <2>1. out[i] \in Wire
        BY <1>1, LenProperties, ElementOfSeq DEF StreamTyped
    <2>. QED
        BY <2>1 DEF Wire
<1>. QED
    BY <1>1, <1>2, <1>3, <1>4 DEF StreamTypeOK, StreamTyped

LEMMA EndingFromInv == StreamInv => HonestEnding
<1>. SUFFICES ASSUME StreamInv PROVE HonestEnding
    OBVIOUS
<1>. DEFINE p == request.protocol
<1>1. /\ Received \in Seq(Events) /\ Len(Received) = Len(out) /\ DOMAIN Received = DOMAIN out
      /\ EndsLast(p, Received)
    BY ClientFacts DEF Good
<1>2. ASSUME pc = "done", conn = "up"
      PROVE  /\ out # <<>> /\ Ending(p, Last(Received))
             /\ result.kind = "error" <=> ShownBy(Received, Failures)
             /\ result.kind = "reply" <=> ShownBy(Received, Successes)
    <2>1. Told(p, Received, result.kind)
        BY <1>2, DoneFacts
    <2>2. Received # <<>> /\ Ending(p, Last(Received))
        BY <2>1 DEF Told, Last
    <2>3. out # <<>>
        <3>1. Len(Received) # 0
            BY <1>1, <2>2, EmptySeq
        <3>2. Len(<<>>) = 0
            OBVIOUS
        <3>. QED
            BY <1>1, <3>1, <3>2
    <2>. QED
        BY <2>1, <2>2, <2>3 DEF Told
<1>3. EndsOnce
    BY <1>1, <1>2 DEF EndsOnce, EndsLast
<1>4. \A types : Shows(types) <=> ShownBy(Received, types)
    BY <1>1 DEF Shows, ShownBy
<1>5. ASSUME pc = "done", conn = "up"
      PROVE  /\ result.kind = "error" <=> Shows({"error", "http_error"})
             /\ result.kind = "reply" <=> Shows({"json", "finish_stop", "finish_tool_calls", "completed"})
    BY <1>2, <1>4, <1>5 DEF Failures, Successes
<1>. QED
    BY <1>3, <1>5 DEF HonestEnding

LEMMA NestingFromInv == StreamInv => ItemsNested
<1>. SUFFICES ASSUME StreamInv PROVE ItemsNested
    OBVIOUS
<1>1. /\ Received \in Seq(Events) /\ DOMAIN Received = DOMAIN out /\ Nested(Received)
      /\ Len(out) \in Nat /\ DOMAIN out = 1..Len(out)
    BY ClientFacts DEF Good
<1>2. \A n : Opens(n) = Count(Received, "open", n) /\ Closes(n) = Count(Received, "close", n)
    BY DEF Opens, Closes, Count
<1>3. ASSUME NEW i \in DOMAIN out, Received[i].type \in {"finish_stop", "finish_tool_calls", "completed"}
      PROVE  Opens(i) = Opens(i - 1) /\ Closes(i) = Closes(i - 1)
    <2>1. ASSUME NEW type \in {"open", "close"}
          PROVE  {k \in 1..i : Received[k].type = type} = {k \in 1..i - 1 : Received[k].type = type}
        <3>1. \A k \in 1..i : k \in 1..i - 1 \/ k = i
            BY <1>1
        <3>2. \A k \in 1..i - 1 : k \in 1..i
            BY <1>1
        <3>3. Received[i].type # type
            BY <1>3
        <3>. QED
            BY <3>1, <3>2, <3>3
    <2>. QED
        BY <2>1 DEF Opens, Closes
<1>4. ASSUME NEW i \in DOMAIN out, request.protocol = "responses"
      PROVE  out[i].number = i - 1
    BY <1>4 DEF StreamInv, SequenceKept
<1>5. ASSUME NEW i \in DOMAIN out
      PROVE  LET e == Received[i] IN
             /\ e.type = "open" => Opens(i - 1) = Closes(i - 1) /\ e.index = Opens(i - 1)
             /\ e.type \in {"delta", "open_part", "complete", "close_part", "close"} =>
                  Opens(i - 1) = Closes(i - 1) + 1 /\ e.index = Closes(i - 1)
             /\ e.type \in {"finish_stop", "finish_tool_calls", "completed"} => Opens(i - 1) = Closes(i - 1)
    BY <1>1, <1>2 DEF Nested
<1>. QED
    BY <1>3, <1>4, <1>5 DEF ItemsNested

LEMMA SumFromInv == StreamInv => StreamAddsUp
<1>. SUFFICES ASSUME StreamInv PROVE StreamAddsUp
    OBVIOUS
<1>. DEFINE p == request.protocol
<1>1. /\ Received \in Seq(Events) /\ Len(Received) \in Nat /\ DOMAIN Received = DOMAIN out
      /\ RepeatsAlways(p, Received)
    BY ClientFacts DEF Good
<1>2. SubSeq(Received, 1, Len(Received)) = Received
    BY <1>1, SubSeqFull
<1>3. Repeats(p, Received)
    <2>1. Len(Received) \in 0..Len(Received)
        BY <1>1
    <2>. QED
        BY <1>1, <1>2, <2>1 DEF RepeatsAlways
<1>4. ASSUME request.stream, pc = "done", conn = "up", result.kind = "reply"
      PROVE  Seen(p, Received) = Contents(Built(p, sse.text, result.calls))
    BY <1>4, DoneFacts
<1>. QED
    BY <1>1, <1>3, <1>4 DEF StreamAddsUp, Repeats

LEMMA IdentityFromInv == StreamInv => IdentityKept
<1>. SUFFICES ASSUME StreamInv PROVE IdentityKept
    OBVIOUS
<1>1. /\ DOMAIN Received = DOMAIN out /\ OneName(Received) /\ (Named(Received, todo) \/ sse.text = <<>>)
      /\ \A k \in DOMAIN sse.text : sse.text[k][1] = todo
    BY ClientFacts DEF Good
<1>2. ASSUME NEW i \in DOMAIN out, Received[i].type \in {"created", "completed"}, NEW k \in DOMAIN sse.text
      PROVE  sse.text[k][1] = todoIDFromResponseID(Received[i].item.id)
    <2>1. Len(<<>>) = 0 /\ DOMAIN <<>> = {}
        OBVIOUS
    <2>2. Named(Received, todo)
        BY <1>1, <1>2, <2>1
    <2>. QED
        BY <1>1, <1>2, <2>2 DEF Named
<1>. QED
    BY <1>1, <1>2 DEF IdentityKept, OneName, ItemEvents

-----------------------------------------------------------------------------
\* Every variable of the stream has its type, and a transport writes the
\* events of its protocol only.
THEOREM StreamIsTyped == Spec => []StreamTypeOK
BY StreamAlways, TypeFromInv, PTL

\* A client that stays gets one ending, after everything else, and the ending
\* says whether the gateway returned a reply or an error.
THEOREM EndingIsHonest == Spec => []HonestEnding
BY StreamAlways, EndingFromInv, PTL

\* Items are numbered without gaps, opened and closed one after the other,
\* and a Responses stream is numbered without gaps, in every beginning of an
\* answer a client may be left with.
THEOREM ItemsAreNested == Spec => []ItemsNested
BY StreamAlways, NestingFromInv, PTL

\* A finished stream adds up to the items the same reply has without
\* streaming, and what an event repeats is what the deltas before it add up
\* to, for any number of fragments and tool calls.
THEOREM StreamsAddUp == Spec => []StreamAddsUp
BY StreamAlways, SumFromInv, PTL

\* The response identifier seen first is the one seen last and names the todo
\* all of the text came from, and an item keeps its own.
THEOREM IdentityIsKept == Spec => []IdentityKept
BY StreamAlways, IdentityFromInv, PTL
=============================================================================
