------------------------ MODULE ConversationProofs ------------------------
(***************************************************************************)
(* Proofs about continued conversations: todos are only continued for      *)
(* histories they have heard, and sessions stay as long as they should.    *)
(***************************************************************************)
EXTENDS ConversationProperties, SequenceTheorems, TLAPS

(***************************************************************************)
(* The inductive invariant.                                                *)
(***************************************************************************)
Answered == {"put", "names", "deliver"}
Posted   == {"wait"} \cup Answered

\* A request that resumes a todo, which none does before the lookup, or has
\* reached one names one that exists.
Aimed(c) ==
    /\ req[c].resuming \/ req[c].pc \in Posted => req[c].todo \in Todos
    /\ req[c].pc = "lookup" => ~req[c].resuming
    /\ req[c].pc = "enrich" => req[c].resuming
    /\ req[c].pc = "names" => req[c].reply.call \in Calls
\* Every todo has its users, and as many messages as it was opened with.
Lists ==
    /\ Len(users) = Len(transcript) /\ Len(opened) = Len(transcript)
    /\ \A t \in Todos : opened[t] <= Len(transcript[t])
Types ==
    /\ ConversationTypeOK
    /\ Lists
    /\ \A c \in Clients : Aimed(c)

\* Histories end with a reply and go without names; a request adds one
\* message to the history, and carries both or, with a todo id, the message.
Bare(ms) == \A i \in DOMAIN ms : ~ms[i].named
Carries(c, m) ==
    /\ m.role # "assistant" /\ ~m.named
    /\ req[c].full = Append(hist[c], m)
    /\ \/ Unnamed(req[c].msgs) = req[c].full
       \/ Unnamed(req[c].msgs) = <<m>> /\ req[c].id # 0
Client(c) ==
    /\ Bare(hist[c])
    /\ hist[c] # <<>> => hist[c][Len(hist[c])].role = "assistant"
    /\ req[c].pc # "idle" => \E m \in Message : Carries(c, m)
    /\ req[c].pc # "idle" /\ req[c].id # 0 => req[c].id = id[c]
    /\ req[c].pc = "send" /\ ~req[c].resuming => req[c].id = 0
    /\ req[c].pc \in Answered => req[c].reply.role = "assistant" /\ ~req[c].reply.named
ClientInv == \A c \in Clients : Client(c)

\* What a todo has heard.
Heard(ms, t) == Occur(ms, transcript[t], opened[t])
HeardBy(c) ==
    LET r == req[c] IN
    /\ id[c] # 0 => Heard(hist[c], id[c])
    /\ r.pc \in {"enrich", "send"} /\ r.resuming => Heard(hist[c], r.todo)
    /\ r.pc = "wait" => Heard(r.full, r.todo) /\ Heard(Unnamed(r.msgs), r.todo)
    /\ r.pc \in Answered => /\ Heard(Append(r.full, r.reply), r.todo)
                            /\ Heard(Append(Unnamed(r.msgs), r.reply), r.todo)
KeysHeard == \A e \in byHistory : e.key # <<>> /\ Heard(Unnamed(e.key), e.todo)
HeardInv == KeysHeard /\ \A c \in Clients : HeardBy(c)

\* A todo one client alone has talked to holds what that client knows, if it
\* is the todo of the request under way or of the last one, and less otherwise;
\* so do the keys it is found by.
Met(c) == /\ id[c] # 0 => c \in users[id[c]]
          /\ req[c].pc \in Posted => c \in users[req[c].todo]
Under(c, t) == req[c].pc \in Posted /\ req[c].todo = t
Holds(t, ms) == transcript[t] = AllTold(ms, opened[t])
Alone(c, t) ==
    LET r == req[c] IN
    /\ Under(c, t) => Holds(t, IF r.pc = "wait" THEN r.full ELSE Append(r.full, r.reply))
    /\ ~Under(c, t) => Len(transcript[t]) <= Len(hist[c])
    /\ ~Under(c, t) /\ id[c] = t => Holds(t, hist[c])
    /\ r.pc \in {"enrich", "send"} /\ r.resuming /\ r.todo = t => Holds(t, hist[c])
    /\ \A e \in byHistory : e.todo = t =>
         /\ Len(e.key) <= Len(transcript[t])
         /\ Len(e.key) = Len(transcript[t]) => Holds(t, Unnamed(e.key))
Unbroken == spent.edits = 0 /\ spent.failures = 0
CompleteInv ==
    /\ \A c \in Clients : Met(c)
    /\ \A t \in Todos : users[t] # {}
    /\ Unbroken => \A c \in Clients, t \in Todos : users[t] = {c} => Alone(c, t)

\* A session lives as long after a reply as it should.
Lives(c, t) == now <= replied[c] + TTL =>
                 \E e \in byTodoID : e.todo = t /\ e.expires >= replied[c] + TTL
LiveFor(c) ==
    /\ replied[c] <= now
    /\ req[c].pc \in {"names", "deliver"} => Lives(c, req[c].todo)
    /\ req[c].pc \notin {"names", "deliver"} /\ id[c] # 0 => Lives(c, id[c])
LiveInv == \A c \in Clients : LiveFor(c)

ConversationInv == Types /\ ClientInv /\ HeardInv /\ CompleteInv /\ LiveInv

(***************************************************************************)
(* Sequences of messages without their names.                              *)
(***************************************************************************)
Nameless(m) == [m EXCEPT !.named = FALSE]

LEMMA NamelessMessage ==
    ASSUME NEW m \in Message
    PROVE  /\ Nameless(m) \in Message /\ Nameless(m).role = m.role /\ ~Nameless(m).named
           /\ ~m.named => Nameless(m) = m
BY DEF Nameless, Message

LEMMA UnnamedSeq ==
    ASSUME NEW ms \in Seq(Message)
    PROVE  /\ Unnamed(ms) \in Seq(Message) /\ Len(Unnamed(ms)) = Len(ms)
           /\ \A i \in 1..Len(ms) : Unnamed(ms)[i] = Nameless(ms[i])
           /\ Bare(Unnamed(ms))
           /\ Bare(ms) => Unnamed(ms) = ms
<1>1. ms \in [1..Len(ms) -> Message] /\ Len(ms) \in Nat /\ DOMAIN ms = 1..Len(ms)
    BY LenProperties
<1>2. Unnamed(ms) = [i \in 1..Len(ms) |-> Nameless(ms[i])]
    BY <1>1 DEF Unnamed, Nameless
<1>3. \A i \in 1..Len(ms) : ms[i] \in Message
    BY <1>1
<1>4. \A i \in 1..Len(ms) : /\ Nameless(ms[i]) \in Message /\ ~Nameless(ms[i]).named
                            /\ ~ms[i].named => Nameless(ms[i]) = ms[i]
    BY <1>3, NamelessMessage
<1>5. Unnamed(ms) \in Seq(Message) /\ Len(Unnamed(ms)) = Len(ms) /\ DOMAIN Unnamed(ms) = 1..Len(ms)
    BY <1>1, <1>2, <1>4
<1>6. ASSUME Bare(ms)
      PROVE  Unnamed(ms) = ms
    BY <1>1, <1>2, <1>4, <1>6 DEF Bare
<1>. QED
    BY <1>2, <1>4, <1>5, <1>6 DEF Bare

LEMMA UnnamedAppend ==
    ASSUME NEW ms \in Seq(Message), NEW m \in Message, ~m.named
    PROVE  Unnamed(Append(ms, m)) = Append(Unnamed(ms), m)
<1>. DEFINE s == Append(ms, m)
            u == Append(Unnamed(ms), m)
<1>1. s \in Seq(Message) /\ Len(s) = Len(ms) + 1 /\ Len(ms) \in Nat
    BY AppendProperties, LenProperties
<1>2. u \in Seq(Message) /\ Len(u) = Len(ms) + 1
    BY UnnamedSeq, AppendProperties
<1>3. ASSUME NEW i \in 1..Len(ms) + 1
      PROVE  Unnamed(s)[i] = u[i]
    <2>1. Unnamed(s)[i] = Nameless(s[i])
        BY <1>1, UnnamedSeq
    <2>2. s[i] = IF i = Len(ms) + 1 THEN m ELSE ms[i]
        BY <1>1
    <2>3. u[i] = IF i = Len(ms) + 1 THEN m ELSE Unnamed(ms)[i]
        BY <1>1, UnnamedSeq
    <2>. QED
        BY <1>1, <2>1, <2>2, <2>3, UnnamedSeq, NamelessMessage
<1>. HIDE DEF s, u
<1>4. Unnamed(s) \in Seq(Message) /\ Len(Unnamed(s)) = Len(ms) + 1
    BY <1>1, UnnamedSeq
<1>5. Unnamed(s) = u
    BY <1>1, <1>2, <1>3, <1>4, SeqEqual
<1>. QED
    BY <1>5 DEF s, u

\* Two lists that differ in names only.
LEMMA UnnamedAlike ==
    ASSUME NEW ms \in Seq(Message), NEW ns \in Seq(Message), Len(ms) = Len(ns),
           \A i \in 1..Len(ms) : Nameless(ms[i]) = Nameless(ns[i])
    PROVE  Unnamed(ms) = Unnamed(ns)
BY UnnamedSeq, SeqEqual

\* A prefix.
LEMMA PrefixOf ==
    ASSUME NEW S, NEW s \in Seq(S), NEW n \in 0..Len(s)
    PROVE  /\ SubSeq(s, 1, n) \in Seq(S) /\ Len(SubSeq(s, 1, n)) = n
           /\ \A i \in 1..n : SubSeq(s, 1, n)[i] = s[i]
<1>1. \A i \in 1..n : s[i] \in S
    BY LenProperties, ElementOfSeq
<1>. QED
    BY <1>1, SubSeqProperties

LEMMA UnnamedPrefix ==
    ASSUME NEW ms \in Seq(Message), NEW n \in 0..Len(ms)
    PROVE  Unnamed(SubSeq(ms, 1, n)) = SubSeq(Unnamed(ms), 1, n)
<1>. DEFINE s == SubSeq(ms, 1, n)
            u == SubSeq(Unnamed(ms), 1, n)
<1>1. s \in Seq(Message) /\ Len(s) = n /\ \A i \in 1..n : s[i] = ms[i]
    BY PrefixOf
<1>2. u \in Seq(Message) /\ Len(u) = n /\ \A i \in 1..n : u[i] = Unnamed(ms)[i]
    BY UnnamedSeq, PrefixOf
<1>3. ASSUME NEW i \in 1..n
      PROVE  Unnamed(s)[i] = u[i]
    <2>1. i \in 1..Len(ms) /\ i \in 1..Len(s)
        BY <1>1, LenProperties
    <2>2. Unnamed(s)[i] = Nameless(s[i]) /\ Unnamed(ms)[i] = Nameless(ms[i])
        BY <1>1, <2>1, UnnamedSeq
    <2>. QED
        BY <1>1, <1>2, <2>2
<1>. HIDE DEF s, u
<1>4. Unnamed(s) = u
    BY <1>1, <1>2, <1>3, UnnamedSeq, SeqEqual
<1>. QED
    BY <1>4 DEF s, u

(***************************************************************************)
(* Messages that occur in a todo.                                          *)
(***************************************************************************)
LEMMA RenderedMessage ==
    ASSUME NEW m \in Message
    PROVE  /\ rendered(m) \in Message /\ rendered(m).role = m.role
           /\ m.role # "assistant" => rendered(m) = m
BY DEF rendered, Message

LEMMA ToldMessage ==
    ASSUME NEW m \in Message, NEW i \in Nat, NEW o \in Nat
    PROVE  /\ Told(m, i, o) \in Message
           /\ i <= o => Told(m, i, o) = rendered(m)
           /\ i > o => Told(m, i, o) = m
BY RenderedMessage DEF Told

\* What a todo holds of a list of messages.
LEMMA AllToldSeq ==
    ASSUME NEW ms \in Seq(Message), NEW o \in Nat
    PROVE  /\ AllTold(ms, o) \in Seq(Message) /\ Len(AllTold(ms, o)) = Len(ms)
           /\ \A i \in 1..Len(ms) : AllTold(ms, o)[i] = Told(ms[i], i, o)
<1>1. ms \in [1..Len(ms) -> Message] /\ Len(ms) \in Nat /\ DOMAIN ms = 1..Len(ms)
    BY LenProperties
<1>2. AllTold(ms, o) = [i \in 1..Len(ms) |-> Told(ms[i], i, o)]
    BY <1>1 DEF AllTold
<1>3. \A i \in 1..Len(ms) : Told(ms[i], i, o) \in Message
    BY <1>1, ToldMessage
<1>4. AllTold(ms, o) \in Seq(Message) /\ DOMAIN AllTold(ms, o) = 1..Len(ms)
    BY <1>1, <1>2, <1>3
<1>. QED
    BY <1>1, <1>2, <1>4, LenProperties

LEMMA AllToldAppend ==
    ASSUME NEW ms \in Seq(Message), NEW m \in Message, NEW o \in Nat, o <= Len(ms)
    PROVE  AllTold(Append(ms, m), o) = Append(AllTold(ms, o), m)
<1>. DEFINE s == Append(ms, m)
            a == AllTold(ms, o)
            u == Append(a, m)
<1>1. /\ s \in Seq(Message) /\ Len(s) = Len(ms) + 1 /\ s[Len(ms) + 1] = m
      /\ \A i \in 1..Len(ms) : s[i] = ms[i]
    BY AppendProperties, LenProperties
<1>2. /\ a \in Seq(Message) /\ Len(a) = Len(ms) /\ Len(ms) \in Nat
      /\ \A i \in 1..Len(ms) : a[i] = Told(ms[i], i, o)
    BY AllToldSeq, LenProperties
<1>. HIDE DEF a
<1>3. /\ u \in Seq(Message) /\ Len(u) = Len(ms) + 1 /\ u[Len(ms) + 1] = m
      /\ \A i \in 1..Len(ms) : u[i] = a[i]
    BY <1>2, AppendProperties
<1>. HIDE DEF s, u
<1>4. /\ AllTold(s, o) \in Seq(Message) /\ Len(AllTold(s, o)) = Len(ms) + 1
      /\ \A i \in 1..Len(ms) + 1 : AllTold(s, o)[i] = Told(s[i], i, o)
    BY <1>1, AllToldSeq
<1>5. ASSUME NEW i \in 1..Len(ms) + 1
      PROVE  AllTold(s, o)[i] = u[i]
    <2>1. CASE i = Len(ms) + 1
        <3>1. i \in Nat /\ i > o
            BY <1>2, <2>1
        <3>2. Told(m, i, o) = m
            BY <3>1, ToldMessage
        <3>. QED
            BY <1>1, <1>3, <1>4, <2>1, <3>2
    <2>2. CASE i # Len(ms) + 1
        <3>1. i \in 1..Len(ms)
            BY <1>2, <2>2
        <3>. QED
            BY <1>1, <1>2, <1>3, <1>4, <3>1
    <2>. QED
        BY <2>1, <2>2
<1>6. AllTold(s, o) = u
    BY <1>3, <1>4, <1>5, SeqEqual
<1>. QED
    BY <1>6 DEF s, u, a

\* All of what a todo is opened with is rendered.
LEMMA AllRendered ==
    ASSUME NEW ms \in Seq(Message)
    PROVE  /\ FlattenTurn(ms) = AllTold(ms, Len(ms)) /\ FlattenTurn(ms) \in Seq(Message)
           /\ Len(FlattenTurn(ms)) = Len(ms)
<1>1. Len(ms) \in Nat /\ DOMAIN ms = 1..Len(ms)
    BY LenProperties
<1>2. \A i \in 1..Len(ms) : Told(ms[i], i, Len(ms)) = rendered(ms[i])
    BY <1>1 DEF Told
<1>3. FlattenTurn(ms) = AllTold(ms, Len(ms))
    BY <1>1, <1>2 DEF FlattenTurn, AllTold
<1>. QED
    BY <1>1, <1>3, AllToldSeq

\* A message of a user or a tool is rendered as it is.
LEMMA RenderedAlone ==
    ASSUME NEW m \in Message, m.role # "assistant"
    PROVE  FlattenTurn(<<m>>) = <<m>>
<1>. DEFINE s == <<m>>
            u == FlattenTurn(s)
<1>1. s \in Seq(Message) /\ Len(s) = 1 /\ s[1] = m
    OBVIOUS
<1>. HIDE DEF s
<1>2. u = AllTold(s, 1) /\ u \in Seq(Message) /\ Len(u) = 1
    BY <1>1, AllRendered
<1>3. u[1] = Told(m, 1, 1)
    BY <1>1, <1>2, AllToldSeq
<1>4. Told(m, 1, 1) = m
    BY ToldMessage, RenderedMessage
<1>. HIDE DEF u
<1>5. \A i \in 1..1 : u[i] = s[i]
    BY <1>1, <1>3, <1>4
<1>6. u = s
    BY <1>1, <1>2, <1>5, SeqEqual
<1>. QED
    BY <1>6 DEF u, s

\* Message i of s is message i + f[i] of t, a todo opened with o messages.
Shifts(s, t, o, f) ==
    /\ f \in [1..Len(s) -> 0..Len(t) - Len(s)]
    /\ \A i \in 1..Len(s) : t[i + f[i]] = Told(s[i], i + f[i], o) /\ \A j \in 1..i : f[j] <= f[i]

LEMMA OccurByShifts ==
    ASSUME NEW s \in Seq(Message), NEW t \in Seq(Message), NEW o \in Nat
    PROVE  Occur(s, t, o) <=> \E f : Shifts(s, t, o, f)
BY LenProperties DEF Occur, Shifts

LEMMA NothingOccurs ==
    ASSUME NEW t \in Seq(Message), NEW o \in Nat
    PROVE  Occur(<<>>, t, o)
<1>1. Shifts(<<>>, t, o, <<>>)
    BY DEF Shifts
<1>. QED
    BY <1>1, EmptySeq, OccurByShifts

LEMMA AllOccurs ==
    ASSUME NEW s \in Seq(Message)
    PROVE  Occur(s, FlattenTurn(s), Len(s))
<1>. DEFINE f == [i \in 1..Len(s) |-> 0]
            t == FlattenTurn(s)
<1>1. /\ t \in Seq(Message) /\ Len(t) = Len(s) /\ Len(s) \in Nat
      /\ \A i \in 1..Len(s) : t[i] = Told(s[i], i, Len(s))
    BY AllRendered, AllToldSeq, LenProperties
<1>. HIDE DEF t
<1>2. Shifts(s, t, Len(s), f)
    BY <1>1 DEF Shifts
<1>. QED
    BY <1>1, <1>2, OccurByShifts DEF t

LEMMA PrefixOccurs ==
    ASSUME NEW s \in Seq(Message), NEW t \in Seq(Message), NEW o \in Nat, Occur(s, t, o), NEW n \in 0..Len(s)
    PROVE  Occur(SubSeq(s, 1, n), t, o)
<1>. DEFINE p == SubSeq(s, 1, n)
<1>1. p \in Seq(Message) /\ Len(p) = n /\ \A i \in 1..n : p[i] = s[i]
    BY PrefixOf
<1>2. PICK f : Shifts(s, t, o, f)
    BY OccurByShifts
<1>3. Len(s) \in Nat /\ Len(t) \in Nat /\ 1..n \subseteq 1..Len(s)
    BY LenProperties
<1>. DEFINE g == [i \in 1..n |-> f[i]]
<1>. HIDE DEF p
<1>4. \A i \in 1..Len(s) : f[i] \in 0..Len(t) - Len(s)
    BY <1>2 DEF Shifts
<1>5. \A i \in 1..n : f[i] \in 0..Len(t) - n
    BY <1>3, <1>4
<1>6. \A i \in 1..n : t[i + g[i]] = Told(p[i], i + g[i], o)
    BY <1>1, <1>2, <1>3 DEF Shifts
<1>7. ASSUME NEW i \in 1..n, NEW j \in 1..i
      PROVE  g[j] <= g[i]
    <2>1. i \in 1..Len(s) /\ j \in 1..n
        BY <1>3
    <2>. QED
        BY <1>2, <2>1 DEF Shifts
<1>8. Shifts(p, t, o, g)
    BY <1>1, <1>5, <1>6, <1>7 DEF Shifts
<1>. QED
    BY <1>1, <1>8, OccurByShifts DEF p

LEMMA OccursLater ==
    ASSUME NEW s \in Seq(Message), NEW t \in Seq(Message), NEW o \in Nat, Occur(s, t, o), NEW m \in Message
    PROVE  Occur(s, Append(t, m), o)
<1>. DEFINE u == Append(t, m)
<1>1. u \in Seq(Message) /\ Len(u) = Len(t) + 1 /\ \A i \in 1..Len(t) : u[i] = t[i]
    BY AppendProperties, LenProperties
<1>2. PICK f : Shifts(s, t, o, f)
    BY OccurByShifts
<1>3. Len(s) \in Nat /\ Len(t) \in Nat
    BY LenProperties
<1>. HIDE DEF u
<1>4. \A i \in 1..Len(s) : i + f[i] \in 1..Len(t)
    BY SMTT(30), <1>2, <1>3 DEF Shifts
<1>5. Shifts(s, u, o, f)
    BY SMTT(30), <1>1, <1>2, <1>3, <1>4 DEF Shifts
<1>. QED
    BY <1>1, <1>5, OccurByShifts DEF u

LEMMA BothOccur ==
    ASSUME NEW s \in Seq(Message), NEW t \in Seq(Message), NEW o \in Nat, Occur(s, t, o), NEW m \in Message,
           o <= Len(t)
    PROVE  Occur(Append(s, m), Append(t, m), o)
<1>. DEFINE r == Append(s, m)
            u == Append(t, m)
<1>1. /\ u \in Seq(Message) /\ Len(u) = Len(t) + 1
      /\ u[Len(t) + 1] = m /\ \A i \in 1..Len(t) : u[i] = t[i]
    BY AppendProperties, LenProperties
<1>2. /\ r \in Seq(Message) /\ Len(r) = Len(s) + 1
      /\ r[Len(s) + 1] = m /\ \A i \in 1..Len(s) : r[i] = s[i]
    BY AppendProperties, LenProperties
<1>3. PICK f : Shifts(s, t, o, f)
    BY OccurByShifts
<1>4. Len(s) \in Nat /\ Len(t) \in Nat
    BY LenProperties
<1>5. Len(s) <= Len(t)
    BY <1>3, <1>4 DEF Shifts
<1>. DEFINE d == Len(t) - Len(s)
            g == [i \in 1..Len(s) + 1 |-> IF i = Len(s) + 1 THEN d ELSE f[i]]
<1>. HIDE DEF u, r
<1>6. g \in [1..Len(s) + 1 -> 0..d]
    BY <1>3, <1>4, <1>5 DEF Shifts
<1>7. \A i \in 1..Len(s) : f[i] \in 0..d /\ i + f[i] \in 1..Len(t)
    <2>1. \A i \in 1..Len(s) : f[i] \in 0..d
        BY <1>3 DEF Shifts
    <2>. QED
        BY <1>4, <2>1
<1>8. ASSUME NEW i \in 1..Len(s) + 1
      PROVE  u[i + g[i]] = Told(r[i], i + g[i], o) /\ \A j \in 1..i : g[j] <= g[i]
    <2>1. CASE i = Len(s) + 1
        <3>1. i + g[i] = Len(t) + 1 /\ r[i] = m
            BY <1>2, <1>4, <1>5, <2>1
        <3>2. Told(m, Len(t) + 1, o) = m
            BY <1>4, ToldMessage
        <3>. QED
            BY <1>1, <1>4, <1>7, <2>1, <3>1, <3>2
    <2>2. CASE i # Len(s) + 1
        <3>1. i \in 1..Len(s) /\ 1..i \subseteq 1..Len(s)
            BY <1>4, <2>2
        <3>2. t[i + f[i]] = Told(s[i], i + f[i], o) /\ \A j \in 1..i : f[j] <= f[i]
            BY <1>3, <3>1 DEF Shifts
        <3>3. \A j \in 1..i : g[j] = f[j] /\ j # Len(s) + 1
            BY <1>4, <3>1
        <3>4. g[i] = f[i] /\ r[i] = s[i]
            BY <1>2, <1>4, <3>1
        <3>5. u[i + f[i]] = t[i + f[i]]
            BY <1>1, <1>7, <3>1
        <3>. HIDE DEF g
        <3>. QED
            BY <3>2, <3>3, <3>4, <3>5
    <2>. QED
        BY <2>1, <2>2
<1>9. Len(u) - Len(r) = d
    BY <1>1, <1>2, <1>4
<1>. HIDE DEF g, d
<1>10. Shifts(r, u, o, g)
    BY <1>2, <1>6, <1>8, <1>9 DEF Shifts
<1>. QED
    BY <1>1, <1>2, <1>10, OccurByShifts DEF r, u

(***************************************************************************)
(* The last reply of a request is the message before its last one.         *)
(***************************************************************************)
LEMMA LastReply ==
    ASSUME NEW ms \in Seq(Message), NEW n \in Nat, Len(ms) = n + 1,
           ms[n + 1].role # "assistant", n > 0 => ms[n].role = "assistant"
    PROVE  LastAssistant(ms) = n
<1>. DEFINE I == {i \in 1..Len(ms) : ms[i].role = "assistant"}
<1>1. LastAssistant(ms) = IF I # {} THEN Max(I) ELSE 0
    BY DEF LastAssistant, SelectLastInSeq
<1>2. I \subseteq 1..n
    OBVIOUS
<1>3. CASE n = 0
    <2>1. I = {}
        BY <1>2, <1>3
    <2>. QED
        BY <1>1, <1>3, <2>1
<1>4. CASE n > 0
    <2>1. n \in I /\ \A i \in I : i \in Nat /\ i <= n
        BY <1>2, <1>4
    <2>. HIDE DEF I
    <2>2. \E x \in I : \A y \in I : x >= y
        BY <2>1
    <2>3. Max(I) \in I /\ \A y \in I : Max(I) >= y
        BY <2>2 DEF Max
    <2>a. \A x \in I : (\A y \in I : x >= y) => x = n
        BY <2>1
    <2>4. Max(I) = n
        BY <2>a, <2>3, Zenon
    <2>. QED
        BY <1>1, <2>1, <2>4
<1>. QED
    BY <1>3, <1>4

\* What the lookup and the follow-up of a request are made of.
LEMMA RequestParts ==
    ASSUME NEW c \in Clients, hist[c] \in Seq(Message), req[c].msgs \in Seq(Message),
           Client(c), NEW m \in Message, Carries(c, m)
    PROVE  LET ms == req[c].msgs
               us == Unnamed(req[c].msgs)
               k == conversationKey(ms) IN
           /\ us = <<m>> \/ us = Append(hist[c], m)
           /\ Past(c) = <<>> \/ Past(c) = hist[c]
           /\ followUpMessages(us) = <<m>>
           /\ k \in Seq(Message)
           /\ k # <<>> => Unnamed(k) = hist[c] /\ Len(k) = Len(hist[c])
<1>. DEFINE ms == req[c].msgs
            us == Unnamed(ms)
            h == hist[c]
            n == Len(ms) - 1
<1>1. us = <<m>> \/ us = Append(h, m)
    BY DEF Carries
<1>2. us \in Seq(Message) /\ Len(us) = Len(ms) /\ \A i \in 1..Len(ms) : us[i] = Nameless(ms[i])
    BY UnnamedSeq
<1>3. Append(h, m) \in Seq(Message) /\ Len(Append(h, m)) = Len(h) + 1 /\ Append(h, m)[Len(h) + 1] = m
      /\ (\A i \in 1..Len(h) : Append(h, m)[i] = h[i]) /\ Len(h) \in Nat
    BY AppendProperties, LenProperties
<1>4. us = <<m>> => Len(us) = 1 /\ us[1] = m
    OBVIOUS
<1>5. n \in Nat /\ Len(ms) = n + 1
    BY <1>1, <1>2, <1>3, <1>4
<1>6. us[n + 1] = m
    BY <1>1, <1>2, <1>3, <1>4, <1>5
<1>7. n > 0 => us = Append(h, m) /\ n = Len(h) /\ us[n] = h[n] /\ h # <<>>
    <2>1. SUFFICES ASSUME n > 0
                   PROVE  us = Append(h, m) /\ n = Len(h) /\ us[n] = h[n] /\ h # <<>>
        OBVIOUS
    <2>2. us = Append(h, m)
        BY <1>1, <1>2, <1>4, <1>5, <2>1
    <2>3. n = Len(h)
        BY <1>2, <1>3, <1>5, <2>2
    <2>4. n \in 1..Len(h)
        BY <1>5, <2>1, <2>3
    <2>5. us[n] = h[n]
        BY <1>3, <2>2, <2>4
    <2>6. h # <<>>
        BY <2>1, <2>3, EmptySeq
    <2>. HIDE DEF us, h, n
    <2>. QED
        BY <2>2, <2>3, <2>5, <2>6
<1>8. n > 0 => us[n].role = "assistant"
    BY <1>7 DEF Client
<1>9. m.role # "assistant"
    BY DEF Carries
<1>10. ms[n + 1].role # "assistant" /\ (n > 0 => ms[n].role = "assistant")
    <2>1. \A i \in 1..Len(ms) : us[i].role = ms[i].role
        BY <1>2, NamelessMessage, ElementOfSeq
    <2>. QED
        BY <1>5, <1>6, <1>8, <1>9, <2>1
<1>11. LastAssistant(ms) = n /\ LastAssistant(us) = n
    BY <1>2, <1>5, <1>6, <1>8, <1>9, <1>10, LastReply
<1>12. n \in 0..Len(ms) /\ n \in 0..Len(us)
    BY <1>2, <1>5
<1>a. LastAssistant(ms) = n /\ conversationKey(ms) = IF n = 0 THEN <<>> ELSE SubSeq(ms, 1, n)
    BY <1>11 DEF conversationKey, hashConversation
<1>b. followUpMessages(us) = SubSeq(us, n + 1, Len(us))
    BY <1>11 DEF followUpMessages
<1>c. Past(c) = SubSeq(us, 1, n)
    BY <1>11 DEF Past
<1>. HIDE DEF us, h, n
<1>13. SubSeq(us, 1, n) = <<>> \/ SubSeq(us, 1, n) = h
    <2>1. CASE n = 0
        BY <2>1, SubSeqEmpty
    <2>2. CASE n > 0
        <3>1. SubSeq(us, 1, n) \in Seq(Message) /\ Len(SubSeq(us, 1, n)) = n
              /\ \A i \in 1..n : SubSeq(us, 1, n)[i] = us[i]
            BY <1>2, <1>12, PrefixOf
        <3>2. \A i \in 1..n : us[i] = h[i]
            BY <1>3, <1>7, <2>2
        <3>. QED
            BY <1>7, <2>2, <3>1, <3>2, SeqEqual DEF h
    <2>. QED
        BY <1>5, <2>1, <2>2
<1>14. followUpMessages(us) = <<m>>
    <2>. DEFINE k == n + 1
    <2>1. k \in 1..Len(us) /\ k \in k..Len(us) /\ k = Len(us) /\ k \in Int
        BY <1>2, <1>5
    <2>2. us[k] = m
        BY <1>6
    <2>. HIDE DEF k
    <2>3. SubSeq(us, k, k) = <<us[k]>> \o SubSeq(us, k + 1, k)
        BY <1>2, <2>1, SubSeqRecursiveFirst
    <2>4. SubSeq(us, k + 1, k) = <<>>
        BY <2>1, SubSeqEmpty
    <2>5. <<m>> \o <<>> = <<m>>
        BY ConcatEmptySeq
    <2>6. followUpMessages(us) = SubSeq(us, k, k)
        BY <1>b, <2>1 DEF k
    <2>. QED
        BY <2>2, <2>3, <2>4, <2>5, <2>6
<1>17. n # 0 => /\ SubSeq(ms, 1, n) \in Seq(Message) /\ Len(SubSeq(ms, 1, n)) = n
                /\ Unnamed(SubSeq(ms, 1, n)) = SubSeq(us, 1, n)
    BY <1>12, PrefixOf, UnnamedPrefix DEF us
<1>18. n # 0 => Len(SubSeq(us, 1, n)) = n /\ n = Len(h)
    BY <1>2, <1>5, <1>7, <1>12, PrefixOf
<1>19. n # 0 => SubSeq(us, 1, n) = h
    BY <1>5, <1>13, <1>18, EmptySeq
<1>20. conversationKey(ms) # <<>> => Unnamed(conversationKey(ms)) = h
                                     /\ Len(conversationKey(ms)) = Len(h)
    BY <1>a, <1>17, <1>18, <1>19
<1>21. conversationKey(ms) \in Seq(Message)
    BY <1>a, <1>17, EmptySeq
<1>. QED
    BY <1>1, <1>13, <1>14, <1>20, <1>21, <1>c DEF us, h

(***************************************************************************)
(* What a step does to the request of its client.                          *)
(***************************************************************************)
Stage == {"idle", "lookup", "enrich", "send", "wait", "put", "names", "deliver"}
Req == [pc: Stage, msgs: Seq(Message), full: Seq(Message), id: {0} \cup Todos,
        todo: {0} \cup Todos, resuming: BOOLEAN, reply: Message]
Budget == [requests: Nat, partial: Nat, edits: Nat, failures: Nat]

\* Everybody else's request stays as it is; so does what was asked.
Others(c) == \A d \in Clients \ {c} : req'[d] = req[d]
AsAsked(c) == /\ req'[c].msgs = req[c].msgs /\ req'[c].full = req[c].full
              /\ req'[c].id = req[c].id
AsAimed(c) == req'[c].todo = req[c].todo /\ req'[c].resuming = req[c].resuming

LEMMA Requests ==
    ASSUME ConversationTypeOK
    PROVE  /\ req \in [Clients -> Req] /\ hist \in [Clients -> Seq(Message)]
           /\ transcript \in Seq(Seq(Message)) /\ Todos = 1..Len(transcript)
           /\ Len(transcript) \in Nat /\ 0 \notin Todos
           /\ \A t \in Todos : transcript[t] \in Seq(Message)
<1>1. transcript \in Seq(Seq(Message))
    BY DEF ConversationTypeOK
<1>2. Todos = 1..Len(transcript) /\ Len(transcript) \in Nat
    BY <1>1, LenProperties DEF Todos
<1>. QED
    BY <1>1, <1>2, ElementOfSeq DEF ConversationTypeOK, Req, Stage

LEMMA OpenedType ==
    ASSUME Types
    PROVE  /\ \A t \in Todos : opened[t] \in Nat /\ opened[t] <= Len(transcript[t])
           /\ Len(opened) = Len(transcript) /\ opened \in Seq(Nat)
<1>1. opened \in Seq(Nat) /\ Todos = 1..Len(opened)
    BY Requests DEF Types, Lists, ConversationTypeOK
<1>2. \A t \in Todos : opened[t] \in Nat
    BY <1>1, ElementOfSeq
<1>. QED
    BY <1>1, <1>2 DEF Types, Lists

\* NoRequest
LEMMA NoRequestType == NoRequest \in Req /\ NoRequest.pc = "idle" /\ ~NoRequest.resuming
<1>1. User("none") \in Message
    BY DEF User, Message
<1>. QED
    BY <1>1, EmptySeq DEF NoRequest, Req, Stage

\* A step that moves a request on.
LEMMA Moves ==
    ASSUME ConversationTypeOK, NEW c \in Clients, NEW l, req' = [req EXCEPT ![c].pc = l]
    PROVE  /\ Others(c) /\ AsAsked(c) /\ AsAimed(c)
           /\ req'[c].pc = l /\ req'[c].reply = req[c].reply
           /\ l \in Stage => req' \in [Clients -> Req]
<1>1. req \in [Clients -> Req]
    BY Requests
<1>. DEFINE r == req[c]
            q == [r EXCEPT !.pc = l]
<1>2. r \in Req /\ req'[c] = q /\ Others(c) /\ req' = [req EXCEPT ![c] = q]
    BY <1>1 DEF Others
<1>3. /\ q.pc = l /\ q.msgs = r.msgs /\ q.full = r.full /\ q.id = r.id /\ q.todo = r.todo
      /\ q.resuming = r.resuming /\ q.reply = r.reply /\ (l \in Stage => q \in Req)
    BY <1>2 DEF Req
<1>. HIDE DEF q
<1>. QED
    BY <1>1, <1>2, <1>3 DEF AsAsked, AsAimed

\* A request that is replaced.
LEMMA Replaced ==
    ASSUME ConversationTypeOK, NEW c \in Clients, NEW r \in Req, req' = [req EXCEPT ![c] = r]
    PROVE  Others(c) /\ req'[c] = r /\ req' \in [Clients -> Req]
BY Requests DEF Others

(***************************************************************************)
(* One by one.                                                             *)
(***************************************************************************)
Asks(c, m) ==
    LET r == req'[c] IN
    /\ m.role # "assistant" /\ ~m.named
    /\ r.pc = "lookup" /\ r.full = Append(hist[c], m) /\ ~r.resuming
    /\ r.id \in {0, id[c]}
    /\ r.msgs = r.full \/ (r.msgs = <<m>> /\ r.id # 0)

LEMMA AskStep ==
    ASSUME Types, NEW c \in Clients, NEW w \in Words, NEW whole \in BOOLEAN,
           AskWhole(c, w) \/ AskWithID(c, w, whole)
    PROVE  /\ req[c].pc = "idle" /\ Others(c) /\ req' \in [Clients -> Req]
           /\ \E m \in Message : Asks(c, m)
           /\ spent'.edits = spent.edits /\ spent'.failures = spent.failures
           /\ spent' \in Budget
           /\ UNCHANGED <<hist, id, transcript, opened, users, store, replied, now>>
<1>. DEFINE m == NextMessage(c, w)
            all == Append(hist[c], m)
            q(b, t) == Asking(c, w, b, t)
<1>1. hist[c] \in Seq(Message) /\ id[c] \in {0} \cup Todos
    BY DEF Types, ConversationTypeOK
<1>2. m \in Message /\ m.role # "assistant" /\ ~m.named
    <2>1. hist[c] # <<>> => Last(hist[c]) \in Message
        BY <1>1, LenProperties, EmptySeq, ElementOfSeq DEF Last
    <2>2. hist[c] # <<>> => Last(hist[c]).call \in Calls \cup {"none"}
        BY <2>1 DEF Message
    <2>. QED
        BY <2>2 DEF NextMessage, Tool, User, Message
<1>. HIDE DEF m
<1>3. all \in Seq(Message) /\ <<m>> \in Seq(Message)
    BY <1>1, <1>2, AppendProperties
<1>4. ASSUME NEW b \in BOOLEAN, NEW t \in {0, id[c]}
      PROVE  /\ q(b, t) \in Req /\ q(b, t).pc = "lookup" /\ q(b, t).full = all
             /\ ~q(b, t).resuming /\ q(b, t).id = t
             /\ q(b, t).msgs = IF b THEN all ELSE <<m>>
    <2>. DEFINE ms == IF b THEN all ELSE <<m>>
                z == NoRequest
                f == [z EXCEPT !.pc = "lookup", !.full = all]
                g == [f EXCEPT !.id = t, !.msgs = ms]
    <2>1. z \in Req /\ ms \in Seq(Message) /\ t \in {0} \cup Todos /\ ~z.resuming
        BY <1>1, <1>3, NoRequestType
    <2>2. q(b, t) = [z EXCEPT !.pc = "lookup", !.full = all, !.id = t, !.msgs = ms]
        BY DEF Asking, m
    <2>. HIDE DEF z, ms, all
    <2>3. f \in Req /\ f.pc = "lookup" /\ f.full = all /\ f.resuming = z.resuming
        BY <2>1, <1>3 DEF Req, Stage, all
    <2>4. q(b, t) = g
        BY <2>2
    <2>. HIDE DEF f
    <2>5. g \in Req /\ g.pc = f.pc /\ g.full = f.full /\ g.resuming = f.resuming /\ g.id = t
          /\ g.msgs = ms
        BY <2>1, <2>3 DEF Req
    <2>. QED
        BY <2>1, <2>3, <2>4, <2>5 DEF ms
<1>. HIDE DEF q, all
<1>5. PICK b \in BOOLEAN, t \in {0, id[c]} :
        req' = [req EXCEPT ![c] = q(b, t)] /\ (b \/ t # 0)
    BY DEF AskWhole, AskWithID, q
<1>6. Others(c) /\ req'[c] = q(b, t) /\ req' \in [Clients -> Req]
    BY <1>4, <1>5, Replaced DEF Types
<1>7. Asks(c, m)
    <2>1. /\ req'[c].pc = "lookup" /\ req'[c].full = all /\ ~req'[c].resuming
          /\ req'[c].id = t /\ req'[c].msgs = IF b THEN all ELSE <<m>>
        BY <1>4, <1>6, Zenon
    <2>2. (req'[c].msgs = all \/ req'[c].msgs = <<m>>) /\ (req'[c].msgs # all => t # 0)
        BY <1>5, <2>1
    <2>3. req'[c].id \in {0, id[c]}
        BY <2>1
    <2>4. req'[c].msgs = req'[c].full \/ (req'[c].msgs = <<m>> /\ req'[c].id # 0)
        BY <2>1, <2>2
    <2>5. req'[c].full = Append(hist[c], m)
        BY <2>1 DEF all
    <2>. QED
        BY <1>2, <2>1, <2>3, <2>4, <2>5, Zenon DEF Asks
<1>8. /\ spent'.edits = spent.edits /\ spent'.failures = spent.failures
      /\ spent' \in Budget
    <2>1. spent \in Budget
        BY DEF Types, ConversationTypeOK, Budget
    <2>2. CASE AskWhole(c, w)
        <3>1. spent' = [spent EXCEPT !.requests = spent.requests + 1]
            BY <2>2 DEF AskWhole, Spend
        <3>. QED
            BY <2>1, <3>1 DEF Budget
    <2>3. CASE AskWithID(c, w, whole)
        <3>1. spent' = [spent EXCEPT !.requests = spent.requests + 1, !.partial = spent.partial + 1]
            BY <2>3 DEF AskWithID
        <3>. DEFINE f == [spent EXCEPT !.requests = spent.requests + 1]
        <3>2. f \in Budget /\ f.edits = spent.edits /\ f.failures = spent.failures
            BY <2>1 DEF Budget
        <3>3. spent' = [f EXCEPT !.partial = spent.partial + 1] /\ spent.partial + 1 \in Nat
            BY <2>1, <3>1 DEF Budget
        <3>. HIDE DEF f
        <3>. QED
            BY <3>2, <3>3 DEF Budget
    <2>. QED
        BY <2>2, <2>3
<1>. QED
    BY <1>2, <1>6, <1>7, <1>8 DEF AskWhole, AskWithID, At

LEMMA LookupStep ==
    ASSUME Types, NEW c \in Clients, Lookup(c)
    PROVE  /\ req[c].pc = "lookup" /\ Others(c) /\ req' \in [Clients -> Req]
           /\ \/ req'[c] = NoRequest
              \/ AsAsked(c) /\ AsAimed(c) /\ req'[c].pc = "send" /\ req[c].id = 0
              \/ /\ AsAsked(c) /\ req'[c].pc = "enrich" /\ req'[c].resuming
                 /\ req'[c].todo \in Todos
                 /\ \/ req'[c].todo = req[c].id
                    \/ \E e \in byHistory : /\ e.todo = req'[c].todo
                                            /\ e.key = conversationKey(req[c].msgs)
           /\ UNCHANGED <<hist, id, transcript, opened, users, store, replied, now, spent>>
<1>. DEFINE found == sessionEntry(req[c])
<1>1. ConversationTypeOK /\ req[c] \in Req /\ req \in [Clients -> Req]
    BY Requests DEF Types
<1>2. CASE req' = [req EXCEPT ![c] = NoRequest]
    BY <1>1, <1>2, NoRequestType, Replaced DEF Lookup, At
<1>3. CASE req[c].id = 0 /\ req' = [req EXCEPT ![c].pc = "send"]
    BY <1>1, <1>3, Moves DEF Lookup, At, Stage
<1>4. ASSUME NEW t \in found,
             req' = [req EXCEPT ![c].pc = "enrich", ![c].todo = t, ![c].resuming = TRUE]
      PROVE  /\ Others(c) /\ AsAsked(c) /\ req' \in [Clients -> Req]
             /\ req'[c].pc = "enrich" /\ req'[c].resuming /\ req'[c].todo = t
    <2>. DEFINE r == req[c]
                f == [r EXCEPT !.pc = "enrich", !.todo = t]
                q == [f EXCEPT !.resuming = TRUE]
    <2>1. t \in {0} \cup Todos
        BY <1>1 DEF sessionEntry, ConversationTypeOK
    <2>2. req' = [req EXCEPT ![c] = q]
        BY <1>1, <1>4
    <2>3. /\ f \in Req /\ f.pc = "enrich" /\ f.todo = t /\ f.msgs = r.msgs /\ f.full = r.full
          /\ f.id = r.id
        BY <1>1, <2>1 DEF Req, Stage
    <2>. HIDE DEF f, r
    <2>4. /\ q \in Req /\ q.pc = f.pc /\ q.todo = f.todo /\ q.resuming /\ q.msgs = f.msgs
          /\ q.full = f.full /\ q.id = f.id
        BY <2>3 DEF Req
    <2>. HIDE DEF q
    <2>5. Others(c) /\ req'[c] = q /\ req' \in [Clients -> Req]
        BY <1>1, <2>2, <2>4, Replaced
    <2>. QED
        BY <2>3, <2>4, <2>5 DEF AsAsked, r
<1>5. \A t \in found : /\ t \in Todos
                       /\ \/ t = req[c].id
                          \/ \E e \in byHistory : e.todo = t /\ e.key = conversationKey(req[c].msgs)
    BY <1>1 DEF sessionEntry, ConversationTypeOK
<1>6. \/ req' = [req EXCEPT ![c] = NoRequest]
      \/ req[c].id = 0 /\ req' = [req EXCEPT ![c].pc = "send"]
      \/ \E t \in found :
            req' = [req EXCEPT ![c].pc = "enrich", ![c].todo = t, ![c].resuming = TRUE]
    BY DEF Lookup
<1>7. req[c].pc = "lookup" /\ UNCHANGED <<hist, id, transcript, opened, users, store, replied, now, spent>>
    BY DEF Lookup, At
<1>. HIDE DEF found
<1>8. CASE \E t \in found :
            req' = [req EXCEPT ![c].pc = "enrich", ![c].todo = t, ![c].resuming = TRUE]
    BY <1>4, <1>5, <1>7, <1>8
<1>. QED
    BY <1>2, <1>3, <1>6, <1>8

LEMMA EnrichStep ==
    ASSUME Types, NEW c \in Clients, enrichToolResultNames(c)
    PROVE  /\ req[c].pc = "enrich" /\ Others(c) /\ req' \in [Clients -> Req] /\ AsAimed(c)
           /\ req'[c].pc = "send" /\ req'[c].full = req[c].full /\ req'[c].id = req[c].id
           /\ Unnamed(req'[c].msgs) = Unnamed(req[c].msgs)
           /\ UNCHANGED <<hist, id, transcript, opened, users, store, replied, now, spent>>
<1>1. ConversationTypeOK /\ req[c] \in Req /\ req \in [Clients -> Req]
    BY Requests DEF Types
<1>. DEFINE r == req[c]
            named(m) == \/ m.named
                        \/ /\ m.role = "tool"
                           /\ [todo |-> r.todo, call |-> m.call] \in toolNames
            ms == [i \in DOMAIN r.msgs |-> [r.msgs[i] EXCEPT !.named = named(r.msgs[i])]]
            q == [r EXCEPT !.pc = "send", !.msgs = ms]
<1>2. req' = [req EXCEPT ![c] = q]
    <2>1. req' = [req EXCEPT ![c].pc = "send", ![c].msgs = ms]
        BY DEF enrichToolResultNames
    <2>. HIDE DEF ms
    <2>. QED
        BY <1>1, <2>1
<1>3. r.msgs \in Seq(Message) /\ DOMAIN r.msgs = 1..Len(r.msgs) /\ Len(r.msgs) \in Nat
    BY <1>1, LenProperties DEF Req
<1>4. ASSUME NEW i \in 1..Len(r.msgs)
      PROVE  ms[i] \in Message /\ Nameless(ms[i]) = Nameless(r.msgs[i])
    <2>. DEFINE m == r.msgs[i]
                b == named(r.msgs[i])
    <2>1. m \in Message /\ b \in BOOLEAN /\ ms[i] = [m EXCEPT !.named = b]
        BY <1>3, ElementOfSeq DEF Message
    <2>. HIDE DEF m, b, ms
    <2>2. [m EXCEPT !.named = b] \in Message /\ Nameless([m EXCEPT !.named = b]) = Nameless(m)
        BY <2>1 DEF Message, Nameless
    <2>. QED
        BY <2>1, <2>2 DEF m
<1>5. ms \in Seq(Message) /\ Len(ms) = Len(r.msgs)
    <2>1. ms \in [1..Len(r.msgs) -> Message]
        <3>1. ms = [i \in 1..Len(r.msgs) |-> ms[i]]
            BY <1>3
        <3>. HIDE DEF ms
        <3>. QED
            BY <1>4, <3>1
    <2>. HIDE DEF ms
    <2>. QED
        BY <1>3, <2>1
<1>6. Unnamed(ms) = Unnamed(r.msgs)
    <2>. HIDE DEF ms, r
    <2>. QED
        BY <1>3, <1>4, <1>5, UnnamedAlike
<1>. HIDE DEF ms
<1>7. /\ q \in Req /\ q.pc = "send" /\ q.msgs = ms /\ q.full = r.full /\ q.id = r.id
      /\ q.todo = r.todo /\ q.resuming = r.resuming
    BY <1>1, <1>5 DEF Req, Stage
<1>. HIDE DEF q
<1>8. Others(c) /\ req'[c] = q /\ req' \in [Clients -> Req]
    BY <1>1, <1>2, <1>7, Replaced
<1>. QED
    BY <1>6, <1>7, <1>8 DEF enrichToolResultNames, At, AsAimed

LEMMA FailStep ==
    ASSUME Types, NEW c \in Clients, Fail(c)
    PROVE  /\ req[c].pc = "wait" /\ Others(c) /\ req' \in [Clients -> Req] /\ req'[c] = NoRequest
           /\ spent' \in Budget /\ spent'.failures # 0
           /\ UNCHANGED <<hist, id, transcript, opened, users, store, replied, now>>
<1>1. spent \in Budget /\ spent' = [spent EXCEPT !.failures = spent.failures + 1]
    BY DEF Fail, Spend, Types, ConversationTypeOK, Budget
<1>2. spent' \in Budget /\ spent'.failures # 0
    BY <1>1 DEF Budget
<1>. QED
    BY <1>2, NoRequestType, Replaced DEF Fail, At, Types

LEMMA EditStep ==
    ASSUME Types, NEW c \in Clients, Edit(c)
    PROVE  /\ req[c].pc = "idle" /\ spent' \in Budget /\ spent'.edits # 0
           /\ \A d \in Clients \ {c} : hist'[d] = hist[d]
           /\ \E n \in 0..Len(hist[c]) : /\ hist'[c] = SubSeq(hist[c], 1, n)
                                         /\ n > 0 => hist[c][n].role = "assistant"
           /\ hist' \in [Clients -> Seq(Message)]
           /\ UNCHANGED <<id, req, transcript, opened, users, store, replied, now>>
<1>1. spent \in Budget /\ spent' = [spent EXCEPT !.edits = spent.edits + 1]
    BY DEF Edit, Spend, Types, ConversationTypeOK, Budget
<1>2. spent' \in Budget /\ spent'.edits # 0
    BY <1>1 DEF Budget
<1>3. hist \in [Clients -> Seq(Message)] /\ Len(hist[c]) \in Nat
    BY LenProperties DEF Types, ConversationTypeOK
<1>4. PICK n \in 0..Len(hist[c]) - 1 : /\ n > 0 => hist[c][n].role = "assistant"
                                       /\ hist' = [hist EXCEPT ![c] = SubSeq(hist[c], 1, n)]
    BY DEF Edit
<1>5. n \in 0..Len(hist[c])
    BY <1>3
<1>6. SubSeq(hist[c], 1, n) \in Seq(Message)
    BY <1>3, <1>5, PrefixOf
<1>. QED
    BY <1>2, <1>3, <1>4, <1>5, <1>6 DEF Edit, At

\* A message is written to a todo.
Wrote(t, m) ==
    /\ transcript' \in Seq(Seq(Message)) /\ Len(transcript') = Len(transcript)
    /\ transcript'[t] = Append(transcript[t], m)
    /\ \A s \in Todos \ {t} : transcript'[s] = transcript[s]

LEMMA WroteOne ==
    ASSUME ConversationTypeOK, NEW t \in Todos, NEW m \in Message,
           transcript' = [transcript EXCEPT ![t] = Append(transcript[t], m)]
    PROVE  Wrote(t, m) /\ Todos' = Todos
<1>. DEFINE u == Append(transcript[t], m)
<1>1. u \in Seq(Message) /\ transcript \in Seq(Seq(Message)) /\ t \in 1..Len(transcript)
    BY Requests, AppendProperties
<1>. HIDE DEF u
<1>2. /\ transcript' \in Seq(Seq(Message)) /\ Len(transcript') = Len(transcript)
      /\ \A s \in 1..Len(transcript) : transcript'[s] = IF s = t THEN u ELSE transcript[s]
    BY <1>1, ExceptSeq DEF u
<1>3. Todos' = 1..Len(transcript')
    BY <1>2, LenProperties DEF Todos
<1>. QED
    BY <1>1, <1>2, <1>3, Requests DEF Wrote, u

LEMMA ResumeStep ==
    ASSUME Types, ClientInv, NEW c \in Clients, Send(c), req[c].resuming
    PROVE  /\ req[c].pc = "send" /\ Others(c) /\ req' \in [Clients -> Req]
           /\ AsAsked(c) /\ AsAimed(c) /\ req'[c].pc = "wait"
           /\ req[c].todo \in Todos
           /\ \A m \in Message : Carries(c, m) => Wrote(req[c].todo, m)
           /\ transcript' \in Seq(Seq(Message)) /\ Len(transcript') = Len(transcript)
           /\ Todos' = Todos
           /\ users' \in Seq(SUBSET Clients) /\ Len(users') = Len(users)
           /\ users'[req[c].todo] = users[req[c].todo] \cup {c}
           /\ \A t \in Todos \ {req[c].todo} : users'[t] = users[t]
           /\ UNCHANGED <<hist, id, opened, store, replied, now, spent>>
<1>. DEFINE t == req[c].todo
            ms == Unnamed(req[c].msgs)
<1>1. /\ ConversationTypeOK /\ req[c] \in Req /\ req \in [Clients -> Req]
      /\ t \in Todos /\ Len(users) = Len(transcript) /\ users \in Seq(SUBSET Clients)
    BY Requests DEF Types, Lists, Aimed, ConversationTypeOK
<1>2. /\ req' = [req EXCEPT ![c].pc = "wait"] /\ req[c].pc = "send"
      /\ transcript' = [transcript EXCEPT ![t] = transcript[t] \o FlattenTurn(followUpMessages(ms))]
      /\ users' = [users EXCEPT ![t] = users[t] \cup {c}]
      /\ UNCHANGED <<hist, id, opened, store, replied, now, spent>>
    BY DEF Send, At
<1>3. /\ Others(c) /\ req' \in [Clients -> Req]
      /\ AsAsked(c) /\ AsAimed(c) /\ req'[c].pc = "wait"
    BY <1>1, <1>2, Moves DEF Stage
<1>4. hist[c] \in Seq(Message) /\ req[c].msgs \in Seq(Message) /\ Client(c)
    BY <1>1 DEF Req, ClientInv, ConversationTypeOK
<1>5. ASSUME NEW m \in Message, Carries(c, m)
      PROVE  Wrote(t, m) /\ Todos' = Todos
    <2>1. FlattenTurn(followUpMessages(ms)) = <<m>>
        <3>1. followUpMessages(ms) = <<m>> /\ m.role # "assistant"
            BY <1>4, <1>5, RequestParts DEF Carries
        <3>. QED
            BY <3>1, RenderedAlone
    <2>2. transcript[t] \in Seq(Message)
        BY <1>1, Requests
    <2>3. transcript[t] \o <<m>> = Append(transcript[t], m)
        BY <2>2, AppendIsConcat
    <2>. HIDE DEF t
    <2>. QED
        BY <1>1, <1>2, <2>1, <2>3, WroteOne
<1>6. \E m \in Message : Carries(c, m)
    BY <1>2, <1>4 DEF Client
<1>7. /\ users' \in Seq(SUBSET Clients) /\ Len(users') = Len(users)
      /\ \A s \in 1..Len(users) : users'[s] = IF s = t THEN users[t] \cup {c} ELSE users[s]
    <2>. DEFINE v == users[t] \cup {c}
    <2>1. t \in 1..Len(users)
        BY <1>1, Requests
    <2>2. v \in SUBSET Clients
        BY <1>1, <2>1, ElementOfSeq
    <2>. HIDE DEF v, t
    <2>. QED
        BY <1>1, <1>2, <2>1, <2>2, ExceptSeq DEF v
<1>8. transcript' \in Seq(Seq(Message)) /\ Len(transcript') = Len(transcript) /\ Todos' = Todos
    BY <1>5, <1>6 DEF Wrote
<1>. HIDE DEF t
<1>. QED
    BY <1>1, <1>2, <1>3, <1>5, <1>7, <1>8, Requests DEF t

LEMMA BeginStep ==
    ASSUME Types, NEW c \in Clients, Send(c), ~req[c].resuming
    PROVE  LET t == Len(transcript) + 1 IN
           /\ req[c].pc = "send" /\ Others(c) /\ AsAsked(c) /\ req'[c].pc = "wait"
           /\ req'[c].resuming = req[c].resuming /\ req'[c].todo = t
           /\ req'[c].reply = req[c].reply
           /\ t \notin Todos /\ Todos' = Todos \cup {t}
           /\ transcript' \in Seq(Seq(Message)) /\ Len(transcript') = t
           /\ transcript'[t] = FlattenTurn(Unnamed(req[c].msgs))
           /\ \A s \in Todos : transcript'[s] = transcript[s]
           /\ opened' \in Seq(Nat) /\ Len(opened') = t
           /\ opened'[t] = Len(Unnamed(req[c].msgs)) /\ opened'[t] = Len(transcript'[t])
           /\ \A s \in Todos : opened'[s] = opened[s]
           /\ users' \in Seq(SUBSET Clients) /\ Len(users') = t
           /\ users'[t] = {c} /\ \A s \in Todos : users'[s] = users[s]
           /\ DOMAIN req' = Clients
           /\ UNCHANGED <<hist, id, store, replied, now, spent>>
<1>. DEFINE r == req[c]
            t == Len(transcript) + 1
            ms == Unnamed(req[c].msgs)
            fs == FlattenTurn(ms)
            q == [r EXCEPT !.pc = "wait", !.todo = t]
<1>1. /\ ConversationTypeOK /\ r \in Req /\ req \in [Clients -> Req]
      /\ Len(users) = Len(transcript) /\ users \in Seq(SUBSET Clients)
      /\ transcript \in Seq(Seq(Message)) /\ Len(transcript) \in Nat
      /\ Len(opened) = Len(transcript) /\ opened \in Seq(Nat)
    BY Requests, OpenedType DEF Types, Lists, ConversationTypeOK
<1>2. /\ req' = [req EXCEPT ![c].pc = "wait", ![c].todo = t] /\ r.pc = "send"
      /\ transcript' = Append(transcript, fs) /\ users' = Append(users, {c})
      /\ opened' = Append(opened, Len(ms))
      /\ UNCHANGED <<hist, id, store, replied, now, spent>>
    BY DEF Send, At
<1>. HIDE DEF t
<1>3. Others(c) /\ req'[c] = q /\ DOMAIN req' = Clients
    BY <1>1, <1>2 DEF Others
<1>4. /\ q.pc = "wait" /\ q.todo = t /\ q.msgs = r.msgs /\ q.full = r.full /\ q.id = r.id
      /\ q.resuming = r.resuming /\ q.reply = r.reply
    BY <1>1 DEF Req
<1>. HIDE DEF q
<1>5. fs \in Seq(Message) /\ Len(fs) = Len(ms) /\ Len(ms) \in Nat
    BY <1>1, UnnamedSeq, AllRendered, LenProperties DEF Req
<1>6. /\ transcript' \in Seq(Seq(Message)) /\ Len(transcript') = t
      /\ transcript'[t] = fs /\ \A s \in 1..Len(transcript) : transcript'[s] = transcript[s]
    <2>. HIDE DEF fs
    <2>. QED
        BY <1>1, <1>2, <1>5, AppendProperties DEF t
<1>7. /\ opened' \in Seq(Nat) /\ Len(opened') = t
      /\ opened'[t] = Len(ms) /\ \A s \in 1..Len(transcript) : opened'[s] = opened[s]
    <2>. DEFINE n == Len(ms)
    <2>. HIDE DEF n
    <2>1. opened' = Append(opened, n) /\ n \in Nat
        BY <1>2, <1>5 DEF n
    <2>2. /\ opened' \in Seq(Nat) /\ Len(opened') = t
          /\ opened'[t] = n /\ \A s \in 1..Len(transcript) : opened'[s] = opened[s]
        BY <1>1, <2>1, AppendProperties DEF t
    <2>. QED
        BY <2>2 DEF n
<1>8. /\ users' \in Seq(SUBSET Clients) /\ Len(users') = t
      /\ users'[t] = {c} /\ \A s \in 1..Len(transcript) : users'[s] = users[s]
    <2>. DEFINE v == {c}
    <2>1. v \in SUBSET Clients
        OBVIOUS
    <2>. HIDE DEF v
    <2>. QED
        BY <1>1, <1>2, <2>1, AppendProperties DEF t, v
<1>9. Todos' = 1..t
    BY <1>6, LenProperties DEF Todos
<1>10. Todos = 1..Len(transcript)
    BY <1>1, Requests
<1>11. t \notin Todos /\ Todos' = Todos \cup {t}
    BY <1>1, <1>9, <1>10 DEF t
<1>. HIDE DEF fs, ms, r
<1>. QED
    BY <1>2, <1>3, <1>4, <1>5, <1>6, <1>7, <1>8, <1>10, <1>11 DEF AsAsked, r, ms, fs, t

LEMMA ReplyStep ==
    ASSUME Types, NEW c \in Clients, NEW call \in Calls \cup {"none"}, Reply(c, call)
    PROVE  LET m == req'[c].reply IN
           /\ req[c].pc = "wait" /\ Others(c) /\ AsAsked(c) /\ AsAimed(c) /\ req'[c].pc = "put"
           /\ m \in Message /\ m.role = "assistant" /\ ~m.named
           /\ req' \in [Clients -> Req] /\ req[c].todo \in Todos
           /\ Wrote(req[c].todo, m) /\ Todos' = Todos
           /\ UNCHANGED <<hist, id, opened, users, store, replied, now, spent>>
<1>. DEFINE m == Assistant("answer", call)
            r == req[c]
            f == [r EXCEPT !.pc = "put"]
            q == [f EXCEPT !.reply = m]
            t == req[c].todo
<1>1. ConversationTypeOK /\ r \in Req /\ req \in [Clients -> Req]
    BY Requests DEF Types
<1>2. m \in Message /\ m.role = "assistant" /\ ~m.named
    BY DEF Assistant, Message
<1>3. /\ r.pc = "wait" /\ req' = [req EXCEPT ![c].pc = "put", ![c].reply = m]
      /\ transcript' = [transcript EXCEPT ![t] = Append(transcript[t], m)]
      /\ UNCHANGED <<hist, id, opened, users, store, replied, now, spent>>
    BY DEF Reply, At
<1>. HIDE DEF m
<1>4. req' = [req EXCEPT ![c] = q]
    BY <1>1, <1>3
<1>5. f \in Req /\ f.pc = "put" /\ f.msgs = r.msgs /\ f.full = r.full /\ f.id = r.id
      /\ f.todo = r.todo /\ f.resuming = r.resuming
    BY <1>1 DEF Req, Stage
<1>. HIDE DEF f
<1>6. q \in Req /\ q.pc = f.pc /\ q.msgs = f.msgs /\ q.full = f.full /\ q.id = f.id
      /\ q.todo = f.todo /\ q.resuming = f.resuming /\ q.reply = m
    BY <1>2, <1>5 DEF Req
<1>. HIDE DEF q
<1>7. Others(c) /\ req'[c] = q /\ req' \in [Clients -> Req]
    BY <1>1, <1>4, <1>6, Replaced
<1>8. t \in Todos
    BY <1>3 DEF Types, Aimed, Posted
<1>9. Wrote(t, m) /\ Todos' = Todos
    <2>. HIDE DEF t
    <2>. QED
        BY <1>1, <1>2, <1>3, <1>8, WroteOne
<1>. QED
    BY <1>2, <1>3, <1>5, <1>6, <1>7, <1>8, <1>9 DEF AsAsked, AsAimed

LEMMA RememberStep ==
    ASSUME Types, NEW c \in Clients, Remember(c)
    PROVE  LET r == req[c]
               k == Append(r.msgs, r.reply) IN
           /\ r.pc = "put" /\ Others(c) /\ AsAsked(c) /\ AsAimed(c) /\ req'[c].reply = r.reply
           /\ req'[c].pc = IF r.reply.call = "none" THEN "deliver" ELSE "names"
           /\ req' \in [Clients -> Req] /\ r.todo \in Todos
           /\ byHistory' = {e \in byHistory : e.key # k} \cup {Keyed(k, r.todo)}
           /\ byTodoID' = {e \in byTodoID : e.todo # r.todo} \cup {Entry(r.todo)}
           /\ replied' \in [Clients -> Nat] /\ replied'[c] = now
           /\ \A d \in Clients \ {c} : replied'[d] = replied[d]
           /\ UNCHANGED <<hist, id, transcript, opened, users, toolNames, now, spent>>
<1>. DEFINE r == req[c]
            l == IF r.reply.call = "none" THEN "deliver" ELSE "names"
<1>1. ConversationTypeOK /\ replied \in [Clients -> Nat] /\ now \in Nat
    BY DEF Types, ConversationTypeOK
<1>2. /\ r.pc = "put" /\ req' = [req EXCEPT ![c].pc = l] /\ replied' = [replied EXCEPT ![c] = now]
      /\ Put(Append(r.msgs, r.reply), r.todo)
      /\ UNCHANGED <<hist, id, transcript, opened, users, toolNames, now, spent>>
    BY DEF Remember, At, conversationKeyWith, hashConversation
<1>. HIDE DEF l
<1>3. Others(c) /\ AsAsked(c) /\ AsAimed(c) /\ req'[c].reply = r.reply /\ req'[c].pc = l
    BY <1>1, <1>2, Moves
<1>4. req' \in [Clients -> Req]
    BY <1>1, <1>2, Moves DEF Stage, l
<1>5. r.todo \in Todos
    BY <1>2 DEF Types, Aimed, Posted, Answered
<1>. QED
    BY <1>1, <1>2, <1>3, <1>4, <1>5 DEF Put, l

LEMMA NamesStep ==
    ASSUME Types, NEW c \in Clients, RememberNames(c)
    PROVE  LET r == req[c] IN
           /\ r.pc = "names" /\ Others(c) /\ AsAsked(c) /\ AsAimed(c) /\ req'[c].reply = r.reply
           /\ req'[c].pc = "deliver" /\ req' \in [Clients -> Req]
           /\ r.todo \in Todos
           /\ toolNames' \subseteq [todo: Todos, call: Calls]
           /\ UNCHANGED <<hist, id, transcript, opened, users, byHistory, byTodoID, replied, now, spent>>
<1>1. req[c].pc = "names" /\ req' = [req EXCEPT ![c].pc = "deliver"]
      /\ UNCHANGED <<hist, id, transcript, opened, users, byHistory, byTodoID, replied, now, spent>>
    BY DEF RememberNames, At
<1>2. req[c].todo \in Todos /\ req[c].reply.call \in Calls
    BY <1>1 DEF Types, Aimed, Posted, Answered
<1>3. toolNames' \subseteq [todo: Todos, call: Calls]
    BY <1>2 DEF RememberNames, PutToolNames, Types, ConversationTypeOK
<1>. QED
    BY <1>1, <1>2, <1>3, Moves DEF Types, Stage

LEMMA DeliverStep ==
    ASSUME Types, NEW c \in Clients, Deliver(c)
    PROVE  /\ req[c].pc = "deliver" /\ Others(c) /\ req'[c] = NoRequest
           /\ req' \in [Clients -> Req] /\ req[c].todo \in Todos
           /\ hist' \in [Clients -> Seq(Message)]
           /\ hist'[c] = Append(req[c].full, req[c].reply)
           /\ \A d \in Clients \ {c} : hist'[d] = hist[d] /\ id'[d] = id[d]
           /\ id' \in [Clients -> {0} \cup Todos] /\ id'[c] = req[c].todo
           /\ UNCHANGED <<transcript, opened, users, store, replied, now, spent>>
<1>1. /\ ConversationTypeOK /\ req[c] \in Req /\ hist \in [Clients -> Seq(Message)]
      /\ id \in [Clients -> {0} \cup Todos]
    BY Requests DEF Types, ConversationTypeOK
<1>2. req[c].pc = "deliver" /\ req[c].todo \in Todos
    BY DEF Deliver, At, Types, Aimed, Posted, Answered
<1>3. Append(req[c].full, req[c].reply) \in Seq(Message)
    BY <1>1, AppendProperties DEF Req
<1>4. Others(c) /\ req'[c] = NoRequest /\ req' \in [Clients -> Req]
    BY <1>1, NoRequestType, Replaced DEF Deliver
<1>5. /\ hist' \in [Clients -> Seq(Message)]
      /\ hist'[c] = Append(req[c].full, req[c].reply)
      /\ \A d \in Clients \ {c} : hist'[d] = hist[d]
    BY <1>1, <1>3 DEF Deliver
<1>6. /\ id' \in [Clients -> {0} \cup Todos] /\ id'[c] = req[c].todo
      /\ \A d \in Clients \ {c} : id'[d] = id[d]
    BY <1>1, <1>2 DEF Deliver
<1>. QED
    BY <1>2, <1>4, <1>5, <1>6 DEF Deliver

LEMMA CleanupStep ==
    ASSUME Types, cleanup
    PROVE  /\ byHistory' \subseteq byHistory /\ byTodoID' = {e \in byTodoID : now <= e.expires}
           /\ toolNames' \subseteq toolNames
           /\ UNCHANGED <<hist, id, req, transcript, opened, users, replied, now, spent>>
<1>1. now \in Nat /\ \A e \in byTodoID : e.expires \in Nat
    BY DEF Types, ConversationTypeOK
<1>2. \A e \in byTodoID : ~expired(e) <=> now <= e.expires
    BY <1>1 DEF expired
<1>. QED
    BY <1>2 DEF cleanup

(***************************************************************************)
(* Type correctness.                                                       *)
(***************************************************************************)
StoreType == /\ byHistory \subseteq [key: Seq(Message), todo: Todos, expires: Nat]
             /\ byTodoID \subseteq [todo: Todos, expires: Nat]
             /\ toolNames \subseteq [todo: Todos, call: Calls]
ListType == /\ transcript \in Seq(Seq(Message)) /\ opened \in Seq(Nat)
            /\ users \in Seq(SUBSET Clients) /\ Lists
ClockType == /\ replied \in [Clients -> Nat] /\ now \in Nat /\ spent \in Budget

LEMMA TypeParts ==
    ASSUME Types
    PROVE  /\ ConversationTypeOK /\ StoreType /\ ListType /\ ClockType
           /\ hist \in [Clients -> Seq(Message)] /\ id \in [Clients -> {0} \cup Todos]
           /\ req \in [Clients -> Req]
BY Requests DEF Types, ConversationTypeOK, StoreType, ListType, ClockType, Budget

\* A message more leaves a todo longer than it was opened.
LEMMA WroteLists ==
    ASSUME Types, NEW t \in Todos, NEW m \in Message, Wrote(t, m), UNCHANGED opened,
           users' \in Seq(SUBSET Clients), Len(users') = Len(users)
    PROVE  ListType'
<1>1. /\ \A s \in Todos : opened[s] \in Nat /\ opened[s] <= Len(transcript[s])
      /\ Len(opened) = Len(transcript) /\ opened \in Seq(Nat)
    BY OpenedType
<1>2. Todos = 1..Len(transcript) /\ \A s \in Todos : transcript[s] \in Seq(Message)
    BY Requests DEF Types
<1>3. Todos' = Todos
    <2>1. transcript' \in Seq(Seq(Message)) /\ Len(transcript') = Len(transcript)
        BY DEF Wrote
    <2>. QED
        BY <1>2, <2>1, LenProperties DEF Todos
<1>4. Len(transcript'[t]) = Len(transcript[t]) + 1 /\ Len(transcript[t]) \in Nat
    BY <1>2, AppendProperties, LenProperties DEF Wrote
<1>5. \A s \in Todos : opened[s] <= Len(transcript'[s])
    <2>1. ASSUME NEW s \in Todos
          PROVE  opened[s] <= Len(transcript'[s])
        <3>1. CASE s = t
            BY <1>1, <1>4, <3>1
        <3>2. CASE s # t
            <4>1. transcript'[s] = transcript[s]
                BY <3>2 DEF Wrote
            <4>. QED
                BY <1>1, <4>1
        <3>. QED
            BY <3>1, <3>2
    <2>. QED
        BY <2>1
<1>6. Len(users) = Len(transcript) /\ Len(transcript') = Len(transcript)
    BY DEF Wrote, Types, Lists
<1>7. Lists'
    BY <1>1, <1>3, <1>5, <1>6 DEF Lists
<1>. QED
    BY <1>1, <1>7 DEF ListType, Wrote

\* A step of one client.
LEMMA TypesFrame ==
    ASSUME Types, NEW c \in Clients, Others(c), Aimed(c)', Todos \subseteq Todos',
           req' \in [Clients -> Req'], StoreType', ListType', ClockType',
           hist' \in [Clients -> Seq(Message)], id' \in [Clients -> {0} \cup Todos']
    PROVE  Types'
<1>1. ConversationTypeOK'
    BY DEF ConversationTypeOK, StoreType, ListType, ClockType, Budget, Req, Stage
<1>2. ASSUME NEW d \in Clients
      PROVE  Aimed(d)'
    <2>1. CASE d = c
        BY <2>1
    <2>2. CASE d # c
        BY <2>2 DEF Others, Aimed, Types
    <2>. QED
        BY <2>1, <2>2
<1>. QED
    BY <1>1, <1>2 DEF Types, ListType

LEMMA TypesKept ==
    ASSUME Types, ClientInv, [Next]_vars
    PROVE  Types'
<1>1. /\ ConversationTypeOK /\ StoreType /\ ListType /\ ClockType
      /\ hist \in [Clients -> Seq(Message)] /\ id \in [Clients -> {0} \cup Todos]
      /\ req \in [Clients -> Req]
    BY TypeParts
<1>2. UNCHANGED transcript => Todos' = Todos
    BY DEF Todos
<1>3. ASSUME Todos' = Todos
      PROVE  /\ req' \in [Clients -> Req] => req' \in [Clients -> Req']
             /\ id' \in [Clients -> {0} \cup Todos] => id' \in [Clients -> {0} \cup Todos']
             /\ UNCHANGED store => StoreType'
    BY <1>1, <1>3 DEF Req, StoreType, store
<1>4. UNCHANGED <<transcript, opened, users>> => ListType'
    BY <1>1 DEF ListType, Lists, Todos
<1>5. UNCHANGED <<replied, now, spent>> => ClockType'
    BY <1>1 DEF ClockType
<1>6. \A c \in Clients : ~NoRequest.resuming /\ NoRequest.pc = "idle"
    BY NoRequestType
<1>7. ASSUME NEW c \in Clients, NEW w \in Words, NEW whole \in BOOLEAN,
             AskWhole(c, w) \/ AskWithID(c, w, whole)
      PROVE  Types'
    <2>1. /\ Others(c) /\ req' \in [Clients -> Req] /\ spent' \in Budget
          /\ \E m \in Message : Asks(c, m)
          /\ UNCHANGED <<hist, id, transcript, opened, users, store, replied, now>>
        BY <1>7, AskStep
    <2>2. Aimed(c)'
        BY <2>1 DEF Asks, Aimed, Posted, Answered
    <2>3. ClockType'
        BY <1>1, <2>1 DEF ClockType
    <2>. QED
        BY <1>1, <1>2, <1>3, <1>4, <2>1, <2>2, <2>3, TypesFrame
<1>8. ASSUME NEW c \in Clients, Lookup(c)
      PROVE  Types'
    <2>1. /\ req[c].pc = "lookup" /\ Others(c) /\ req' \in [Clients -> Req]
          /\ UNCHANGED <<hist, id, transcript, opened, users, store, replied, now, spent>>
          /\ \/ req'[c] = NoRequest
             \/ req'[c].pc = "send" /\ AsAimed(c)
             \/ req'[c].pc = "enrich" /\ req'[c].resuming /\ req'[c].todo \in Todos
        BY <1>8, LookupStep
    <2>2. Aimed(c)'
        BY <1>2, <1>6, <2>1 DEF Aimed, AsAimed, Posted, Answered, Types
    <2>. QED
        BY <1>1, <1>2, <1>3, <1>4, <1>5, <2>1, <2>2, TypesFrame
<1>9. ASSUME NEW c \in Clients, enrichToolResultNames(c)
      PROVE  Types'
    <2>1. /\ Others(c) /\ req' \in [Clients -> Req] /\ AsAimed(c) /\ req'[c].pc = "send"
          /\ UNCHANGED <<hist, id, transcript, opened, users, store, replied, now, spent>>
        BY <1>9, EnrichStep
    <2>2. Aimed(c)'
        BY <1>2, <2>1 DEF Aimed, AsAimed, Posted, Answered, Types
    <2>. QED
        BY <1>1, <1>2, <1>3, <1>4, <1>5, <2>1, <2>2, TypesFrame
<1>10. ASSUME NEW c \in Clients, Send(c)
       PROVE  Types'
    <2>1. CASE req[c].resuming
        <3>1. /\ Others(c) /\ req' \in [Clients -> Req] /\ AsAimed(c) /\ req'[c].pc = "wait"
              /\ req[c].todo \in Todos /\ Todos' = Todos
              /\ transcript' \in Seq(Seq(Message)) /\ Len(transcript') = Len(transcript)
              /\ users' \in Seq(SUBSET Clients) /\ Len(users') = Len(users)
              /\ req[c].pc = "send" /\ \A m \in Message : Carries(c, m) => Wrote(req[c].todo, m)
              /\ UNCHANGED <<hist, id, opened, store, replied, now, spent>>
            BY <1>10, <2>1, ResumeStep
        <3>2. PICK m \in Message : Wrote(req[c].todo, m)
            BY <3>1 DEF ClientInv, Client
        <3>3. Aimed(c)' /\ ListType'
            BY <3>1, <3>2, WroteLists DEF Aimed, AsAimed
        <3>. QED
            BY <1>1, <1>3, <1>5, <3>1, <3>3, TypesFrame
    <2>2. CASE ~req[c].resuming
        <3>. DEFINE t == Len(transcript) + 1
        <3>1. /\ Others(c) /\ AsAsked(c) /\ req'[c].pc = "wait"
              /\ req'[c].resuming = req[c].resuming /\ req'[c].todo = t
              /\ req'[c].reply = req[c].reply /\ Todos' = Todos \cup {t}
              /\ transcript' \in Seq(Seq(Message)) /\ Len(transcript') = t
              /\ users' \in Seq(SUBSET Clients) /\ Len(users') = t
              /\ opened' \in Seq(Nat) /\ Len(opened') = t /\ opened'[t] = Len(transcript'[t])
              /\ \A s \in Todos : opened'[s] = opened[s] /\ transcript'[s] = transcript[s]
              /\ DOMAIN req' = Clients
              /\ UNCHANGED <<hist, id, store, replied, now, spent>>
            BY <1>10, <2>2, BeginStep
        <3>. HIDE DEF t
        <3>2. Aimed(c)'
            BY <3>1 DEF Aimed
        <3>3. ListType'
            <4>1. opened'[t] \in Nat
                BY <3>1, ElementOfSeq, LenProperties
            <4>2. \A s \in Todos' : opened'[s] <= Len(transcript'[s])
                BY <3>1, <4>1, OpenedType
            <4>. QED
                BY <3>1, <4>2 DEF ListType, Lists
        <3>4. StoreType' /\ id' \in [Clients -> {0} \cup Todos']
            BY <1>1, <3>1 DEF StoreType, store
        <3>5. req' \in [Clients -> Req']
            <4>1. req' = [req EXCEPT ![c].pc = "wait", ![c].todo = t]
                BY <1>10, <2>2 DEF Send, t
            <4>. DEFINE f == [req[c] EXCEPT !.pc = "wait"]
                        q == [f EXCEPT !.todo = t]
            <4>2. \A d \in Clients : req[d] \in Req'
                BY <1>1, <3>1 DEF Req
            <4>3. f \in Req'
                BY <4>2 DEF Req, Stage
            <4>. HIDE DEF f
            <4>4. q \in Req'
                BY <3>1, <4>3 DEF Req
            <4>5. req' = [req EXCEPT ![c] = q]
                BY <1>1, <4>1 DEF f
            <4>. HIDE DEF q
            <4>. QED
                BY <1>1, <4>2, <4>4, <4>5
        <3>. QED
            BY <1>1, <1>5, <3>1, <3>2, <3>3, <3>4, <3>5, TypesFrame
    <2>. QED
        BY <2>1, <2>2
<1>11. ASSUME NEW c \in Clients, NEW call \in Calls \cup {"none"}, Reply(c, call)
       PROVE  Types'
    <2>1. /\ Others(c) /\ AsAimed(c) /\ req'[c].pc = "put" /\ req' \in [Clients -> Req]
          /\ req[c].todo \in Todos /\ Wrote(req[c].todo, req'[c].reply) /\ Todos' = Todos
          /\ req'[c].reply \in Message
          /\ UNCHANGED <<hist, id, opened, users, store, replied, now, spent>>
        BY <1>11, ReplyStep
    <2>2. Aimed(c)' /\ ListType'
        BY <1>1, <2>1, WroteLists DEF Aimed, AsAimed, ListType, Req
    <2>. QED
        BY <1>1, <1>3, <1>5, <2>1, <2>2, TypesFrame
<1>12. ASSUME NEW c \in Clients, Fail(c)
       PROVE  Types'
    <2>1. /\ Others(c) /\ req' \in [Clients -> Req] /\ req'[c] = NoRequest /\ spent' \in Budget
          /\ UNCHANGED <<hist, id, transcript, opened, users, store, replied, now>>
        BY <1>12, FailStep
    <2>2. Aimed(c)' /\ ClockType'
        BY <1>1, <1>6, <2>1 DEF Aimed, Posted, Answered, ClockType
    <2>. QED
        BY <1>1, <1>2, <1>3, <1>4, <2>1, <2>2, TypesFrame
<1>13. ASSUME NEW c \in Clients, Remember(c)
       PROVE  Types'
    <2>. DEFINE r == req[c]
                k == Append(r.msgs, r.reply)
    <2>1. /\ Others(c) /\ AsAimed(c) /\ req'[c].reply = r.reply
          /\ req'[c].pc = IF r.reply.call = "none" THEN "deliver" ELSE "names"
          /\ req' \in [Clients -> Req] /\ r.todo \in Todos
          /\ byHistory' = {e \in byHistory : e.key # k} \cup {Keyed(k, r.todo)}
          /\ byTodoID' = {e \in byTodoID : e.todo # r.todo} \cup {Entry(r.todo)}
          /\ replied' \in [Clients -> Nat]
          /\ UNCHANGED <<hist, id, transcript, opened, users, toolNames, now, spent>>
        BY <1>13, RememberStep
    <2>2. k \in Seq(Message) /\ r.reply \in Message
        BY <1>1, AppendProperties DEF Req
    <2>3. now + TTL \in Nat
        BY <1>1, ConversationAssumption DEF ConversationAssumption, ClockType
    <2>. HIDE DEF k, r
    <2>4. StoreType'
        <3>. DEFINE x == now + TTL
        <3>. HIDE DEF x
        <3>1. Keyed(k, r.todo) = [key |-> k, todo |-> r.todo, expires |-> x]
            BY DEF Keyed, x
        <3>2. Entry(r.todo) = [todo |-> r.todo, expires |-> x] /\ x \in Nat
            BY <2>3 DEF Entry, x
        <3>3. /\ Keyed(k, r.todo) \in [key: Seq(Message), todo: Todos, expires: Nat]
              /\ Entry(r.todo) \in [todo: Todos, expires: Nat]
            BY <2>1, <2>2, <3>1, <3>2
        <3>4. /\ byHistory' \subseteq [key: Seq(Message), todo: Todos, expires: Nat]
              /\ byTodoID' \subseteq [todo: Todos, expires: Nat]
            BY <1>1, <2>1, <3>3 DEF StoreType
        <3>5. Todos' = Todos /\ toolNames' \subseteq [todo: Todos, call: Calls]
            BY <1>1, <1>2, <2>1 DEF StoreType
        <3>. QED
            BY <3>4, <3>5 DEF StoreType
    <2>5. Aimed(c)' /\ ClockType'
        BY <1>1, <1>2, <2>1, <2>2 DEF Aimed, AsAimed, ClockType, Message, r
    <2>. QED
        BY <1>1, <1>2, <1>3, <1>4, <2>1, <2>4, <2>5, TypesFrame
<1>14. ASSUME NEW c \in Clients, RememberNames(c)
       PROVE  Types'
    <2>1. /\ Others(c) /\ AsAimed(c) /\ req'[c].reply = req[c].reply
          /\ req'[c].pc = "deliver" /\ req' \in [Clients -> Req] /\ req[c].todo \in Todos
          /\ toolNames' \subseteq [todo: Todos, call: Calls]
          /\ UNCHANGED <<hist, id, transcript, opened, users, byHistory, byTodoID, replied, now, spent>>
        BY <1>14, NamesStep
    <2>2. Aimed(c)' /\ StoreType'
        BY <1>1, <1>2, <2>1 DEF Aimed, AsAimed, StoreType
    <2>. QED
        BY <1>1, <1>2, <1>3, <1>4, <1>5, <2>1, <2>2, TypesFrame
<1>15. ASSUME NEW c \in Clients, Deliver(c)
       PROVE  Types'
    <2>1. /\ Others(c) /\ req'[c] = NoRequest /\ req' \in [Clients -> Req]
          /\ hist' \in [Clients -> Seq(Message)] /\ id' \in [Clients -> {0} \cup Todos]
          /\ UNCHANGED <<transcript, opened, users, store, replied, now, spent>>
        BY <1>15, DeliverStep
    <2>2. Aimed(c)'
        BY <1>6, <2>1 DEF Aimed, Posted, Answered
    <2>. QED
        BY <1>1, <1>2, <1>3, <1>4, <1>5, <2>1, <2>2, TypesFrame
<1>16. ASSUME NEW c \in Clients, Edit(c)
       PROVE  Types'
    <2>1. /\ spent' \in Budget /\ hist' \in [Clients -> Seq(Message)]
          /\ UNCHANGED <<id, req, transcript, opened, users, store, replied, now>>
        BY <1>16, EditStep
    <2>2. Others(c) /\ Aimed(c)' /\ ClockType'
        BY <1>1, <1>2, <2>1 DEF Others, Aimed, ClockType, Types
    <2>. QED
        BY <1>1, <1>2, <1>3, <1>4, <2>1, <2>2, TypesFrame
<1>17. CASE cleanup
    <2>1. /\ byHistory' \subseteq byHistory /\ byTodoID' \subseteq byTodoID
          /\ toolNames' \subseteq toolNames
          /\ UNCHANGED <<hist, id, req, transcript, opened, users, replied, now, spent>>
        BY <1>17, CleanupStep
    <2>. QED
        BY <1>2, <2>1 DEF Types, Lists, Aimed, ConversationTypeOK
<1>18. CASE Tick
    BY <1>2, <1>18 DEF Tick, store, Types, Lists, Aimed, ConversationTypeOK
<1>19. CASE UNCHANGED vars
    BY <1>2, <1>19 DEF vars, store, Types, Lists, Aimed, ConversationTypeOK
<1>. QED
    BY <1>7, <1>8, <1>9, <1>10, <1>11, <1>12, <1>13, <1>14, <1>15, <1>16, <1>17, <1>18, <1>19
       DEF Next, Chat, Serve

(***************************************************************************)
(* What a client asks.                                                     *)
(***************************************************************************)
\* A step of one client.
LEMMA ClientFrame ==
    ASSUME ClientInv, NEW c \in Clients, Others(c), Client(c)',
           \A d \in Clients \ {c} : hist'[d] = hist[d] /\ id'[d] = id[d]
    PROVE  ClientInv'
<1>1. ASSUME NEW d \in Clients \ {c}
      PROVE  Client(d)'
    <2>1. req'[d] = req[d] /\ hist'[d] = hist[d] /\ id'[d] = id[d] /\ Client(d)
        BY DEF ClientInv, Others
    <2>. QED
        BY <2>1 DEF Client, Carries
<1>. QED
    BY <1>1 DEF ClientInv

\* A step that leaves what was asked.
LEMMA ClientSame ==
    ASSUME NEW c \in Clients, Client(c), hist' = hist, id' = id, req[c].pc # "idle",
           req'[c].full = req[c].full, req'[c].id = req[c].id,
           Unnamed(req'[c].msgs) = Unnamed(req[c].msgs),
           req'[c].pc = "send" /\ ~req'[c].resuming => req'[c].id = 0,
           req'[c].pc \in Answered => req'[c].reply.role = "assistant" /\ ~req'[c].reply.named
    PROVE  Client(c)'
<1>1. ASSUME NEW m \in Message, Carries(c, m)
      PROVE  Carries(c, m)'
    <2>1. Unnamed(req[c].msgs)' = Unnamed(req[c].msgs)
        BY DEF Unnamed
    <2>. QED
        BY <1>1, <2>1 DEF Carries
<1>2. PICK m \in Message : Carries(c, m)
    BY DEF Client
<1>3. Carries(c, m)'
    BY <1>1, <1>2
<1>4. Bare(hist[c])' /\ (hist'[c] # <<>> => hist'[c][Len(hist'[c])].role = "assistant")
    BY DEF Client
<1>5. req'[c].id # 0 => req'[c].id = id'[c]
    BY DEF Client
<1>. QED
    BY <1>3, <1>4, <1>5 DEF Client

\* A list without names stays one when a message without a name is added.
LEMMA BareAppend ==
    ASSUME NEW ms \in Seq(Message), NEW m \in Message, Bare(ms), ~m.named
    PROVE  /\ Append(ms, m) \in Seq(Message) /\ Bare(Append(ms, m))
           /\ Unnamed(Append(ms, m)) = Append(ms, m)
<1>. DEFINE s == Append(ms, m)
<1>1. /\ s \in Seq(Message) /\ Len(s) = Len(ms) + 1 /\ s[Len(ms) + 1] = m
      /\ \A i \in 1..Len(ms) : s[i] = ms[i]
    BY AppendProperties, LenProperties
<1>2. DOMAIN s = 1..Len(ms) + 1 /\ DOMAIN ms = 1..Len(ms) /\ Len(ms) \in Nat
    BY <1>1, LenProperties
<1>. HIDE DEF s
<1>3. Bare(s)
    BY <1>1, <1>2 DEF Bare
<1>4. Unnamed(s) = s
    BY <1>1, <1>3, UnnamedSeq
<1>. QED
    BY <1>1, <1>3, <1>4 DEF s

\* A message alone.
LEMMA BareOne ==
    ASSUME NEW m \in Message, ~m.named
    PROVE  <<m>> \in Seq(Message) /\ Unnamed(<<m>>) = <<m>>
<1>1. <<m>> \in Seq(Message) /\ DOMAIN <<m>> = {1} /\ <<m>>[1] = m
    OBVIOUS
<1>2. Bare(<<m>>)
    BY <1>1 DEF Bare
<1>. QED
    BY <1>1, <1>2, UnnamedSeq

\* The request of a client is made of messages without names.
LEMMA Asked ==
    ASSUME Types, ClientInv, NEW c \in Clients, req[c].pc # "idle"
    PROVE  /\ hist[c] \in Seq(Message) /\ req[c].msgs \in Seq(Message)
           /\ req[c].full \in Seq(Message) /\ Bare(hist[c]) /\ Bare(req[c].full)
           /\ req[c].reply \in Message /\ Client(c)
           /\ \E m \in Message : Carries(c, m)
<1>1. /\ hist[c] \in Seq(Message) /\ req[c].msgs \in Seq(Message)
      /\ req[c].full \in Seq(Message) /\ req[c].reply \in Message
    BY TypeParts DEF Req
<1>2. Client(c) /\ Bare(hist[c])
    BY DEF ClientInv, Client
<1>3. PICK m \in Message : Carries(c, m)
    BY <1>2 DEF Client
<1>4. Bare(req[c].full)
    BY <1>1, <1>2, <1>3, BareAppend DEF Carries
<1>. QED
    BY <1>1, <1>2, <1>3, <1>4

LEMMA ClientKept ==
    ASSUME Types, ClientInv, [Next]_vars
    PROVE  ClientInv'
<1>1. hist \in [Clients -> Seq(Message)]
    BY TypeParts
<1>2. NoRequest.pc = "idle"
    BY NoRequestType
<1>3. ASSUME NEW c \in Clients, req'[c] = NoRequest, hist'[c] = hist[c]
      PROVE  Client(c)'
    BY <1>2, <1>3 DEF Client, ClientInv, Answered, Bare
<1>4. ASSUME NEW c \in Clients, NEW w \in Words, NEW whole \in BOOLEAN,
             AskWhole(c, w) \/ AskWithID(c, w, whole)
      PROVE  ClientInv'
    <2>1. Others(c) /\ UNCHANGED <<hist, id>> /\ \E m \in Message : Asks(c, m)
        BY <1>4, AskStep
    <2>2. PICK m \in Message : Asks(c, m)
        BY <2>1
    <2>3. Client(c) /\ Bare(hist[c]) /\ hist[c] \in Seq(Message)
        BY <1>1 DEF ClientInv, Client
    <2>4. Unnamed(Append(hist[c], m)) = Append(hist[c], m) /\ Unnamed(<<m>>) = <<m>>
        BY <2>2, <2>3, BareAppend, BareOne DEF Asks
    <2>5. Carries(c, m)'
        BY <2>1, <2>2, <2>4 DEF Carries, Asks
    <2>6. Bare(hist[c])' /\ (hist'[c] # <<>> => hist'[c][Len(hist'[c])].role = "assistant")
        BY <2>1, <2>3 DEF Client
    <2>7. Client(c)'
        BY <2>1, <2>2, <2>5, <2>6 DEF Client, Asks, Answered
    <2>. QED
        BY <2>1, <2>7, ClientFrame
<1>5. ASSUME NEW c \in Clients, Lookup(c)
      PROVE  ClientInv'
    <2>1. /\ req[c].pc = "lookup" /\ Others(c) /\ UNCHANGED <<hist, id>>
          /\ \/ req'[c] = NoRequest
             \/ AsAsked(c) /\ req'[c].pc = "send" /\ req[c].id = 0
             \/ AsAsked(c) /\ req'[c].pc = "enrich"
        BY <1>5, LookupStep
    <2>2. Client(c)'
        BY <1>3, <2>1, ClientSame DEF AsAsked, Answered, ClientInv
    <2>. QED
        BY <2>1, <2>2, ClientFrame
<1>6. ASSUME NEW c \in Clients, enrichToolResultNames(c)
      PROVE  ClientInv'
    <2>1. /\ req[c].pc = "enrich" /\ Others(c) /\ AsAimed(c) /\ UNCHANGED <<hist, id>>
          /\ req'[c].pc = "send" /\ req'[c].full = req[c].full /\ req'[c].id = req[c].id
          /\ Unnamed(req'[c].msgs) = Unnamed(req[c].msgs)
        BY <1>6, EnrichStep
    <2>2. req'[c].resuming
        BY <2>1 DEF AsAimed, Types, Aimed
    <2>3. Client(c)'
        BY <2>1, <2>2, ClientSame DEF Answered, ClientInv
    <2>. QED
        BY <2>1, <2>3, ClientFrame
<1>7. ASSUME NEW c \in Clients, Send(c)
      PROVE  ClientInv'
    <2>1. /\ req[c].pc = "send" /\ Others(c) /\ AsAsked(c) /\ req'[c].pc = "wait"
          /\ UNCHANGED <<hist, id>>
        BY <1>7, ResumeStep, BeginStep
    <2>2. Client(c)'
        BY <2>1, ClientSame DEF AsAsked, Answered, ClientInv
    <2>. QED
        BY <2>1, <2>2, ClientFrame
<1>8. ASSUME NEW c \in Clients, NEW call \in Calls \cup {"none"}, Reply(c, call)
      PROVE  ClientInv'
    <2>1. /\ req[c].pc = "wait" /\ Others(c) /\ AsAsked(c) /\ req'[c].pc = "put"
          /\ req'[c].reply.role = "assistant" /\ ~req'[c].reply.named
          /\ UNCHANGED <<hist, id>>
        BY <1>8, ReplyStep
    <2>2. Client(c)'
        BY <2>1, ClientSame DEF AsAsked, ClientInv
    <2>. QED
        BY <2>1, <2>2, ClientFrame
<1>9. ASSUME NEW c \in Clients, Fail(c)
      PROVE  ClientInv'
    BY <1>3, <1>9, FailStep, ClientFrame
<1>10. ASSUME NEW c \in Clients, Remember(c) \/ RememberNames(c)
       PROVE  ClientInv'
    <2>1. /\ req[c].pc \in Answered /\ Others(c) /\ AsAsked(c) /\ req'[c].reply = req[c].reply
          /\ req'[c].pc \in Answered /\ UNCHANGED <<hist, id>>
        BY <1>10, RememberStep, NamesStep DEF Answered
    <2>2. Client(c) /\ req[c].reply.role = "assistant" /\ ~req[c].reply.named
        BY <2>1 DEF ClientInv, Client
    <2>3. Client(c)'
        BY <2>1, <2>2, ClientSame DEF AsAsked, Answered
    <2>. QED
        BY <2>1, <2>3, ClientFrame
<1>11. ASSUME NEW c \in Clients, Deliver(c)
       PROVE  ClientInv'
    <2>. DEFINE f == req[c].full
                m == req[c].reply
    <2>1. /\ req[c].pc = "deliver" /\ Others(c) /\ req'[c] = NoRequest
          /\ hist'[c] = Append(f, m)
          /\ \A d \in Clients \ {c} : hist'[d] = hist[d] /\ id'[d] = id[d]
        BY <1>11, DeliverStep
    <2>2. f \in Seq(Message) /\ Bare(f) /\ m \in Message /\ Client(c)
        BY <2>1, Asked
    <2>3. m.role = "assistant" /\ ~m.named
        BY <2>1, <2>2 DEF Client, Answered
    <2>. HIDE DEF f, m
    <2>4. Append(f, m)[Len(Append(f, m))] = m
        BY <2>2, AppendProperties
    <2>5. Bare(hist'[c]) /\ hist'[c][Len(hist'[c])].role = "assistant"
        BY <2>1, <2>2, <2>3, <2>4, BareAppend
    <2>6. Client(c)'
        BY <1>2, <2>1, <2>5 DEF Client, Bare, Answered
    <2>. QED
        BY <2>1, <2>6, ClientFrame
<1>12. ASSUME NEW c \in Clients, Edit(c)
       PROVE  ClientInv'
    <2>1. /\ req[c].pc = "idle" /\ UNCHANGED <<id, req>>
          /\ \A d \in Clients \ {c} : hist'[d] = hist[d]
          /\ \E n \in 0..Len(hist[c]) : /\ hist'[c] = SubSeq(hist[c], 1, n)
                                        /\ n > 0 => hist[c][n].role = "assistant"
        BY <1>12, EditStep
    <2>2. PICK n \in 0..Len(hist[c]) : /\ hist'[c] = SubSeq(hist[c], 1, n)
                                       /\ n > 0 => hist[c][n].role = "assistant"
        BY <2>1
    <2>. DEFINE h == hist[c]
                g == SubSeq(h, 1, n)
    <2>3. h \in Seq(Message) /\ Bare(h) /\ Len(h) \in Nat /\ DOMAIN h = 1..Len(h)
        BY <1>1, LenProperties DEF ClientInv, Client
    <2>4. g \in Seq(Message) /\ Len(g) = n /\ DOMAIN g = 1..n /\ \A i \in 1..n : g[i] = h[i]
        BY <1>1, PrefixOf, LenProperties
    <2>5. hist'[c] = g /\ n \in 0..Len(h) /\ (n > 0 => h[n].role = "assistant")
        BY <2>2
    <2>. HIDE DEF g, h
    <2>6. Bare(g) /\ (g # <<>> => g[Len(g)].role = "assistant")
        <3>1. 1..n \subseteq 1..Len(h)
            BY <2>3, <2>5
        <3>2. Bare(g)
            BY <2>3, <2>4, <3>1 DEF Bare
        <3>3. g # <<>> => n > 0
            BY <2>4, <2>5, <2>3, EmptySeq
        <3>4. g # <<>> => n \in 1..n
            BY <2>3, <2>5, <3>3
        <3>. QED
            BY <2>4, <2>5, <3>2, <3>3, <3>4
    <2>7. Client(c)'
        BY <2>1, <2>5, <2>6 DEF Client, Bare, Answered
    <2>8. Others(c)
        BY <2>1 DEF Others
    <2>. QED
        BY <2>1, <2>7, <2>8, ClientFrame
<1>13. ASSUME UNCHANGED <<hist, id, req>>
       PROVE  ClientInv'
    BY <1>13 DEF ClientInv, Client, Carries, Bare
<1>14. CASE cleanup
    BY <1>13, <1>14, CleanupStep
<1>15. CASE Tick
    BY <1>13, <1>15 DEF Tick
<1>16. CASE UNCHANGED vars
    BY <1>13, <1>16 DEF vars
<1>. QED
    BY <1>4, <1>5, <1>6, <1>7, <1>8, <1>9, <1>10, <1>11, <1>12, <1>14, <1>15, <1>16
       DEF Next, Chat, Serve

(***************************************************************************)
(* What todos have heard.                                                  *)
(***************************************************************************)
\* Todos stay, and keep what they hold, or gain a message.
Grows == \A t \in Todos : /\ t \in Todos' /\ opened'[t] = opened[t]
                          /\ \/ transcript'[t] = transcript[t]
                             \/ \E m \in Message : transcript'[t] = Append(transcript[t], m)

LEMMA StillHeard ==
    ASSUME Types, Grows, NEW s \in Seq(Message), NEW t \in Todos, Occur(s, transcript[t], opened[t])
    PROVE  Occur(s, transcript'[t], opened'[t])
<1>1. transcript[t] \in Seq(Message) /\ opened[t] \in Nat
    BY Requests, OpenedType DEF Types
<1>. QED
    BY <1>1, OccursLater DEF Grows

LEMMA WritingGrows ==
    ASSUME Types, Todos' = Todos, UNCHANGED opened, NEW t \in Todos, NEW m \in Message,
           Wrote(t, m)
    PROVE  Grows
BY DEF Wrote, Grows

LEMMA KeysStillHeard ==
    ASSUME Types, KeysHeard, Grows, byHistory' \subseteq byHistory
    PROVE  KeysHeard'
<1>1. ASSUME NEW e \in byHistory
      PROVE  e.key # <<>> /\ Occur(Unnamed(e.key), transcript'[e.todo], opened'[e.todo])
    <2>1. e.key \in Seq(Message) /\ e.todo \in Todos
        BY TypeParts DEF StoreType
    <2>. QED
        BY <2>1, UnnamedSeq, StillHeard DEF KeysHeard, Heard
<1>. QED
    BY <1>1 DEF KeysHeard, Heard

\* A step of one client.
LEMMA HeardFrame ==
    ASSUME Types, HeardInv, Grows, NEW c \in Clients, Others(c), HeardBy(c)', KeysHeard',
           \A d \in Clients \ {c} : hist'[d] = hist[d] /\ id'[d] = id[d]
    PROVE  HeardInv'
<1>1. ASSUME NEW d \in Clients \ {c}
      PROVE  HeardBy(d)'
    <2>. DEFINE r == req[d]
    <2>1. req'[d] = r /\ hist'[d] = hist[d] /\ id'[d] = id[d] /\ HeardBy(d)
        BY DEF HeardInv, Others
    <2>2. r \in Req /\ hist[d] \in Seq(Message) /\ id[d] \in {0} \cup Todos
        BY TypeParts
    <2>3. /\ r.full \in Seq(Message) /\ r.msgs \in Seq(Message) /\ r.reply \in Message
        BY <2>2 DEF Req
    <2>4. /\ Unnamed(r.msgs) \in Seq(Message) /\ Append(r.full, r.reply) \in Seq(Message)
          /\ Append(Unnamed(r.msgs), r.reply) \in Seq(Message)
        BY <2>3, UnnamedSeq, AppendProperties
    <2>5. r.resuming \/ r.pc \in Posted => r.todo \in Todos
        BY DEF Types, Aimed
    <2>. HIDE DEF r
    <2>6. id[d] # 0 => Occur(hist[d], transcript'[id[d]], opened'[id[d]])
        BY <2>1, <2>2, StillHeard DEF HeardBy, Heard
    <2>7. r.pc \in {"enrich", "send"} /\ r.resuming => Occur(hist[d], transcript'[r.todo], opened'[r.todo])
        BY <2>1, <2>2, <2>5, StillHeard DEF HeardBy, Heard, r
    <2>8. r.pc = "wait" => /\ Occur(r.full, transcript'[r.todo], opened'[r.todo])
                           /\ Occur(Unnamed(r.msgs), transcript'[r.todo], opened'[r.todo])
        BY <2>1, <2>3, <2>4, <2>5, StillHeard DEF HeardBy, Heard, Posted, r
    <2>9. r.pc \in Answered => /\ Occur(Append(r.full, r.reply), transcript'[r.todo], opened'[r.todo])
                               /\ Occur(Append(Unnamed(r.msgs), r.reply), transcript'[r.todo], opened'[r.todo])
        BY <2>1, <2>4, <2>5, StillHeard DEF HeardBy, Heard, Posted, r
    <2>10. Unnamed(req[d].msgs)' = Unnamed(r.msgs)
        BY <2>1 DEF Unnamed
    <2>. QED
        BY <2>1, <2>6, <2>7, <2>8, <2>9, <2>10 DEF HeardBy, Heard
<1>. QED
    BY <1>1 DEF HeardInv

LEMMA NothingGrows ==
    ASSUME Types, UNCHANGED <<transcript, opened>>
    PROVE  Grows
BY DEF Grows, Todos

LEMMA HeardKept ==
    ASSUME Types, ClientInv, HeardInv, [Next]_vars
    PROVE  HeardInv'
<1>1. /\ hist \in [Clients -> Seq(Message)] /\ id \in [Clients -> {0} \cup Todos]
      /\ req \in [Clients -> Req]
    BY TypeParts
<1>2. NoRequest.pc = "idle" /\ KeysHeard
    BY NoRequestType DEF HeardInv
<1>3. UNCHANGED <<transcript, opened, byHistory>> => Grows /\ KeysHeard'
    BY <1>2, NothingGrows, KeysStillHeard
<1>4. \A c \in Clients : HeardBy(c) /\ (id[c] # 0 => Occur(hist[c], transcript[id[c]], opened[id[c]]))
    BY DEF HeardInv, HeardBy, Heard
<1>5. ASSUME Grows, NEW c \in Clients, hist'[c] = hist[c], id'[c] = id[c]
      PROVE  id'[c] # 0 => Heard(hist[c], id[c])'
    <2>1. id[c] # 0 => Occur(hist[c], transcript'[id[c]], opened'[id[c]])
        BY <1>1, <1>4, <1>5, StillHeard
    <2>. QED
        BY <2>1, <1>5 DEF Heard
<1>6. ASSUME NEW c \in Clients, NEW w \in Words, NEW whole \in BOOLEAN,
             AskWhole(c, w) \/ AskWithID(c, w, whole)
      PROVE  HeardInv'
    <2>1. /\ Others(c) /\ \E m \in Message : Asks(c, m)
          /\ UNCHANGED <<hist, id, transcript, opened, byHistory>>
        BY <1>6, AskStep DEF store
    <2>2. HeardBy(c)'
        BY <1>3, <1>5, <2>1 DEF HeardBy, Asks, Answered
    <2>. QED
        BY <1>3, <2>1, <2>2, HeardFrame
<1>7. ASSUME NEW c \in Clients, Lookup(c)
      PROVE  HeardInv'
    <2>. DEFINE r == req[c]
    <2>1. /\ r.pc = "lookup" /\ Others(c)
          /\ UNCHANGED <<hist, id, transcript, opened, byHistory>>
          /\ \/ req'[c] = NoRequest
             \/ AsAimed(c) /\ req'[c].pc = "send"
             \/ /\ req'[c].pc = "enrich" /\ req'[c].todo \in Todos
                /\ \/ req'[c].todo = r.id
                   \/ \E e \in byHistory : /\ e.todo = req'[c].todo
                                           /\ e.key = conversationKey(r.msgs)
        BY <1>7, LookupStep DEF store
    <2>2. id'[c] # 0 => Heard(hist[c], id[c])'
        BY <1>3, <1>5, <2>1
    <2>3. ~r.resuming
        BY <2>1 DEF Types, Aimed
    <2>4. ASSUME req'[c] = NoRequest
          PROVE  HeardBy(c)'
        BY <1>2, <2>2, <2>4 DEF HeardBy, Answered
    <2>5. ASSUME AsAimed(c) /\ req'[c].pc = "send"
          PROVE  HeardBy(c)'
        BY <2>2, <2>3, <2>5 DEF HeardBy, AsAimed, Answered
    <2>6. ASSUME req'[c].pc = "enrich" /\ req'[c].todo \in Todos /\ req'[c].todo = r.id
          PROVE  HeardBy(c)'
        <3>1. r.id # 0
            BY <2>6, Requests DEF Types
        <3>2. r.id = id[c]
            BY <2>1, <3>1 DEF ClientInv, Client
        <3>. QED
            BY <2>1, <2>2, <2>6, <3>1, <3>2 DEF HeardBy, Heard, Answered
    <2>7. ASSUME req'[c].pc = "enrich", NEW e \in byHistory, e.todo = req'[c].todo,
                 e.key = conversationKey(r.msgs)
          PROVE  HeardBy(c)'
        <3>1. e.key # <<>> /\ Occur(Unnamed(e.key), transcript[e.todo], opened[e.todo])
            BY <1>2 DEF KeysHeard, Heard
        <3>2. Unnamed(e.key) = hist[c]
            BY <2>1, <2>7, <3>1, Asked, RequestParts
        <3>3. Occur(hist'[c], transcript'[req'[c].todo], opened'[req'[c].todo])
            BY <2>1, <2>7, <3>1, <3>2
        <3>. QED
            BY <2>2, <2>1, <2>7, <3>3 DEF HeardBy, Heard, Answered
    <2>8. HeardBy(c)'
        BY <2>1, <2>4, <2>5, <2>6, <2>7
    <2>. QED
        BY <1>3, <2>1, <2>8, HeardFrame
<1>8. ASSUME NEW c \in Clients, enrichToolResultNames(c)
      PROVE  HeardInv'
    <2>1. /\ req[c].pc = "enrich" /\ Others(c) /\ AsAimed(c) /\ req'[c].pc = "send"
          /\ UNCHANGED <<hist, id, transcript, opened, byHistory>>
        BY <1>8, EnrichStep DEF store
    <2>2. HeardBy(c)'
        BY <1>4, <2>1 DEF HeardBy, Heard, AsAimed, Answered
    <2>. QED
        BY <1>3, <2>1, <2>2, HeardFrame
<1>9. ASSUME NEW c \in Clients, Send(c), req[c].resuming
      PROVE  HeardInv'
    <2>. DEFINE r == req[c]
                t == r.todo
                us == Unnamed(r.msgs)
    <2>1. /\ r.pc = "send" /\ Others(c) /\ AsAsked(c) /\ AsAimed(c) /\ req'[c].pc = "wait"
          /\ t \in Todos /\ \A m \in Message : Carries(c, m) => Wrote(t, m)
          /\ Todos' = Todos /\ UNCHANGED <<hist, id, opened, byHistory>>
        BY <1>9, ResumeStep DEF store
    <2>2. /\ hist[c] \in Seq(Message) /\ r.full \in Seq(Message)
          /\ \E m \in Message : Carries(c, m)
        BY <2>1, Asked
    <2>3. PICK m \in Message : Carries(c, m)
        BY <2>2
    <2>4. Wrote(t, m)
        BY <2>1, <2>3
    <2>5. Grows
        BY <2>1, <2>4, WritingGrows
    <2>6. /\ transcript[t] \in Seq(Message) /\ transcript'[t] = Append(transcript[t], m)
          /\ opened'[t] = opened[t] /\ opened[t] \in Nat /\ opened[t] <= Len(transcript[t])
        BY <2>1, <2>4, Requests, OpenedType DEF Types, Wrote
    <2>7. Occur(hist[c], transcript[t], opened[t])
        BY <1>4, <1>9, <2>1 DEF HeardBy, Heard
    <2>8. r.full = Append(hist[c], m) /\ (us = r.full \/ us = <<m>>)
        BY <2>3 DEF Carries
    <2>9. Occur(r.full, transcript'[t], opened'[t])
        BY <2>2, <2>6, <2>7, <2>8, BothOccur
    <2>10. Occur(<<m>>, transcript'[t], opened'[t])
        <3>1. Append(<<>>, m) = <<m>> /\ <<>> \in Seq(Message)
            BY EmptySeq
        <3>2. Occur(<<>>, transcript[t], opened[t])
            BY <2>6, NothingOccurs
        <3>3. Occur(Append(<<>>, m), transcript'[t], opened'[t])
            BY <2>6, <3>1, <3>2, BothOccur
        <3>. QED
            BY <3>1, <3>3
    <2>11. Occur(us, transcript'[t], opened'[t])
        BY <2>8, <2>9, <2>10
    <2>12. req'[c].full = r.full /\ req'[c].todo = t /\ Unnamed(req[c].msgs)' = us
        BY <2>1 DEF AsAsked, AsAimed, Unnamed
    <2>. HIDE DEF t, us, r
    <2>13. HeardBy(c)'
        BY <1>5, <2>1, <2>5, <2>9, <2>11, <2>12 DEF HeardBy, Heard, Answered
    <2>14. KeysHeard'
        BY <1>2, <2>1, <2>5, KeysStillHeard
    <2>. QED
        BY <2>1, <2>5, <2>13, <2>14, HeardFrame
<1>10. ASSUME NEW c \in Clients, Send(c), ~req[c].resuming
       PROVE  HeardInv'
    <2>. DEFINE r == req[c]
                t == Len(transcript) + 1
                us == Unnamed(r.msgs)
    <2>1. /\ r.pc = "send" /\ Others(c) /\ AsAsked(c) /\ req'[c].pc = "wait" /\ req'[c].todo = t
          /\ Todos' = Todos \cup {t} /\ transcript'[t] = FlattenTurn(us)
          /\ opened'[t] = Len(us)
          /\ \A s \in Todos : transcript'[s] = transcript[s] /\ opened'[s] = opened[s]
          /\ UNCHANGED <<hist, id, byHistory>>
        BY <1>10, BeginStep DEF store
    <2>2. Grows
        BY <2>1 DEF Grows
    <2>3. us \in Seq(Message) /\ us = r.full
        <3>1. r.id = 0 /\ \E m \in Message : Carries(c, m)
            BY <1>10, <2>1, Asked DEF Client
        <3>2. us = r.full
            BY <3>1 DEF Carries
        <3>. QED
            BY <2>1, <3>2, Asked
    <2>4. Occur(us, transcript'[t], opened'[t])
        BY <2>1, <2>3, AllOccurs
    <2>5. req'[c].full = r.full /\ Unnamed(req[c].msgs)' = us
        BY <2>1 DEF AsAsked, Unnamed
    <2>. HIDE DEF t, us, r
    <2>6. HeardBy(c)'
        BY <1>5, <2>1, <2>2, <2>3, <2>4, <2>5 DEF HeardBy, Heard, Answered
    <2>7. KeysHeard'
        BY <1>2, <2>1, <2>2, KeysStillHeard
    <2>. QED
        BY <2>1, <2>2, <2>6, <2>7, HeardFrame
<1>11. ASSUME NEW c \in Clients, NEW call \in Calls \cup {"none"}, Reply(c, call)
       PROVE  HeardInv'
    <2>. DEFINE r == req[c]
                t == r.todo
                us == Unnamed(r.msgs)
                m == req'[c].reply
    <2>1. /\ r.pc = "wait" /\ Others(c) /\ AsAsked(c) /\ AsAimed(c) /\ req'[c].pc = "put"
          /\ m \in Message /\ t \in Todos /\ Wrote(t, m) /\ Todos' = Todos
          /\ UNCHANGED <<hist, id, opened, byHistory>>
        BY <1>11, ReplyStep DEF store
    <2>2. Grows
        BY <2>1, WritingGrows
    <2>3. /\ transcript[t] \in Seq(Message) /\ transcript'[t] = Append(transcript[t], m)
          /\ opened'[t] = opened[t] /\ opened[t] \in Nat /\ opened[t] <= Len(transcript[t])
        BY <2>1, Requests, OpenedType DEF Types, Wrote
    <2>4. /\ Occur(r.full, transcript[t], opened[t]) /\ Occur(us, transcript[t], opened[t])
          /\ r.full \in Seq(Message) /\ us \in Seq(Message)
        BY <1>4, <2>1, Asked, UnnamedSeq DEF HeardBy, Heard
    <2>5. req'[c].full = r.full /\ req'[c].todo = t /\ Unnamed(req[c].msgs)' = us
        BY <2>1 DEF AsAsked, AsAimed, Unnamed
    <2>. HIDE DEF t, us, r
    <2>6. Occur(Append(r.full, m), transcript'[t], opened'[t]) /\ Occur(Append(us, m), transcript'[t], opened'[t])
        BY <2>1, <2>3, <2>4, BothOccur
    <2>7. HeardBy(c)'
        BY <1>5, <2>1, <2>2, <2>5, <2>6 DEF HeardBy, Heard
    <2>8. KeysHeard'
        BY <1>2, <2>1, <2>2, KeysStillHeard
    <2>. QED
        BY <2>1, <2>2, <2>7, <2>8, HeardFrame
<1>12. ASSUME NEW c \in Clients, Fail(c)
       PROVE  HeardInv'
    <2>1. Others(c) /\ req'[c] = NoRequest /\ UNCHANGED <<hist, id, transcript, opened, byHistory>>
        BY <1>12, FailStep DEF store
    <2>2. HeardBy(c)'
        BY <1>2, <1>3, <1>5, <2>1 DEF HeardBy, Answered
    <2>. QED
        BY <1>3, <2>1, <2>2, HeardFrame
<1>13. ASSUME NEW c \in Clients, req[c].pc \in Answered, req'[c].pc \in Answered, Others(c),
              AsAsked(c), AsAimed(c), req'[c].reply = req[c].reply,
              UNCHANGED <<hist, id, transcript, opened>>, KeysHeard'
       PROVE  HeardInv'
    <2>1. Unnamed(req[c].msgs)' = Unnamed(req[c].msgs)
        BY <1>13 DEF AsAsked, Unnamed
    <2>2. HeardBy(c)'
        BY <1>4, <1>13, <2>1 DEF HeardBy, Heard, Answered, AsAsked, AsAimed
    <2>. QED
        BY <1>13, <2>2, NothingGrows, HeardFrame
<1>14. ASSUME NEW c \in Clients, Remember(c)
       PROVE  HeardInv'
    <2>. DEFINE r == req[c]
                k == Append(r.msgs, r.reply)
                us == Unnamed(r.msgs)
    <2>1. /\ r.pc = "put" /\ Others(c) /\ AsAsked(c) /\ AsAimed(c) /\ req'[c].reply = r.reply
          /\ req'[c].pc \in Answered
          /\ byHistory' = {e \in byHistory : e.key # k} \cup {Keyed(k, r.todo)}
          /\ UNCHANGED <<hist, id, transcript, opened>>
        BY <1>14, RememberStep DEF Answered
    <2>2. r.msgs \in Seq(Message) /\ r.reply \in Message /\ ~r.reply.named
        BY <2>1, Asked DEF Client, Answered
    <2>3. Occur(Append(us, r.reply), transcript[r.todo], opened[r.todo])
        BY <1>4, <2>1 DEF HeardBy, Heard, Answered
    <2>4. k # <<>> /\ Unnamed(k) = Append(us, r.reply)
        BY <2>2, UnnamedAppend, AppendProperties
    <2>5. Keyed(k, r.todo).key = k /\ Keyed(k, r.todo).todo = r.todo
        BY DEF Keyed
    <2>. HIDE DEF k, us, r
    <2>6. ASSUME NEW e \in byHistory'
          PROVE  e.key # <<>> /\ Occur(Unnamed(e.key), transcript[e.todo], opened[e.todo])
        BY <1>2, <2>1, <2>3, <2>4, <2>5 DEF KeysHeard, Heard
    <2>7. KeysHeard'
        BY <2>1, <2>6 DEF KeysHeard, Heard
    <2>. QED
        BY <1>13, <2>1, <2>7 DEF Answered, r
<1>15. ASSUME NEW c \in Clients, RememberNames(c)
       PROVE  HeardInv'
    BY <1>3, <1>13, <1>15, NamesStep DEF Answered
<1>16. ASSUME NEW c \in Clients, Deliver(c)
       PROVE  HeardInv'
    <2>. DEFINE r == req[c]
    <2>1. /\ r.pc = "deliver" /\ Others(c) /\ req'[c] = NoRequest
          /\ hist'[c] = Append(r.full, r.reply) /\ id'[c] = r.todo
          /\ \A d \in Clients \ {c} : hist'[d] = hist[d] /\ id'[d] = id[d]
          /\ UNCHANGED <<transcript, opened, byHistory>>
        BY <1>16, DeliverStep DEF store
    <2>2. Occur(Append(r.full, r.reply), transcript[r.todo], opened[r.todo])
        BY <1>4, <2>1 DEF HeardBy, Heard, Answered
    <2>3. HeardBy(c)'
        BY <1>2, <2>1, <2>2 DEF HeardBy, Heard, Answered
    <2>. QED
        BY <1>3, <2>1, <2>3, HeardFrame
<1>17. ASSUME NEW c \in Clients, Edit(c)
       PROVE  HeardInv'
    <2>1. /\ req[c].pc = "idle" /\ UNCHANGED <<id, req, transcript, opened, byHistory>>
          /\ \A d \in Clients \ {c} : hist'[d] = hist[d]
          /\ \E n \in 0..Len(hist[c]) : hist'[c] = SubSeq(hist[c], 1, n)
        BY <1>17, EditStep DEF store
    <2>2. PICK n \in 0..Len(hist[c]) : hist'[c] = SubSeq(hist[c], 1, n)
        BY <2>1
    <2>3. id[c] # 0 => Occur(SubSeq(hist[c], 1, n), transcript[id[c]], opened[id[c]])
        <3>1. id[c] # 0 => transcript[id[c]] \in Seq(Message) /\ opened[id[c]] \in Nat
            BY <1>1, Requests, OpenedType DEF Types
        <3>. QED
            BY <1>1, <1>4, <3>1, PrefixOccurs
    <2>4. HeardBy(c)' /\ Others(c)
        BY <2>1, <2>2, <2>3 DEF HeardBy, Heard, Answered, Others
    <2>. QED
        BY <1>3, <2>1, <2>4, HeardFrame
<1>18. ASSUME UNCHANGED <<hist, id, req, transcript, opened>>, byHistory' \subseteq byHistory
       PROVE  HeardInv'
    <2>1. KeysHeard'
        BY <1>2, <1>18, NothingGrows, KeysStillHeard
    <2>. QED
        BY <1>4, <1>18, <2>1 DEF HeardInv, HeardBy, Heard, Unnamed
<1>19. CASE cleanup
    BY <1>18, <1>19, CleanupStep
<1>20. CASE Tick \/ UNCHANGED vars
    BY <1>18, <1>20 DEF Tick, vars, store
<1>. QED
    BY <1>6, <1>7, <1>8, <1>9, <1>10, <1>11, <1>12, <1>14, <1>15, <1>16, <1>17, <1>19, <1>20
       DEF Next, Chat, Serve

(***************************************************************************)
(* How long sessions live.                                                 *)
(***************************************************************************)
\* Sessions that are not over stay, or are extended by a whole life.
Extends ==
    /\ now <= now' /\ now' \in Nat
    /\ \A e \in byTodoID : now' <= e.expires =>
         \E f \in byTodoID' : f.todo = e.todo /\ f.expires \in Nat
                              /\ (f.expires >= e.expires \/ f.expires >= now + TTL)

LEMMA LivesOn ==
    ASSUME Types, Extends, NEW c \in Clients, NEW t, Lives(c, t), replied[c] <= now,
           replied'[c] = replied[c]
    PROVE  now' <= replied'[c] + TTL =>
             \E e \in byTodoID' : e.todo = t /\ e.expires >= replied'[c] + TTL
<1>1. now \in Nat /\ replied[c] \in Nat /\ TTL \in Nat /\ now' \in Nat /\ now <= now'
    BY TypeParts, ConversationAssumption DEF ClockType, ConversationAssumption, Extends
<1>2. SUFFICES ASSUME now' <= replied[c] + TTL
               PROVE  \E f \in byTodoID' : f.todo = t /\ f.expires >= replied[c] + TTL
    OBVIOUS
<1>3. PICK e \in byTodoID : e.todo = t /\ e.expires >= replied[c] + TTL
    BY <1>1, <1>2 DEF Lives
<1>4. e.expires \in Nat
    BY TypeParts DEF StoreType
<1>5. now' <= e.expires
    BY <1>1, <1>2, <1>3, <1>4
<1>6. PICK f \in byTodoID' : f.todo = e.todo /\ f.expires \in Nat
                             /\ (f.expires >= e.expires \/ f.expires >= now + TTL)
    BY <1>5 DEF Extends
<1>7. f.expires >= replied[c] + TTL
    BY <1>1, <1>3, <1>4, <1>6
<1>. QED
    BY <1>3, <1>6, <1>7

LEMMA StoreUnchanged ==
    ASSUME Types, UNCHANGED <<byTodoID, now>>
    PROVE  Extends
<1>1. now \in Nat /\ \A e \in byTodoID : e.expires \in Nat
    BY TypeParts DEF StoreType, ClockType
<1>. QED
    BY <1>1 DEF Extends

\* A step of one client.
LEMMA LiveFrame ==
    ASSUME Types, LiveInv, Extends, NEW c \in Clients, Others(c), LiveFor(c)',
           \A d \in Clients \ {c} : id'[d] = id[d] /\ replied'[d] = replied[d]
    PROVE  LiveInv'
<1>1. ASSUME NEW d \in Clients \ {c}
      PROVE  LiveFor(d)'
    <2>1. req'[d] = req[d] /\ id'[d] = id[d] /\ replied'[d] = replied[d] /\ LiveFor(d)
        BY DEF Others, LiveInv
    <2>2. replied[d] \in Nat /\ now \in Nat /\ now' \in Nat /\ now <= now'
        BY TypeParts DEF ClockType, Extends
    <2>3. replied[d] <= now /\ replied'[d] <= now'
        BY <2>1, <2>2 DEF LiveFor
    <2>4. \A t : Lives(d, t) => (now' <= replied'[d] + TTL =>
                     \E e \in byTodoID' : e.todo = t /\ e.expires >= replied'[d] + TTL)
        BY <2>1, <2>3, LivesOn
    <2>. QED
        BY <2>1, <2>3, <2>4 DEF LiveFor, Lives
<1>. QED
    BY <1>1 DEF LiveInv

\* A step of a request whose answer is not recorded, before and after.
LEMMA LiveSame ==
    ASSUME Types, LiveInv, NEW c \in Clients, Others(c), UNCHANGED <<id, byTodoID, replied, now>>,
           req[c].pc \notin {"names", "deliver"}, req'[c].pc \notin {"names", "deliver"}
    PROVE  LiveInv'
<1>1. LiveFor(c)
    BY DEF LiveInv
<1>2. LiveFor(c)'
    BY <1>1 DEF LiveFor, Lives
<1>. QED
    BY <1>2, StoreUnchanged, LiveFrame

LEMMA LiveKept ==
    ASSUME Types, ClientInv, LiveInv, [Next]_vars
    PROVE  LiveInv'
<1>1. NoRequest.pc = "idle"
    BY NoRequestType
<1>2. ASSUME NEW c \in Clients, NEW w \in Words, NEW whole \in BOOLEAN,
             AskWhole(c, w) \/ AskWithID(c, w, whole)
      PROVE  LiveInv'
    <2>1. /\ req[c].pc = "idle" /\ Others(c) /\ req'[c].pc = "lookup"
          /\ UNCHANGED <<id, byTodoID, replied, now>>
        BY <1>2, AskStep DEF store, Asks
    <2>. QED
        BY <2>1, LiveSame
<1>3. ASSUME NEW c \in Clients, Lookup(c)
      PROVE  LiveInv'
    <2>1. /\ req[c].pc = "lookup" /\ Others(c) /\ req'[c].pc \in {"idle", "send", "enrich"}
          /\ UNCHANGED <<id, byTodoID, replied, now>>
        BY <1>1, <1>3, LookupStep DEF store
    <2>. QED
        BY <2>1, LiveSame
<1>4. ASSUME NEW c \in Clients, enrichToolResultNames(c)
      PROVE  LiveInv'
    <2>1. /\ req[c].pc = "enrich" /\ Others(c) /\ req'[c].pc = "send"
          /\ UNCHANGED <<id, byTodoID, replied, now>>
        BY <1>4, EnrichStep DEF store
    <2>. QED
        BY <2>1, LiveSame
<1>5. ASSUME NEW c \in Clients, Send(c)
      PROVE  LiveInv'
    <2>1. /\ req[c].pc = "send" /\ Others(c) /\ req'[c].pc = "wait"
          /\ UNCHANGED <<id, byTodoID, replied, now>>
        BY <1>5, ResumeStep, BeginStep DEF store
    <2>. QED
        BY <2>1, LiveSame
<1>6. ASSUME NEW c \in Clients, NEW call \in Calls \cup {"none"}, Reply(c, call)
      PROVE  LiveInv'
    <2>1. /\ req[c].pc = "wait" /\ Others(c) /\ req'[c].pc = "put"
          /\ UNCHANGED <<id, byTodoID, replied, now>>
        BY <1>6, ReplyStep DEF store
    <2>. QED
        BY <2>1, LiveSame
<1>7. ASSUME NEW c \in Clients, Fail(c)
      PROVE  LiveInv'
    <2>1. /\ req[c].pc = "wait" /\ Others(c) /\ req'[c].pc = "idle"
          /\ UNCHANGED <<id, byTodoID, replied, now>>
        BY <1>1, <1>7, FailStep DEF store
    <2>. QED
        BY <2>1, LiveSame
<1>8. ASSUME NEW c \in Clients, Remember(c)
      PROVE  LiveInv'
    <2>. DEFINE t == req[c].todo
                x == now + TTL
    <2>1. /\ Others(c) /\ req'[c].todo = t /\ req'[c].pc \in {"names", "deliver"}
          /\ byTodoID' = {e \in byTodoID : e.todo # t} \cup {Entry(t)}
          /\ replied'[c] = now /\ \A d \in Clients \ {c} : replied'[d] = replied[d]
          /\ UNCHANGED <<id, now>>
        BY <1>8, RememberStep DEF AsAimed
    <2>2. now \in Nat /\ x \in Nat /\ \A e \in byTodoID : e.expires \in Nat
        BY TypeParts, ConversationAssumption DEF StoreType, ClockType, ConversationAssumption
    <2>3. Entry(t).todo = t /\ Entry(t).expires = x
        BY DEF Entry
    <2>4. Entry(t) \in byTodoID'
        BY <2>1
    <2>. HIDE DEF t
    <2>5. ASSUME NEW e \in byTodoID
          PROVE  \E f \in byTodoID' : f.todo = e.todo /\ f.expires \in Nat
                                      /\ (f.expires >= e.expires \/ f.expires >= x)
        <3>1. CASE e.todo = t
            BY <2>2, <2>3, <2>4, <3>1
        <3>2. CASE e.todo # t
            BY <2>1, <2>2, <3>2
        <3>. QED
            BY <3>1, <3>2
    <2>6. Extends
        BY <2>1, <2>2, <2>5 DEF Extends
    <2>7. LiveFor(c)'
        BY <2>1, <2>2, <2>3, <2>4 DEF LiveFor, Lives
    <2>. QED
        BY <2>1, <2>6, <2>7, LiveFrame
<1>9. ASSUME NEW c \in Clients, RememberNames(c)
      PROVE  LiveInv'
    <2>1. /\ req[c].pc = "names" /\ Others(c) /\ AsAimed(c) /\ req'[c].pc = "deliver"
          /\ UNCHANGED <<id, byTodoID, replied, now>>
        BY <1>9, NamesStep DEF store
    <2>2. LiveFor(c)'
        BY <2>1 DEF LiveInv, LiveFor, Lives, AsAimed
    <2>. QED
        BY <2>1, <2>2, StoreUnchanged, LiveFrame
<1>10. ASSUME NEW c \in Clients, Deliver(c)
       PROVE  LiveInv'
    <2>1. /\ req[c].pc = "deliver" /\ Others(c) /\ req'[c].pc = "idle" /\ id'[c] = req[c].todo
          /\ \A d \in Clients \ {c} : id'[d] = id[d]
          /\ UNCHANGED <<byTodoID, replied, now>>
        BY <1>1, <1>10, DeliverStep DEF store
    <2>2. LiveFor(c)'
        BY <2>1 DEF LiveInv, LiveFor, Lives
    <2>. QED
        BY <2>1, <2>2, StoreUnchanged, LiveFrame
<1>11. ASSUME NEW c \in Clients, Edit(c)
       PROVE  LiveInv'
    <2>1. /\ req[c].pc = "idle" /\ Others(c) /\ req'[c].pc = "idle"
          /\ UNCHANGED <<id, byTodoID, replied, now>>
        BY <1>11, EditStep DEF store, Others
    <2>. QED
        BY <2>1, LiveSame
<1>12. ASSUME Extends, UNCHANGED <<id, req, replied>>
       PROVE  LiveInv'
    <2>1. ASSUME NEW c \in Clients
          PROVE  LiveInv'
        <3>1. replied[c] \in Nat /\ now \in Nat /\ now' \in Nat /\ now <= now' /\ LiveFor(c)
            BY <1>12, TypeParts DEF ClockType, Extends, LiveInv
        <3>2. replied[c] <= now /\ replied'[c] <= now'
            BY <1>12, <3>1 DEF LiveFor
        <3>3. \A t : Lives(c, t) => (now' <= replied[c] + TTL =>
                         \E e \in byTodoID' : e.todo = t /\ e.expires >= replied[c] + TTL)
            BY <1>12, <3>2, LivesOn
        <3>4. LiveFor(c)'
            BY <1>12, <3>1, <3>2, <3>3 DEF LiveFor, Lives
        <3>5. Others(c)
            BY <1>12 DEF Others
        <3>. QED
            BY <1>12, <3>4, <3>5, LiveFrame
    <2>2. CASE Clients = {}
        BY <2>2 DEF LiveInv
    <2>. QED
        BY <2>1, <2>2
<1>13. CASE cleanup
    <2>1. /\ byTodoID' = {e \in byTodoID : now <= e.expires}
          /\ UNCHANGED <<id, req, replied, now>>
        BY <1>13, CleanupStep
    <2>2. now \in Nat /\ \A e \in byTodoID : e.expires \in Nat
        BY TypeParts DEF StoreType, ClockType
    <2>3. Extends
        BY <2>1, <2>2 DEF Extends
    <2>. QED
        BY <1>12, <2>1, <2>3
<1>14. CASE Tick
    <2>1. now \in Nat /\ \A e \in byTodoID : e.expires \in Nat
        BY TypeParts DEF StoreType, ClockType
    <2>2. Extends /\ UNCHANGED <<id, req, replied>>
        BY <1>14, <2>1 DEF Tick, store, Extends
    <2>. QED
        BY <1>12, <2>2
<1>15. CASE UNCHANGED vars
    BY <1>12, <1>15, StoreUnchanged DEF vars, store
<1>. QED
    BY <1>2, <1>3, <1>4, <1>5, <1>6, <1>7, <1>8, <1>9, <1>10, <1>11, <1>13, <1>14, <1>15
       DEF Next, Chat, Serve

(***************************************************************************)
(* What todos hold that one client alone has talked to.                    *)
(***************************************************************************)
\* The todos that a step of client c leaves as they are, keys included.
Untouched(t) == /\ t \in Todos /\ users'[t] = users[t]
                /\ transcript'[t] = transcript[t] /\ opened'[t] = opened[t]
                /\ \A e \in byHistory' : e.todo = t => e \in byHistory

\* Who holds a list holds as many messages, and one more when one is written.
LEMMA HoldsLength ==
    ASSUME Types, NEW t \in Todos, NEW ms \in Seq(Message), Holds(t, ms)
    PROVE  /\ Len(transcript[t]) = Len(ms) /\ opened[t] \in Nat /\ opened[t] <= Len(ms)
BY OpenedType, AllToldSeq DEF Holds

LEMMA HoldsOneMore ==
    ASSUME Types, NEW t \in Todos, NEW ms \in Seq(Message), NEW m \in Message, Holds(t, ms),
           Wrote(t, m), opened'[t] = opened[t]
    PROVE  /\ transcript'[t] = AllTold(Append(ms, m), opened'[t])
           /\ Len(transcript'[t]) = Len(transcript[t]) + 1
<1>1. transcript[t] \in Seq(Message)
    BY Requests DEF Types
<1>2. transcript'[t] = Append(transcript[t], m)
    BY DEF Wrote
<1>3. Len(transcript'[t]) = Len(transcript[t]) + 1
    BY <1>1, <1>2, AppendProperties
<1>4. AllTold(Append(ms, m), opened[t]) = Append(AllTold(ms, opened[t]), m)
    BY HoldsLength, AllToldAppend
<1>. QED
    BY <1>2, <1>3, <1>4 DEF Holds

LEMMA AloneStays ==
    ASSUME NEW c \in Clients, NEW t \in Todos, Alone(c, t),
           hist'[c] = hist[c], id'[c] = id[c], transcript'[t] = transcript[t],
           opened'[t] = opened[t],
           \A e \in byHistory' : e.todo = t => e \in byHistory,
           Under(c, t)' <=> Under(c, t),
           Under(c, t) => /\ req'[c].pc = "wait" <=> req[c].pc = "wait"
                          /\ req'[c].full = req[c].full /\ req'[c].reply = req[c].reply,
           req'[c].pc \in {"enrich", "send"} /\ req'[c].resuming /\ req'[c].todo = t =>
               Holds(t, hist[c])
    PROVE  Alone(c, t)'
<1>1. /\ Under(c, t)' => transcript'[t] = AllTold(IF req'[c].pc = "wait" THEN req'[c].full
                                                  ELSE Append(req'[c].full, req'[c].reply),
                                                  opened'[t])
      /\ ~Under(c, t)' => Len(transcript'[t]) <= Len(hist'[c])
      /\ ~Under(c, t)' /\ id'[c] = t => transcript'[t] = AllTold(hist'[c], opened'[t])
    BY DEF Alone, Holds
<1>2. \A e \in byHistory' : e.todo = t =>
         /\ Len(e.key) <= Len(transcript'[t])
         /\ Len(e.key) = Len(transcript'[t]) => transcript'[t] = AllTold(Unnamed(e.key), opened'[t])
    BY DEF Alone, Holds
<1>. QED
    BY <1>1, <1>2 DEF Alone, Holds

\* A step of one client.
LEMMA CompleteFrame ==
    ASSUME Types, CompleteInv, NEW c \in Clients, Others(c), Met(c)',
           \A d \in Clients \ {c} : hist'[d] = hist[d] /\ id'[d] = id[d],
           \A t \in Todos : t \in Todos' /\ users[t] \subseteq users'[t],
           \A t \in Todos' : c \in users'[t] \/ Untouched(t),
           Unbroken' => Unbroken /\ \A t \in Todos' : users'[t] = {c} => Alone(c, t)'
    PROVE  CompleteInv'
<1>1. ASSUME NEW d \in Clients
      PROVE  Met(d)'
    <2>1. CASE d = c
        BY <2>1
    <2>2. CASE d # c
        <3>1. req'[d] = req[d] /\ id'[d] = id[d] /\ Met(d) /\ id[d] \in {0} \cup Todos
            BY <2>2, TypeParts DEF Others, CompleteInv
        <3>2. req[d].pc \in Posted => req[d].todo \in Todos
            BY DEF Types, Aimed
        <3>. QED
            BY <3>1, <3>2 DEF Met
    <2>. QED
        BY <2>1, <2>2
<1>2. \A t \in Todos' : users'[t] # {}
    BY DEF CompleteInv, Untouched
<1>3. ASSUME Unbroken', NEW d \in Clients, NEW t \in Todos', users'[t] = {d}, d # c
      PROVE  Alone(d, t)'
    <2>1. Untouched(t) /\ req'[d] = req[d] /\ hist'[d] = hist[d] /\ id'[d] = id[d]
        BY <1>3 DEF Others
    <2>2. t \in Todos /\ users[t] = {d} /\ Alone(d, t)
        BY <1>3, <2>1 DEF Untouched, CompleteInv
    <2>3. Under(d, t)' <=> Under(d, t)
        BY <2>1 DEF Under
    <2>4. req'[d].pc \in {"enrich", "send"} /\ req'[d].resuming /\ req'[d].todo = t =>
             Holds(t, hist[d])
        BY <2>1, <2>2 DEF Alone
    <2>. QED
        BY <2>1, <2>2, <2>3, <2>4, AloneStays DEF Untouched
<1>4. Unbroken' => \A d \in Clients, t \in Todos' : users'[t] = {d} => Alone(d, t)'
    BY <1>3
<1>. QED
    BY <1>1, <1>2, <1>4 DEF CompleteInv

\* A step of a request that changes neither the todos nor their keys.
LEMMA CompleteSame ==
    ASSUME Types, CompleteInv, NEW c \in Clients, Others(c),
           UNCHANGED <<id, transcript, opened, users, byHistory>>,
           \A d \in Clients \ {c} : hist'[d] = hist[d], Met(c)',
           Unbroken' => Unbroken /\ \A t \in Todos : users[t] = {c} => Alone(c, t)'
    PROVE  CompleteInv'
<1>1. Todos' = Todos
    BY DEF Todos
<1>. QED
    BY <1>1, CompleteFrame DEF Untouched

LEMMA CompleteKept ==
    ASSUME Types, ClientInv, HeardInv, CompleteInv, [Next]_vars
    PROVE  CompleteInv'
<1>1. /\ hist \in [Clients -> Seq(Message)] /\ id \in [Clients -> {0} \cup Todos]
      /\ req \in [Clients -> Req] /\ byHistory \subseteq [key: Seq(Message), todo: Todos, expires: Nat]
      /\ \A t \in Todos : transcript[t] \in Seq(Message)
    BY TypeParts, Requests DEF StoreType
<1>2. NoRequest.pc = "idle"
    BY NoRequestType
<1>3. \A c \in Clients : Met(c)
    BY DEF CompleteInv
<1>4. ASSUME Unbroken, NEW c \in Clients, NEW t \in Todos, users[t] = {c}
      PROVE  Alone(c, t)
    BY <1>4 DEF CompleteInv
\* A request that has reached no todo, before and after.
<1>5. ASSUME NEW c \in Clients, Others(c), UNCHANGED <<hist, id, transcript, opened, users, byHistory>>,
             Unbroken' => Unbroken, req[c].pc \notin Posted, req'[c].pc \notin Posted,
             \A t \in Todos : users[t] = {c} /\ Alone(c, t) /\ req'[c].todo = t
                              /\ req'[c].pc \in {"enrich", "send"} /\ req'[c].resuming =>
                                  Holds(t, hist[c])
      PROVE  CompleteInv'
    <2>1. Met(c)'
        BY <1>3, <1>5 DEF Met
    <2>2. ASSUME Unbroken', NEW t \in Todos, users[t] = {c}
          PROVE  Alone(c, t)'
        <3>1. Alone(c, t) /\ ~Under(c, t) /\ ~Under(c, t)'
            BY <1>4, <1>5, <2>2 DEF Under
        <3>. QED
            BY <1>5, <2>2, <3>1, AloneStays
    <2>. QED
        BY <1>5, <2>1, <2>2, CompleteSame
<1>6. ASSUME NEW c \in Clients, NEW w \in Words, NEW whole \in BOOLEAN,
             AskWhole(c, w) \/ AskWithID(c, w, whole)
      PROVE  CompleteInv'
    <2>1. /\ req[c].pc = "idle" /\ Others(c) /\ req'[c].pc = "lookup"
          /\ spent'.edits = spent.edits /\ spent'.failures = spent.failures
          /\ UNCHANGED <<hist, id, transcript, opened, users, byHistory>>
        BY <1>6, AskStep DEF store, Asks
    <2>2. Unbroken' => Unbroken
        BY <2>1 DEF Unbroken
    <2>. QED
        BY <1>5, <2>1, <2>2 DEF Posted, Answered
<1>7. ASSUME NEW c \in Clients, Lookup(c)
      PROVE  CompleteInv'
    <2>. DEFINE r == req[c]
    <2>1. /\ r.pc = "lookup" /\ Others(c) /\ UNCHANGED <<hist, id, transcript, opened, users, byHistory, spent>>
          /\ \/ req'[c] = NoRequest
             \/ AsAimed(c) /\ req'[c].pc = "send"
             \/ /\ req'[c].pc = "enrich" /\ req'[c].todo \in Todos
                /\ \/ req'[c].todo = r.id
                   \/ \E e \in byHistory : /\ e.todo = req'[c].todo
                                           /\ e.key = conversationKey(r.msgs)
        BY <1>7, LookupStep DEF store
    <2>2. ~r.resuming /\ Unbroken' = Unbroken /\ req'[c].pc \notin Posted
        BY <1>2, <2>1 DEF Types, Aimed, Unbroken, Posted, Answered
    <2>3. ASSUME NEW t \in Todos, users[t] = {c}, Alone(c, t), req'[c].todo = t,
                 req'[c].pc \in {"enrich", "send"}, req'[c].resuming
          PROVE  Holds(t, hist[c])
        <3>1. ~Under(c, t)
            BY <2>1 DEF Under, Posted, Answered
        <3>2. req'[c].pc = "enrich"
            BY <1>2, <2>1, <2>2, <2>3 DEF AsAimed
        <3>3. CASE t = r.id
            <4>1. r.id # 0
                BY <3>3, Requests DEF Types
            <4>2. id[c] = t
                BY <2>1, <3>3, <4>1 DEF ClientInv, Client
            <4>. QED
                BY <2>3, <3>1, <4>2 DEF Alone
        <3>4. ASSUME NEW e \in byHistory, e.todo = t, e.key = conversationKey(r.msgs)
              PROVE  Holds(t, hist[c])
            <4>1. e.key # <<>> /\ e.key \in Seq(Message)
                BY <1>1 DEF HeardInv, KeysHeard
            <4>2. Unnamed(e.key) = hist[c] /\ Len(e.key) = Len(hist[c])
                BY <2>1, <3>4, <4>1, Asked, RequestParts
            <4>3. /\ Len(e.key) \in Nat /\ Len(hist[c]) \in Nat /\ Len(transcript[t]) \in Nat
                BY <1>1, <4>1, LenProperties
            <4>4. Len(transcript[t]) <= Len(hist[c]) /\ Len(e.key) <= Len(transcript[t])
                BY <2>3, <3>1, <3>4 DEF Alone
            <4>5. Len(e.key) = Len(transcript[t])
                BY <4>2, <4>3, <4>4
            <4>. QED
                BY <2>3, <3>4, <4>2, <4>5 DEF Alone
        <3>. QED
            BY <1>2, <2>1, <2>3, <3>2, <3>3, <3>4
    <2>. QED
        BY <1>5, <2>1, <2>2, <2>3 DEF Posted, Answered
<1>8. ASSUME NEW c \in Clients, enrichToolResultNames(c)
      PROVE  CompleteInv'
    <2>1. /\ req[c].pc = "enrich" /\ Others(c) /\ AsAimed(c) /\ req'[c].pc = "send"
          /\ UNCHANGED <<hist, id, transcript, opened, users, byHistory, spent>>
        BY <1>8, EnrichStep DEF store
    <2>2. Unbroken' => Unbroken
        BY <2>1 DEF Unbroken
    <2>3. \A t \in Todos : Alone(c, t) /\ req'[c].todo = t /\ req'[c].resuming =>
                              Holds(t, hist[c])
        BY <2>1 DEF AsAimed, Alone
    <2>. QED
        BY <1>5, <2>1, <2>2, <2>3 DEF Posted, Answered
<1>9. ASSUME NEW c \in Clients, Fail(c)
       PROVE  CompleteInv'
    <2>1. /\ Others(c) /\ req'[c] = NoRequest /\ spent'.failures # 0
          /\ UNCHANGED <<hist, id, transcript, opened, users, byHistory>>
        BY <1>9, FailStep DEF store
    <2>2. Met(c)' /\ ~Unbroken'
        BY <1>2, <1>3, <2>1 DEF Met, Posted, Answered, Unbroken
    <2>. QED
        BY <2>1, <2>2, CompleteSame
<1>10. ASSUME NEW c \in Clients, Edit(c)
       PROVE  CompleteInv'
    <2>1. /\ spent'.edits # 0 /\ \A d \in Clients \ {c} : hist'[d] = hist[d]
          /\ UNCHANGED <<id, req, transcript, opened, users, byHistory>>
        BY <1>10, EditStep DEF store
    <2>2. Met(c)' /\ ~Unbroken' /\ Others(c)
        BY <1>3, <2>1 DEF Met, Unbroken, Others
    <2>. QED
        BY <2>1, <2>2, CompleteSame
<1>11. ASSUME NEW c \in Clients, Send(c), req[c].resuming
       PROVE  CompleteInv'
    <2>. DEFINE r == req[c]
                u == r.todo
    <2>1. /\ r.pc = "send" /\ Others(c) /\ AsAsked(c) /\ AsAimed(c) /\ req'[c].pc = "wait"
          /\ u \in Todos /\ \A m \in Message : Carries(c, m) => Wrote(u, m)
          /\ Todos' = Todos /\ users'[u] = users[u] \cup {c}
          /\ \A t \in Todos \ {u} : users'[t] = users[t]
          /\ UNCHANGED <<hist, id, opened, byHistory, spent>>
        BY <1>11, ResumeStep DEF store
    <2>2. PICK m \in Message : Carries(c, m)
        BY <2>1, Asked
    <2>3. Wrote(u, m) /\ r.full = Append(hist[c], m)
        BY <2>1, <2>2 DEF Carries
    <2>4. req'[c].todo = u /\ req'[c].full = r.full
        BY <2>1 DEF AsAsked, AsAimed
    <2>. HIDE DEF u
    <2>5. Met(c)'
        BY <1>1, <1>3, <2>1, <2>4 DEF Met
    <2>6. ASSUME Unbroken', NEW t \in Todos, users'[t] = {c}
          PROVE  Alone(c, t)'
        <3>1. Unbroken /\ (t # u => users[t] = {c})
            BY <2>1, <2>6 DEF Unbroken
        <3>2. CASE t = u
            <4>1. users[u] = {c}
                BY <2>1, <2>6, <3>2 DEF CompleteInv
            <4>2. Alone(c, u)
                BY <1>4, <2>1, <3>1, <4>1
            <4>3. Holds(u, hist[c])
                BY <1>11, <2>1, <4>2 DEF Alone, u
            <4>4. /\ transcript'[u] = AllTold(r.full, opened'[u])
                  /\ Len(transcript'[u]) = Len(transcript[u]) + 1
                BY <1>1, <2>1, <2>2, <2>3, <4>3, HoldsOneMore
            <4>5. \A e \in byHistory' : e.todo = u => Len(e.key) <= Len(transcript[u])
                BY <2>1, <4>2 DEF Alone
            <4>6. Len(transcript[u]) \in Nat /\ \A e \in byHistory' : Len(e.key) \in Nat
                BY <1>1, <2>1, LenProperties
            <4>7. \A e \in byHistory' : e.todo = u => /\ Len(e.key) <= Len(transcript'[u])
                                                      /\ Len(e.key) # Len(transcript'[u])
                BY <4>4, <4>5, <4>6
            <4>8. Under(c, t)'
                BY <2>1, <2>4, <3>2 DEF Under, Posted
            <4>. QED
                BY <2>1, <2>4, <3>2, <4>4, <4>7, <4>8 DEF Alone, Holds
        <3>3. CASE t # u
            <4>1. Alone(c, t) /\ ~Under(c, t) /\ ~Under(c, t)' /\ transcript'[t] = transcript[t]
                BY <1>4, <2>1, <2>3, <2>4, <3>1, <3>3 DEF Under, Posted, Answered, Wrote
            <4>. QED
                BY <2>1, <4>1, AloneStays
        <3>. QED
            BY <3>2, <3>3
    <2>7. \A t \in Todos' : c \in users'[t] \/ Untouched(t)
        BY <2>1, <2>3 DEF Untouched, Wrote
    <2>8. Unbroken' => Unbroken
        BY <2>1 DEF Unbroken
    <2>9. \A t \in Todos : users[t] \subseteq users'[t]
        BY <2>1
    <2>. QED
        BY <2>1, <2>5, <2>6, <2>7, <2>8, <2>9, CompleteFrame
<1>12. ASSUME NEW c \in Clients, Send(c), ~req[c].resuming
       PROVE  CompleteInv'
    <2>. DEFINE r == req[c]
                u == Len(transcript) + 1
    <2>1. /\ r.pc = "send" /\ Others(c) /\ AsAsked(c) /\ req'[c].pc = "wait" /\ req'[c].todo = u
          /\ u \notin Todos /\ Todos' = Todos \cup {u} /\ transcript'[u] = FlattenTurn(Unnamed(r.msgs))
          /\ opened'[u] = Len(Unnamed(r.msgs))
          /\ \A s \in Todos : /\ transcript'[s] = transcript[s] /\ users'[s] = users[s]
                             /\ opened'[s] = opened[s]
          /\ users'[u] = {c} /\ UNCHANGED <<hist, id, byHistory, spent>>
        BY <1>12, BeginStep DEF store
    <2>2. transcript'[u] = AllTold(r.full, opened'[u])
        <3>1. r.id = 0 /\ r.full \in Seq(Message) /\ \E m \in Message : Carries(c, m)
            BY <1>12, <2>1, Asked DEF Client
        <3>2. Unnamed(r.msgs) = r.full
            BY <3>1 DEF Carries
        <3>. QED
            BY <2>1, <3>1, <3>2, AllRendered
    <2>3. req'[c].full = r.full
        BY <2>1 DEF AsAsked
    <2>. HIDE DEF u, r
    <2>4. Met(c)'
        BY <1>1, <1>3, <2>1 DEF Met
    <2>5. ASSUME Unbroken', NEW t \in Todos', users'[t] = {c}
          PROVE  Alone(c, t)'
        <3>1. CASE t = u
            <4>1. \A e \in byHistory' : e.todo # u
                BY <1>1, <2>1
            <4>2. Under(c, t)'
                BY <2>1, <3>1 DEF Under, Posted
            <4>. QED
                BY <2>1, <2>2, <2>3, <3>1, <4>1, <4>2 DEF Alone, Holds
        <3>2. CASE t # u
            <4>1. Unbroken /\ t \in Todos /\ users[t] = {c}
                BY <2>1, <2>5, <3>2 DEF Unbroken
            <4>2. Alone(c, t) /\ ~Under(c, t) /\ ~Under(c, t)' /\ transcript'[t] = transcript[t]
                BY <1>4, <2>1, <3>2, <4>1 DEF Under, Posted, Answered, r
            <4>. QED
                BY <2>1, <4>1, <4>2, AloneStays
        <3>. QED
            BY <3>1, <3>2
    <2>6. \A t \in Todos' : c \in users'[t] \/ Untouched(t)
        BY <2>1 DEF Untouched
    <2>7. Unbroken' => Unbroken
        BY <2>1 DEF Unbroken
    <2>. QED
        BY <2>1, <2>4, <2>5, <2>6, <2>7, CompleteFrame
<1>13. ASSUME NEW c \in Clients, NEW call \in Calls \cup {"none"}, Reply(c, call)
       PROVE  CompleteInv'
    <2>. DEFINE r == req[c]
                u == r.todo
                m == req'[c].reply
    <2>1. /\ r.pc = "wait" /\ Others(c) /\ AsAsked(c) /\ AsAimed(c) /\ req'[c].pc = "put"
          /\ m \in Message /\ u \in Todos /\ Wrote(u, m) /\ Todos' = Todos
          /\ UNCHANGED <<hist, id, opened, users, byHistory, spent>>
        BY <1>13, ReplyStep DEF store
    <2>2. req'[c].todo = u /\ req'[c].full = r.full /\ c \in users[u]
        BY <1>3, <2>1 DEF AsAsked, AsAimed, Met, Posted
    <2>3. Met(c)'
        BY <1>3, <2>1, <2>2 DEF Met
    <2>. HIDE DEF u
    <2>4. ASSUME Unbroken', NEW t \in Todos, users[t] = {c}
          PROVE  Alone(c, t)'
        <3>1. Unbroken /\ Alone(c, t)
            BY <1>4, <2>1, <2>4 DEF Unbroken
        <3>2. CASE t = u
            <4>1. Under(c, t) /\ Under(c, t)'
                BY <2>1, <2>2, <3>2 DEF Under, Posted, Answered, u
            <4>2. Holds(u, r.full) /\ r.full \in Seq(Message)
                BY <1>1, <2>1, <3>1, <3>2, <4>1 DEF Alone, Req
            <4>3. /\ transcript'[u] = AllTold(Append(r.full, m), opened'[u])
                  /\ Len(transcript'[u]) = Len(transcript[u]) + 1
                BY <2>1, <4>2, HoldsOneMore
            <4>4. \A e \in byHistory' : e.todo = u => Len(e.key) <= Len(transcript[u])
                BY <2>1, <3>1, <3>2 DEF Alone
            <4>5. Len(transcript[u]) \in Nat /\ \A e \in byHistory' : Len(e.key) \in Nat
                BY <1>1, <2>1, LenProperties
            <4>6. \A e \in byHistory' : e.todo = u => /\ Len(e.key) <= Len(transcript'[u])
                                                      /\ Len(e.key) # Len(transcript'[u])
                BY <4>3, <4>4, <4>5
            <4>. QED
                BY <2>1, <2>2, <3>2, <4>1, <4>3, <4>6 DEF Alone, Holds
        <3>3. CASE t # u
            <4>1. ~Under(c, t) /\ ~Under(c, t)' /\ transcript'[t] = transcript[t]
                BY <2>1, <2>2, <3>3 DEF Under, Wrote, u
            <4>. QED
                BY <2>1, <3>1, <4>1, AloneStays
        <3>. QED
            BY <3>2, <3>3
    <2>5. \A t \in Todos' : c \in users'[t] \/ Untouched(t)
        BY <2>1, <2>2 DEF Untouched, Wrote
    <2>6. Unbroken' => Unbroken
        BY <2>1 DEF Unbroken
    <2>. QED
        BY <2>1, <2>3, <2>4, <2>5, <2>6, CompleteFrame
<1>14. ASSUME NEW c \in Clients, Remember(c)
       PROVE  CompleteInv'
    <2>. DEFINE r == req[c]
                u == r.todo
                k == Append(r.msgs, r.reply)
                us == Unnamed(r.msgs)
                all == Append(r.full, r.reply)
    <2>1. /\ r.pc = "put" /\ Others(c) /\ AsAsked(c) /\ AsAimed(c) /\ req'[c].reply = r.reply
          /\ req'[c].pc \in {"names", "deliver"} /\ u \in Todos
          /\ byHistory' = {e \in byHistory : e.key # k} \cup {Keyed(k, u)}
          /\ UNCHANGED <<hist, id, transcript, opened, users, spent>>
        BY <1>14, RememberStep
    <2>2. /\ hist[c] \in Seq(Message) /\ r.full \in Seq(Message) /\ r.msgs \in Seq(Message)
          /\ r.reply \in Message /\ ~r.reply.named
          /\ \E m \in Message : Carries(c, m)
        BY <2>1, Asked DEF Client, Answered
    <2>3. PICK m \in Message : Carries(c, m)
        BY <2>2
    <2>4. r.full = Append(hist[c], m) /\ (us = r.full \/ us = <<m>>)
        BY <2>3 DEF Carries
    <2>5. Unnamed(k) = Append(us, r.reply) /\ Len(us) = Len(r.msgs) /\ us \in Seq(Message)
        BY <2>2, UnnamedAppend, UnnamedSeq
    <2>6. Keyed(k, u).key = k /\ Keyed(k, u).todo = u /\ Todos' = Todos
        BY <2>1 DEF Keyed, Todos
    <2>7. req'[c].todo = u /\ req'[c].full = r.full /\ c \in users[u]
        BY <1>3, <2>1 DEF AsAsked, AsAimed, Met, Posted, Answered
    <2>8. Met(c)'
        BY <1>3, <2>1, <2>7 DEF Met
    <2>9. /\ Len(r.full) = Len(hist[c]) + 1 /\ Len(all) = Len(r.full) + 1
          /\ Len(k) = Len(us) + 1 /\ Len(hist[c]) \in Nat
        BY <2>2, <2>3, <2>4, <2>5, AppendProperties, LenProperties
    <2>10. Len(k) <= Len(all) /\ (Len(k) = Len(all) => Unnamed(k) = all)
        <3>1. CASE us = r.full
            BY <2>5, <2>9, <3>1
        <3>2. CASE us = <<m>>
            <4>1. Len(us) = 1
                BY <3>2
            <4>2. Len(hist[c]) = 0 => r.full = <<m>>
                <5>1. Len(hist[c]) = 0 => hist[c] = <<>>
                    BY <2>2, EmptySeq
                <5>2. Append(<<>>, m) = <<m>>
                    OBVIOUS
                <5>. HIDE DEF r, us
                <5>. QED
                    BY <2>4, <5>1, <5>2
            <4>. HIDE DEF us, k, all, r
            <4>3. Len(k) <= Len(all) /\ (Len(k) = Len(all) => Len(hist[c]) = 0)
                BY <2>9, <4>1
            <4>. QED
                BY <2>5, <3>2, <4>2, <4>3 DEF all
        <3>. QED
            BY <2>4, <3>1, <3>2
    <2>. HIDE DEF u, k, us, all
    <2>11. ASSUME Unbroken', NEW t \in Todos, users[t] = {c}
           PROVE  Alone(c, t)'
        <3>1. Unbroken /\ Alone(c, t)
            BY <1>4, <2>1, <2>11 DEF Unbroken
        <3>2. CASE t = u
            <4>1. Under(c, t) /\ Under(c, t)'
                BY <2>1, <2>7, <3>2 DEF Under, Posted, Answered, u
            <4>2. Holds(t, all)
                BY <2>1, <3>1, <4>1 DEF Alone, all
            <4>3. Len(transcript[t]) = Len(all)
                BY <2>2, <2>11, <4>2, HoldsLength, AppendProperties DEF all
            <4>4. \A e \in byHistory : e.todo = t =>
                     /\ Len(e.key) <= Len(transcript[t])
                     /\ Len(e.key) = Len(transcript[t]) => Holds(t, Unnamed(e.key))
                BY <3>1 DEF Alone
            <4>5. \A e \in byHistory' : e.todo = t =>
                     /\ Len(e.key) <= Len(transcript[t])
                     /\ Len(e.key) = Len(transcript[t]) => Holds(t, Unnamed(e.key))
                BY <2>1, <2>6, <2>10, <4>2, <4>3, <4>4
            <4>. QED
                BY <2>1, <2>7, <4>1, <4>2, <4>5 DEF Alone, Holds, all
        <3>3. CASE t # u
            <4>1. ~Under(c, t) /\ ~Under(c, t)'
                BY <2>7, <3>3 DEF Under, u
            <4>2. \A e \in byHistory' : e.todo = t => e \in byHistory
                BY <2>1, <2>6, <3>3
            <4>. QED
                BY <2>1, <3>1, <4>1, <4>2, AloneStays
        <3>. QED
            BY <3>2, <3>3
    <2>12. \A t \in Todos' : c \in users'[t] \/ Untouched(t)
        BY <2>1, <2>6, <2>7 DEF Untouched
    <2>13. Unbroken' => Unbroken
        BY <2>1 DEF Unbroken
    <2>. QED
        BY <2>1, <2>6, <2>8, <2>11, <2>12, <2>13, CompleteFrame
<1>15. ASSUME NEW c \in Clients, RememberNames(c)
       PROVE  CompleteInv'
    <2>1. /\ req[c].pc = "names" /\ Others(c) /\ AsAsked(c) /\ AsAimed(c)
          /\ req'[c].reply = req[c].reply /\ req'[c].pc = "deliver"
          /\ UNCHANGED <<hist, id, transcript, opened, users, byHistory, spent>>
        BY <1>15, NamesStep
    <2>2. Met(c)' /\ (Unbroken' => Unbroken)
        BY <1>3, <2>1 DEF Met, AsAimed, Posted, Answered, Unbroken
    <2>3. ASSUME Unbroken', NEW t \in Todos, users[t] = {c}
          PROVE  Alone(c, t)'
        <3>1. Alone(c, t) /\ (Under(c, t)' <=> Under(c, t))
            BY <1>4, <2>1, <2>2, <2>3 DEF Under, AsAimed, Posted, Answered
        <3>. QED
            BY <2>1, <3>1, AloneStays DEF AsAsked
    <2>. QED
        BY <2>1, <2>2, <2>3, CompleteSame
<1>16. ASSUME NEW c \in Clients, Deliver(c)
       PROVE  CompleteInv'
    <2>. DEFINE r == req[c]
                u == r.todo
    <2>1. /\ r.pc = "deliver" /\ Others(c) /\ req'[c] = NoRequest
          /\ u \in Todos /\ hist'[c] = Append(r.full, r.reply) /\ id'[c] = u
          /\ \A d \in Clients \ {c} : hist'[d] = hist[d] /\ id'[d] = id[d]
          /\ UNCHANGED <<transcript, opened, users, byHistory, spent>>
        BY <1>16, DeliverStep DEF store
    <2>2. /\ hist[c] \in Seq(Message) /\ r.full \in Seq(Message) /\ r.reply \in Message
          /\ \E m \in Message : Carries(c, m)
        BY <2>1, Asked
    <2>3. PICK m \in Message : Carries(c, m)
        BY <2>2
    <2>4. r.full = Append(hist[c], m)
        BY <2>3 DEF Carries
    <2>5. Len(hist'[c]) = Len(hist[c]) + 2 /\ Len(hist[c]) \in Nat
        BY <2>1, <2>2, <2>3, <2>4, AppendProperties, LenProperties
    <2>6. c \in users[u] /\ Todos' = Todos
        BY <1>3, <2>1 DEF Met, Posted, Answered, Todos
    <2>7. Met(c)'
        BY <1>2, <2>1, <2>6 DEF Met, Posted, Answered
    <2>. HIDE DEF u
    <2>8. ASSUME Unbroken', NEW t \in Todos, users[t] = {c}
          PROVE  Alone(c, t)'
        <3>1. Unbroken /\ Alone(c, t)
            BY <1>4, <2>1, <2>8 DEF Unbroken
        <3>2. req'[c].pc = "idle" /\ ~Under(c, t)'
            BY <1>2, <2>1 DEF Under, Posted, Answered
        <3>3. \A e \in byHistory' : e.todo = t =>
                 /\ Len(e.key) <= Len(transcript'[t])
                 /\ Len(e.key) = Len(transcript'[t]) => transcript'[t] = AllTold(Unnamed(e.key), opened'[t])
            BY <2>1, <3>1 DEF Alone, Holds
        <3>4. CASE t = u
            <4>1. Under(c, t)
                BY <2>1, <3>4 DEF Under, Posted, Answered, u
            <4>2. Holds(t, hist'[c])
                BY <2>1, <3>1, <4>1 DEF Alone
            <4>3. Len(transcript'[t]) = Len(hist'[c])
                <5>1. hist'[c] \in Seq(Message)
                    BY <2>1, <2>2, AppendProperties
                <5>. QED
                    BY <2>1, <2>8, <4>2, <5>1, HoldsLength
            <4>4. transcript'[t] = AllTold(hist'[c], opened'[t]) /\ Len(hist'[c]) \in Nat
                BY <2>1, <2>5, <4>2 DEF Holds
            <4>. QED
                BY <3>2, <3>3, <4>3, <4>4 DEF Alone, Holds
        <3>5. CASE t # u
            <4>1. ~Under(c, t)
                BY <3>5 DEF Under, u
            <4>2. Len(transcript'[t]) <= Len(hist[c]) /\ Len(transcript'[t]) \in Nat
                BY <1>1, <2>1, <3>1, <4>1, LenProperties DEF Alone
            <4>3. Len(transcript'[t]) <= Len(hist'[c])
                BY <2>5, <4>2
            <4>. QED
                BY <2>1, <3>2, <3>3, <3>5, <4>3 DEF Alone, Holds
        <3>. QED
            BY <3>4, <3>5
    <2>9. \A t \in Todos' : c \in users'[t] \/ Untouched(t)
        BY <2>1, <2>6 DEF Untouched
    <2>10. Unbroken' => Unbroken
        BY <2>1 DEF Unbroken
    <2>. QED
        BY <2>1, <2>6, <2>7, <2>8, <2>9, <2>10, CompleteFrame
\* Nobody's request moves.
<1>17. ASSUME UNCHANGED <<hist, id, req, transcript, opened, users, spent>>, byHistory' \subseteq byHistory
       PROVE  CompleteInv'
    <2>1. Todos' = Todos /\ (Unbroken' => Unbroken)
        BY <1>17 DEF Todos, Unbroken
    <2>2. \A c \in Clients : Met(c)'
        BY <1>3, <1>17 DEF Met
    <2>3. ASSUME Unbroken', NEW c \in Clients, NEW t \in Todos, users[t] = {c}
          PROVE  Alone(c, t)'
        <3>1. Alone(c, t) /\ (Under(c, t)' <=> Under(c, t))
            BY <1>4, <1>17, <2>1, <2>3 DEF Under
        <3>2. req'[c].pc \in {"enrich", "send"} /\ req'[c].resuming /\ req'[c].todo = t =>
                 Holds(t, hist[c])
            BY <1>17, <3>1 DEF Alone
        <3>. QED
            BY <1>17, <3>1, <3>2, AloneStays
    <2>4. \A t \in Todos' : users'[t] # {}
        BY <1>17, <2>1 DEF CompleteInv
    <2>5. Unbroken' => \A c \in Clients, t \in Todos' : users'[t] = {c} => Alone(c, t)'
        BY <1>17, <2>1, <2>3
    <2>. QED
        BY <2>2, <2>4, <2>5 DEF CompleteInv
<1>18. CASE cleanup
    BY <1>17, <1>18, CleanupStep
<1>19. CASE Tick \/ UNCHANGED vars
    BY <1>17, <1>19 DEF Tick, vars, store
<1>. QED
    BY <1>6, <1>7, <1>8, <1>9, <1>10, <1>11, <1>12, <1>13, <1>14, <1>15, <1>16, <1>18, <1>19
       DEF Next, Chat, Serve

(***************************************************************************)
(* The invariant.                                                          *)
(***************************************************************************)
LEMMA InitEstablishes ==
    ASSUME Init
    PROVE  ConversationInv
<1>1. /\ hist = [c \in Clients |-> <<>>] /\ id = [c \in Clients |-> 0]
      /\ req = [c \in Clients |-> NoRequest]
      /\ transcript = <<>> /\ opened = <<>> /\ users = <<>>
      /\ byHistory = {} /\ byTodoID = {} /\ toolNames = {}
      /\ replied = [c \in Clients |-> 0] /\ now = 0
      /\ spent = [requests |-> 0, partial |-> 0, edits |-> 0, failures |-> 0]
    BY DEF Init
<1>2. NoRequest \in Req /\ NoRequest.pc = "idle" /\ ~NoRequest.resuming
    BY NoRequestType
<1>3. Todos = {} /\ Lists
    BY <1>1 DEF Todos, Lists
<1>4. /\ hist \in [Clients -> Seq(Message)] /\ id \in [Clients -> {0} \cup Todos]
      /\ req \in [Clients -> Req] /\ replied \in [Clients -> Nat] /\ now \in Nat
      /\ transcript \in Seq(Seq(Message)) /\ opened \in Seq(Nat) /\ users \in Seq(SUBSET Clients)
      /\ spent \in Budget
    BY <1>1, <1>2, EmptySeq DEF Budget
<1>5. Types
    <2>1. ConversationTypeOK
        BY <1>1, <1>4 DEF ConversationTypeOK, Req, Stage, Budget
    <2>2. \A c \in Clients : Aimed(c)
        BY <1>1, <1>2 DEF Aimed, Posted, Answered
    <2>. QED
        BY <1>3, <2>1, <2>2 DEF Types
<1>6. ClientInv
    BY <1>1, <1>2 DEF ClientInv, Client, Bare, Answered
<1>7. HeardInv
    BY <1>1, <1>2 DEF HeardInv, KeysHeard, HeardBy, Answered
<1>8. CompleteInv
    BY <1>1, <1>2, <1>3 DEF CompleteInv, Met, Posted, Answered
<1>9. LiveInv
    BY <1>1, <1>2 DEF LiveInv, LiveFor
<1>. QED
    BY <1>5, <1>6, <1>7, <1>8, <1>9 DEF ConversationInv

LEMMA ConversationInvariant == Spec => []ConversationInv
<1>1. Init => ConversationInv
    BY InitEstablishes
<1>2. ConversationInv /\ [Next]_vars => ConversationInv'
    BY TypesKept, ClientKept, HeardKept, CompleteKept, LiveKept DEF ConversationInv
<1>. QED
    BY <1>1, <1>2, PTL DEF Spec

\* Whatever clients ask and whenever the store is cleaned up: the variables have
\* their types, and neither the store, nor a client, nor a request ever names a
\* todo that was not created.
THEOREM ConversationTypes == Spec => []ConversationTypeOK
<1>1. ConversationInv => ConversationTypeOK
    BY DEF ConversationInv, Types
<1>. QED
    BY <1>1, ConversationInvariant, PTL

\* sessionEntry only continues a todo that has heard the history of the request:
\* every message up to the last reply is in it, in order, for any number of
\* clients with any words, although they share todos, return todo ids, cut their
\* histories back and fail half-way, and sessions expire in between.  What a todo
\* was opened with is in it as FlattenTurn renders it: without the text of an
\* assistant message that calls tools.
THEOREM ContinuedTodosHaveHeard == Spec => []HistoryHeard
<1>1. ASSUME ConversationInv
      PROVE  HistoryHeard
    <2>1. SUFFICES ASSUME NEW c \in Clients, req[c].pc = "send", req[c].resuming
                   PROVE  Occur(Past(c), transcript[req[c].todo], opened[req[c].todo])
        BY DEF HistoryHeard, At
    <2>2. Types /\ ClientInv /\ HeardInv
        BY <1>1 DEF ConversationInv
    <2>3. Past(c) = <<>> \/ Past(c) = hist[c]
        <3>1. /\ hist[c] \in Seq(Message) /\ req[c].msgs \in Seq(Message) /\ Client(c)
              /\ \E m \in Message : Carries(c, m)
            BY <2>1, <2>2, Asked
        <3>. QED
            BY <3>1, RequestParts
    <2>4. Occur(hist[c], transcript[req[c].todo], opened[req[c].todo])
        BY <2>1, <2>2 DEF HeardInv, HeardBy, Heard
    <2>5. transcript[req[c].todo] \in Seq(Message) /\ opened[req[c].todo] \in Nat
        BY <2>1, <2>2, Requests, OpenedType DEF Types, Aimed
    <2>. QED
        BY <2>3, <2>4, <2>5, NothingOccurs
<1>. QED
    BY <1>1, ConversationInvariant, PTL

\* A todo that one client alone has talked to, without cutting its history back
\* and without a failure, holds what the client has said and heard, message by
\* message, when its message has been sent: Send neither repeats nor leaves out
\* one.  All of it is there word for word but the texts FlattenTurn drops from the
\* messages the todo was opened with.
THEOREM TodosHoldTheConversation == Spec => []TranscriptComplete
<1>1. ASSUME ConversationInv
      PROVE  TranscriptComplete
    <2>1. SUFFICES ASSUME Unbroken, NEW c \in Clients, req[c].pc = "wait",
                          users[req[c].todo] = {c}
                   PROVE  transcript[req[c].todo] = AllTold(Unnamed(req[c].full), opened[req[c].todo])
        BY DEF TranscriptComplete, Unbroken, At
    <2>2. Types /\ ClientInv /\ CompleteInv
        BY <1>1 DEF ConversationInv
    <2>3. req[c].todo \in Todos
        BY <2>1, <2>2 DEF Types, Aimed, Posted
    <2>4. Alone(c, req[c].todo) /\ Under(c, req[c].todo)
        BY <2>1, <2>2, <2>3 DEF CompleteInv, Under, Posted
    <2>5. transcript[req[c].todo] = AllTold(req[c].full, opened[req[c].todo])
        BY <2>1, <2>4 DEF Alone, Holds
    <2>6. req[c].full \in Seq(Message) /\ Bare(req[c].full)
        BY <2>1, <2>2, Asked
    <2>. QED
        BY <2>5, <2>6, UnnamedSeq
<1>. QED
    BY <1>1, ConversationInvariant, PTL

\* A client that got its last reply no longer than a session's life ago finds
\* the todo of that reply by its id, whatever cleanup took away meanwhile.
THEOREM SessionsStayAlive == Spec => []SessionsLive
<1>1. ConversationInv => SessionsLive
    BY DEF ConversationInv, LiveInv, LiveFor, Lives, SessionsLive, At
<1>. QED
    BY <1>1, ConversationInvariant, PTL
=============================================================================
