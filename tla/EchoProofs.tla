----------------------------- MODULE EchoProofs -----------------------------
(***************************************************************************)
(* Proofs about the text protocol for tools and the lookup of histories:   *)
(* the filter of streamed text and the parser of whole replies agree, for  *)
(* every reply and every way to cut it into fragments; and a client that   *)
(* sends back what it was given is recognised, for every kind of client    *)
(* and however long its conversation.                                      *)
(***************************************************************************)
EXTENDS EchoProperties, SequenceTheorems, FiniteSetTheorems, WellFoundedInduction, TLAPS

(***************************************************************************)
(* Numbers.                                                                *)
(***************************************************************************)
\* A set of numbers that is not empty has a least element.
LEMMA MinOfNats ==
    ASSUME NEW S, S \subseteq Nat, S # {}
    PROVE  Min(S) \in S /\ \A x \in S : Min(S) <= x
<1>1. PICK x \in S : \A y \in S : ~(<<y, x>> \in OpToRel(<, Nat))
    BY NatLessThanWellFounded, WFMin, Zenon
<1>2. \A y \in S : ~(y < x)
    BY <1>1, Zenon DEF OpToRel
<1>3. \A y \in S : x <= y
    BY <1>2
<1>. QED
    BY <1>3 DEF Min

\* Induction over a set of numbers.
LEMMA NatInSet ==
    ASSUME NEW S, 0 \in S, \A n \in Nat : n \in S => n + 1 \in S
    PROVE  Nat \subseteq S
<1>. DEFINE B == Nat \ S
<1>1. SUFFICES ASSUME B # {}
               PROVE  FALSE
    OBVIOUS
<1>2. PICK m \in B : \A x \in B : m <= x
    BY <1>1, MinOfNats
<1>3. m # 0 /\ m - 1 \in Nat
    BY <1>2
<1>4. m - 1 \in S
    BY <1>2, <1>3
<1>. QED
    BY <1>2, <1>3, <1>4

(***************************************************************************)
(* Where tags are.                                                         *)
(***************************************************************************)
Tags == {toolOpenTag, toolCloseTag}
Here(text, tag, i) == i \in 1..Len(text) - 1 /\ text[i] = tag[1] /\ text[i + 1] = tag[2]

LEMMA TagsAreTwo ==
    /\ \A tag \in Tags : tag \in Seq(Tokens) /\ Len(tag) = 2 /\ tag[1] = "<"
    /\ toolOpenTag[2] = "TOOL_CALL>" /\ toolCloseTag[2] = "/TOOL_CALL>"
BY DEF Tags, toolOpenTag, toolCloseTag, Tokens

LEMMA TagIsHere ==
    ASSUME NEW text \in Seq(Tokens), NEW tag \in Tags, NEW i \in Nat \ {0}, i + 1 <= Len(text)
    PROVE  SubSeq(text, i, i + Len(tag) - 1) = tag <=> Here(text, tag, i)
<1>1. Len(text) \in Nat /\ tag \in Seq(Tokens) /\ Len(tag) = 2
    BY TagsAreTwo, LenProperties
<1>. DEFINE part == SubSeq(text, i, i + 1)
<1>2. /\ part \in Seq(Tokens) /\ Len(part) = 2
      /\ part[1] = text[i] /\ part[2] = text[i + 1]
    <2>1. \A j \in i..i + 1 : text[j] \in Tokens
        BY <1>1, ElementOfSeq
    <2>2. /\ part \in Seq(Tokens) /\ Len(part) = IF i <= i + 1 THEN (i + 1) - i + 1 ELSE 0
          /\ \A j \in 1..(i + 1) - i + 1 : part[j] = text[i + j - 1]
        BY <2>1, SubSeqProperties
    <2>. HIDE DEF part
    <2>. QED
        BY <2>2
<1>3. i + Len(tag) - 1 = i + 1
    BY <1>1
<1>. HIDE DEF part
<1>4. part = tag <=> part[1] = tag[1] /\ part[2] = tag[2]
    <2>1. ASSUME part[1] = tag[1], part[2] = tag[2]
          PROVE  part = tag
        <3>1. \A j \in 1..2 : part[j] = tag[j]
            BY <2>1
        <3>. QED
            BY <1>1, <1>2, <3>1, SeqEqual
    <2>. QED
        BY <2>1
<1>5. i \in 1..Len(text) - 1
    BY <1>1
<1>. QED
    BY <1>2, <1>3, <1>4, <1>5 DEF part, Here

\* Index finds the first place.
LEMMA IndexFinds ==
    ASSUME NEW text \in Seq(Tokens), NEW tag \in Tags, NEW from \in Nat \ {0}
    PROVE  /\ Index(text, tag, from) \in Nat
           /\ Index(text, tag, from) # 0 =>
                /\ Index(text, tag, from) >= from /\ Here(text, tag, Index(text, tag, from))
                /\ \A i \in from..Index(text, tag, from) - 1 : ~Here(text, tag, i)
           /\ Index(text, tag, from) = 0 => \A i \in Nat : i >= from => ~Here(text, tag, i)
<1>. DEFINE at == {i \in from..Len(text) - Len(tag) + 1 : SubSeq(text, i, i + Len(tag) - 1) = tag}
            here == {i \in Nat : i >= from /\ Here(text, tag, i)}
<1>1. Len(text) \in Nat /\ Len(tag) = 2
    BY TagsAreTwo, LenProperties
<1>2. at = here
    <2>1. ASSUME NEW i \in Nat, i >= from
          PROVE  i \in at <=> i \in here
        <3>1. CASE i + 1 <= Len(text)
            <4>1. i \in from..Len(text) - Len(tag) + 1 /\ i \in Nat \ {0}
                BY <1>1, <2>1, <3>1
            <4>. QED
                BY <2>1, <3>1, <4>1, TagIsHere
        <3>2. CASE ~(i + 1 <= Len(text))
            <4>1. i \notin from..Len(text) - Len(tag) + 1 /\ i \notin 1..Len(text) - 1
                BY <1>1, <2>1, <3>2
            <4>. QED
                BY <4>1 DEF Here
        <3>. QED
            BY <3>1, <3>2
    <2>2. at \subseteq Nat /\ here \subseteq Nat /\ \A i \in at \cup here : i >= from
        BY <1>1
    <2>. HIDE DEF at, here
    <2>. QED
        BY <2>1, <2>2
<1>3. Index(text, tag, from) = IF here = {} THEN 0 ELSE Min(here)
    BY <1>2 DEF Index
<1>4. here # {} => Min(here) \in here /\ \A i \in here : Min(here) <= i
    <2>1. here \subseteq Nat
        OBVIOUS
    <2>. HIDE DEF here
    <2>. QED
        BY <2>1, MinOfNats
<1>5. CASE here = {}
    BY <1>3, <1>5
<1>6. CASE here # {}
    <2>. DEFINE m == Min(here)
    <2>1. m \in here /\ \A i \in here : m <= i
        BY <1>4, <1>6
    <2>2. Index(text, tag, from) = m
        BY <1>3, <1>6
    <2>. HIDE DEF m
    <2>. QED
        BY <2>1, <2>2
<1>. QED
    BY <1>5, <1>6

LEMMA IndexIs ==
    ASSUME NEW text \in Seq(Tokens), NEW tag \in Tags, NEW from \in Nat \ {0}, NEW k \in Nat,
           k >= from, Here(text, tag, k), \A i \in from..k - 1 : ~Here(text, tag, i)
    PROVE  Index(text, tag, from) = k
<1>. DEFINE n == Index(text, tag, from)
<1>1. /\ n \in Nat /\ (n # 0 => n >= from /\ Here(text, tag, n) /\ \A i \in from..n - 1 : ~Here(text, tag, i))
      /\ n = 0 => \A i \in Nat : i >= from => ~Here(text, tag, i)
    BY IndexFinds
<1>. HIDE DEF n
<1>2. n # 0
    BY <1>1
<1>3. ~(n < k) /\ ~(k < n)
    BY <1>1, <1>2
<1>4. n = k
    BY <1>1, <1>3
<1>. QED
    BY <1>4 DEF n

LEMMA IndexIsNot ==
    ASSUME NEW text \in Seq(Tokens), NEW tag \in Tags, NEW from \in Nat \ {0},
           \A i \in Nat : i >= from => ~Here(text, tag, i)
    PROVE  Index(text, tag, from) = 0
<1>1. /\ Index(text, tag, from) \in Nat
      /\ Index(text, tag, from) # 0 => /\ Index(text, tag, from) >= from
                                       /\ Here(text, tag, Index(text, tag, from))
    BY IndexFinds
<1>. QED
    BY <1>1

\* The tokens from a to b of a text are those of the text.
LEMMA PartOf ==
    ASSUME NEW text \in Seq(Tokens), NEW a \in Nat \ {0}, NEW b \in Nat, b <= Len(text), a <= b + 1
    PROVE  /\ SubSeq(text, a, b) \in Seq(Tokens) /\ Len(SubSeq(text, a, b)) = b - a + 1
           /\ \A i \in 1..b - a + 1 : SubSeq(text, a, b)[i] = text[a + i - 1]
<1>. DEFINE part == SubSeq(text, a, b)
<1>1. Len(text) \in Nat
    BY LenProperties
<1>2. \A i \in a..b : text[i] \in Tokens
    BY <1>1, ElementOfSeq
<1>3. /\ part \in Seq(Tokens) /\ Len(part) = IF a <= b THEN b - a + 1 ELSE 0
      /\ \A i \in 1..b - a + 1 : part[i] = text[a + i - 1]
    BY <1>2, SubSeqProperties
<1>. HIDE DEF part
<1>4. Len(part) = b - a + 1
    BY <1>3
<1>. QED
    BY <1>3, <1>4 DEF part

\* Where a tag is does not depend on what precedes or follows it.
LEMMA HereInPart ==
    ASSUME NEW text \in Seq(Tokens), NEW a \in Nat \ {0}, NEW b \in Nat, b <= Len(text), a <= b + 1
    PROVE  LET part == SubSeq(text, a, b) IN
           /\ part \in Seq(Tokens) /\ Len(part) = b - a + 1
           /\ \A i \in 1..b - a + 1 : part[i] = text[a + i - 1]
           /\ \A tag : \A i \in Nat : i >= 1 /\ i <= b - a => (Here(part, tag, i) <=> Here(text, tag, a + i - 1))
<1>. DEFINE part == SubSeq(text, a, b)
<1>1. Len(text) \in Nat
    BY LenProperties
<1>2. /\ part \in Seq(Tokens) /\ Len(part) = b - a + 1
      /\ \A i \in 1..b - a + 1 : part[i] = text[a + i - 1]
    BY PartOf
<1>. HIDE DEF part
<1>3. Len(part) = b - a + 1
    BY <1>2
<1>4. ASSUME NEW tag, NEW i \in Nat, i >= 1, i <= b - a
      PROVE  Here(part, tag, i) <=> Here(text, tag, a + i - 1)
    <2>1. i \in 1..Len(part) - 1 /\ a + i - 1 \in 1..Len(text) - 1
        BY <1>1, <1>3, <1>4
    <2>2. part[i] = text[a + i - 1] /\ part[i + 1] = text[(a + i - 1) + 1]
        <3>1. i \in 1..b - a + 1 /\ i + 1 \in 1..b - a + 1
            BY <1>4
        <3>2. part[i] = text[a + i - 1] /\ part[i + 1] = text[a + (i + 1) - 1]
            BY <1>2, <3>1
        <3>3. a + (i + 1) - 1 = (a + i - 1) + 1
            BY <1>4
        <3>. QED
            BY <3>2, <3>3
    <2>. QED
        BY <2>1, <2>2 DEF Here
<1>. QED
    BY <1>2, <1>3, <1>4 DEF part

(***************************************************************************)
(* The blocks of a text.                                                   *)
(***************************************************************************)
\* The closing tag of the next block from o on, 0 if there is none.
CloseOf(text, o) ==
    LET open == Index(text, toolOpenTag, o) IN
    IF open = 0 THEN 0 ELSE Index(text, toolCloseTag, open + 2)
BlockAt(text, open, close) == [start |-> open, raw |-> TrimSpace(SubSeq(text, open + 2, close - 1))]

BlocksAfter(f, text, o) ==
    IF CloseOf(text, o) = 0 THEN <<>>
    ELSE <<BlockAt(text, Index(text, toolOpenTag, o), CloseOf(text, o))>> \o f[CloseOf(text, o) + 2]
BlocksFrom(f, text) == f = [o \in 1..Len(text) + 1 |-> BlocksAfter(f, text, o)]

LEMMA BlockIsHere ==
    ASSUME NEW text \in Seq(Tokens), NEW o \in Nat \ {0}
    PROVE  LET open == Index(text, toolOpenTag, o)
               close == CloseOf(text, o)
           IN
           /\ open \in Nat /\ close \in Nat
           /\ close # 0 => /\ open >= o /\ close >= open + 2 /\ close + 1 <= Len(text)
                           /\ Here(text, toolOpenTag, open)
                           /\ \A i \in o..open - 1 : ~Here(text, toolOpenTag, i)
                           /\ Here(text, toolCloseTag, close)
                           /\ \A i \in open + 2..close - 1 : ~Here(text, toolCloseTag, i)
<1>. DEFINE open == Index(text, toolOpenTag, o)
            close == Index(text, toolCloseTag, open + 2)
<1>1. /\ open \in Nat
      /\ open # 0 => /\ open >= o /\ Here(text, toolOpenTag, open)
                     /\ \A i \in o..open - 1 : ~Here(text, toolOpenTag, i)
    BY IndexFinds DEF Tags
<1>2. CloseOf(text, o) = IF open = 0 THEN 0 ELSE close
    BY DEF CloseOf
<1>. HIDE DEF open
<1>3. open # 0 =>
        /\ close \in Nat
        /\ close # 0 => /\ close >= open + 2 /\ Here(text, toolCloseTag, close)
                        /\ \A i \in open + 2..close - 1 : ~Here(text, toolCloseTag, i)
    BY <1>1, IndexFinds DEF Tags
<1>. HIDE DEF close
<1>4. open # 0 /\ close # 0 => close + 1 <= Len(text)
    BY <1>1, <1>3, LenProperties DEF Here
<1>. QED
    BY <1>1, <1>2, <1>3, <1>4 DEF open

LEMMA BlocksExist ==
    ASSUME NEW text \in Seq(Tokens)
    PROVE  \E f : BlocksFrom(f, text)
<1>. DEFINE size == Len(text)
            Done(f, k) == /\ f = [o \in 1..size + 1 |-> f[o]]
                          /\ \A o \in 1..size + 1 : o + k >= size + 1 => f[o] = BlocksAfter(f, text, o)
            Has == {k \in Nat : \E f : Done(f, k)}
<1>1. size \in Nat
    BY LenProperties
<1>. HIDE DEF size
<1>2. 0 \in Has
    <2>. DEFINE f == [o \in 1..size + 1 |-> <<>>]
    <2>1. CloseOf(text, size + 1) = 0
        <3>1. size + 1 \in Nat \ {0}
            BY <1>1
        <3>. QED
            BY <1>1, <3>1, BlockIsHere DEF size
    <2>2. \A o \in 1..size + 1 : o + 0 >= size + 1 => f[o] = BlocksAfter(f, text, o)
        BY <1>1, <2>1 DEF BlocksAfter
    <2>3. f = [o \in 1..size + 1 |-> f[o]]
        OBVIOUS
    <2>. HIDE DEF f
    <2>. QED
        BY <2>2, <2>3
<1>3. ASSUME NEW k \in Nat, k \in Has
      PROVE  k + 1 \in Has
    <2>1. PICK f : Done(f, k)
        BY <1>3
    <2>. DEFINE h == [o \in 1..size + 1 |-> IF o + k + 1 = size + 1 THEN BlocksAfter(f, text, o) ELSE f[o]]
    <2>2. ASSUME NEW o \in 1..size + 1, o + (k + 1) >= size + 1
          PROVE  h[o] = BlocksAfter(h, text, o)
        <3>1. BlocksAfter(h, text, o) = BlocksAfter(f, text, o)
            <4>. DEFINE next == CloseOf(text, o) + 2
            <4>1. CloseOf(text, o) # 0 => /\ next \in 1..size + 1 /\ next + k + 1 # size + 1
                <5>1. o \in Nat \ {0}
                    BY <1>1
                <5>2. /\ CloseOf(text, o) \in Nat
                      /\ CloseOf(text, o) # 0 => CloseOf(text, o) >= o + 2 /\ CloseOf(text, o) + 1 <= size
                    BY <1>1, <5>1, BlockIsHere DEF size
                <5>. QED
                    BY <1>1, <2>2, <5>2
            <4>2. CloseOf(text, o) # 0 => h[next] = f[next]
                BY <4>1
            <4>. HIDE DEF h
            <4>. QED
                BY <4>2 DEF BlocksAfter
        <3>2. CASE o + k + 1 = size + 1
            BY <3>1, <3>2
        <3>3. CASE o + k + 1 # size + 1
            <4>1. o + k >= size + 1
                BY <1>1, <2>2, <3>3
            <4>2. h[o] = f[o] /\ f[o] = BlocksAfter(f, text, o)
                BY <2>1, <3>3, <4>1
            <4>. QED
                BY <3>1, <4>2
        <3>. QED
            BY <3>2, <3>3
    <2>3. h = [o \in 1..size + 1 |-> h[o]]
        OBVIOUS
    <2>. HIDE DEF h
    <2>4. Done(h, k + 1)
        BY <2>2, <2>3
    <2>. HIDE DEF Done
    <2>. QED
        BY <2>4
<1>. HIDE DEF Has
<1>4. size \in Has
    BY <1>1, <1>2, <1>3, NatInSet
<1>5. PICK f : Done(f, size)
    BY <1>4 DEF Has
<1>6. \A o \in 1..size + 1 : f[o] = BlocksAfter(f, text, o)
    BY <1>1, <1>5
<1>7. f = [o \in 1..size + 1 |-> BlocksAfter(f, text, o)]
    BY <1>5, <1>6
<1>. QED
    BY <1>7 DEF BlocksFrom, size

\* Blocks are found in the order of the text.
Candidates(text) == {BlockAt(text, i, j) : i \in Nat, j \in Nat}

LEMMA BlocksAreInOrder ==
    ASSUME NEW text \in Seq(Tokens), NEW f, BlocksFrom(f, text)
    PROVE  \A o \in 1..Len(text) + 1 :
             /\ f[o] \in Seq(Candidates(text))
             /\ \A b \in Range(f[o]) : b.start \in Nat /\ b.start >= o /\ b.start <= Len(text)
<1>. DEFINE size == Len(text)
            B == Candidates(text)
            Fine(o) == f[o] \in Seq(B) /\ \A b \in Range(f[o]) : b.start \in Nat /\ b.start >= o /\ b.start <= size
            Has == {k \in Nat : \A o \in 1..size + 1 : o + k >= size + 1 => Fine(o)}
<1>1. size \in Nat /\ \A o \in 1..size + 1 : f[o] = BlocksAfter(f, text, o)
    BY LenProperties DEF BlocksFrom
<1>2. ASSUME NEW o \in 1..size + 1, \A n \in 1..size + 1 : n > o => Fine(n)
      PROVE  Fine(o)
    <2>. DEFINE open == Index(text, toolOpenTag, o)
                close == CloseOf(text, o)
    <2>1. /\ open \in Nat /\ close \in Nat
          /\ close # 0 => open >= o /\ close >= open + 2 /\ close + 1 <= size
        <3>1. o \in Nat \ {0}
            BY <1>1
        <3>. QED
            BY <3>1, BlockIsHere
    <2>2. f[o] = IF close = 0 THEN <<>> ELSE <<BlockAt(text, open, close)>> \o f[close + 2]
        BY <1>1 DEF BlocksAfter
    <2>. HIDE DEF open, close
    <2>3. CASE close = 0
        <3>1. f[o] = <<>> /\ <<>> \in Seq(B) /\ Range(<<>>) = {}
            BY <2>2, <2>3, EmptySeq DEF Range
        <3>. QED
            BY <3>1
    <2>4. CASE close # 0
        <3>. DEFINE b == BlockAt(text, open, close)
                    rest == f[close + 2]
        <3>1. close + 2 \in 1..size + 1 /\ close + 2 > o
            BY <1>1, <2>1, <2>4
        <3>2. Fine(close + 2)
            BY <1>2, <3>1
        <3>3. b \in B /\ b.start = open
            BY <2>1 DEF Candidates, BlockAt
        <3>4. rest \in Seq(B) /\ \A c \in Range(rest) : c.start \in Nat /\ c.start >= close + 2 /\ c.start <= size
            BY <3>2
        <3>. HIDE DEF b, rest, B
        <3>5. <<b>> \o rest \in Seq(B) /\ Range(<<b>> \o rest) = {b} \cup Range(rest)
            <4>. DEFINE one == <<b>>
            <4>1. one \in Seq(B) /\ Range(one) = {b}
                BY <3>3 DEF Range
            <4>. HIDE DEF one
            <4>2. one \o rest \in Seq(B) /\ Range(one \o rest) = {b} \cup Range(rest)
                BY <3>4, <4>1, RangeConcatenation, ConcatProperties
            <4>. QED
                BY <4>2 DEF one
        <3>6. f[o] = <<b>> \o rest
            BY <2>2, <2>4 DEF b, rest
        <3>7. \A c \in Range(f[o]) : c.start \in Nat /\ c.start >= o /\ c.start <= size
            BY <2>1, <2>4, <3>1, <3>3, <3>4, <3>5, <3>6
        <3>. QED
            BY <3>5, <3>6, <3>7
    <2>. QED
        BY <2>3, <2>4
<1>. HIDE DEF size, Fine
<1>3. 0 \in Has
    <2>1. \A o \in 1..size + 1 : o + 0 >= size + 1 => \A n \in 1..size + 1 : ~(n > o)
        BY <1>1
    <2>. QED
        BY <1>2, <2>1
<1>4. ASSUME NEW k \in Nat, k \in Has
      PROVE  k + 1 \in Has
    <2>. SUFFICES ASSUME NEW o \in 1..size + 1, o + (k + 1) >= size + 1
                  PROVE  Fine(o)
        OBVIOUS
    <2>1. \A n \in 1..size + 1 : n > o => n + k >= size + 1
        BY <1>1
    <2>. QED
        BY <1>2, <1>4, <2>1
<1>. HIDE DEF Has
<1>5. size \in Has
    BY <1>1, <1>3, <1>4, NatInSet
<1>6. ASSUME NEW o \in 1..Len(text) + 1
      PROVE  Fine(o)
    <2>1. o \in 1..size + 1 /\ o + size >= size + 1
        BY <1>1 DEF size
    <2>. QED
        BY <1>5, <2>1 DEF Has
<1>. QED
    BY <1>6 DEF Fine, size

\* Where the first valid block from o on starts, 0 if there is none.
Blocks(text) == CHOOSE f : BlocksFrom(f, text)
Starts(text, o) == {b.start : b \in {c \in Range(Blocks(text)[o]) : Valid(c)}}
First(text, o) == IF Starts(text, o) = {} THEN 0 ELSE Min(Starts(text, o))

LEMMA FindsBlocks == \A text : findToolBlocks(text) = Blocks(text)[1]
BY DEF findToolBlocks, Blocks, BlocksFrom, BlocksAfter, CloseOf, BlockAt

LEMMA FirstIs ==
    ASSUME NEW text \in Seq(Tokens), NEW o \in 1..Len(text) + 1
    PROVE  LET open == Index(text, toolOpenTag, o)
               close == CloseOf(text, o)
           IN
           /\ First(text, o) \in Nat /\ (First(text, o) # 0 => First(text, o) >= o)
           /\ close = 0 => First(text, o) = 0
           /\ close # 0 /\ Valid(BlockAt(text, open, close)) => First(text, o) = open
           /\ close # 0 /\ ~Valid(BlockAt(text, open, close)) => First(text, o) = First(text, close + 2)
<1>. DEFINE f == Blocks(text)
            open == Index(text, toolOpenTag, o)
            close == CloseOf(text, o)
            b == BlockAt(text, open, close)
            B == Candidates(text)
<1>1. BlocksFrom(f, text)
    BY BlocksExist DEF Blocks
<1>. HIDE DEF f
<1>2. \A n \in 1..Len(text) + 1 : /\ f[n] \in Seq(B)
                                  /\ \A c \in Range(f[n]) : c.start \in Nat /\ c.start >= n
    BY <1>1, BlocksAreInOrder
<1>3. f[o] = IF close = 0 THEN <<>> ELSE <<b>> \o f[close + 2]
    BY <1>1 DEF BlocksFrom, BlocksAfter
<1>4. /\ Len(text) \in Nat /\ o \in Nat \ {0} /\ open \in Nat /\ close \in Nat
      /\ close # 0 => open >= o /\ close >= open + 2 /\ close + 1 <= Len(text)
    <2>1. Len(text) \in Nat /\ o \in Nat \ {0}
        BY LenProperties
    <2>. QED
        BY <2>1, BlockIsHere
<1>. DEFINE S(n) == {c.start : c \in {d \in Range(f[n]) : Valid(d)}}
<1>5. ASSUME NEW n \in 1..Len(text) + 1
      PROVE  S(n) \subseteq Nat /\ \A s \in S(n) : s >= n
    <2>1. \A c \in Range(f[n]) : c.start \in Nat /\ c.start >= n
        BY <1>2
    <2>. QED
        BY <2>1
<1>6. First(text, o) = IF S(o) = {} THEN 0 ELSE Min(S(o))
    BY DEF First, Starts, f
<1>7. First(text, close + 2) = IF S(close + 2) = {} THEN 0 ELSE Min(S(close + 2))
    BY DEF First, Starts, f
<1>8. First(text, o) \in Nat /\ (First(text, o) # 0 => First(text, o) >= o)
    <2>1. CASE S(o) = {}
        BY <1>6, <2>1
    <2>2. CASE S(o) # {}
        <3>1. Min(S(o)) \in S(o)
            <4>1. S(o) \subseteq Nat
                BY <1>5
            <4>. HIDE DEF S
            <4>. QED
                BY <2>2, <4>1, MinOfNats
        <3>2. Min(S(o)) \in Nat /\ Min(S(o)) >= o
            BY <1>5, <3>1
        <3>. HIDE DEF S
        <3>. QED
            BY <1>6, <2>2, <3>2
    <2>. QED
        BY <2>1, <2>2
<1>9. CASE close = 0
    <2>1. S(o) = {}
        <3>1. f[o] = <<>> /\ Range(<<>>) = {}
            BY <1>3, <1>9 DEF Range
        <3>. QED
            BY <3>1
    <2>. QED
        BY <1>6, <1>8, <1>9, <2>1
<1>10. CASE close # 0
    <2>1. Range(f[o]) = {b} \cup Range(f[close + 2]) /\ b.start = open
        <3>1. close + 2 \in 1..Len(text) + 1
            BY <1>4, <1>10
        <3>2. f[close + 2] \in Seq(B) /\ b \in B /\ b.start = open
            BY <1>2, <1>4, <3>1 DEF Candidates, BlockAt
        <3>. HIDE DEF B, b, close
        <3>. DEFINE one == <<b>>
        <3>3. one \in Seq(B) /\ Range(one) = {b}
            BY <3>2 DEF Range
        <3>4. f[o] = one \o f[close + 2]
            BY <1>3, <1>10
        <3>. HIDE DEF one
        <3>5. Range(one \o f[close + 2]) = {b} \cup Range(f[close + 2])
            BY <3>2, <3>3, RangeConcatenation
        <3>. QED
            BY <3>2, <3>4, <3>5
    <2>2. CASE Valid(b)
        <3>1. S(o) = {open} \cup S(close + 2)
            BY <2>1, <2>2
        <3>2. \A s \in S(o) : open <= s
            <4>1. close + 2 \in 1..Len(text) + 1 /\ close + 2 >= open
                BY <1>4, <1>10
            <4>2. \A s \in S(close + 2) : s \in Nat /\ s >= close + 2
                BY <1>5, <4>1
            <4>. HIDE DEF S, open, close
            <4>. QED
                BY <1>4, <3>1, <4>1, <4>2
        <3>3. S(o) \subseteq Nat /\ open \in S(o)
            BY <1>5, <3>1
        <3>. HIDE DEF S
        <3>4. Min(S(o)) = open
            <4>1. Min(S(o)) \in S(o) /\ \A s \in S(o) : Min(S(o)) <= s
                BY <3>3, MinOfNats
            <4>2. Min(S(o)) \in Nat /\ Min(S(o)) <= open /\ open <= Min(S(o))
                BY <3>2, <3>3, <4>1
            <4>. QED
                BY <1>4, <4>2
        <3>. QED
            BY <1>6, <1>8, <1>10, <2>2, <3>3, <3>4
    <2>3. CASE ~Valid(b)
        <3>1. S(o) = S(close + 2)
            BY <2>1, <2>3
        <3>. HIDE DEF S
        <3>. QED
            BY <1>6, <1>7, <1>8, <1>10, <2>3, <3>1
    <2>. QED
        BY <2>2, <2>3
<1>. QED
    BY <1>9, <1>10

(***************************************************************************)
(* What follows a text changes nothing before it; what precedes it moves   *)
(* everything.                                                             *)
(***************************************************************************)
LEMMA Joined ==
    ASSUME NEW a \in Seq(Tokens), NEW b \in Seq(Tokens)
    PROVE  /\ a \o b \in Seq(Tokens) /\ Len(a \o b) = Len(a) + Len(b)
           /\ Len(a) \in Nat /\ Len(b) \in Nat
           /\ \A i \in 1..Len(a) : (a \o b)[i] = a[i]
           /\ \A i \in 1..Len(b) : (a \o b)[Len(a) + i] = b[i]
<1>1. /\ a \o b \in Seq(Tokens) /\ Len(a \o b) = Len(a) + Len(b)
      /\ Len(a) \in Nat /\ Len(b) \in Nat
      /\ \A i \in 1..Len(a) + Len(b) : (a \o b)[i] = IF i <= Len(a) THEN a[i] ELSE b[i - Len(a)]
    BY ConcatProperties, LenProperties
<1>2. ASSUME NEW i \in 1..Len(a)
      PROVE  (a \o b)[i] = a[i]
    BY <1>1
<1>3. ASSUME NEW i \in 1..Len(b)
      PROVE  (a \o b)[Len(a) + i] = b[i]
    <2>1. Len(a) + i \in 1..Len(a) + Len(b) /\ ~(Len(a) + i <= Len(a)) /\ (Len(a) + i) - Len(a) = i
        BY <1>1
    <2>. QED
        BY <1>1, <2>1
<1>. QED
    BY <1>1, <1>2, <1>3

LEMMA Regroup ==
    ASSUME NEW a \in Seq(Tokens), NEW b \in Seq(Tokens), NEW c \in Seq(Tokens)
    PROVE  (a \o b) \o c = a \o (b \o c)
BY ConcatAssociative, SMTT(30)

LEMMA HereBefore ==
    ASSUME NEW a \in Seq(Tokens), NEW b \in Seq(Tokens), NEW tag, NEW i \in Nat, i + 1 <= Len(a)
    PROVE  Here(a \o b, tag, i) <=> Here(a, tag, i)
<1>1. CASE i = 0
    BY <1>1 DEF Here
<1>2. CASE i # 0
    <2>1. i \in 1..Len(a) /\ i + 1 \in 1..Len(a) /\ i \in 1..Len(a) - 1
        BY <1>2, Joined
    <2>2. (a \o b)[i] = a[i] /\ (a \o b)[i + 1] = a[i + 1] /\ i \in 1..Len(a \o b) - 1
        BY <2>1, Joined
    <2>. QED
        BY <2>1, <2>2 DEF Here
<1>. QED
    BY <1>1, <1>2

LEMMA HereAfter ==
    ASSUME NEW a \in Seq(Tokens), NEW b \in Seq(Tokens), NEW tag, NEW i \in Nat \ {0}
    PROVE  Here(a \o b, tag, Len(a) + i) <=> Here(b, tag, i)
<1>. DEFINE u == a \o b
<1>1. /\ Len(u) = Len(a) + Len(b) /\ Len(a) \in Nat /\ Len(b) \in Nat
      /\ \A j \in 1..Len(b) : u[Len(a) + j] = b[j]
    BY Joined
<1>. HIDE DEF u
<1>2. Len(a) + i \in 1..Len(u) - 1 <=> i \in 1..Len(b) - 1
    BY <1>1
<1>3. ASSUME i \in 1..Len(b) - 1
      PROVE  u[Len(a) + i] = b[i] /\ u[(Len(a) + i) + 1] = b[i + 1]
    <2>1. i \in 1..Len(b) /\ i + 1 \in 1..Len(b) /\ (Len(a) + i) + 1 = Len(a) + (i + 1)
        BY <1>1, <1>3
    <2>2. u[Len(a) + i] = b[i] /\ u[Len(a) + (i + 1)] = b[i + 1]
        BY <1>1, <2>1
    <2>. QED
        BY <2>1, <2>2
<1>4. Here(u, tag, Len(a) + i) <=> Here(b, tag, i)
    BY <1>2, <1>3 DEF Here
<1>. QED
    BY <1>4 DEF u

LEMMA IndexBefore ==
    ASSUME NEW a \in Seq(Tokens), NEW b \in Seq(Tokens), NEW tag \in Tags, NEW from \in Nat \ {0},
           Index(a, tag, from) # 0
    PROVE  Index(a \o b, tag, from) = Index(a, tag, from)
<1>. DEFINE k == Index(a, tag, from)
<1>1. k \in Nat /\ k >= from /\ Here(a, tag, k) /\ \A i \in from..k - 1 : ~Here(a, tag, i)
    BY IndexFinds
<1>. HIDE DEF k
<1>2. k + 1 <= Len(a) /\ Len(a) \in Nat
    BY <1>1, LenProperties DEF Here
<1>3. Here(a \o b, tag, k)
    BY <1>1, <1>2, HereBefore
<1>4. ASSUME NEW i \in from..k - 1
      PROVE  ~Here(a \o b, tag, i)
    <2>1. i \in Nat /\ i + 1 <= Len(a)
        BY <1>1, <1>2
    <2>. QED
        BY <1>1, <2>1, HereBefore
<1>5. a \o b \in Seq(Tokens)
    BY Joined
<1>6. Index(a \o b, tag, from) = k
    BY <1>1, <1>3, <1>4, <1>5, IndexIs
<1>. QED
    BY <1>6 DEF k

LEMMA IndexAfter ==
    ASSUME NEW a \in Seq(Tokens), NEW b \in Seq(Tokens), NEW tag \in Tags, NEW from \in Nat \ {0}
    PROVE  Index(a \o b, tag, Len(a) + from) =
             IF Index(b, tag, from) = 0 THEN 0 ELSE Len(a) + Index(b, tag, from)
<1>. DEFINE k == Index(b, tag, from)
<1>1. /\ k \in Nat /\ (k # 0 => k >= from /\ Here(b, tag, k) /\ \A i \in from..k - 1 : ~Here(b, tag, i))
      /\ k = 0 => \A i \in Nat : i >= from => ~Here(b, tag, i)
    BY IndexFinds
<1>2. a \o b \in Seq(Tokens) /\ Len(a) \in Nat /\ Len(a) + from \in Nat \ {0}
    BY Joined
<1>. HIDE DEF k
<1>3. ASSUME NEW i \in Nat, i >= Len(a) + from
      PROVE  i - Len(a) \in Nat \ {0} /\ (Here(a \o b, tag, i) <=> Here(b, tag, i - Len(a)))
    <2>1. i - Len(a) \in Nat \ {0} /\ Len(a) + (i - Len(a)) = i
        BY <1>2, <1>3
    <2>2. Here(a \o b, tag, Len(a) + (i - Len(a))) <=> Here(b, tag, i - Len(a))
        BY <2>1, HereAfter
    <2>. QED
        BY <2>1, <2>2
<1>4. CASE k = 0
    <2>1. \A i \in Nat : i >= Len(a) + from => ~Here(a \o b, tag, i)
        <3>. SUFFICES ASSUME NEW i \in Nat, i >= Len(a) + from
                      PROVE  ~Here(a \o b, tag, i)
            OBVIOUS
        <3>1. i - Len(a) \in Nat /\ i - Len(a) >= from
            BY <1>2
        <3>. QED
            BY <1>1, <1>3, <1>4, <3>1
    <2>2. Index(a \o b, tag, Len(a) + from) = 0
        BY <1>2, <2>1, IndexIsNot
    <2>. QED
        BY <1>4, <2>2 DEF k
<1>5. CASE k # 0
    <2>1. Len(a) + k \in Nat /\ Len(a) + k >= Len(a) + from
        BY <1>1, <1>2, <1>5
    <2>2. Here(a \o b, tag, Len(a) + k)
        BY <1>1, <1>5, HereAfter
    <2>3. ASSUME NEW i \in Len(a) + from..(Len(a) + k) - 1
          PROVE  ~Here(a \o b, tag, i)
        <3>1. i \in Nat /\ i >= Len(a) + from /\ i - Len(a) \in from..k - 1
            BY <1>1, <1>2
        <3>. QED
            BY <1>1, <1>3, <1>5, <3>1
    <2>4. Index(a \o b, tag, Len(a) + from) = Len(a) + k
        BY <1>2, <2>1, <2>2, <2>3, IndexIs
    <2>. QED
        BY <1>5, <2>4 DEF k
<1>. QED
    BY <1>4, <1>5

\* The inside of a block.
LEMMA InsideBefore ==
    ASSUME NEW a \in Seq(Tokens), NEW b \in Seq(Tokens), NEW m \in Nat \ {0}, NEW n \in Nat, n <= Len(a)
    PROVE  SubSeq(a \o b, m, n) = SubSeq(a, m, n)
<1>. DEFINE u == a \o b
<1>1. u \in Seq(Tokens) /\ Len(u) = Len(a) + Len(b) /\ Len(a) \in Nat /\ Len(b) \in Nat
      /\ \A i \in 1..Len(a) : u[i] = a[i]
    BY Joined
<1>. HIDE DEF u
<1>2. CASE m <= n
    <2>1. n <= Len(u) /\ m <= n + 1
        BY <1>1, <1>2
    <2>2. /\ SubSeq(u, m, n) \in Seq(Tokens) /\ Len(SubSeq(u, m, n)) = n - m + 1
          /\ \A i \in 1..n - m + 1 : SubSeq(u, m, n)[i] = u[m + i - 1]
        BY <1>1, <2>1, PartOf
    <2>3. /\ SubSeq(a, m, n) \in Seq(Tokens) /\ Len(SubSeq(a, m, n)) = n - m + 1
          /\ \A i \in 1..n - m + 1 : SubSeq(a, m, n)[i] = a[m + i - 1]
        BY <1>1, <1>2, PartOf
    <2>4. ASSUME NEW i \in 1..n - m + 1
          PROVE  SubSeq(u, m, n)[i] = SubSeq(a, m, n)[i]
        <3>1. m + i - 1 \in 1..Len(a)
            BY <1>1
        <3>. QED
            BY <1>1, <2>2, <2>3, <3>1
    <2>5. SubSeq(u, m, n) = SubSeq(a, m, n)
        BY <2>2, <2>3, <2>4, SeqEqual
    <2>. QED
        BY <2>5 DEF u
<1>3. CASE ~(m <= n)
    BY <1>3, SubSeqEmpty
<1>. QED
    BY <1>2, <1>3

LEMMA InsideAfter ==
    ASSUME NEW a \in Seq(Tokens), NEW b \in Seq(Tokens), NEW m \in Nat \ {0}, NEW n \in Nat, n <= Len(b)
    PROVE  SubSeq(a \o b, Len(a) + m, Len(a) + n) = SubSeq(b, m, n)
<1>. DEFINE u == a \o b
            p == Len(a) + m
            q == Len(a) + n
<1>1. u \in Seq(Tokens) /\ Len(u) = Len(a) + Len(b) /\ Len(a) \in Nat /\ Len(b) \in Nat
      /\ \A i \in 1..Len(b) : u[Len(a) + i] = b[i]
    BY Joined
<1>. HIDE DEF u
<1>2. CASE m <= n
    <2>1. p \in Nat \ {0} /\ q \in Nat /\ q <= Len(u) /\ p <= q + 1 /\ q - p + 1 = n - m + 1
        BY <1>1, <1>2
    <2>2. /\ SubSeq(u, p, q) \in Seq(Tokens) /\ Len(SubSeq(u, p, q)) = q - p + 1
          /\ \A i \in 1..q - p + 1 : SubSeq(u, p, q)[i] = u[p + i - 1]
        BY <1>1, <2>1, PartOf
    <2>3. /\ SubSeq(b, m, n) \in Seq(Tokens) /\ Len(SubSeq(b, m, n)) = n - m + 1
          /\ \A i \in 1..n - m + 1 : SubSeq(b, m, n)[i] = b[m + i - 1]
        BY <1>1, <1>2, PartOf
    <2>4. ASSUME NEW i \in 1..n - m + 1
          PROVE  SubSeq(u, p, q)[i] = SubSeq(b, m, n)[i]
        <3>1. m + i - 1 \in 1..Len(b) /\ p + i - 1 = Len(a) + (m + i - 1) /\ i \in 1..q - p + 1
            BY <1>1, <2>1
        <3>2. SubSeq(u, p, q)[i] = u[Len(a) + (m + i - 1)]
            BY <2>2, <3>1
        <3>. QED
            BY <1>1, <2>3, <3>1, <3>2
    <2>5. SubSeq(u, p, q) = SubSeq(b, m, n)
        <3>1. Len(SubSeq(u, p, q)) = Len(SubSeq(b, m, n))
            BY <2>1, <2>2, <2>3
        <3>2. \A i \in 1..Len(SubSeq(u, p, q)) : SubSeq(u, p, q)[i] = SubSeq(b, m, n)[i]
            BY <2>3, <2>4, <3>1
        <3>. HIDE DEF p, q
        <3>. QED
            BY <2>2, <2>3, <3>1, <3>2, SeqEqual
    <2>. QED
        BY <2>5 DEF u
<1>3. CASE ~(m <= n)
    <2>1. p \in Int /\ q \in Int /\ q < p
        BY <1>1, <1>3
    <2>2. SubSeq(u, p, q) = <<>> /\ SubSeq(b, m, n) = <<>>
        BY <1>3, <2>1, SubSeqEmpty
    <2>. QED
        BY <2>2 DEF u
<1>. QED
    BY <1>2, <1>3

\* A block that is closed stays one whatever follows.
LEMMA BlockBefore ==
    ASSUME NEW a \in Seq(Tokens), NEW b \in Seq(Tokens), NEW o \in Nat \ {0}, CloseOf(a, o) # 0
    PROVE  LET open == Index(a, toolOpenTag, o)
               close == CloseOf(a, o)
           IN  /\ Index(a \o b, toolOpenTag, o) = open /\ CloseOf(a \o b, o) = close
               /\ BlockAt(a \o b, open, close) = BlockAt(a, open, close)
<1>. DEFINE open == Index(a, toolOpenTag, o)
            close == CloseOf(a, o)
<1>1. /\ open \in Nat /\ close \in Nat /\ open >= o /\ close >= open + 2 /\ close + 1 <= Len(a)
      /\ open # 0 /\ close = Index(a, toolCloseTag, open + 2) /\ Len(a) \in Nat
    BY BlockIsHere, LenProperties DEF CloseOf
<1>. HIDE DEF open, close
<1>2. Index(a \o b, toolOpenTag, o) = open
    BY <1>1, IndexBefore DEF open, Tags
<1>3. Index(a \o b, toolCloseTag, open + 2) = close
    <2>1. open + 2 \in Nat \ {0} /\ close # 0
        BY <1>1
    <2>. QED
        BY <1>1, <2>1, IndexBefore DEF Tags
<1>4. CloseOf(a \o b, o) = close
    BY <1>1, <1>2, <1>3 DEF CloseOf
<1>5. SubSeq(a \o b, open + 2, close - 1) = SubSeq(a, open + 2, close - 1)
    <2>1. open + 2 \in Nat \ {0} /\ close - 1 \in Nat /\ close - 1 <= Len(a)
        BY <1>1
    <2>. QED
        BY <2>1, InsideBefore
<1>. QED
    BY <1>2, <1>4, <1>5 DEF BlockAt, open, close

\* And moves with what precedes it.
LEMMA BlockAfter ==
    ASSUME NEW a \in Seq(Tokens), NEW b \in Seq(Tokens), NEW o \in Nat \ {0}
    PROVE  LET open == Index(b, toolOpenTag, o)
               close == CloseOf(b, o)
               n == Len(a)
           IN  /\ CloseOf(a \o b, n + o) = IF close = 0 THEN 0 ELSE n + close
               /\ close # 0 => /\ Index(a \o b, toolOpenTag, n + o) = n + open
                               /\ Valid(BlockAt(a \o b, n + open, n + close)) <=> Valid(BlockAt(b, open, close))
<1>. DEFINE open == Index(b, toolOpenTag, o)
            close == CloseOf(b, o)
            n == Len(a)
<1>1. /\ open \in Nat /\ close \in Nat /\ n \in Nat /\ Len(b) \in Nat
      /\ close # 0 => open >= o /\ close >= open + 2 /\ close + 1 <= Len(b)
      /\ close = IF open = 0 THEN 0 ELSE Index(b, toolCloseTag, open + 2)
    BY BlockIsHere, LenProperties DEF CloseOf
<1>2. Index(a \o b, toolOpenTag, n + o) = IF open = 0 THEN 0 ELSE n + open
    BY IndexAfter DEF Tags
<1>. HIDE DEF close
<1>3. open # 0 => Index(a \o b, toolCloseTag, (n + open) + 2) = IF close = 0 THEN 0 ELSE n + close
    <2>. SUFFICES ASSUME open # 0
                  PROVE  Index(a \o b, toolCloseTag, (n + open) + 2) = IF close = 0 THEN 0 ELSE n + close
        OBVIOUS
    <2>1. open + 2 \in Nat \ {0} /\ (n + open) + 2 = n + (open + 2)
        BY <1>1
    <2>. HIDE DEF open
    <2>2. Index(a \o b, toolCloseTag, n + (open + 2)) =
            IF Index(b, toolCloseTag, open + 2) = 0 THEN 0 ELSE n + Index(b, toolCloseTag, open + 2)
        BY <2>1, IndexAfter DEF Tags
    <2>3. close = Index(b, toolCloseTag, open + 2)
        BY <1>1
    <2>. HIDE DEF n
    <2>. QED
        BY <2>1, <2>2, <2>3
<1>4. CloseOf(a \o b, n + o) = IF close = 0 THEN 0 ELSE n + close
    <2>1. open # 0 => n + open # 0
        BY <1>1
    <2>2. open = 0 => close = 0
        BY <1>1
    <2>. HIDE DEF open, n
    <2>. QED
        BY <1>2, <1>3, <2>1, <2>2 DEF CloseOf
<1>5. close # 0 => SubSeq(a \o b, (n + open) + 2, (n + close) - 1) = SubSeq(b, open + 2, close - 1)
    <2>. SUFFICES ASSUME close # 0
                  PROVE  SubSeq(a \o b, (n + open) + 2, (n + close) - 1) = SubSeq(b, open + 2, close - 1)
        OBVIOUS
    <2>1. /\ open + 2 \in Nat \ {0} /\ close - 1 \in Nat /\ close - 1 <= Len(b)
          /\ (n + open) + 2 = n + (open + 2) /\ (n + close) - 1 = n + (close - 1)
        BY <1>1
    <2>2. SubSeq(a \o b, n + (open + 2), n + (close - 1)) = SubSeq(b, open + 2, close - 1)
        BY <2>1, InsideAfter
    <2>. HIDE DEF open, n
    <2>. QED
        BY <2>1, <2>2
<1>6. close # 0 => open # 0
    BY <1>1
<1>. HIDE DEF open, n
<1>7. close # 0 => (Valid(BlockAt(a \o b, n + open, n + close)) <=> Valid(BlockAt(b, open, close)))
    BY <1>5 DEF Valid, BlockAt
<1>. QED
    BY <1>2, <1>4, <1>6, <1>7 DEF open, close, n

LEMMA FirstAfter ==
    ASSUME NEW a \in Seq(Tokens), NEW b \in Seq(Tokens)
    PROVE  \A o \in 1..Len(b) + 1 :
             First(a \o b, Len(a) + o) = IF First(b, o) = 0 THEN 0 ELSE Len(a) + First(b, o)
<1>. DEFINE size == Len(b)
            n == Len(a)
            u == a \o b
            Same(o) == First(u, n + o) = IF First(b, o) = 0 THEN 0 ELSE n + First(b, o)
            Has == {k \in Nat : \A o \in 1..size + 1 : o + k >= size + 1 => Same(o)}
<1>1. size \in Nat /\ n \in Nat /\ u \in Seq(Tokens) /\ Len(u) = n + size
    BY Joined
<1>2. ASSUME NEW o \in 1..size + 1, \A m \in 1..size + 1 : m > o => Same(m)
      PROVE  Same(o)
    <2>. DEFINE open == Index(b, toolOpenTag, o)
                close == CloseOf(b, o)
                open2 == Index(u, toolOpenTag, n + o)
                close2 == CloseOf(u, n + o)
    <2>1. /\ close2 = IF close = 0 THEN 0 ELSE n + close
          /\ close # 0 => /\ open2 = n + open
                          /\ Valid(BlockAt(u, n + open, n + close)) <=> Valid(BlockAt(b, open, close))
        <3>1. o \in Nat \ {0}
            BY <1>1
        <3>. QED
            BY <3>1, BlockAfter
    <2>2. /\ open \in Nat /\ close \in Nat
          /\ close # 0 => open >= o /\ close >= open + 2 /\ close + 1 <= size
        <3>1. o \in Nat \ {0}
            BY <1>1
        <3>. QED
            BY <3>1, BlockIsHere
    <2>3. /\ close = 0 => First(b, o) = 0
          /\ close # 0 /\ Valid(BlockAt(b, open, close)) => First(b, o) = open
          /\ close # 0 /\ ~Valid(BlockAt(b, open, close)) => First(b, o) = First(b, close + 2)
        BY FirstIs
    <2>4. /\ close2 = 0 => First(u, n + o) = 0
          /\ close2 # 0 /\ Valid(BlockAt(u, open2, close2)) => First(u, n + o) = open2
          /\ close2 # 0 /\ ~Valid(BlockAt(u, open2, close2)) => First(u, n + o) = First(u, close2 + 2)
        <3>1. n + o \in 1..Len(u) + 1
            BY <1>1
        <3>. HIDE DEF n, u
        <3>. QED
            BY <1>1, <3>1, FirstIs
    <2>. HIDE DEF open, close, open2, close2, u, n, size
    <2>5. CASE close = 0
        BY <2>1, <2>3, <2>4, <2>5
    <2>6. CASE close # 0
        <3>1. close2 # 0 /\ close2 = n + close /\ open2 = n + open /\ open # 0
            BY <1>1, <1>2, <2>1, <2>2, <2>6
        <3>2. CASE Valid(BlockAt(b, open, close))
            BY <2>1, <2>3, <2>4, <2>6, <3>1, <3>2
        <3>3. CASE ~Valid(BlockAt(b, open, close))
            <4>1. close + 2 \in 1..size + 1 /\ close + 2 > o /\ close2 + 2 = n + (close + 2)
                BY <1>1, <1>2, <2>2, <2>6, <3>1
            <4>2. Same(close + 2)
                BY <1>2, <4>1
            <4>3. First(u, n + o) = First(u, n + (close + 2))
                BY <2>1, <2>4, <2>6, <3>1, <3>3, <4>1
            <4>. QED
                BY <2>3, <2>6, <3>3, <4>2, <4>3
        <3>. QED
            BY <3>2, <3>3
    <2>. QED
        BY <2>5, <2>6
<1>. HIDE DEF size, Same
<1>3. 0 \in Has
    <2>1. \A o \in 1..size + 1 : o + 0 >= size + 1 => \A m \in 1..size + 1 : ~(m > o)
        BY <1>1
    <2>. QED
        BY <1>2, <2>1
<1>4. ASSUME NEW k \in Nat, k \in Has
      PROVE  k + 1 \in Has
    <2>. SUFFICES ASSUME NEW o \in 1..size + 1, o + (k + 1) >= size + 1
                  PROVE  Same(o)
        OBVIOUS
    <2>1. \A m \in 1..size + 1 : m > o => m + k >= size + 1
        BY <1>1
    <2>. QED
        BY <1>2, <1>4, <2>1
<1>. HIDE DEF Has
<1>5. size \in Has
    BY <1>1, <1>3, <1>4, NatInSet
<1>6. ASSUME NEW o \in 1..size + 1
      PROVE  Same(o)
    <2>1. o + size >= size + 1
        BY <1>1
    <2>. QED
        BY <1>5, <2>1 DEF Has
<1>. QED
    BY <1>6 DEF Same, size

\* A closed block by itself has a call if it is valid.
LEMMA CallInBlock ==
    ASSUME NEW text \in Seq(Tokens), NEW o \in Nat \ {0}, Here(text, toolOpenTag, o), CloseOf(text, o) # 0
    PROVE  /\ Index(text, toolOpenTag, o) = o
           /\ HasToolCall(SubSeq(text, o, CloseOf(text, o) + 1)) <=> Valid(BlockAt(text, o, CloseOf(text, o)))
<1>. DEFINE close == CloseOf(text, o)
            part == SubSeq(text, o, close + 1)
            n == close - o + 1
<1>1. Index(text, toolOpenTag, o) = o
    <2>1. \A i \in o..o - 1 : ~Here(text, toolOpenTag, i)
        OBVIOUS
    <2>. QED
        BY <2>1, IndexIs DEF Tags
<1>2. /\ close \in Nat /\ close >= o + 2 /\ close + 1 <= Len(text) /\ Len(text) \in Nat
      /\ Here(text, toolCloseTag, close)
      /\ \A i \in o + 2..close - 1 : ~Here(text, toolCloseTag, i)
    BY <1>1, BlockIsHere, LenProperties
<1>. HIDE DEF close
<1>3. /\ part \in Seq(Tokens) /\ Len(part) = (close + 1) - o + 1
      /\ \A i \in 1..(close + 1) - o + 1 : part[i] = text[o + i - 1]
      /\ \A tag : \A i \in Nat : i >= 1 /\ i <= (close + 1) - o => (Here(part, tag, i) <=> Here(text, tag, o + i - 1))
    <2>1. close + 1 \in Nat /\ o <= (close + 1) + 1
        BY <1>2
    <2>. QED
        BY <1>2, <2>1, HereInPart
<1>. HIDE DEF part
<1>4. n \in Nat /\ n >= 3 /\ Len(part) = n + 1
    BY <1>2, <1>3
<1>5. Index(part, toolOpenTag, 1) = 1
    <2>1. 1 <= (close + 1) - o /\ o + 1 - 1 = o
        BY <1>2
    <2>2. Here(part, toolOpenTag, 1) <=> Here(text, toolOpenTag, o + 1 - 1)
        BY <1>3, <2>1
    <2>3. Here(part, toolOpenTag, 1) /\ \A i \in 1..1 - 1 : ~Here(part, toolOpenTag, i)
        BY <2>1, <2>2
    <2>. QED
        BY <1>3, <2>3, IndexIs DEF Tags
<1>6. Index(part, toolCloseTag, 1 + 2) = n
    <2>1. n <= (close + 1) - o /\ o + n - 1 = close
        BY <1>2
    <2>2. Here(part, toolCloseTag, n) <=> Here(text, toolCloseTag, o + n - 1)
        BY <1>3, <1>4, <2>1
    <2>3. Here(part, toolCloseTag, n)
        BY <1>2, <2>1, <2>2
    <2>4. ASSUME NEW i \in 3..n - 1
          PROVE  ~Here(part, toolCloseTag, i)
        <3>1. i \in Nat /\ i >= 1 /\ i <= (close + 1) - o /\ o + i - 1 \in o + 2..close - 1
            BY <1>2
        <3>2. Here(part, toolCloseTag, i) <=> Here(text, toolCloseTag, o + i - 1)
            BY <1>3, <3>1
        <3>. QED
            BY <1>2, <3>1, <3>2
    <2>. HIDE DEF n
    <2>5. Index(part, toolCloseTag, 3) = n
        BY <1>3, <1>4, <2>3, <2>4, IndexIs DEF Tags
    <2>. QED
        BY <2>5
<1>. HIDE DEF n
<1>7. CloseOf(part, 1) = n /\ CloseOf(part, n + 2) = 0
    <2>1. n + 2 \in Nat \ {0}
        BY <1>4
    <2>2. CloseOf(part, n + 2) # 0 => FALSE
        <3>. DEFINE p == Index(part, toolOpenTag, n + 2)
                    q == CloseOf(part, n + 2)
        <3>1. p \in Nat /\ q \in Nat /\ (q # 0 => p >= n + 2 /\ q >= p + 2 /\ q + 1 <= Len(part))
            BY <1>3, <2>1, BlockIsHere
        <3>. HIDE DEF p, q
        <3>2. q = 0
            BY <1>4, <3>1
        <3>. QED
            BY <3>2 DEF q
    <2>. QED
        BY <1>5, <1>6, <2>2 DEF CloseOf
<1>8. BlockAt(part, 1, n).raw = BlockAt(text, o, close).raw
    <2>1. SubSeq(part, 1 + 2, n - 1) = SubSeq(text, o + 2, close - 1)
        <3>. DEFINE m == n - 1
                    q == close - 1
        <3>1. m \in Nat /\ q \in Nat /\ q = o + n - 2 /\ m <= Len(part) /\ q <= Len(text) /\ 3 <= m + 1
              /\ o + 2 <= q + 1 /\ q - (o + 2) + 1 = m - 3 + 1
            BY <1>2, <1>4 DEF n
        <3>. HIDE DEF m, q
        <3>2. /\ SubSeq(part, 3, m) \in Seq(Tokens) /\ Len(SubSeq(part, 3, m)) = m - 3 + 1
              /\ \A i \in 1..m - 3 + 1 : SubSeq(part, 3, m)[i] = part[3 + i - 1]
            BY <1>3, <3>1, PartOf
        <3>3. /\ SubSeq(text, o + 2, q) \in Seq(Tokens) /\ Len(SubSeq(text, o + 2, q)) = q - (o + 2) + 1
              /\ \A i \in 1..q - (o + 2) + 1 : SubSeq(text, o + 2, q)[i] = text[(o + 2) + i - 1]
            <4>1. o + 2 \in Nat \ {0}
                OBVIOUS
            <4>. QED
                BY <3>1, <4>1, PartOf
        <3>4. ASSUME NEW i \in 1..m - 3 + 1
              PROVE  SubSeq(part, 3, m)[i] = SubSeq(text, o + 2, q)[i]
            <4>1. 3 + i - 1 \in 1..(close + 1) - o + 1 /\ o + (3 + i - 1) - 1 = (o + 2) + i - 1
                BY <1>2, <1>3, <3>1
            <4>2. part[3 + i - 1] = text[o + (3 + i - 1) - 1]
                BY <1>3, <4>1
            <4>3. i \in 1..q - (o + 2) + 1
                BY <3>1
            <4>. QED
                BY <3>2, <3>3, <4>1, <4>2, <4>3
        <3>5. Len(SubSeq(part, 3, m)) = Len(SubSeq(text, o + 2, q))
            BY <3>1, <3>2, <3>3
        <3>6. \A i \in 1..Len(SubSeq(part, 3, m)) : SubSeq(part, 3, m)[i] = SubSeq(text, o + 2, q)[i]
            BY <3>2, <3>4
        <3>7. SubSeq(part, 3, m) = SubSeq(text, o + 2, q)
            BY <3>2, <3>3, <3>5, <3>6, SeqEqual
        <3>8. 1 + 2 = 3
            OBVIOUS
        <3>. QED
            BY <3>7, <3>8 DEF m, q
    <2>. QED
        BY <2>1 DEF BlockAt
<1>9. Range(findToolBlocks(part)) = {BlockAt(part, 1, n)}
    <2>. DEFINE f == Blocks(part)
    <2>1. BlocksFrom(f, part)
        BY <1>3, BlocksExist DEF Blocks
    <2>. HIDE DEF f
    <2>2. f = [i \in 1..Len(part) + 1 |-> BlocksAfter(f, part, i)]
        BY <2>1 DEF BlocksFrom
    <2>3. 1 \in 1..Len(part) + 1 /\ n + 2 \in 1..Len(part) + 1
        BY <1>4
    <2>4. f[1] = BlocksAfter(f, part, 1) /\ f[n + 2] = BlocksAfter(f, part, n + 2)
        BY <2>2, <2>3
    <2>5. f[n + 2] = <<>>
        BY <1>7, <2>4 DEF BlocksAfter
    <2>6. f[1] = <<BlockAt(part, 1, n)>> \o <<>>
        <3>1. CloseOf(part, 1) = n /\ n # 0
            BY <1>4, <1>7
        <3>2. BlocksAfter(f, part, 1) = <<BlockAt(part, 1, n)>> \o f[n + 2]
            BY <1>5, <3>1, Zenon DEF BlocksAfter
        <3>. QED
            BY <2>4, <2>5, <3>2, Zenon
    <2>7. Range(<<BlockAt(part, 1, n)>> \o <<>>) = {BlockAt(part, 1, n)}
        <3>. DEFINE b == BlockAt(part, 1, n)
        <3>. HIDE DEF b
        <3>1. <<b>> \in Seq({b}) /\ <<b>> \o <<>> = <<b>>
            BY ConcatEmptySeq
        <3>2. Range(<<b>>) = {b}
            BY DEF Range
        <3>. QED
            BY <3>1, <3>2 DEF b
    <2>8. findToolBlocks(part) = f[1]
        BY FindsBlocks DEF f
    <2>. QED
        BY <2>6, <2>7, <2>8
<1>10. HasToolCall(part) <=> Valid(BlockAt(text, o, close))
    BY <1>8, <1>9 DEF HasToolCall, Valid
<1>. QED
    BY <1>1, <1>10 DEF part, close

\* Text without a tag is passed over.
LEMMA FirstSkips ==
    ASSUME NEW u \in Seq(Tokens), NEW o \in Nat \ {0}, NEW n \in Nat, o <= n, n <= Len(u) + 1,
           \A i \in o..n - 1 : ~Here(u, toolOpenTag, i)
    PROVE  First(u, o) = First(u, n)
<1>. DEFINE open == Index(u, toolOpenTag, n)
            close == CloseOf(u, n)
<1>1. n \in Nat \ {0} /\ o \in 1..Len(u) + 1 /\ n \in 1..Len(u) + 1
    BY LenProperties
<1>2. Index(u, toolOpenTag, o) = open
    <2>1. /\ open \in Nat
          /\ open # 0 => open >= n /\ Here(u, toolOpenTag, open) /\ \A i \in n..open - 1 : ~Here(u, toolOpenTag, i)
          /\ open = 0 => \A i \in Nat : i >= n => ~Here(u, toolOpenTag, i)
        BY <1>1, IndexFinds DEF Tags
    <2>. HIDE DEF open
    <2>2. CASE open = 0
        <3>1. \A i \in Nat : i >= o => ~Here(u, toolOpenTag, i)
            BY <2>1, <2>2
        <3>. QED
            BY <2>2, <3>1, IndexIsNot DEF Tags
    <2>3. CASE open # 0
        <3>1. open >= o /\ \A i \in o..open - 1 : ~Here(u, toolOpenTag, i)
            BY <2>1, <2>3
        <3>. QED
            BY <2>1, <2>3, <3>1, IndexIs DEF Tags
    <2>. QED
        BY <2>2, <2>3
<1>3. CloseOf(u, o) = close
    BY <1>2 DEF CloseOf
<1>4. /\ close = 0 => First(u, n) = 0
      /\ close # 0 /\ Valid(BlockAt(u, open, close)) => First(u, n) = open
      /\ close # 0 /\ ~Valid(BlockAt(u, open, close)) => First(u, n) = First(u, close + 2)
    BY <1>1, FirstIs
<1>5. /\ close = 0 => First(u, o) = 0
      /\ close # 0 /\ Valid(BlockAt(u, open, close)) => First(u, o) = open
      /\ close # 0 /\ ~Valid(BlockAt(u, open, close)) => First(u, o) = First(u, close + 2)
    BY <1>1, <1>2, <1>3, FirstIs
<1>. QED
    BY <1>4, <1>5

(***************************************************************************)
(* The loop of the filter.                                                 *)
(***************************************************************************)
Then(out, next) == [next EXCEPT !.out = out \o @]

\* One round of it inside of a block, and outside.
InBlock(f, text, o) ==
    LET close == Index(text, toolCloseTag, o + 2)
        block == SubSeq(text, o, close + 1)
    IN  IF close = 0 THEN Pushed(Holding(Rest(text, o), TRUE), <<>>)
        ELSE IF HasToolCall(block) THEN Pushed(Stopped(block), <<>>)
        ELSE Then(block, f[<<close + 2, FALSE>>])
Outside(f, text, o) ==
    LET open == Index(text, toolOpenTag, o)
        safe == Len(text) - possibleToolTagPrefix(Rest(text, o))
    IN  IF open # 0 THEN Then(SubSeq(text, o, open - 1), f[<<open, TRUE>>])
        ELSE Pushed(Holding(Rest(text, safe + 1), FALSE), SubSeq(text, o, safe))
ScanFrom(f, text) ==
    f = [at \in (1..Len(text) + 1) \X BOOLEAN |->
            IF at[2] THEN InBlock(f, text, at[1]) ELSE Outside(f, text, at[1])]

LEMMA ScanIs == \A text : Scan(text) = CHOOSE f : ScanFrom(f, text)
BY DEF Scan, ScanFrom, InBlock, Outside, Then

LEMMA ScanExists ==
    ASSUME NEW text \in Seq(Tokens)
    PROVE  \E f : ScanFrom(f, text)
<1>. DEFINE size == Len(text)
            Done(f, k) ==
              /\ f = [at \in (1..size + 1) \X BOOLEAN |-> f[at]]
              /\ \A o \in 1..size + 1 : o + k >= size + 1 =>
                   f[<<o, TRUE>>] = InBlock(f, text, o) /\ f[<<o, FALSE>>] = Outside(f, text, o)
            Has == {k \in Nat : \E f : Done(f, k)}
            Holds(h, n) ==
              /\ h = [at \in (1..size + 1) \X BOOLEAN |-> h[at]]
              /\ \A o \in 1..size + 1 : o >= n =>
                   h[<<o, TRUE>>] = InBlock(h, text, o) /\ h[<<o, FALSE>>] = Outside(h, text, o)
<1>1. size \in Nat
    BY LenProperties
<1>2. \A f, o : \A k \in Nat : o \in 1..size + 1 /\ o + k >= size + 1 => o \in Nat \ {0}
    BY <1>1
<1>3. ASSUME NEW f, NEW g, NEW o \in 1..size + 1, \A n \in 1..size + 1 : n > o => f[<<n, FALSE>>] = g[<<n, FALSE>>]
      PROVE  InBlock(f, text, o) = InBlock(g, text, o)
    <2>. DEFINE close == Index(text, toolCloseTag, o + 2)
    <2>1. close \in Nat /\ (close # 0 => close >= o + 2 /\ Here(text, toolCloseTag, close))
        <3>1. o + 2 \in Nat \ {0}
            BY <1>1
        <3>. QED
            BY <3>1, IndexFinds DEF Tags
    <2>. HIDE DEF close
    <2>2. close # 0 => close + 2 \in 1..size + 1 /\ close + 2 > o
        BY <1>1, <2>1 DEF Here
    <2>3. close # 0 => f[<<close + 2, FALSE>>] = g[<<close + 2, FALSE>>]
        BY <1>3, <2>2
    <2>. QED
        BY <2>3 DEF InBlock, close
<1>4. ASSUME NEW f, NEW g, NEW o \in 1..size + 1, \A n \in 1..size + 1 : n >= o => f[<<n, TRUE>>] = g[<<n, TRUE>>]
      PROVE  Outside(f, text, o) = Outside(g, text, o)
    <2>. DEFINE open == Index(text, toolOpenTag, o)
    <2>1. open \in Nat /\ (open # 0 => open >= o /\ Here(text, toolOpenTag, open))
        <3>1. o \in Nat \ {0}
            BY <1>1
        <3>. QED
            BY <3>1, IndexFinds DEF Tags
    <2>. HIDE DEF open
    <2>2. open # 0 => open \in 1..size + 1 /\ open >= o
        BY <1>1, <2>1 DEF Here
    <2>3. open # 0 => f[<<open, TRUE>>] = g[<<open, TRUE>>]
        BY <1>4, <2>2
    <2>. QED
        BY <2>3 DEF Outside, open
<1>. HIDE DEF size
<1>5. ASSUME NEW f, NEW prior \in Nat, prior + 1 \in 1..size + 1,
             \A o \in 1..size + 1 : o > prior + 1 =>
               f[<<o, TRUE>>] = InBlock(f, text, o) /\ f[<<o, FALSE>>] = Outside(f, text, o)
      PROVE  \E h : Holds(h, prior + 1)
    <2>. DEFINE here == prior + 1
                g == [at \in (1..size + 1) \X BOOLEAN |->
                        IF at = <<here, TRUE>> THEN InBlock(f, text, here) ELSE f[at]]
                h == [at \in (1..size + 1) \X BOOLEAN |->
                        IF at = <<here, FALSE>> THEN Outside(g, text, here) ELSE g[at]]
    <2>1. \A o \in 1..size + 1 : /\ h[<<o, TRUE>>] = g[<<o, TRUE>>]
                                 /\ g[<<o, TRUE>>] = IF o = here THEN InBlock(f, text, o) ELSE f[<<o, TRUE>>]
        OBVIOUS
    <2>2. \A o \in 1..size + 1 : /\ h[<<o, FALSE>>] = IF o = here THEN Outside(g, text, o) ELSE g[<<o, FALSE>>]
                                 /\ g[<<o, FALSE>>] = f[<<o, FALSE>>]
        OBVIOUS
    <2>3. h = [at \in (1..size + 1) \X BOOLEAN |-> h[at]]
        OBVIOUS
    <2>. HIDE DEF g, h
    <2>4. ASSUME NEW o \in 1..size + 1, o >= here
          PROVE  h[<<o, TRUE>>] = InBlock(h, text, o) /\ h[<<o, FALSE>>] = Outside(h, text, o)
        <3>1. InBlock(h, text, o) = InBlock(f, text, o)
            <4>1. \A n \in 1..size + 1 : n > o => n # here
                BY <1>1, <2>4
            <4>2. \A n \in 1..size + 1 : n > o => h[<<n, FALSE>>] = f[<<n, FALSE>>]
                BY <2>2, <4>1
            <4>. QED
                BY <1>3, <4>2
        <3>2. Outside(h, text, o) = Outside(g, text, o)
            BY <1>4, <2>1
        <3>3. CASE o = here
            BY <2>1, <2>2, <3>1, <3>2, <3>3
        <3>4. CASE o # here
            <4>1. o > prior + 1
                BY <1>1, <2>4, <3>4
            <4>2. f[<<o, TRUE>>] = InBlock(f, text, o) /\ f[<<o, FALSE>>] = Outside(f, text, o)
                BY <1>5, <4>1
            <4>3. Outside(g, text, o) = Outside(f, text, o)
                <5>1. \A n \in 1..size + 1 : n >= o => n # here
                    BY <1>1, <2>4, <3>4
                <5>2. \A n \in 1..size + 1 : n >= o => g[<<n, TRUE>>] = f[<<n, TRUE>>]
                    BY <2>1, <5>1
                <5>. QED
                    BY <1>4, <5>2
            <4>. QED
                BY <2>1, <2>2, <3>1, <3>2, <3>4, <4>2, <4>3
        <3>. QED
            BY <3>3, <3>4
    <2>. QED
        BY <2>3, <2>4
<1>6. 0 \in Has
    <2>1. \E h : Holds(h, size + 1)
        <3>1. size + 1 \in 1..size + 1 /\ \A o \in 1..size + 1 : ~(o > size + 1)
            BY <1>1
        <3>. QED
            BY <1>1, <1>5, <3>1
    <2>2. PICK h : Holds(h, size + 1)
        BY <2>1
    <2>3. \A o \in 1..size + 1 : o + 0 >= size + 1 => o >= size + 1
        BY <1>1
    <2>4. Done(h, 0)
        BY <2>2, <2>3
    <2>. HIDE DEF Done
    <2>. QED
        BY <2>4
<1>7. ASSUME NEW k \in Nat, k \in Has
      PROVE  k + 1 \in Has
    <2>1. PICK f : Done(f, k)
        BY <1>7
    <2>2. CASE k + 1 <= size
        <3>. DEFINE prior == size - (k + 1)
        <3>1. /\ prior \in Nat /\ prior + 1 \in 1..size + 1
              /\ \A o \in 1..size + 1 : o > prior + 1 => o + k >= size + 1
              /\ \A o \in 1..size + 1 : o + (k + 1) >= size + 1 => o >= prior + 1
            BY <1>1, <2>2
        <3>. HIDE DEF prior
        <3>2. \A o \in 1..size + 1 : o > prior + 1 =>
                f[<<o, TRUE>>] = InBlock(f, text, o) /\ f[<<o, FALSE>>] = Outside(f, text, o)
            BY <2>1, <3>1
        <3>3. \E h : Holds(h, prior + 1)
            <4>1. prior \in Nat /\ prior + 1 \in 1..size + 1
                BY <3>1
            <4>. QED
                BY <1>5, <3>2, <4>1
        <3>4. PICK h : Holds(h, prior + 1)
            BY <3>3
        <3>5. Done(h, k + 1)
            BY <3>1, <3>4
        <3>. HIDE DEF Done
        <3>. QED
            BY <3>5
    <2>3. CASE ~(k + 1 <= size)
        <3>1. \A o \in 1..size + 1 : o + k >= size + 1
            BY <1>1, <2>3
        <3>2. Done(f, k + 1)
            BY <2>1, <3>1
        <3>. HIDE DEF Done
        <3>. QED
            BY <3>2
    <2>. QED
        BY <2>2, <2>3
<1>. HIDE DEF Has
<1>8. size \in Has
    BY <1>1, <1>6, <1>7, NatInSet
<1>9. PICK f : Done(f, size)
    BY <1>8 DEF Has
<1>10. \A o \in 1..size + 1 : f[<<o, TRUE>>] = InBlock(f, text, o) /\ f[<<o, FALSE>>] = Outside(f, text, o)
    <2>1. \A o \in 1..size + 1 : o + size >= size + 1
        BY <1>1
    <2>. QED
        BY <1>9, <2>1
<1>11. ASSUME NEW at \in (1..size + 1) \X BOOLEAN
       PROVE  f[at] = IF at[2] THEN InBlock(f, text, at[1]) ELSE Outside(f, text, at[1])
    <2>1. at[1] \in 1..size + 1 /\ at[2] \in BOOLEAN /\ at = <<at[1], at[2]>>
        OBVIOUS
    <2>2. CASE at[2]
        BY <1>10, <2>1, <2>2
    <2>3. CASE ~at[2]
        BY <1>10, <2>1, <2>3
    <2>. QED
        BY <2>2, <2>3
<1>12. f = [at \in (1..size + 1) \X BOOLEAN |->
             IF at[2] THEN InBlock(f, text, at[1]) ELSE Outside(f, text, at[1])]
    BY <1>9, <1>11
<1>. QED
    BY <1>12 DEF ScanFrom, size

\* What the beginning of a tag at the end of a text is: "<" or nothing.
Less == <<"<">>

LEMMA FirstOfSeq ==
    ASSUME NEW S, NEW t \in Seq(S), Len(t) >= 1
    PROVE  SubSeq(t, 1, 1) = <<t[1]>>
<1>1. 1 \in 1..Len(t)
    BY LenProperties
<1>2. SubSeq(t, 1, 1) = <<t[1]>> \o SubSeq(t, 1 + 1, 1)
    BY <1>1, SubSeqRecursiveFirst
<1>3. SubSeq(t, 1 + 1, 1) = <<>> /\ <<t[1]>> \in Seq({t[1]})
    BY SubSeqEmpty
<1>. QED
    BY <1>2, <1>3, ConcatEmptySeq

LEMMA PrefixIs ==
    ASSUME NEW t \in Seq(Tokens)
    PROVE  possibleToolTagPrefix(t) = IF t # <<>> /\ t[Len(t)] = "<" THEN 1 ELSE 0
<1>. DEFINE s == SubSeq(toolOpenTag, 1, 1)
<1>1. Len(t) \in Nat /\ (t # <<>> <=> Len(t) >= 1)
    BY LenProperties, EmptySeq
<1>2. s = Less
    <2>1. toolOpenTag \in Seq(Tokens) /\ Len(toolOpenTag) >= 1 /\ toolOpenTag[1] = "<"
        BY TagsAreTwo DEF Tags
    <2>. QED
        BY <2>1, FirstOfSeq DEF Less
<1>3. IsSuffix(Less, t) <=> t # <<>> /\ t[Len(t)] = "<"
    <2>. DEFINE r == Reverse(t)
    <2>1. Reverse(Less) = Less /\ Len(Less) = 1 /\ Less[1] = "<"
        BY DEF Reverse, Less
    <2>2. /\ r \in Seq(Tokens) /\ Len(r) = Len(t)
          /\ \A i \in 1..Len(t) : r[i] = t[(Len(t) - i) + 1]
        <3>1. \A i \in 1..Len(t) : (Len(t) - i) + 1 \in 1..Len(t)
            BY <1>1
        <3>2. \A i \in 1..Len(t) : t[(Len(t) - i) + 1] \in Tokens
            BY <3>1, ElementOfSeq
        <3>. QED
            BY <1>1, <3>2 DEF Reverse
    <2>. HIDE DEF r
    <2>3. CASE t # <<>>
        <3>1. 1 \in 1..Len(t) /\ (Len(t) - 1) + 1 = Len(t)
            BY <1>1, <2>3
        <3>2. r[1] = t[Len(t)]
            BY <2>2, <3>1
        <3>3. SubSeq(r, 1, 1) = <<r[1]>>
            BY <1>1, <2>2, <2>3, FirstOfSeq
        <3>4. SubSeq(Less, 1, 1) = Less
            <4>1. Less \in Seq({"<"}) /\ Less = <<Less[1]>>
                BY DEF Less
            <4>. QED
                BY <2>1, <4>1, FirstOfSeq
        <3>5. IsPrefix(Less, r) <=> Less = <<r[1]>>
            BY <1>1, <2>1, <2>2, <2>3, <3>3, <3>4 DEF IsPrefix
        <3>6. Less = <<r[1]>> <=> r[1] = "<"
            BY DEF Less
        <3>. QED
            BY <2>1, <2>3, <3>2, <3>5, <3>6 DEF IsSuffix, r
    <2>4. CASE t = <<>>
        <3>1. ~(Len(Less) <= Len(r))
            BY <1>1, <2>1, <2>2, <2>4
        <3>. QED
            BY <2>1, <2>4, <3>1 DEF IsSuffix, IsPrefix, r
    <2>. QED
        BY <2>3, <2>4
<1>. DEFINE N == {n \in 1..Len(toolOpenTag) - 1 : IsSuffix(SubSeq(toolOpenTag, 1, n), t)}
<1>4. N = IF IsSuffix(Less, t) THEN {1} ELSE {}
    <2>1. 1..Len(toolOpenTag) - 1 = {1}
        BY DEF toolOpenTag
    <2>2. N = {n \in {1} : IsSuffix(Less, t)}
        BY <1>2, <2>1
    <2>. QED
        BY <2>2
<1>5. possibleToolTagPrefix(t) = Max({0} \cup N)
    BY DEF possibleToolTagPrefix
<1>. HIDE DEF N
<1>6. CASE IsSuffix(Less, t)
    <2>1. {0} \cup N = {0, 1}
        BY <1>4, <1>6
    <2>2. Max({0, 1}) = 1
        BY DEF Max
    <2>. QED
        BY <1>3, <1>5, <1>6, <2>1, <2>2
<1>7. CASE ~IsSuffix(Less, t)
    <2>1. {0} \cup N = {0}
        BY <1>4, <1>7
    <2>2. Max({0}) = 0
        BY DEF Max
    <2>. QED
        BY <1>3, <1>5, <1>7, <2>1, <2>2
<1>. QED
    BY <1>6, <1>7

(***************************************************************************)
(* What the filter does with a text from o on: whatever may follow, it     *)
(* stops at the first valid block, or keeps back the end from which on     *)
(* that block, if there will be one, is to be looked for.                  *)
(***************************************************************************)
Filters == [pending: Seq(Tokens), inBlock: BOOLEAN, stopped: BOOLEAN]

\* What is kept back is an open block or may become one.
Held(fl) ==
    IF fl.inBlock THEN Here(fl.pending, toolOpenTag, 1) /\ Index(fl.pending, toolCloseTag, 1) = 0
                  ELSE fl.pending \in {<<>>, Less}

StopsAt(text, o, r, p) ==
    /\ r.filter.pending = <<>> /\ r.out = SubSeq(text, o, p - 1)
    /\ \A x \in Seq(Tokens) : First(text \o x, o) = p
KeepsFrom(text, o, r, n) ==
    /\ r.filter.pending = SubSeq(text, n, Len(text)) /\ r.out = SubSeq(text, o, n - 1)
    /\ \A x \in Seq(Tokens) : First(text \o x, o) = First(text \o x, n)
    /\ Held(r.filter)
Right(text, o, r) ==
    /\ r.filter \in Filters
    /\ IF r.filter.stopped THEN \E p \in o..Len(text) : StopsAt(text, o, r, p)
                           ELSE \E n \in o..Len(text) + 1 : KeepsFrom(text, o, r, n)

\* Text that is given out before is given out first.
LEMMA RightBefore ==
    ASSUME NEW text \in Seq(Tokens), NEW o \in 1..Len(text) + 1, NEW k \in o..Len(text) + 1, NEW r,
           Right(text, k, r), r = [filter |-> r.filter, out |-> r.out],
           \A x \in Seq(Tokens) : First(text \o x, o) = First(text \o x, k)
    PROVE  LET next == Then(SubSeq(text, o, k - 1), r)
           IN  Right(text, o, next) /\ next = [filter |-> next.filter, out |-> next.out]
<1>. DEFINE next == Then(SubSeq(text, o, k - 1), r)
<1>1. next = [filter |-> r.filter, out |-> SubSeq(text, o, k - 1) \o r.out]
    <2>. DEFINE both == SubSeq(text, o, k - 1) \o r.out
    <2>1. next = [r EXCEPT !.out = both]
        BY DEF Then
    <2>. HIDE DEF both
    <2>2. next = [filter |-> r.filter, out |-> both]
        BY <2>1
    <2>. QED
        BY <2>2 DEF both
<1>2. Len(text) \in Nat /\ o \in Nat /\ k \in Nat
    BY LenProperties
<1>3. ASSUME NEW n \in k..Len(text) + 1
      PROVE  SubSeq(text, o, k - 1) \o SubSeq(text, k, n - 1) = SubSeq(text, o, n - 1)
    <2>. DEFINE j == k - 1
                m == n - 1
    <2>1. j \in o - 1..Len(text) /\ m \in j..Len(text) /\ k = j + 1
        BY <1>2
    <2>. HIDE DEF j, m
    <2>2. SubSeq(text, o, j) \o SubSeq(text, j + 1, m) = SubSeq(text, o, m)
        BY <2>1, ConcatAdjacentSubSeq
    <2>. QED
        BY <2>1, <2>2 DEF j, m
<1>4. next.filter = r.filter /\ next.out = SubSeq(text, o, k - 1) \o r.out
    BY <1>1
<1>. HIDE DEF next
<1>5. CASE r.filter.stopped
    <2>1. PICK p \in k..Len(text) : StopsAt(text, k, r, p)
        BY <1>5 DEF Right
    <2>2. p \in o..Len(text) /\ p \in k..Len(text) + 1
        BY <1>2
    <2>3. StopsAt(text, o, next, p)
        BY <1>3, <1>4, <2>1, <2>2 DEF StopsAt
    <2>. QED
        BY <1>1, <1>4, <1>5, <2>2, <2>3 DEF Right, next
<1>6. CASE ~r.filter.stopped
    <2>1. PICK n \in k..Len(text) + 1 : KeepsFrom(text, k, r, n)
        BY <1>6 DEF Right
    <2>2. n \in o..Len(text) + 1
        BY <1>2
    <2>3. KeepsFrom(text, o, next, n)
        BY <1>3, <1>4, <2>1 DEF KeepsFrom
    <2>. QED
        BY <1>1, <1>4, <1>6, <2>2, <2>3 DEF Right, next
<1>. QED
    BY <1>5, <1>6 DEF next

\* Everything from o on is kept back: in an open block, or behind the last tag.
LEMMA KeepsBlock ==
    ASSUME NEW text \in Seq(Tokens), NEW o \in 1..Len(text) + 1, Here(text, toolOpenTag, o),
           Index(text, toolCloseTag, o + 2) = 0
    PROVE  Right(text, o, Pushed(Holding(Rest(text, o), TRUE), <<>>))
<1>. DEFINE rest == SubSeq(text, o, Len(text))
            r == [filter |-> [pending |-> rest, inBlock |-> TRUE, stopped |-> FALSE], out |-> <<>>]
            n == Len(text)
<1>1. n \in Nat /\ o \in Nat \ {0} /\ o <= n - 1
    BY LenProperties DEF Here
<1>. HIDE DEF n
<1>2. /\ rest \in Seq(Tokens) /\ Len(rest) = n - o + 1
      /\ \A tag : \A i \in Nat : i >= 1 /\ i <= n - o => (Here(rest, tag, i) <=> Here(text, tag, o + i - 1))
    <2>1. n <= Len(text) /\ o <= n + 1
        BY <1>1 DEF n
    <2>2. LET part == SubSeq(text, o, n) IN
          /\ part \in Seq(Tokens) /\ Len(part) = n - o + 1
          /\ \A tag : \A i \in Nat : i >= 1 /\ i <= n - o => (Here(part, tag, i) <=> Here(text, tag, o + i - 1))
        BY <1>1, <2>1, HereInPart
    <2>. QED
        BY <2>2 DEF n
<1>3. Here(rest, toolOpenTag, 1)
    <2>1. 1 <= n - o /\ o + 1 - 1 = o
        BY <1>1
    <2>. HIDE DEF rest
    <2>2. Here(rest, toolOpenTag, 1) <=> Here(text, toolOpenTag, o + 1 - 1)
        BY <1>2, <2>1
    <2>. QED
        BY <2>1, <2>2
<1>4. Index(rest, toolCloseTag, 1) = 0
    <2>. HIDE DEF rest
    <2>. SUFFICES ASSUME NEW i \in Nat, i >= 1, Here(rest, toolCloseTag, i)
                  PROVE  FALSE
        BY <1>2, IndexIsNot DEF Tags
    <2>1. i <= n - o
        BY <1>1, <1>2 DEF Here
    <2>2. Here(text, toolCloseTag, o + i - 1)
        BY <1>2, <2>1
    <2>3. o + 2 \in Nat \ {0} /\ o + i - 1 \in Nat
        BY <1>1
    <2>4. ~(o + i - 1 >= o + 2)
        BY <2>2, <2>3, IndexFinds DEF Tags
    <2>5. o + i - 1 = o \/ o + i - 1 = o + 1
        BY <1>1, <2>4
    <2>6. /\ text[o] = "<" /\ text[o + 1] = "TOOL_CALL>"
          /\ text[o + i - 1] = "<" /\ text[(o + i - 1) + 1] = "/TOOL_CALL>"
        BY <2>2, TagsAreTwo DEF Here, Tags
    <2>. QED
        BY <2>5, <2>6
<1>5. r.filter \in Filters /\ ~r.filter.stopped
    BY <1>2 DEF Filters
<1>6. KeepsFrom(text, o, r, o)
    <2>1. SubSeq(text, o, o - 1) = <<>>
        BY <1>1, SubSeqEmpty
    <2>. QED
        BY <1>3, <1>4, <2>1 DEF KeepsFrom, Held
<1>7. o \in o..Len(text) + 1
    BY <1>1 DEF n
<1>8. Right(text, o, r)
    <2>. HIDE DEF r
    <2>. QED
        BY <1>5, <1>6, <1>7 DEF Right
<1>. QED
    BY <1>8 DEF Pushed, Holding, Rest

LEMMA KeepsPrefix ==
    ASSUME NEW text \in Seq(Tokens), NEW o \in 1..Len(text) + 1, Index(text, toolOpenTag, o) = 0
    PROVE  LET safe == Len(text) - possibleToolTagPrefix(Rest(text, o))
           IN  Right(text, o, Pushed(Holding(Rest(text, safe + 1), FALSE), SubSeq(text, o, safe)))
<1>. DEFINE n == Len(text)
            rest == SubSeq(text, o, n)
            safe == n - possibleToolTagPrefix(rest)
            r == [filter |-> [pending |-> SubSeq(text, safe + 1, n), inBlock |-> FALSE, stopped |-> FALSE],
                  out |-> SubSeq(text, o, safe)]
<1>1. n \in Nat /\ o \in Nat \ {0} /\ o <= n + 1 /\ \A i \in 1..n : text[i] \in Tokens
    BY LenProperties, ElementOfSeq
<1>2. \A i \in Nat : i >= o => ~Here(text, toolOpenTag, i)
    BY <1>1, IndexFinds DEF Tags
<1>3. /\ rest \in Seq(Tokens) /\ Len(rest) = n - o + 1
      /\ \A i \in 1..n - o + 1 : rest[i] = text[o + i - 1]
    <2>1. LET part == SubSeq(text, o, n) IN
          /\ part \in Seq(Tokens) /\ Len(part) = n - o + 1
          /\ \A i \in 1..n - o + 1 : part[i] = text[o + i - 1]
        BY <1>1, PartOf
    <2>. QED
        BY <2>1
<1>. HIDE DEF n, rest
<1>4. possibleToolTagPrefix(rest) = IF o <= n /\ text[n] = "<" THEN 1 ELSE 0
    <2>1. rest # <<>> <=> o <= n
        BY <1>1, <1>3, EmptySeq
    <2>2. o <= n => Len(rest) \in 1..n - o + 1 /\ o + Len(rest) - 1 = n
        BY <1>1, <1>3
    <2>3. o <= n => rest[Len(rest)] = text[n]
        BY <1>3, <2>2
    <2>. QED
        BY <1>3, <2>1, <2>3, PrefixIs
<1>5. safe = IF o <= n /\ text[n] = "<" THEN n - 1 ELSE n
    BY <1>1, <1>4
<1>. HIDE DEF safe
<1>6. safe \in Nat /\ safe + 1 \in o..n + 1 /\ safe + 1 \in Nat \ {0}
    BY <1>1, <1>5
<1>7. SubSeq(text, safe + 1, n) \in {<<>>, Less}
    <2>1. CASE safe = n
        BY <1>1, <2>1, SubSeqEmpty
    <2>2. CASE safe # n
        <3>1. safe + 1 = n /\ n \in 1..Len(text) /\ n \in n..Len(text) /\ text[n] = "<"
            BY <1>1, <1>5, <2>2 DEF n
        <3>. DEFINE m == n
        <3>2. SubSeq(text, n, n) = <<text[n]>> \o SubSeq(text, n + 1, n)
            BY <3>1, SubSeqRecursiveFirst
        <3>3. SubSeq(text, n + 1, n) = <<>> /\ Less \in Seq({"<"})
            BY <1>1, SubSeqEmpty DEF Less
        <3>4. Less \o <<>> = Less
            BY <3>3, ConcatEmptySeq
        <3>. QED
            BY <3>1, <3>2, <3>3, <3>4 DEF Less
    <2>. QED
        BY <2>1, <2>2
<1>8. ASSUME NEW x \in Seq(Tokens)
      PROVE  First(text \o x, o) = First(text \o x, safe + 1)
    <2>. DEFINE u == text \o x
    <2>1. u \in Seq(Tokens) /\ Len(u) >= n /\ \A i \in 1..n : u[i] = text[i]
        BY <1>1, Joined DEF n
    <2>2. ASSUME NEW i \in o..(safe + 1) - 1
          PROVE  ~Here(u, toolOpenTag, i)
        <3>1. i \in Nat /\ i >= o /\ i \in 1..n /\ i <= safe
            BY <1>1, <1>6
        <3>2. CASE i + 1 <= n
            <4>1. Here(u, toolOpenTag, i) <=> Here(text, toolOpenTag, i)
                BY <3>1, <3>2, HereBefore DEF n
            <4>. QED
                BY <1>2, <3>1, <4>1
        <3>3. CASE ~(i + 1 <= n)
            <4>1. i = n /\ o <= n /\ safe = n
                BY <1>1, <1>5, <3>1, <3>3
            <4>2. u[i] # "<"
                BY <1>1, <1>5, <2>1, <3>1, <4>1
            <4>. QED
                BY <4>2, TagsAreTwo DEF Here, Tags
        <3>. QED
            BY <3>2, <3>3
    <2>3. safe + 1 <= Len(u) + 1 /\ o <= safe + 1 /\ safe + 1 \in Nat
        BY <1>1, <1>6, <2>1, LenProperties
    <2>. HIDE DEF u
    <2>4. First(u, o) = First(u, safe + 1)
        BY <1>1, <2>1, <2>2, <2>3, FirstSkips
    <2>. QED
        BY <2>4 DEF u
<1>9. r.filter \in Filters /\ ~r.filter.stopped
    <2>1. Less \in Seq(Tokens) /\ <<>> \in Seq(Tokens)
        BY DEF Less, Tokens
    <2>2. SubSeq(text, safe + 1, n) \in Seq(Tokens)
        BY <1>7, <2>1
    <2>. QED
        BY <2>2 DEF Filters
<1>10. KeepsFrom(text, o, r, safe + 1)
    <2>1. (safe + 1) - 1 = safe
        BY <1>6
    <2>. QED
        BY <1>7, <1>8, <2>1 DEF KeepsFrom, Held, n
<1>11. Right(text, o, r)
    <2>. HIDE DEF r
    <2>. QED
        BY <1>6, <1>9, <1>10 DEF Right, n
<1>. QED
    BY <1>11 DEF Pushed, Holding, Rest, n, rest, safe

\* A block that is closed is the next one whatever follows.
LEMMA ClosedBlock ==
    ASSUME NEW text \in Seq(Tokens), NEW o \in 1..Len(text) + 1, Here(text, toolOpenTag, o),
           Index(text, toolCloseTag, o + 2) # 0
    PROVE  LET close == Index(text, toolCloseTag, o + 2)
               call == HasToolCall(SubSeq(text, o, close + 1))
           IN  /\ close \in Nat /\ close >= o + 2 /\ close + 1 <= Len(text)
               /\ call => \A x \in Seq(Tokens) : First(text \o x, o) = o
               /\ ~call => \A x \in Seq(Tokens) : First(text \o x, o) = First(text \o x, close + 2)
<1>. DEFINE close == CloseOf(text, o)
<1>1. o \in Nat \ {0} /\ Len(text) \in Nat
    BY LenProperties
<1>2. Index(text, toolOpenTag, o) = o
    <2>1. \A i \in o..o - 1 : ~Here(text, toolOpenTag, i)
        BY <1>1
    <2>. QED
        BY <1>1, <2>1, IndexIs DEF Tags
<1>3. close = Index(text, toolCloseTag, o + 2)
    BY <1>1, <1>2 DEF CloseOf
<1>4. close # 0
    BY <1>3
<1>5. close \in Nat /\ close >= o + 2 /\ close + 1 <= Len(text)
    BY <1>1, <1>2, <1>4, BlockIsHere
<1>6. HasToolCall(SubSeq(text, o, close + 1)) <=> Valid(BlockAt(text, o, close))
    BY <1>1, <1>4, CallInBlock
<1>7. ASSUME NEW x \in Seq(Tokens)
      PROVE  First(text \o x, o) = IF Valid(BlockAt(text, o, close)) THEN o ELSE First(text \o x, close + 2)
    <2>. DEFINE u == text \o x
    <2>1. u \in Seq(Tokens) /\ o \in 1..Len(u) + 1
        BY <1>1, Joined
    <2>2. /\ Index(u, toolOpenTag, o) = o /\ CloseOf(u, o) = close
          /\ BlockAt(u, o, close) = BlockAt(text, o, close)
        BY <1>1, <1>2, <1>4, BlockBefore
    <2>. HIDE DEF u, close
    <2>3. First(u, o) = IF Valid(BlockAt(u, o, close)) THEN o ELSE First(u, close + 2)
        BY <1>4, <2>1, <2>2, FirstIs
    <2>. QED
        BY <2>2, <2>3 DEF u
<1>. HIDE DEF close
<1>. QED
    BY <1>3, <1>5, <1>6, <1>7

Record(r) == r = [filter |-> r.filter, out |-> r.out]
Good(text, o, r) == Right(text, o, r) /\ Record(r)

LEMMA InBlockIsRight ==
    ASSUME NEW text \in Seq(Tokens), NEW o \in 1..Len(text) + 1, Here(text, toolOpenTag, o), NEW f,
           \A n \in 1..Len(text) + 1 : n > o => Good(text, n, f[<<n, FALSE>>])
    PROVE  Good(text, o, InBlock(f, text, o))
<1>. DEFINE close == Index(text, toolCloseTag, o + 2)
            block == SubSeq(text, o, close + 1)
            r == InBlock(f, text, o)
<1>1. o \in Nat \ {0} /\ Len(text) \in Nat /\ o \in 1..Len(text) - 1
    BY LenProperties DEF Here
<1>2. CASE close = 0
    <2>1. r = Pushed(Holding(Rest(text, o), TRUE), <<>>)
        BY <1>2 DEF InBlock
    <2>2. Right(text, o, r)
        BY <1>2, <2>1, KeepsBlock
    <2>3. Record(r)
        BY <2>1 DEF Pushed, Record
    <2>. QED
        BY <2>2, <2>3 DEF Good
<1>3. CASE close # 0 /\ HasToolCall(block)
    <2>1. r = [filter |-> [pending |-> <<>>, inBlock |-> TRUE, stopped |-> TRUE], out |-> <<>>]
        BY <1>3 DEF InBlock, Pushed, Stopped
    <2>2. \A x \in Seq(Tokens) : First(text \o x, o) = o
        BY <1>3, ClosedBlock
    <2>3. SubSeq(text, o, o - 1) = <<>> /\ o \in o..Len(text)
        BY <1>1, SubSeqEmpty
    <2>. HIDE DEF r, close
    <2>4. r.filter \in Filters /\ r.filter.stopped
        BY <2>1 DEF Filters
    <2>5. StopsAt(text, o, r, o)
        BY <2>1, <2>2, <2>3 DEF StopsAt
    <2>6. Right(text, o, r)
        BY <2>3, <2>4, <2>5 DEF Right
    <2>7. Record(r)
        BY <2>1 DEF Record
    <2>. QED
        BY <2>6, <2>7 DEF Good, r
<1>4. CASE close # 0 /\ ~HasToolCall(block)
    <2>. DEFINE k == close + 2
                next == f[<<k, FALSE>>]
    <2>1. /\ close \in Nat /\ close >= o + 2 /\ close + 1 <= Len(text)
          /\ \A x \in Seq(Tokens) : First(text \o x, o) = First(text \o x, k)
        BY <1>4, ClosedBlock
    <2>2. r = Then(SubSeq(text, o, k - 1), next)
        <3>1. k - 1 = close + 1
            BY <2>1
        <3>2. r = Then(block, next)
            BY <1>4 DEF InBlock
        <3>. HIDE DEF r, next, close, k
        <3>. QED
            BY <3>1, <3>2
    <2>. HIDE DEF r, close
    <2>3. k \in o..Len(text) + 1 /\ k \in 1..Len(text) + 1 /\ k > o
        BY <1>1, <2>1
    <2>. HIDE DEF k
    <2>4. Good(text, k, next)
        BY <2>3
    <2>. HIDE DEF next
    <2>5. Good(text, o, Then(SubSeq(text, o, k - 1), next))
        BY <2>1, <2>3, <2>4, RightBefore DEF Good, Record
    <2>. QED
        BY <2>2, <2>5 DEF r
<1>. QED
    BY <1>2, <1>3, <1>4

LEMMA OutsideIsRight ==
    ASSUME NEW text \in Seq(Tokens), NEW o \in 1..Len(text) + 1, NEW f,
           \A n \in 1..Len(text) + 1 : n >= o /\ Here(text, toolOpenTag, n) => Good(text, n, f[<<n, TRUE>>])
    PROVE  Good(text, o, Outside(f, text, o))
<1>. DEFINE open == Index(text, toolOpenTag, o)
            safe == Len(text) - possibleToolTagPrefix(Rest(text, o))
            r == Outside(f, text, o)
            kept == Pushed(Holding(Rest(text, safe + 1), FALSE), SubSeq(text, o, safe))
<1>1. o \in Nat \ {0} /\ Len(text) \in Nat
    BY LenProperties
<1>2. CASE open = 0
    <2>1. r = kept
        BY <1>2 DEF Outside
    <2>2. Right(text, o, kept)
        BY <1>2, KeepsPrefix
    <2>3. Record(kept)
        BY DEF Pushed, Record
    <2>. HIDE DEF kept
    <2>. QED
        BY <2>1, <2>2, <2>3 DEF Good
<1>3. CASE open # 0
    <2>. DEFINE next == f[<<open, TRUE>>]
    <2>1. /\ open \in Nat /\ open >= o /\ Here(text, toolOpenTag, open)
          /\ \A i \in o..open - 1 : ~Here(text, toolOpenTag, i)
        BY <1>1, <1>3, IndexFinds DEF Tags
    <2>2. r = Then(SubSeq(text, o, open - 1), next)
        BY <1>3 DEF Outside
    <2>. HIDE DEF r, open
    <2>3. open \in o..Len(text) + 1 /\ open \in 1..Len(text) + 1 /\ open \in 1..Len(text) - 1
        BY <1>1, <2>1 DEF Here
    <2>4. Good(text, open, next)
        BY <2>1, <2>3
    <2>5. ASSUME NEW x \in Seq(Tokens)
          PROVE  First(text \o x, o) = First(text \o x, open)
        <3>. DEFINE u == text \o x
        <3>1. u \in Seq(Tokens) /\ open <= Len(u) + 1
            BY <1>1, <2>3, Joined
        <3>2. ASSUME NEW i \in o..open - 1
              PROVE  ~Here(u, toolOpenTag, i)
            <4>1. i \in Nat /\ i + 1 <= Len(text)
                BY <1>1, <2>3
            <4>. QED
                BY <2>1, <4>1, HereBefore
        <3>. HIDE DEF u
        <3>3. First(u, o) = First(u, open)
            BY <1>1, <2>1, <3>1, <3>2, FirstSkips
        <3>. QED
            BY <3>3 DEF u
    <2>. HIDE DEF next
    <2>6. Good(text, o, Then(SubSeq(text, o, open - 1), next))
        BY <2>3, <2>4, <2>5, RightBefore DEF Good, Record
    <2>. QED
        BY <2>2, <2>6 DEF r
<1>. QED
    BY <1>2, <1>3

\* The loop ends up right from wherever it is entered.
LEMMA ScanIsRight ==
    ASSUME NEW text \in Seq(Tokens), NEW o \in 1..Len(text) + 1
    PROVE  /\ Right(text, o, Scan(text)[<<o, FALSE>>])
           /\ Here(text, toolOpenTag, o) => Right(text, o, Scan(text)[<<o, TRUE>>])
<1>. DEFINE size == Len(text)
            f == Scan(text)
            Fine(n) == /\ Good(text, n, f[<<n, FALSE>>])
                       /\ Here(text, toolOpenTag, n) => Good(text, n, f[<<n, TRUE>>])
            Has == {k \in Nat : \A n \in 1..size + 1 : n + k >= size + 1 => Fine(n)}
<1>1. size \in Nat
    BY LenProperties
<1>2. ScanFrom(f, text)
    BY ScanIs, ScanExists
<1>. HIDE DEF f
<1>3. \A n \in 1..size + 1 : f[<<n, TRUE>>] = InBlock(f, text, n) /\ f[<<n, FALSE>>] = Outside(f, text, n)
    BY <1>2 DEF ScanFrom
<1>. HIDE DEF size
<1>4. ASSUME NEW n \in 1..size + 1, \A m \in 1..size + 1 : m > n => Fine(m)
      PROVE  Fine(n)
    <2>1. ASSUME Here(text, toolOpenTag, n)
          PROVE  Good(text, n, f[<<n, TRUE>>])
        <3>1. Good(text, n, InBlock(f, text, n))
            BY <1>4, <2>1, InBlockIsRight DEF size
        <3>. QED
            BY <1>3, <3>1
    <2>2. \A m \in 1..size + 1 : m >= n /\ Here(text, toolOpenTag, m) => Good(text, m, f[<<m, TRUE>>])
        <3>1. \A m \in 1..size + 1 : m >= n => m > n \/ m = n
            BY <1>1
        <3>. QED
            BY <1>4, <2>1, <3>1
    <2>3. Good(text, n, Outside(f, text, n))
        BY <2>2, OutsideIsRight DEF size
    <2>. QED
        BY <1>3, <2>1, <2>3
<1>. HIDE DEF Fine
<1>5. 0 \in Has
    <2>1. \A n \in 1..size + 1 : n + 0 >= size + 1 => \A m \in 1..size + 1 : ~(m > n)
        BY <1>1
    <2>. QED
        BY <1>4, <2>1
<1>6. ASSUME NEW k \in Nat, k \in Has
      PROVE  k + 1 \in Has
    <2>. SUFFICES ASSUME NEW n \in 1..size + 1, n + (k + 1) >= size + 1
                  PROVE  Fine(n)
        OBVIOUS
    <2>1. \A m \in 1..size + 1 : m > n => m + k >= size + 1
        BY <1>1
    <2>. QED
        BY <1>4, <1>6, <2>1
<1>. HIDE DEF Has
<1>7. size \in Has
    BY <1>1, <1>5, <1>6, NatInSet
<1>8. o \in 1..size + 1 /\ o + size >= size + 1
    BY <1>1 DEF size
<1>9. Fine(o)
    BY <1>7, <1>8 DEF Has
<1>. QED
    BY <1>9 DEF Fine, f, Good

\* What is right for the end of a text is right for the text.
LEMMA RightAfter ==
    ASSUME NEW a \in Seq(Tokens), NEW text \in Seq(Tokens), NEW r, Right(text, 1, r),
           \A x \in Seq(Tokens) : First((a \o text) \o x, 1) = First((a \o text) \o x, Len(a) + 1)
    PROVE  Right(a \o text, 1, Pushed(r.filter, a \o r.out))
<1>. DEFINE u == a \o text
            k == Len(a) + 1
            s == Pushed(r.filter, r.out)
<1>1. /\ u \in Seq(Tokens) /\ Len(u) = Len(a) + Len(text) /\ Len(a) \in Nat /\ Len(text) \in Nat
      /\ k \in Nat \ {0}
    BY Joined
<1>2. s = [filter |-> r.filter, out |-> r.out]
    BY DEF Pushed
<1>. HIDE DEF s
<1>3. s.filter = r.filter /\ s.out = r.out
    BY <1>2
<1>4. ASSUME NEW x \in Seq(Tokens), NEW o \in 1..Len(text) + 1
      PROVE  First(u \o x, Len(a) + o) =
               IF First(text \o x, o) = 0 THEN 0 ELSE Len(a) + First(text \o x, o)
    <2>. DEFINE y == text \o x
    <2>1. y \in Seq(Tokens) /\ o \in 1..Len(y) + 1
        BY <1>1, Joined
    <2>2. u \o x = a \o y
        BY Regroup
    <2>. HIDE DEF u, y
    <2>3. First(a \o y, Len(a) + o) = IF First(y, o) = 0 THEN 0 ELSE Len(a) + First(y, o)
        BY <2>1, FirstAfter
    <2>. QED
        BY <2>2, <2>3 DEF y
<1>5. SubSeq(u, 1, k - 1) = a
    <2>1. SubSeq(u, 1, Len(a)) = SubSeq(a, 1, Len(a))
        BY <1>1, InsideBefore
    <2>2. k - 1 = Len(a)
        BY <1>1
    <2>. HIDE DEF u, k
    <2>. QED
        BY <2>1, <2>2, SubSeqFull
<1>6. ASSUME NEW n \in 0..Len(text)
      PROVE  SubSeq(u, k, Len(a) + n) = SubSeq(text, 1, n)
    BY <1>1, InsideAfter
<1>7. 1 \in 1..Len(text) + 1
    BY <1>1
<1>8. Right(u, k, s)
    <2>1. r.filter \in Filters
        BY DEF Right
    <2>2. CASE r.filter.stopped
        <3>1. PICK p \in 1..Len(text) : StopsAt(text, 1, r, p)
            BY <2>2 DEF Right
        <3>. DEFINE q == Len(a) + p
        <3>2. q \in k..Len(u) /\ q - 1 = Len(a) + (p - 1) /\ p - 1 \in 0..Len(text)
            BY <1>1
        <3>3. r.out = SubSeq(u, k, q - 1)
            <4>1. SubSeq(u, k, Len(a) + (p - 1)) = SubSeq(text, 1, p - 1)
                BY <1>6, <3>2
            <4>2. SubSeq(u, k, q - 1) = SubSeq(u, k, Len(a) + (p - 1))
                BY <3>2
            <4>. HIDE DEF u, k, q
            <4>. QED
                BY <3>1, <4>1, <4>2 DEF StopsAt
        <3>4. ASSUME NEW x \in Seq(Tokens)
              PROVE  First(u \o x, k) = q
            <4>1. First(text \o x, 1) = p
                BY <3>1 DEF StopsAt
            <4>2. First(u \o x, Len(a) + 1) =
                    IF First(text \o x, 1) = 0 THEN 0 ELSE Len(a) + First(text \o x, 1)
                BY <1>4, <1>7
            <4>3. p # 0
                OBVIOUS
            <4>. HIDE DEF u
            <4>. QED
                BY <4>1, <4>2, <4>3
        <3>. HIDE DEF u, k, q
        <3>5. StopsAt(u, k, s, q)
            BY <1>3, <3>1, <3>3, <3>4 DEF StopsAt
        <3>. QED
            BY <1>3, <2>2, <2>1, <3>2, <3>5 DEF Right
    <2>3. CASE ~r.filter.stopped
        <3>1. PICK m \in 1..Len(text) + 1 : KeepsFrom(text, 1, r, m)
            BY <2>3 DEF Right
        <3>. DEFINE n == Len(a) + m
        <3>2. n \in k..Len(u) + 1 /\ n - 1 = Len(a) + (m - 1) /\ m - 1 \in 0..Len(text) /\ m \in Nat \ {0}
            BY <1>1
        <3>3. r.out = SubSeq(u, k, n - 1)
            <4>1. SubSeq(u, k, Len(a) + (m - 1)) = SubSeq(text, 1, m - 1)
                BY <1>6, <3>2
            <4>2. SubSeq(u, k, n - 1) = SubSeq(u, k, Len(a) + (m - 1))
                BY <3>2
            <4>. HIDE DEF u, k, n
            <4>. QED
                BY <3>1, <4>1, <4>2 DEF KeepsFrom
        <3>4. r.filter.pending = SubSeq(u, n, Len(u))
            <4>1. SubSeq(u, Len(a) + m, Len(a) + Len(text)) = SubSeq(text, m, Len(text))
                BY <1>1, <3>2, InsideAfter
            <4>. QED
                BY <1>1, <3>1, <4>1 DEF KeepsFrom
        <3>5. ASSUME NEW x \in Seq(Tokens)
              PROVE  First(u \o x, k) = First(u \o x, n)
            <4>1. First(text \o x, 1) = First(text \o x, m)
                BY <3>1 DEF KeepsFrom
            <4>2. First(u \o x, Len(a) + 1) =
                    IF First(text \o x, 1) = 0 THEN 0 ELSE Len(a) + First(text \o x, 1)
                BY <1>4, <1>7
            <4>3. First(u \o x, Len(a) + m) =
                    IF First(text \o x, m) = 0 THEN 0 ELSE Len(a) + First(text \o x, m)
                BY <1>4
            <4>. HIDE DEF u
            <4>. QED
                BY <4>1, <4>2, <4>3
        <3>. HIDE DEF u, k, n
        <3>6. KeepsFrom(u, k, s, n)
            BY <1>3, <3>1, <3>3, <3>4, <3>5 DEF KeepsFrom
        <3>. QED
            BY <1>3, <2>3, <2>1, <3>2, <3>6 DEF Right
    <2>. QED
        BY <2>2, <2>3
<1>9. Then(SubSeq(u, 1, k - 1), s) = Pushed(r.filter, a \o r.out)
    <2>. DEFINE both == a \o r.out
    <2>1. Then(a, s) = [s EXCEPT !.out = both]
        <3>1. s.out = r.out
            BY <1>2
        <3>. QED
            BY <3>1 DEF Then
    <2>. HIDE DEF both
    <2>2. Then(a, s) = [filter |-> r.filter, out |-> both]
        BY <1>2, <2>1
    <2>. HIDE DEF s, u, k
    <2>. QED
        BY <1>5, <2>2 DEF Pushed, both
<1>10. 1 \in 1..Len(u) + 1 /\ k \in 1..Len(u) + 1
    BY <1>1
<1>11. \A x \in Seq(Tokens) : First(u \o x, 1) = First(u \o x, k)
    OBVIOUS
<1>12. s = [filter |-> s.filter, out |-> s.out]
    BY <1>2
<1>. HIDE DEF u, k, s
<1>13. Right(u, 1, Then(SubSeq(u, 1, k - 1), s))
    BY <1>1, <1>8, <1>10, <1>11, <1>12, RightBefore
<1>. QED
    BY <1>9, <1>13 DEF u

(***************************************************************************)
(* The end of a turn.                                                      *)
(***************************************************************************)
LEMMA OrdinaryIs ==
    ASSUME NEW text \in Seq(Tokens)
    PROVE  Ordinary(text) = IF First(text, 1) = 0 THEN text ELSE SubSeq(text, 1, First(text, 1) - 1)
<1>. DEFINE f == Blocks(text)
            S == Starts(text, 1)
<1>1. BlocksFrom(f, text)
    BY BlocksExist DEF Blocks
<1>2. 1 \in 1..Len(text) + 1
    BY LenProperties
<1>3. \A b \in Range(f[1]) : b.start \in Nat /\ b.start >= 1
    BY <1>1, <1>2, BlocksAreInOrder
<1>4. S \subseteq Nat /\ 0 \notin S
    BY <1>3 DEF Starts
<1>5. Ordinary(text) = IF S = {} THEN text ELSE SubSeq(text, 1, Min(S) - 1)
    BY FindsBlocks DEF Ordinary, Starts
<1>6. First(text, 1) = IF S = {} THEN 0 ELSE Min(S)
    BY DEF First
<1>. HIDE DEF S
<1>7. S # {} => Min(S) \in S
    BY <1>4, MinOfNats
<1>. QED
    BY <1>4, <1>5, <1>6, <1>7

\* There is no block in what is kept back.
LEMMA NothingHeld ==
    ASSUME NEW fl \in Filters, Held(fl)
    PROVE  First(fl.pending, 1) = 0
<1>. DEFINE t == fl.pending
            open == Index(t, toolOpenTag, 1)
            close == CloseOf(t, 1)
<1>1. t \in Seq(Tokens) /\ Len(t) \in Nat /\ 1 \in 1..Len(t) + 1
    BY LenProperties DEF Filters
<1>2. /\ open \in Nat /\ close \in Nat
      /\ close # 0 => open >= 1 /\ close >= open + 2 /\ close + 1 <= Len(t) /\ Here(t, toolCloseTag, close)
    BY <1>1, BlockIsHere
<1>3. close = 0
    <2>1. CASE fl.inBlock
        <3>1. \A i \in Nat : i >= 1 => ~Here(t, toolCloseTag, i)
            BY <1>1, <2>1, IndexFinds DEF Held, Tags
        <3>. HIDE DEF t, open, close
        <3>. QED
            BY <1>2, <3>1
    <2>2. CASE ~fl.inBlock
        <3>1. Len(t) \in {0, 1}
            <4>1. Len(Less) = 1
                BY DEF Less
            <4>2. t = Less \/ t = <<>>
                BY <2>2 DEF Held
            <4>3. t = <<>> => Len(t) = 0
                BY <1>1, EmptySeq
            <4>4. t = Less => Len(t) = 1
                BY <4>1
            <4>. HIDE DEF t
            <4>5. Len(t) = 0 \/ Len(t) = 1
                BY <4>2, <4>3, <4>4, Zenon
            <4>. QED
                BY <4>5
        <3>2. close # 0 => close >= 3 /\ close + 1 <= Len(t)
            BY <1>2
        <3>. DEFINE n == Len(t)
        <3>3. n \in {0, 1} /\ (close # 0 => close >= 3 /\ close + 1 <= n) /\ close \in Nat
            BY <1>2, <3>1, <3>2
        <3>. HIDE DEF t, close, n
        <3>. QED
            BY <3>3
    <2>. QED
        BY <2>1, <2>2
<1>. QED
    BY <1>1, <1>3, FirstIs

LEMMA RightIsOrdinary ==
    ASSUME NEW text \in Seq(Tokens), NEW r, Right(text, 1, r)
    PROVE  r.out \o Flush(r.filter) = Ordinary(text)
<1>1. \A p : First(text \o <<>>, p) = First(text, p)
    BY ConcatEmptySeq
<1>2. Len(text) \in Nat /\ <<>> \in Seq(Tokens) /\ r.filter \in Filters
    BY LenProperties DEF Right
<1>3. CASE r.filter.stopped
    <2>1. PICK p \in 1..Len(text) : StopsAt(text, 1, r, p)
        BY <1>3 DEF Right
    <2>2. First(text, 1) = p /\ p # 0 /\ p - 1 \in Nat /\ p - 1 <= Len(text)
        <3>1. First(text \o <<>>, 1) = p
            BY <1>2, <2>1 DEF StopsAt
        <3>. QED
            BY <1>1, <1>2, <3>1
    <2>3. r.out = SubSeq(text, 1, p - 1) /\ Flush(r.filter) = <<>>
        BY <1>3, <2>1 DEF StopsAt, Flush
    <2>4. SubSeq(text, 1, p - 1) \in Seq(Tokens)
        BY <2>2, HereInPart
    <2>. QED
        BY <2>2, <2>3, <2>4, ConcatEmptySeq, OrdinaryIs
<1>4. CASE ~r.filter.stopped
    <2>1. PICK n \in 1..Len(text) + 1 : KeepsFrom(text, 1, r, n)
        BY <1>4 DEF Right
    <2>. DEFINE a == SubSeq(text, 1, n - 1)
                b == SubSeq(text, n, Len(text))
    <2>2. r.out = a /\ Flush(r.filter) = b /\ r.filter.pending = b /\ Held(r.filter)
        BY <1>4, <2>1 DEF KeepsFrom, Flush
    <2>3. a \in Seq(Tokens) /\ b \in Seq(Tokens) /\ Len(a) = n - 1 /\ a \o b = text
        <3>. DEFINE k == n - 1
        <3>1. k \in Nat /\ n = k + 1 /\ k \in 1 - 1..Len(text) /\ Len(text) \in k..Len(text) /\ 1 \in 1..Len(text) + 1
            BY <1>2
        <3>. HIDE DEF k
        <3>2. SubSeq(text, 1, k) \o SubSeq(text, k + 1, Len(text)) = SubSeq(text, 1, Len(text))
            BY <3>1, ConcatAdjacentSubSeq
        <3>3. SubSeq(text, 1, k) \in Seq(Tokens) /\ Len(SubSeq(text, 1, k)) = k - 1 + 1
            BY <3>1, HereInPart
        <3>4. SubSeq(text, n, Len(text)) \in Seq(Tokens)
            BY <1>2, HereInPart
        <3>5. Len(SubSeq(text, 1, k)) = k
            BY <3>1, <3>3
        <3>6. a = SubSeq(text, 1, k)
            BY DEF k
        <3>7. a \o b = text
            BY <3>1, <3>2, <3>6, SubSeqFull
        <3>. QED
            BY <3>3, <3>4, <3>5, <3>6, <3>7 DEF k
    <2>. HIDE DEF a, b
    <2>4. First(text, 1) = First(text, n)
        BY <1>1, <1>2, <2>1 DEF KeepsFrom
    <2>5. First(b, 1) = 0
        BY <1>2, <2>2, NothingHeld
    <2>6. First(a \o b, Len(a) + 1) = 0
        <3>1. 1 \in 1..Len(b) + 1
            BY <2>3, LenProperties
        <3>. QED
            BY <2>3, <2>5, <3>1, FirstAfter
    <2>7. Len(a) + 1 = n
        BY <1>2, <2>3
    <2>8. First(text, 1) = 0
        BY <2>3, <2>4, <2>6, <2>7
    <2>. QED
        BY <2>2, <2>3, <2>8, OrdinaryIs
<1>. QED
    BY <1>3, <1>4

LEMMA HeldIsNeeded ==
    ASSUME NEW fl \in Filters, IF fl.stopped THEN fl.pending = <<>> ELSE Held(fl)
    PROVE  \/ IsStrictPrefix(fl.pending, toolOpenTag)
           \/ IsPrefix(toolOpenTag, fl.pending) /\ Index(fl.pending, toolCloseTag, 1) = 0
<1>. DEFINE t == fl.pending
<1>1. /\ toolOpenTag \in Seq(Tokens) /\ Len(toolOpenTag) = 2 /\ toolOpenTag[1] = "<"
      /\ t \in Seq(Tokens)
    BY TagsAreTwo DEF Tags, Filters
<1>2. CASE t = <<>>
    <2>1. Len(t) = 0 /\ SubSeq(t, 1, 0) = <<>> /\ SubSeq(toolOpenTag, 1, 0) = <<>>
        BY <1>2, SubSeqEmpty
    <2>. HIDE DEF t
    <2>2. Len(t) <= Len(toolOpenTag) /\ t # toolOpenTag
        BY <1>1, <2>1
    <2>3. SubSeq(t, 1, Len(t)) = SubSeq(toolOpenTag, 1, Len(t))
        BY <2>1
    <2>. QED
        BY <2>2, <2>3 DEF IsStrictPrefix, IsPrefix, t
<1>3. CASE t = Less
    <2>1. Len(t) = 1 /\ t[1] = "<"
        BY <1>3 DEF Less
    <2>2. SubSeq(t, 1, 1) = <<t[1]>> /\ SubSeq(toolOpenTag, 1, 1) = <<toolOpenTag[1]>>
        <3>1. Len(t) >= 1 /\ Len(toolOpenTag) >= 1
            BY <1>1, <2>1
        <3>. HIDE DEF t
        <3>. QED
            BY <1>1, <3>1, FirstOfSeq
    <2>. HIDE DEF t
    <2>3. SubSeq(t, 1, Len(t)) = SubSeq(toolOpenTag, 1, Len(t))
        BY <1>1, <2>1, <2>2
    <2>4. Len(t) <= Len(toolOpenTag) /\ t # toolOpenTag
        <3>1. Len(t) = 1 /\ Len(toolOpenTag) = 2
            BY <1>1, <2>1
        <3>. QED
            BY <3>1
    <2>. QED
        BY <2>3, <2>4 DEF IsStrictPrefix, IsPrefix, t
<1>4. CASE t # <<>> /\ t # Less
    <2>1. Here(t, toolOpenTag, 1) /\ Index(t, toolCloseTag, 1) = 0
        BY <1>4 DEF Held
    <2>2. 1 \in Nat \ {0} /\ 1 + 1 <= Len(t) /\ Len(t) \in Nat
        BY <1>1, <2>1, LenProperties DEF Here
    <2>. HIDE DEF t
    <2>3. SubSeq(t, 1, 1 + Len(toolOpenTag) - 1) = toolOpenTag
        BY <1>1, <2>1, <2>2, TagIsHere DEF Tags
    <2>4. 1 + Len(toolOpenTag) - 1 = Len(toolOpenTag)
        BY <1>1
    <2>5. SubSeq(toolOpenTag, 1, Len(toolOpenTag)) = toolOpenTag
        BY <1>1, SubSeqFull
    <2>6. IsPrefix(toolOpenTag, t)
        BY <1>1, <2>2, <2>3, <2>4, <2>5 DEF IsPrefix
    <2>. QED
        BY <2>1, <2>6 DEF t
<1>. QED
    BY <1>2, <1>3, <1>4

(***************************************************************************)
(* The invariant: between turns nothing is held, and in a turn the filter  *)
(* is right about all that upstream has said, however it was cut.          *)
(***************************************************************************)
Quiet ==
    /\ pc # "stream" => content = <<>>
    /\ pc # "stream" \/ ~client.stream => filter = NewFilter /\ released = <<>>
Streaming == client.stream /\ pc = "stream" => Right(content, 1, Pushed(filter, released))
EchoInv == client \in Clients /\ content \in Seq(Tokens) /\ Quiet /\ Streaming

LEMMA StartsRight == Right(<<>>, 1, Pushed(NewFilter, <<>>))
<1>. DEFINE fl == [pending |-> <<>>, inBlock |-> FALSE, stopped |-> FALSE]
            r == [filter |-> fl, out |-> <<>>]
<1>1. r.filter \in Filters /\ ~r.filter.stopped
    BY DEF Filters
<1>2. Held(r.filter) /\ r.filter.pending = <<>> /\ r.out = <<>>
    BY DEF Held
<1>3. SubSeq(<<>>, 1, Len(<<>>)) = <<>> /\ SubSeq(<<>>, 1, 1 - 1) = <<>> /\ 1 \in 1..Len(<<>>) + 1
    BY SubSeqEmpty
<1>. HIDE DEF r
<1>4. KeepsFrom(<<>>, 1, r, 1)
    BY <1>2, <1>3 DEF KeepsFrom
<1>5. Right(<<>>, 1, r)
    BY <1>1, <1>3, <1>4 DEF Right
<1>. QED
    BY <1>5 DEF r, Pushed, NewFilter

LEMMA PushIsRight ==
    ASSUME NEW text \in Seq(Tokens), NEW given, NEW fl, NEW fragment \in Seq(Tokens),
           Right(text, 1, Pushed(fl, given))
    PROVE  LET step == Push(fl, fragment)
           IN  Right(text \o fragment, 1, Pushed(step.filter, given \o step.out))
<1>. DEFINE r == Pushed(fl, given)
            step == Push(fl, fragment)
            u == text \o fragment
            g == Pushed(step.filter, given \o step.out)
<1>1. r.filter = fl /\ r.out = given /\ fl \in Filters
    BY DEF Right, Pushed
<1>2. Len(text) \in Nat /\ u \in Seq(Tokens) /\ Len(u) \in Nat /\ Len(u) >= Len(text)
    BY Joined, LenProperties
<1>3. ASSUME NEW x \in Seq(Tokens)
      PROVE  u \o x = text \o (fragment \o x) /\ fragment \o x \in Seq(Tokens)
    BY Joined, Regroup
<1>4. CASE fl.stopped
    <2>1. PICK p \in 1..Len(text) : StopsAt(text, 1, r, p)
        BY <1>1, <1>4 DEF Right
    <2>2. p - 1 \in Nat /\ p - 1 <= Len(text) /\ p \in 1..Len(u)
        BY <1>2
    <2>3. given \in Seq(Tokens) /\ given = SubSeq(text, 1, p - 1) /\ fl.pending = <<>>
        <3>1. SubSeq(text, 1, p - 1) \in Seq(Tokens)
            BY <2>2, HereInPart
        <3>. QED
            BY <1>1, <2>1, <3>1 DEF StopsAt
    <2>4. g.filter = fl /\ g.out = given
        <3>1. step = [filter |-> fl, out |-> <<>>]
            BY <1>4 DEF Push, Pushed
        <3>2. given \o step.out = given /\ step.filter = fl
            BY <2>3, <3>1, ConcatEmptySeq
        <3>. HIDE DEF step
        <3>. QED
            BY <3>2 DEF Pushed
    <2>5. SubSeq(u, 1, p - 1) = given
        BY <2>2, <2>3, InsideBefore
    <2>6. ASSUME NEW x \in Seq(Tokens)
          PROVE  First(u \o x, 1) = p
        BY <1>3, <2>1 DEF StopsAt
    <2>. HIDE DEF u, g
    <2>7. StopsAt(u, 1, g, p)
        BY <2>3, <2>4, <2>5, <2>6 DEF StopsAt
    <2>. QED
        BY <1>1, <1>4, <2>2, <2>4, <2>7 DEF Right, u, g
<1>5. CASE ~fl.stopped
    <2>1. PICK n \in 1..Len(text) + 1 : KeepsFrom(text, 1, r, n)
        BY <1>1, <1>5 DEF Right
    <2>. DEFINE k == n - 1
                kept == fl.pending
                whole == kept \o fragment
                next == Scan(whole)[<<1, fl.inBlock>>]
    <2>2. k \in Nat /\ n = k + 1 /\ k \in 1 - 1..Len(text) /\ Len(text) \in k..Len(text) /\ 1 \in 1..Len(text) + 1
        BY <1>2
    <2>3. given = SubSeq(text, 1, k) /\ kept = SubSeq(text, k + 1, Len(text)) /\ Held(fl)
        <3>1. given = SubSeq(text, 1, n - 1) /\ kept = SubSeq(text, n, Len(text)) /\ Held(fl)
            BY <1>1, <2>1 DEF KeepsFrom
        <3>. HIDE DEF kept
        <3>. QED
            BY <2>2, <3>1
    <2>. HIDE DEF k
    <2>4. given \in Seq(Tokens) /\ Len(given) = k /\ kept \in Seq(Tokens)
        <3>1. SubSeq(text, 1, k) \in Seq(Tokens) /\ Len(SubSeq(text, 1, k)) = k - 1 + 1
            BY <2>2, HereInPart
        <3>2. kept \in Seq(Tokens)
            BY <1>1 DEF Filters
        <3>. HIDE DEF kept
        <3>. QED
            BY <2>2, <2>3, <3>1, <3>2
    <2>5. text = given \o kept
        <3>1. SubSeq(text, 1, k) \o SubSeq(text, k + 1, Len(text)) = SubSeq(text, 1, Len(text))
            BY <2>2, ConcatAdjacentSubSeq
        <3>. HIDE DEF kept
        <3>. QED
            BY <2>3, <3>1, SubSeqFull
    <2>6. u = given \o whole
        <3>. HIDE DEF kept
        <3>1. (given \o kept) \o fragment = given \o (kept \o fragment)
            <4>1. given \in Seq(Tokens) /\ kept \in Seq(Tokens) /\ fragment \in Seq(Tokens)
                BY <2>4
            <4>. QED
                BY <4>1, Regroup
        <3>. QED
            BY <2>5, <3>1
    <2>7. whole \in Seq(Tokens) /\ 1 \in 1..Len(whole) + 1
        <3>. HIDE DEF kept
        <3>1. whole \in Seq(Tokens) /\ Len(whole) \in Nat
            BY <2>4, Joined, LenProperties
        <3>. QED
            BY <3>1
    <2>8. Right(whole, 1, next)
        <3>1. CASE fl.inBlock = TRUE
            <4>1. Here(kept, toolOpenTag, 1)
                BY <2>3, <3>1 DEF Held
            <4>. HIDE DEF kept
            <4>2. 1 + 1 <= Len(kept)
                BY <2>4, <4>1, LenProperties DEF Here
            <4>3. Here(whole, toolOpenTag, 1)
                BY <2>4, <4>1, <4>2, HereBefore
            <4>. HIDE DEF whole
            <4>4. Right(whole, 1, Scan(whole)[<<1, TRUE>>])
                BY <2>7, <4>3, ScanIsRight
            <4>. QED
                BY <3>1, <4>4
        <3>2. CASE fl.inBlock = FALSE
            <4>. HIDE DEF whole
            <4>1. Right(whole, 1, Scan(whole)[<<1, FALSE>>])
                BY <2>7, ScanIsRight
            <4>. QED
                BY <3>2, <4>1
        <3>. QED
            BY <1>1, <3>1, <3>2 DEF Filters
    <2>9. step = next
        BY <1>5 DEF Push
    <2>10. ASSUME NEW x \in Seq(Tokens)
           PROVE  First((given \o whole) \o x, 1) = First((given \o whole) \o x, Len(given) + 1)
        <3>1. First(text \o (fragment \o x), 1) = First(text \o (fragment \o x), n)
            BY <1>3, <2>1 DEF KeepsFrom
        <3>2. Len(given) + 1 = n
            BY <2>2, <2>4
        <3>3. (given \o whole) \o x = text \o (fragment \o x)
            BY <1>3, <2>6
        <3>. HIDE DEF whole
        <3>. QED
            BY <3>1, <3>2, <3>3
    <2>. HIDE DEF whole, next, step, u
    <2>11. Right(given \o whole, 1, Pushed(next.filter, given \o next.out))
        BY <2>4, <2>7, <2>8, <2>10, RightAfter
    <2>. QED
        BY <2>6, <2>9, <2>11 DEF u, step
<1>. QED
    BY <1>4, <1>5

LEMMA EchoInvInit == Init => EchoInv
<1>. SUFFICES ASSUME Init
              PROVE  EchoInv
    OBVIOUS
<1>. QED
    BY DEF Init, EchoInv, Quiet, Streaming

LEMMA EchoInvNext == EchoInv /\ [Next]_vars => EchoInv'
<1>. SUFFICES ASSUME EchoInv, [Next]_vars
              PROVE  EchoInv'
    OBVIOUS
<1>1. ASSUME NEW parts \in client.asks, Ask(parts)
      PROVE  EchoInv'
    BY <1>1 DEF Ask, EchoInv, Quiet, Streaming
<1>2. CASE Lookup
    <2>1. /\ pc = "lookup" /\ pc' = "stream" /\ client' = client
          /\ filter' = filter /\ content' = content /\ released' = released
        BY <1>2 DEF Lookup
    <2>2. filter = NewFilter /\ content = <<>> /\ released = <<>>
        BY <2>1 DEF EchoInv, Quiet
    <2>3. Right(content', 1, Pushed(filter', released'))
        BY <2>1, <2>2, StartsRight
    <2>. QED
        BY <2>1, <2>3 DEF EchoInv, Quiet, Streaming
<1>3. ASSUME NEW fragment \in client.fragments, Receive(fragment)
      PROVE  EchoInv'
    <2>. DEFINE step == Push(filter, fragment)
    <2>1. /\ pc = "stream" /\ pc' = "stream" /\ client' = client /\ content' = content \o fragment
          /\ client.stream => filter' = step.filter /\ released' = released \o step.out
          /\ ~client.stream => filter' = filter /\ released' = released
        BY <1>3 DEF Receive
    <2>2. fragment \in Seq(Tokens) /\ content \in Seq(Tokens) /\ client \in Clients
        BY ClientsAssumption DEF EchoInv
    <2>3. content' \in Seq(Tokens)
        BY <2>1, <2>2, Joined
    <2>4. ASSUME client.stream
          PROVE  Right(content', 1, Pushed(filter', released'))
        <3>1. Right(content, 1, Pushed(filter, released))
            BY <2>1, <2>4 DEF EchoInv, Streaming
        <3>2. Right(content \o fragment, 1, Pushed(step.filter, released \o step.out))
            BY <2>2, <3>1, PushIsRight
        <3>. HIDE DEF step
        <3>. QED
            BY <2>1, <2>4, <3>2
    <2>5. ~client.stream => filter' = NewFilter /\ released' = <<>>
        BY <2>1 DEF EchoInv, Quiet
    <2>. HIDE DEF step
    <2>6. Quiet'
        BY <2>1, <2>5 DEF Quiet
    <2>7. Streaming'
        BY <2>1, <2>4 DEF Streaming
    <2>. QED
        BY <2>1, <2>2, <2>3, <2>6, <2>7 DEF EchoInv
<1>4. CASE Answer
    <2>1. pc' = "idle" /\ client' = client /\ filter' = NewFilter /\ content' = <<>> /\ released' = <<>>
        BY <1>4 DEF Answer
    <2>. QED
        BY <2>1 DEF EchoInv, Quiet, Streaming
<1>5. CASE UNCHANGED vars
    BY <1>5 DEF vars, EchoInv, Quiet, Streaming
<1>. QED
    BY <1>1, <1>2, <1>3, <1>4, <1>5 DEF Next

LEMMA EchoInvAgrees == EchoInv => FilterAgrees
<1>. SUFFICES ASSUME EchoInv, client.stream, pc = "stream"
              PROVE  /\ released \o Flush(filter) = Ordinary(content)
                     /\ \/ IsStrictPrefix(filter.pending, toolOpenTag)
                        \/ /\ IsPrefix(toolOpenTag, filter.pending)
                           /\ Index(filter.pending, toolCloseTag, 1) = 0
    BY DEF FilterAgrees
<1>. DEFINE r == Pushed(filter, released)
<1>1. content \in Seq(Tokens) /\ Right(content, 1, r) /\ r.filter = filter /\ r.out = released
    BY DEF EchoInv, Streaming, Pushed
<1>2. filter \in Filters /\ IF filter.stopped THEN filter.pending = <<>> ELSE Held(filter)
    <2>. HIDE DEF r
    <2>. QED
        BY <1>1 DEF Right, StopsAt, KeepsFrom
<1>3. released \o Flush(filter) = Ordinary(content)
    BY <1>1, RightIsOrdinary
<1>. QED
    BY <1>2, <1>3, HeldIsNeeded

\* However a reply is cut into fragments, and wherever it ends, what a
\* streaming client is given is the text before the first valid block, once
\* and in order, and all of it if there is none; and no text is kept back
\* unless it is, or may become, a block (ToolCallStreamFilter.Push and Flush,
\* ParseToolCalls).
THEOREM FilterAndParserAgree == Spec => []FilterAgrees
BY EchoInvInit, EchoInvNext, EchoInvAgrees, PTL DEF Spec

(***************************************************************************)
(* What is read and written, by type.                                      *)
(***************************************************************************)
Protocols == {"chat", "anthropic", "responses"}
Messages ==
    {m \in [role: {"user", "assistant", "tool"}, text: Texts, calls: Seq(CallRecords),
            images: Nat, call: Bodies \cup {"none"}, name: Names] :
       /\ m.calls # <<>> => m.role = "assistant"
       /\ m.role = "tool" <=> m.call \in Bodies
       /\ m.name # <<>> => m.role = "tool"}

\* The calls and the items a client of that protocol may keep.
Kept(protocol) ==
    {c \in [type: {"function", "custom"}, id: Bodies, namespace: {<<>>, <<"ns">>}, name: Names,
            args: Bodies \cup {"{}", "x"}] : readCall(protocol, c) \in CallRecords}
Items(protocol) ==
    {x \in [role: {"user", "assistant", "tool", "call"}, text: Texts, calls: Seq(Kept(protocol)),
            parts: Seq({"text", "image", "link"}), call: Bodies \cup {"none"}] :
       /\ x.role = "call" => Len(x.calls) = 1
       /\ x.role = "tool" => x.call \in Bodies}

LEMMA NoBody == "none" \notin Bodies
BY BodiesAssumption

LEMMA MapTyped ==
    ASSUME NEW S, NEW T, NEW s \in Seq(S), NEW f, DOMAIN f = DOMAIN s, \A i \in DOMAIN s : f[i] \in T,
           f = [i \in DOMAIN s |-> f[i]]
    PROVE  f \in Seq(T) /\ Len(f) = Len(s)
<1>1. DOMAIN s = 1..Len(s) /\ Len(s) \in Nat
    BY LenProperties
<1>2. f \in [1..Len(s) -> T]
    BY <1>1
<1>. QED
    BY <1>1, <1>2

LEMMA UserMessageTyped ==
    ASSUME NEW parts \in Seq({"text", "image", "link"})
    PROVE  UserMessage(parts) \in Messages /\ UserMessage(parts).role = "user"
<1>. DEFINE n == Cardinality({i \in DOMAIN parts : parts[i] = "image"})
<1>1. n \in Nat
    <2>1. DOMAIN parts = 1..Len(parts) /\ Len(parts) \in Nat
        BY LenProperties
    <2>2. IsFiniteSet(1..Len(parts))
        BY <2>1, FS_Interval
    <2>3. IsFiniteSet({i \in DOMAIN parts : parts[i] = "image"})
        BY <2>1, <2>2, FS_Subset
    <2>. QED
        BY <2>3, FS_CardinalityType
<1>2. UserMessage(parts) = [role |-> "user", text |-> parts, calls |-> <<>>, images |-> n,
                            call |-> "none", name |-> <<>>]
    BY DEF UserMessage, Message
<1>. HIDE DEF n
<1>3. parts \in Texts
    <2>1. {"text", "image", "link"} \subseteq Tokens \cup {"text", "image", "link"}
        OBVIOUS
    <2>. QED
        BY <2>1 DEF Texts
<1>4. <<>> \in Seq(CallRecords) /\ <<>> \in Names
    BY DEF Names
<1>. QED
    BY <1>1, <1>2, <1>3, <1>4, NoBody DEF Messages

LEMMA MessageTyped ==
    ASSUME NEW text \in Texts, NEW calls \in Seq(CallRecords)
    PROVE  /\ Message("assistant", text, calls) \in Messages
           /\ Message("assistant", text, calls).role = "assistant"
<1>1. <<>> \in Names
    BY DEF Names
<1>2. Message("assistant", text, calls) =
        [role |-> "assistant", text |-> text, calls |-> calls, images |-> 0, call |-> "none",
         name |-> <<>>]
    BY DEF Message
<1>. QED
    BY <1>1, <1>2, NoBody DEF Messages

LEMMA ResultMessageTyped ==
    ASSUME NEW protocol, NEW ms \in Seq(Messages), NEW item \in Items(protocol), item.role = "tool"
    PROVE  /\ ResultMessage(protocol, ms, item) \in Messages
           /\ ResultMessage(protocol, ms, item).role = "tool"
<1>. DEFINE known == {c \in UNION {Range(ms[i].calls) : i \in DOMAIN ms} : c.id = item.call}
            name == IF protocol = "chat" THEN <<>>
                    ELSE IF known = {} THEN <<"tool">> ELSE (CHOOSE c \in known : TRUE).name
            m == [role |-> "tool", text |-> item.text, calls |-> <<>>, images |-> 0,
                  call |-> item.call, name |-> name]
<1>1. ResultMessage(protocol, ms, item) = m
    <2>1. ResultMessage(protocol, ms, item) =
            [Message("tool", item.text, <<>>) EXCEPT !.call = item.call, !.name = name]
        BY Zenon DEF ResultMessage
    <2>. HIDE DEF name
    <2>. QED
        BY <2>1 DEF Message
<1>2. known \subseteq CallRecords
    <2>1. ASSUME NEW i \in DOMAIN ms, NEW c \in Range(ms[i].calls)
          PROVE  c \in CallRecords
        <3>1. ms[i] \in Messages
            BY LenProperties, ElementOfSeq
        <3>2. ms[i].calls \in Seq(CallRecords)
            BY <3>1 DEF Messages
        <3>3. PICK j \in DOMAIN ms[i].calls : c = ms[i].calls[j]
            BY DEF Range
        <3>. QED
            BY <3>2, <3>3, LenProperties, ElementOfSeq
    <2>. QED
        BY <2>1
<1>3. name \in Names
    <2>1. <<>> \in Names /\ <<"tool">> \in Names
        BY DEF Names
    <2>2. known # {} => (CHOOSE c \in known : TRUE) \in known
        OBVIOUS
    <2>3. \A c \in CallRecords : c.name \in Names
        BY DEF CallRecords
    <2>. HIDE DEF known
    <2>. QED
        BY <1>2, <2>1, <2>2, <2>3
<1>. HIDE DEF known, name
<1>4. item.text \in Texts /\ item.call \in Bodies /\ <<>> \in Seq(CallRecords)
    BY DEF Items
<1>. QED
    BY <1>1, <1>3, <1>4, NoBody DEF Messages

LEMMA CallTyped ==
    ASSUME NEW ms \in Seq(Messages), NEW call \in CallRecords
    PROVE  appendResponseToolCall(ms, call) \in Seq(Messages)
<1>1. Len(ms) \in Nat /\ (ms # <<>> => Len(ms) \in 1..Len(ms))
    BY LenProperties, EmptySeq
<1>2. CASE ms # <<>> /\ Last(ms).role = "assistant"
    <2>. DEFINE n == Len(ms)
                a == ms[n]
                calls == Append(a.calls, call)
                b == [a EXCEPT !.calls = calls]
    <2>1. a \in Messages /\ a.role = "assistant"
        BY <1>1, <1>2, ElementOfSeq DEF Last
    <2>2. calls \in Seq(CallRecords)
        <3>1. a.calls \in Seq(CallRecords)
            BY <2>1 DEF Messages
        <3>. QED
            BY <3>1, AppendProperties
    <2>. HIDE DEF calls
    <2>3. b \in Messages
        BY <2>1, <2>2 DEF Messages
    <2>4. appendResponseToolCall(ms, call) = [ms EXCEPT ![n] = b]
        BY <1>2 DEF appendResponseToolCall, calls
    <2>. HIDE DEF a, b
    <2>. QED
        BY <1>1, <1>2, <2>3, <2>4, ExceptSeq
<1>3. CASE ~(ms # <<>> /\ Last(ms).role = "assistant")
    <2>. DEFINE one == <<call>>
                m == Message("assistant", <<>>, one)
    <2>1. one \in Seq(CallRecords) /\ <<>> \in Texts
        BY DEF Texts
    <2>2. appendResponseToolCall(ms, call) = Append(ms, m)
        BY <1>3, Zenon DEF appendResponseToolCall
    <2>. HIDE DEF one
    <2>3. m \in Messages
        BY <2>1, MessageTyped
    <2>. HIDE DEF m
    <2>. QED
        BY <2>2, <2>3, AppendProperties
<1>. QED
    BY <1>2, <1>3

LEMMA ReadItemTyped ==
    ASSUME NEW protocol, NEW ms \in Seq(Messages), NEW item \in Items(protocol)
    PROVE  readItem(protocol, ms, item) \in Seq(Messages)
<1>. DEFINE next == readItem(protocol, ms, item)
<1>1. /\ item.role \in {"user", "assistant", "tool", "call"} /\ item.text \in Texts
      /\ item.calls \in Seq(Kept(protocol)) /\ item.parts \in Seq({"text", "image", "link"})
      /\ item.role = "call" => Len(item.calls) = 1
    BY DEF Items
<1>2. \A c \in Kept(protocol) : readCall(protocol, c) \in CallRecords
    BY DEF Kept
<1>3. CASE item.role = "user"
    <2>1. next = Append(ms, UserMessage(item.parts))
        BY <1>3 DEF readItem
    <2>2. UserMessage(item.parts) \in Messages
        BY <1>1, UserMessageTyped
    <2>. QED
        BY <2>1, <2>2, AppendProperties
<1>4. CASE item.role = "tool"
    <2>1. next = Append(ms, ResultMessage(protocol, ms, item))
        BY <1>4 DEF readItem
    <2>2. ResultMessage(protocol, ms, item) \in Messages
        BY <1>4, ResultMessageTyped
    <2>. QED
        BY <2>1, <2>2, AppendProperties
<1>5. CASE item.role = "call"
    <2>1. next = appendResponseToolCall(ms, readCall(protocol, item.calls[1]))
        BY <1>5 DEF readItem
    <2>2. item.calls[1] \in Kept(protocol)
        BY <1>1, <1>5, ElementOfSeq
    <2>. QED
        BY <1>2, <2>1, <2>2, CallTyped
<1>6. CASE item.role = "assistant"
    <2>. DEFINE calls == [i \in DOMAIN item.calls |-> readCall(protocol, item.calls[i])]
    <2>1. next = Append(ms, Message("assistant", item.text, calls))
        BY <1>6, Zenon DEF readItem
    <2>2. calls \in Seq(CallRecords)
        <3>1. \A i \in DOMAIN item.calls : item.calls[i] \in Kept(protocol)
            BY <1>1, LenProperties, ElementOfSeq
        <3>2. \A i \in DOMAIN item.calls : calls[i] \in CallRecords
            BY <1>2, <3>1
        <3>3. DOMAIN calls = DOMAIN item.calls /\ calls = [i \in DOMAIN item.calls |-> calls[i]]
            OBVIOUS
        <3>. HIDE DEF calls
        <3>. QED
            BY <1>1, <3>2, <3>3, MapTyped
    <2>. HIDE DEF calls
    <2>3. Message("assistant", item.text, calls) \in Messages
        BY <1>1, <2>2, MessageTyped
    <2>. QED
        BY <2>1, <2>3, AppendProperties
<1>. QED
    BY <1>1, <1>3, <1>4, <1>5, <1>6

(***************************************************************************)
(* Reading a history item by item.                                         *)
(***************************************************************************)
\* A recursion over the numbers up to size exists.
Steps(G, V, size) == \A n \in 1..size : \A v \in V : G[n][v] \in V
Iteration(f, V, size, first, G) ==
    /\ \A n \in 0..size : f[n] \in V
    /\ f[0] = first /\ \A n \in 1..size : f[n] = G[n][f[n - 1]]

LEMMA Iterated ==
    ASSUME NEW V, NEW size \in Nat, NEW first \in V, NEW G, Steps(G, V, size)
    PROVE  \E f : Iteration(f, V, size, first, G)
<1>. USE DEF Steps
<1>. DEFINE Done(f, k) == f[0] = first /\ \A n \in 1..size : n <= k => f[n] = G[n][f[n - 1]]
            Has == {k \in Nat : k <= size => \E f \in [0..size -> V] : Done(f, k)}
<1>1. 0 \in Has
    <2>. DEFINE f == [n \in 0..size |-> first]
    <2>1. f \in [0..size -> V] /\ Done(f, 0)
        OBVIOUS
    <2>. QED
        BY <2>1
<1>2. ASSUME NEW k \in Nat, k \in Has
      PROVE  k + 1 \in Has
    <2>. SUFFICES ASSUME k + 1 <= size
                  PROVE  \E f \in [0..size -> V] : Done(f, k + 1)
        OBVIOUS
    <2>1. PICK f \in [0..size -> V] : Done(f, k)
        BY <1>2
    <2>. DEFINE v == G[k + 1][f[k]]
                h == [f EXCEPT ![k + 1] = v]
    <2>2. v \in V
        <3>1. k + 1 \in 1..size /\ f[k] \in V
            OBVIOUS
        <3>. QED
            BY <3>1
    <2>. HIDE DEF v
    <2>3. h \in [0..size -> V]
        BY <2>2
    <2>4. h[0] = first
        BY <2>1
    <2>5. ASSUME NEW n \in 1..size, n <= k + 1
          PROVE  h[n] = G[n][h[n - 1]]
        <3>1. n - 1 \in 0..size /\ n - 1 # k + 1 /\ h[n - 1] = f[n - 1]
            BY <2>5
        <3>2. CASE n = k + 1
            <4>1. h[n] = v /\ n - 1 = k
                BY <3>2
            <4>. HIDE DEF h
            <4>. QED
                BY <3>1, <3>2, <4>1 DEF v
        <3>3. CASE n # k + 1
            <4>1. n <= k /\ h[n] = f[n]
                BY <2>5, <3>3
            <4>. HIDE DEF h
            <4>. QED
                BY <2>1, <3>1, <4>1
        <3>. QED
            BY <3>2, <3>3
    <2>. HIDE DEF h
    <2>. QED
        BY <2>3, <2>4, <2>5
<1>. HIDE DEF Has
<1>3. size \in Has
    BY <1>1, <1>2, NatInSet
<1>4. PICK f \in [0..size -> V] : Done(f, size)
    BY <1>3 DEF Has
<1>. QED
    BY <1>4 DEF Iteration

Reading(f, protocol, items) ==
    f = [n \in 0..Len(items) |->
           IF n = 0 THEN <<>> ELSE readItem(protocol, f[n - 1], items[n])]

LEMMA ReadingExists ==
    ASSUME NEW protocol, NEW items \in Seq(Items(protocol))
    PROVE  \E f : Reading(f, protocol, items)
<1>. DEFINE size == Len(items)
            V == Seq(Messages)
            G == [n \in 1..size |-> [ms \in V |-> readItem(protocol, ms, items[n])]]
<1>1. size \in Nat /\ \A n \in 1..size : items[n] \in Items(protocol)
    BY LenProperties, ElementOfSeq
<1>2. <<>> \in V
    OBVIOUS
<1>3. \A ms \in V, n \in 1..size : readItem(protocol, ms, items[n]) \in V
    BY <1>1, ReadItemTyped
<1>4. \A n \in 1..size : \A ms \in V : G[n][ms] = readItem(protocol, ms, items[n])
    OBVIOUS
<1>5. \A n \in 1..size : \A ms \in V : G[n][ms] \in V
    BY <1>3, <1>4
<1>. DEFINE none == <<>>
<1>. HIDE DEF V, G, size
<1>6. PICK h : Iteration(h, V, size, none, G)
    <2>1. none \in V /\ size \in Nat /\ Steps(G, V, size)
        BY <1>1, <1>2, <1>5 DEF Steps
    <2>. HIDE DEF none
    <2>. QED
        BY <2>1, Iterated
<1>. DEFINE f == [n \in 0..size |-> h[n]]
<1>7. ASSUME NEW n \in 0..size
      PROVE  f[n] = IF n = 0 THEN <<>> ELSE readItem(protocol, f[n - 1], items[n])
    <2>1. CASE n = 0
        BY <1>6, <2>1 DEF Iteration
    <2>2. CASE n # 0
        <3>1. n \in 1..size /\ n - 1 \in 0..size
            BY <1>1, <2>2
        <3>2. h[n - 1] \in V /\ h[n] = G[n][h[n - 1]]
            BY <1>6, <3>1 DEF Iteration
        <3>3. h[n] = readItem(protocol, h[n - 1], items[n])
            BY <1>4, <3>1, <3>2
        <3>. QED
            BY <2>2, <3>1, <3>3
    <2>. QED
        BY <2>1, <2>2
<1>8. f = [n \in 0..size |-> f[n]]
    OBVIOUS
<1>. HIDE DEF f
<1>9. f = [n \in 0..size |-> IF n = 0 THEN <<>> ELSE readItem(protocol, f[n - 1], items[n])]
    BY <1>7, <1>8
<1>. QED
    BY <1>9 DEF Reading, size

LEMMA ChatRequestReads ==
    ASSUME NEW protocol, NEW items \in Seq(Items(protocol))
    PROVE  \E f : Reading(f, protocol, items) /\ chatRequest(protocol, items) = f[Len(items)]
<1>. DEFINE f == CHOOSE f : Reading(f, protocol, items)
<1>1. Reading(f, protocol, items)
    BY ReadingExists
<1>2. chatRequest(protocol, items) = f[Len(items)]
    BY DEF chatRequest, Reading
<1>. QED
    BY <1>1, <1>2

LEMMA ReadEmpty == \A protocol : chatRequest(protocol, <<>>) = <<>>
<1>. SUFFICES ASSUME NEW protocol
              PROVE  chatRequest(protocol, <<>>) = <<>>
    OBVIOUS
<1>. DEFINE none == <<>>
<1>1. none \in Seq(Items(protocol)) /\ Len(none) = 0
    OBVIOUS
<1>. HIDE DEF none
<1>2. PICK f : Reading(f, protocol, none) /\ chatRequest(protocol, none) = f[Len(none)]
    BY <1>1, ChatRequestReads
<1>. QED
    BY <1>1, <1>2 DEF Reading, none

LEMMA ReadAppend ==
    ASSUME NEW protocol, NEW items \in Seq(Items(protocol)), NEW item \in Items(protocol)
    PROVE  chatRequest(protocol, Append(items, item)) =
             readItem(protocol, chatRequest(protocol, items), item)
<1>. DEFINE longer == Append(items, item)
            size == Len(items)
<1>1. /\ longer \in Seq(Items(protocol)) /\ Len(longer) = size + 1 /\ size \in Nat
      /\ longer[size + 1] = item /\ \A n \in 1..size : longer[n] = items[n]
    BY LenProperties, AppendProperties
<1>2. PICK f : Reading(f, protocol, items) /\ chatRequest(protocol, items) = f[size]
    BY ChatRequestReads
<1>. HIDE DEF longer, size
<1>3. PICK g : Reading(g, protocol, longer) /\ chatRequest(protocol, longer) = g[size + 1]
    BY <1>1, ChatRequestReads
<1>4. \A n \in 0..size : f[n] = IF n = 0 THEN <<>> ELSE readItem(protocol, f[n - 1], items[n])
    BY <1>1, <1>2 DEF Reading, size
<1>5. \A n \in 0..size + 1 : g[n] = IF n = 0 THEN <<>> ELSE readItem(protocol, g[n - 1], longer[n])
    BY <1>1, <1>3 DEF Reading
<1>. DEFINE Same == {n \in Nat : n <= size => g[n] = f[n]}
<1>6. 0 \in Same
    BY <1>1, <1>4, <1>5
<1>7. ASSUME NEW n \in Nat, n \in Same
      PROVE  n + 1 \in Same
    <2>. SUFFICES ASSUME n + 1 <= size
                  PROVE  g[n + 1] = f[n + 1]
        OBVIOUS
    <2>. DEFINE k == n + 1
    <2>1. k \in 0..size /\ k \in 0..size + 1 /\ k \in 1..size /\ k # 0 /\ k - 1 = n
        BY <1>1
    <2>2. g[n] = f[n]
        BY <1>1, <1>7
    <2>. HIDE DEF k
    <2>3. f[k] = readItem(protocol, f[n], items[k])
        BY <1>4, <2>1
    <2>4. g[k] = readItem(protocol, g[n], longer[k])
        BY <1>5, <2>1
    <2>5. g[k] = f[k]
        BY <1>1, <2>1, <2>2, <2>3, <2>4
    <2>. QED
        BY <2>5 DEF k
<1>. HIDE DEF Same
<1>8. size \in Same
    BY <1>1, <1>6, <1>7, NatInSet
<1>9. g[size] = f[size]
    BY <1>1, <1>8 DEF Same
<1>10. g[size + 1] = readItem(protocol, g[size], item)
    <2>1. size + 1 \in 0..size + 1 /\ size + 1 # 0 /\ (size + 1) - 1 = size
        BY <1>1
    <2>. QED
        BY <1>1, <1>5, <2>1
<1>. QED
    BY <1>2, <1>3, <1>9, <1>10 DEF longer

LEMMA ChatRequestTyped ==
    ASSUME NEW protocol, NEW items \in Seq(Items(protocol))
    PROVE  chatRequest(protocol, items) \in Seq(Messages)
<1>. DEFINE S == {n \in Nat : \A s \in Seq(Items(protocol)) :
                                Len(s) = n => chatRequest(protocol, s) \in Seq(Messages)}
<1>1. 0 \in S
    <2>. SUFFICES ASSUME NEW s \in Seq(Items(protocol)), Len(s) = 0
                  PROVE  chatRequest(protocol, s) \in Seq(Messages)
        OBVIOUS
    <2>1. s = <<>> /\ <<>> \in Seq(Messages)
        BY EmptySeq
    <2>. QED
        BY <2>1, ReadEmpty
<1>2. ASSUME NEW n \in Nat, n \in S
      PROVE  n + 1 \in S
    <2>. SUFFICES ASSUME NEW s \in Seq(Items(protocol)), Len(s) = n + 1
                  PROVE  chatRequest(protocol, s) \in Seq(Messages)
        OBVIOUS
    <2>1. s # <<>>
        BY EmptySeq
    <2>2. PICK t \in Seq(Items(protocol)), x \in Items(protocol) : s = Append(t, x)
        BY <2>1, SequenceEmptyOrAppend
    <2>3. Len(t) = n
        BY <2>2, LenProperties, AppendProperties
    <2>. QED
        BY <1>2, <2>2, <2>3, ReadAppend, ReadItemTyped
<1>. HIDE DEF S
<1>3. Len(items) \in S
    BY <1>1, <1>2, NatInSet, LenProperties
<1>. QED
    BY <1>3 DEF S

\* Results and user messages are read as messages of their own.
Answers(protocol) == {x \in Items(protocol) : x.role \in {"user", "tool"}}

LEMMA ReadAnswer ==
    ASSUME NEW protocol, NEW ms \in Seq(Messages), NEW item \in Answers(protocol)
    PROVE  \E m \in Messages : /\ readItem(protocol, ms, item) = Append(ms, m)
                               /\ m.role \in {"user", "tool"}
<1>1. CASE item.role = "user"
    <2>1. readItem(protocol, ms, item) = Append(ms, UserMessage(item.parts))
        BY <1>1 DEF readItem
    <2>2. UserMessage(item.parts) \in Messages /\ UserMessage(item.parts).role = "user"
        BY UserMessageTyped DEF Answers, Items
    <2>. QED
        BY <2>1, <2>2
<1>2. CASE item.role = "tool"
    <2>1. readItem(protocol, ms, item) = Append(ms, ResultMessage(protocol, ms, item))
        BY <1>2 DEF readItem
    <2>2. /\ ResultMessage(protocol, ms, item) \in Messages
          /\ ResultMessage(protocol, ms, item).role = "tool"
        BY <1>2, ResultMessageTyped DEF Answers
    <2>. QED
        BY <2>1, <2>2
<1>. QED
    BY <1>1, <1>2 DEF Answers

\* after is before and n messages that are not the assistant's.
Longer(before, after, n) ==
    /\ Len(after) = Len(before) + n
    /\ \A i \in 1..Len(before) : after[i] = before[i]
    /\ \A i \in Len(before) + 1..Len(after) : after[i].role # "assistant"

LEMMA ReadAnswers ==
    ASSUME NEW protocol, NEW items \in Seq(Items(protocol)), NEW more \in Seq(Answers(protocol))
    PROVE  /\ items \o more \in Seq(Items(protocol))
           /\ Longer(chatRequest(protocol, items), chatRequest(protocol, items \o more), Len(more))
<1>. DEFINE A == Answers(protocol)
            I == Items(protocol)
            before == chatRequest(protocol, items)
            Read(s) == /\ items \o s \in Seq(I)
                       /\ Longer(before, chatRequest(protocol, items \o s), Len(s))
            S == {n \in Nat : \A s \in Seq(A) : Len(s) = n => Read(s)}
<1>1. before \in Seq(Messages) /\ Len(before) \in Nat
    BY ChatRequestTyped, LenProperties
<1>2. 0 \in S
    <2>. SUFFICES ASSUME NEW s \in Seq(A), Len(s) = 0
                  PROVE  Read(s)
        OBVIOUS
    <2>1. s = <<>>
        BY EmptySeq
    <2>2. items \o s = items
        BY <2>1, ConcatEmptySeq
    <2>. HIDE DEF before
    <2>3. Longer(before, before, 0)
        BY <1>1 DEF Longer
    <2>. QED
        BY <2>2, <2>3 DEF before
<1>3. ASSUME NEW n \in Nat, n \in S
      PROVE  n + 1 \in S
    <2>. SUFFICES ASSUME NEW s \in Seq(A), Len(s) = n + 1
                  PROVE  Read(s)
        OBVIOUS
    <2>1. s # <<>>
        BY EmptySeq
    <2>2. PICK t \in Seq(A), x \in A : s = Append(t, x)
        BY <2>1, SequenceEmptyOrAppend
    <2>3. Len(t) = n
        BY <2>2, LenProperties, AppendProperties
    <2>. DEFINE u == items \o t
                mid == chatRequest(protocol, u)
    <2>4. u \in Seq(I) /\ Longer(before, mid, n)
        BY <1>3, <2>3
    <2>5. x \in I
        BY DEF Answers
    <2>6. items \o s = Append(u, x) /\ Append(u, x) \in Seq(I)
        <3>1. t \in Seq(I)
            <4>1. A \subseteq I
                BY DEF Answers
            <4>. HIDE DEF A, I
            <4>. QED
                BY <4>1
        <3>. HIDE DEF I, A
        <3>2. Append(t, x) = t \o <<x>> /\ Append(u, x) = u \o <<x>> /\ <<x>> \in Seq(I)
            BY <2>4, <2>5, <3>1, AppendIsConcat
        <3>3. u \o <<x>> = items \o (t \o <<x>>)
            <4>. DEFINE one == <<x>>
            <4>1. one \in Seq(I)
                BY <3>2
            <4>. HIDE DEF one
            <4>2. (items \o t) \o one = items \o (t \o one)
                BY <3>1, <4>1, ConcatAssociative, SMTT(30)
            <4>. QED
                BY <4>2 DEF one
        <3>. HIDE DEF u
        <3>4. Append(u, x) \in Seq(I)
            BY <2>4, <2>5, AppendProperties
        <3>. QED
            BY <2>2, <3>2, <3>3, <3>4
    <2>7. chatRequest(protocol, Append(u, x)) = readItem(protocol, mid, x)
        <3>. HIDE DEF u
        <3>. QED
            BY <2>4, <2>5, ReadAppend
    <2>8. mid \in Seq(Messages) /\ Len(mid) \in Nat
        <3>. HIDE DEF u
        <3>. QED
            BY <2>4, ChatRequestTyped, LenProperties
    <2>. HIDE DEF mid, u, before
    <2>9. PICK m \in Messages : readItem(protocol, mid, x) = Append(mid, m) /\ m.role \in {"user", "tool"}
        BY <2>8, ReadAnswer
    <2>. DEFINE after == Append(mid, m)
    <2>10. /\ Len(after) = Len(mid) + 1 /\ after[Len(mid) + 1] = m
           /\ \A i \in 1..Len(mid) : after[i] = mid[i]
        BY <2>8, AppendProperties
    <2>. HIDE DEF after
    <2>11. Longer(before, after, n + 1)
        <3>1. Len(mid) = Len(before) + n
            BY <2>4 DEF Longer
        <3>2. Len(after) = Len(before) + (n + 1)
            BY <1>1, <2>10, <3>1
        <3>3. \A i \in 1..Len(before) : after[i] = before[i]
            BY <1>1, <2>4, <2>10, <3>1 DEF Longer
        <3>4. ASSUME NEW i \in Len(before) + 1..Len(after)
              PROVE  after[i].role # "assistant"
            <4>1. CASE i = Len(mid) + 1
                BY <2>9, <2>10, <4>1
            <4>2. CASE i # Len(mid) + 1
                <5>1. Len(after) = Len(mid) + 1
                    BY <2>10
                <5>. DEFINE a == Len(before)
                            b == Len(mid)
                <5>2. a \in Nat /\ b \in Nat /\ b >= a /\ i \in a + 1..b + 1 /\ i # b + 1
                    BY <1>1, <2>8, <3>1, <4>2, <5>1
                <5>. HIDE DEF a, b
                <5>3. i \in 1..b /\ i \in a + 1..b
                    BY <5>2
                <5>. QED
                    BY <2>4, <2>10, <5>3 DEF Longer, a, b
            <4>. QED
                BY <4>1, <4>2
        <3>. QED
            BY <3>2, <3>3, <3>4 DEF Longer
    <2>. QED
        BY <2>6, <2>7, <2>9, <2>11 DEF after
<1>. HIDE DEF S, Read
<1>4. Len(more) \in S
    BY <1>2, <1>3, NatInSet, LenProperties
<1>5. Read(more)
    BY <1>4 DEF S
<1>. QED
    BY <1>5 DEF Read

(***************************************************************************)
(* Reading what a client was given.                                        *)
(***************************************************************************)
CallItem(c) == Item("call", <<>>, <<c>>)
CallItems(cs) == [i \in DOMAIN cs |-> CallItem(cs[i])]
ReadCalls(protocol, cs) == [i \in DOMAIN cs |-> readCall(protocol, cs[i])]

LEMMA CallItemTyped ==
    ASSUME NEW protocol, NEW c \in Kept(protocol)
    PROVE  /\ CallItem(c) \in Items(protocol)
           /\ \A ms : readItem(protocol, ms, CallItem(c)) =
                        appendResponseToolCall(ms, readCall(protocol, c))
<1>. DEFINE K == Kept(protocol)
            one == <<c>>
            item == [role |-> "call", text |-> <<>>, calls |-> one, parts |-> <<>>, call |-> "none"]
<1>1. CallItem(c) = item
    BY DEF CallItem, Item
<1>2. one \in Seq(K) /\ Len(one) = 1 /\ one[1] = c
    OBVIOUS
<1>3. <<>> \in Texts /\ <<>> \in Seq({"text", "image", "link"})
    BY DEF Texts
<1>. HIDE DEF one, K
<1>4. item \in Items(protocol)
    BY <1>2, <1>3 DEF Items, K
<1>5. ASSUME NEW ms
      PROVE  readItem(protocol, ms, item) = appendResponseToolCall(ms, readCall(protocol, c))
    BY <1>2 DEF readItem
<1>. QED
    BY <1>1, <1>4, <1>5

LEMMA CallItemsTyped ==
    ASSUME NEW protocol, NEW cs \in Seq(Kept(protocol))
    PROVE  /\ CallItems(cs) \in Seq(Items(protocol)) /\ Len(CallItems(cs)) = Len(cs)
           /\ ReadCalls(protocol, cs) \in Seq(CallRecords) /\ Len(ReadCalls(protocol, cs)) = Len(cs)
<1>. DEFINE f == CallItems(cs)
            g == ReadCalls(protocol, cs)
<1>1. \A i \in DOMAIN cs : cs[i] \in Kept(protocol)
    BY LenProperties, ElementOfSeq
<1>2. \A i \in DOMAIN cs : f[i] \in Items(protocol)
    BY <1>1, CallItemTyped DEF CallItems
<1>3. \A i \in DOMAIN cs : g[i] \in CallRecords
    BY <1>1 DEF ReadCalls, Kept
<1>4. /\ DOMAIN f = DOMAIN cs /\ f = [i \in DOMAIN cs |-> f[i]]
      /\ DOMAIN g = DOMAIN cs /\ g = [i \in DOMAIN cs |-> g[i]]
    BY DEF CallItems, ReadCalls
<1>. HIDE DEF f, g
<1>5. f \in Seq(Items(protocol)) /\ Len(f) = Len(cs)
    BY <1>2, <1>4, MapTyped
<1>6. g \in Seq(CallRecords) /\ Len(g) = Len(cs)
    BY <1>3, <1>4, MapTyped
<1>. QED
    BY <1>5, <1>6 DEF f, g

LEMMA CallItemsAppend ==
    ASSUME NEW protocol, NEW cs \in Seq(Kept(protocol)), NEW c \in Kept(protocol)
    PROVE  /\ CallItems(Append(cs, c)) = Append(CallItems(cs), CallItem(c))
           /\ ReadCalls(protocol, Append(cs, c)) =
                Append(ReadCalls(protocol, cs), readCall(protocol, c))
<1>. DEFINE K == Kept(protocol)
            longer == Append(cs, c)
            n == Len(cs)
<1>1. /\ longer \in Seq(K) /\ Len(longer) = n + 1 /\ n \in Nat /\ longer[n + 1] = c
      /\ \A i \in 1..n : longer[i] = cs[i]
      /\ DOMAIN longer = 1..n + 1 /\ DOMAIN cs = 1..n
    BY LenProperties, AppendProperties
<1>. DEFINE f == CallItems(longer)
            g == ReadCalls(protocol, longer)
<1>2. /\ f \in Seq(Items(protocol)) /\ Len(f) = n + 1
      /\ g \in Seq(CallRecords) /\ Len(g) = n + 1
    <2>. HIDE DEF longer
    <2>. QED
        BY <1>1, CallItemsTyped
<1>3. /\ \A i \in 1..n : f[i] = CallItem(cs[i]) /\ g[i] = readCall(protocol, cs[i])
      /\ f[n + 1] = CallItem(c) /\ g[n + 1] = readCall(protocol, c)
    <2>. HIDE DEF longer, n
    <2>. QED
        BY <1>1 DEF CallItems, ReadCalls
<1>. DEFINE a == Append(CallItems(cs), CallItem(c))
            b == Append(ReadCalls(protocol, cs), readCall(protocol, c))
<1>4. CallItem(c) \in Items(protocol) /\ readCall(protocol, c) \in CallRecords
    BY CallItemTyped DEF Kept
<1>5. /\ a \in Seq(Items(protocol)) /\ Len(a) = n + 1 /\ a[n + 1] = CallItem(c)
      /\ \A i \in 1..n : a[i] = CallItems(cs)[i]
    BY <1>4, CallItemsTyped, AppendProperties
<1>6. /\ b \in Seq(CallRecords) /\ Len(b) = n + 1 /\ b[n + 1] = readCall(protocol, c)
      /\ \A i \in 1..n : b[i] = ReadCalls(protocol, cs)[i]
    BY <1>4, CallItemsTyped, AppendProperties
<1>7. \A i \in 1..n : CallItems(cs)[i] = CallItem(cs[i]) /\ ReadCalls(protocol, cs)[i] = readCall(protocol, cs[i])
    BY <1>1 DEF CallItems, ReadCalls
<1>. HIDE DEF a, b, f, g, longer, n
<1>8. \A i \in 1..n + 1 : f[i] = a[i] /\ g[i] = b[i]
    BY <1>1, <1>3, <1>5, <1>6, <1>7
<1>9. f = a
    BY <1>2, <1>5, <1>8, SeqEqual
<1>10. g = b
    BY <1>2, <1>6, <1>8, SeqEqual
<1>. QED
    BY <1>9, <1>10 DEF f, g, a, b, longer

\* A call joins the message of the assistant before it.
LEMMA CallJoins ==
    ASSUME NEW R \in Seq(Messages), NEW text \in Texts, NEW calls \in Seq(CallRecords),
           NEW call \in CallRecords
    PROVE  appendResponseToolCall(Append(R, Message("assistant", text, calls)), call) =
             Append(R, Message("assistant", text, Append(calls, call)))
<1>. DEFINE A == Message("assistant", text, calls)
            more == Append(calls, call)
            B == Message("assistant", text, more)
            ms == Append(R, A)
            n == Len(R)
<1>1. A \in Messages /\ A.role = "assistant" /\ A.calls = calls
    BY MessageTyped DEF Message
<1>2. more \in Seq(CallRecords)
    BY AppendProperties
<1>3. [A EXCEPT !.calls = more] = B
    <2>. HIDE DEF more
    <2>. QED
        BY DEF Message
<1>. HIDE DEF more
<1>4. B \in Messages
    BY <1>2, MessageTyped
<1>. HIDE DEF A, B
<1>5. /\ ms \in Seq(Messages) /\ ms # <<>> /\ Len(ms) = n + 1 /\ n \in Nat /\ ms[n + 1] = A
      /\ \A i \in 1..n : ms[i] = R[i]
    BY <1>1, LenProperties, AppendProperties
<1>6. /\ Append(R, B) \in Seq(Messages) /\ Len(Append(R, B)) = n + 1 /\ Append(R, B)[n + 1] = B
      /\ \A i \in 1..n : Append(R, B)[i] = R[i]
    BY <1>4, AppendProperties
<1>. HIDE DEF ms, n
<1>. DEFINE k == n + 1
            ns == [ms EXCEPT ![k] = B]
            rs == Append(R, B)
<1>7. appendResponseToolCall(ms, call) = ns
    <2>1. Last(ms).role = "assistant"
        BY <1>1, <1>5 DEF Last
    <2>2. [ms EXCEPT ![Len(ms)].calls = Append(@, call)] = [ms EXCEPT ![k] = [A EXCEPT !.calls = more]]
        BY <1>1, <1>5 DEF more
    <2>. QED
        BY <1>3, <1>5, <2>1, <2>2 DEF appendResponseToolCall
<1>8. k \in 1..Len(ms) /\ k = Len(ms)
    BY <1>5
<1>. HIDE DEF k
<1>9. ns \in Seq(Messages) /\ Len(ns) = Len(ms) /\ \A j \in 1..Len(ms) : ns[j] = IF j = k THEN B ELSE ms[j]
    BY <1>4, <1>5, <1>8, ExceptSeq
<1>. HIDE DEF ns, rs
<1>10. \A j \in 1..Len(ns) : ns[j] = rs[j]
    BY <1>5, <1>6, <1>8, <1>9 DEF k, rs
<1>11. ns = rs
    BY <1>5, <1>6, <1>9, <1>10, SeqEqual DEF rs
<1>. QED
    BY <1>7, <1>11 DEF rs, B, A, ms, more

\* A message before the calls, or the first of them, begins the message.
Begins(protocol, base, R, text, whole) ==
    IF whole THEN chatRequest(protocol, base) = Append(R, Message("assistant", text, <<>>))
             ELSE /\ chatRequest(protocol, base) = R /\ text = <<>>
                  /\ R # <<>> => Last(R).role # "assistant"

LEMMA CallsRead ==
    ASSUME NEW protocol, NEW base \in Seq(Items(protocol)), NEW R \in Seq(Messages),
           NEW text \in Texts, NEW whole \in BOOLEAN, Begins(protocol, base, R, text, whole),
           NEW cs \in Seq(Kept(protocol)), whole \/ cs # <<>>
    PROVE  /\ base \o CallItems(cs) \in Seq(Items(protocol))
           /\ chatRequest(protocol, base \o CallItems(cs)) =
                Append(R, Message("assistant", text, ReadCalls(protocol, cs)))
<1>. DEFINE K == Kept(protocol)
            I == Items(protocol)
            Read(s) == chatRequest(protocol, base \o CallItems(s)) =
                         Append(R, Message("assistant", text, ReadCalls(protocol, s)))
            S == {n \in Nat : \A s \in Seq(K) : Len(s) = n /\ (whole \/ s # <<>>) => Read(s)}
<1>1. ASSUME NEW s \in Seq(K)
      PROVE  base \o CallItems(s) \in Seq(I)
    BY CallItemsTyped, ConcatProperties
<1>2. ASSUME NEW s \in Seq(K), s = <<>>
      PROVE  base \o CallItems(s) = base /\ ReadCalls(protocol, s) = <<>>
    <2>1. CallItems(s) \in Seq(I) /\ Len(CallItems(s)) = 0 /\ Len(ReadCalls(protocol, s)) = 0
          /\ ReadCalls(protocol, s) \in Seq(CallRecords)
        BY <1>2, CallItemsTyped
    <2>2. CallItems(s) = <<>> /\ ReadCalls(protocol, s) = <<>>
        BY <2>1, EmptySeq
    <2>. QED
        BY <2>2, ConcatEmptySeq
<1>3. 0 \in S
    <2>. SUFFICES ASSUME NEW s \in Seq(K), Len(s) = 0, whole \/ s # <<>>
                  PROVE  Read(s)
        OBVIOUS
    <2>1. s = <<>> /\ whole
        BY EmptySeq
    <2>2. base \o CallItems(s) = base /\ ReadCalls(protocol, s) = <<>>
        BY <1>2, <2>1
    <2>. QED
        BY <2>1, <2>2 DEF Begins
<1>4. ASSUME NEW n \in Nat, n \in S
      PROVE  n + 1 \in S
    <2>. SUFFICES ASSUME NEW s \in Seq(K), Len(s) = n + 1
                  PROVE  Read(s)
        OBVIOUS
    <2>1. s # <<>>
        BY EmptySeq
    <2>2. PICK t \in Seq(K), c \in K : s = Append(t, c)
        BY <2>1, SequenceEmptyOrAppend
    <2>3. Len(t) = n
        BY <2>2, LenProperties, AppendProperties
    <2>. DEFINE u == base \o CallItems(t)
                x == CallItem(c)
                call == readCall(protocol, c)
                calls == ReadCalls(protocol, t)
    <2>4. u \in Seq(I) /\ x \in I /\ call \in CallRecords /\ calls \in Seq(CallRecords)
        BY <1>1, CallItemTyped, CallItemsTyped DEF Kept
    <2>5. CallItems(s) = Append(CallItems(t), x) /\ ReadCalls(protocol, s) = Append(calls, call)
        BY <2>2, CallItemsAppend
    <2>6. base \o CallItems(s) = Append(u, x)
        <3>. DEFINE one == <<x>>
                    y == CallItems(t)
        <3>1. y \in Seq(I) /\ one \in Seq(I)
            BY <2>4, CallItemsTyped
        <3>2. Append(y, x) = y \o one /\ Append(base \o y, x) = (base \o y) \o one
            BY <2>4, <3>1, AppendIsConcat
        <3>. HIDE DEF y, one, x
        <3>3. (base \o y) \o one = base \o (y \o one)
            BY <3>1, ConcatAssociative, SMTT(30)
        <3>. QED
            BY <2>5, <3>2, <3>3 DEF y
    <2>7. chatRequest(protocol, Append(u, x)) = appendResponseToolCall(chatRequest(protocol, u), call)
        <3>1. chatRequest(protocol, Append(u, x)) = readItem(protocol, chatRequest(protocol, u), x)
            <4>. HIDE DEF u, x
            <4>. QED
                BY <2>4, ReadAppend
        <3>. QED
            BY <3>1, CallItemTyped
    <2>8. CASE whole \/ t # <<>>
        <3>1. chatRequest(protocol, u) = Append(R, Message("assistant", text, calls))
            BY <1>4, <2>3, <2>8
        <3>. HIDE DEF u, calls, call, x
        <3>2. appendResponseToolCall(Append(R, Message("assistant", text, calls)), call) =
                Append(R, Message("assistant", text, Append(calls, call)))
            BY <2>4, CallJoins
        <3>. QED
            BY <2>5, <2>6, <2>7, <3>1, <3>2
    <2>9. CASE ~(whole \/ t # <<>>)
        <3>1. u = base /\ calls = <<>>
            BY <1>2, <2>9
        <3>2. chatRequest(protocol, u) = R /\ text = <<>> /\ (R # <<>> => Last(R).role # "assistant")
            BY <2>9, <3>1 DEF Begins
        <3>. HIDE DEF u, calls, call, x
        <3>3. appendResponseToolCall(R, call) = Append(R, Message("assistant", <<>>, <<call>>))
            BY <3>2, Zenon DEF appendResponseToolCall
        <3>4. Append(calls, call) = <<call>>
            BY <3>1
        <3>. QED
            BY <2>5, <2>6, <2>7, <3>2, <3>3, <3>4
    <2>. QED
        BY <2>8, <2>9
<1>. HIDE DEF S, Read
<1>5. Len(cs) \in S
    BY <1>3, <1>4, NatInSet, LenProperties
<1>6. Read(cs)
    BY <1>5 DEF S
<1>. QED
    BY <1>1, <1>6 DEF Read

\* What a client was given reads as one message of the assistant.
LEMMA BuildRead ==
    ASSUME client.protocol \in Protocols, NEW items \in Seq(Items(client.protocol)), NEW text \in Texts,
           NEW calls, NEW shown \in Seq(Kept(client.protocol)),
           shown = [i \in DOMAIN calls |-> renderCall(calls[i])],
           DOMAIN calls = 1..Len(calls), Len(calls) \in Nat, calls = <<>> <=> shown = <<>>,
           LET R == chatRequest(client.protocol, items) IN R # <<>> => Last(R).role # "assistant"
    PROVE  LET R == chatRequest(client.protocol, items) IN
           /\ items \o build(text, calls) \in Seq(Items(client.protocol))
           /\ chatRequest(client.protocol, items \o build(text, calls)) =
                Append(R, Message("assistant", text, ReadCalls(client.protocol, shown)))
<1>. DEFINE p == client.protocol
            R == chatRequest(p, items)
            I == Items(p)
            whole(cs) == Item("assistant", text, cs)
<1>1. R \in Seq(Messages)
    BY ChatRequestTyped
<1>2. ASSUME NEW cs \in Seq(Kept(p))
      PROVE  LET x == whole(cs) IN
             /\ x \in I /\ items \o <<x>> \in Seq(I)
             /\ chatRequest(p, items \o <<x>>) = Append(R, Message("assistant", text, ReadCalls(p, cs)))
    <2>. DEFINE x == whole(cs)
                one == <<x>>
    <2>1. x = [role |-> "assistant", text |-> text, calls |-> cs, parts |-> <<>>, call |-> "none"]
        BY DEF Item
    <2>2. x \in I /\ x.role = "assistant" /\ x.text = text /\ x.calls = cs
        <3>1. <<>> \in Seq({"text", "image", "link"})
            OBVIOUS
        <3>. HIDE DEF x
        <3>. QED
            BY <2>1, <3>1 DEF Items
    <2>. HIDE DEF x
    <2>3. items \o one = Append(items, x) /\ Append(items, x) \in Seq(I)
        BY <2>2, AppendIsConcat, AppendProperties
    <2>4. chatRequest(p, Append(items, x)) = readItem(p, R, x)
        BY <2>2, ReadAppend
    <2>5. readItem(p, R, x) = Append(R, Message("assistant", text, ReadCalls(p, cs)))
        BY <2>2 DEF readItem, ReadCalls
    <2>. QED
        BY <2>2, <2>3, <2>4, <2>5 DEF x
<1>3. CASE p # "responses"
    <2>1. build(text, calls) = <<whole(shown)>>
        BY <1>3 DEF build
    <2>. HIDE DEF whole
    <2>. QED
        BY <1>2, <2>1
<1>4. CASE p = "responses"
    <2>. DEFINE first == IF text # <<>> \/ calls = <<>> THEN <<whole(<<>>)>> ELSE <<>>
                begun == text # <<>> \/ calls = <<>>
                base == items \o first
    <2>1. build(text, calls) = first \o CallItems(shown)
        <3>1. build(text, calls) = first \o [i \in DOMAIN shown |-> Item("call", <<>>, <<shown[i]>>)]
            BY <1>4 DEF build
        <3>. QED
            BY <3>1 DEF CallItems, CallItem
    <2>2. base \in Seq(I) /\ Begins(p, base, R, text, begun) /\ first \in Seq(I)
        <3>1. CASE begun
            <4>. DEFINE none == <<>>
            <4>1. none \in Seq(Kept(p)) /\ ReadCalls(p, none) = <<>>
                BY DEF ReadCalls
            <4>2. first = <<whole(none)>>
                BY <3>1
            <4>. HIDE DEF none, first, whole
            <4>3. whole(none) \in I /\ base \in Seq(I)
                  /\ chatRequest(p, base) = Append(R, Message("assistant", text, ReadCalls(p, none)))
                BY <1>2, <4>1, <4>2
            <4>4. first \in Seq(I)
                BY <4>2, <4>3
            <4>. QED
                BY <3>1, <4>1, <4>3, <4>4 DEF Begins
        <3>2. CASE ~begun
            <4>1. first = <<>> /\ base = items /\ text = <<>>
                BY <3>2, ConcatEmptySeq
            <4>2. first \in Seq(I)
                <5>1. <<>> \in Seq(I)
                    OBVIOUS
                <5>. HIDE DEF first
                <5>. QED
                    BY <4>1, <5>1
            <4>. HIDE DEF first, base
            <4>. QED
                BY <3>2, <4>1, <4>2 DEF Begins
        <3>. QED
            BY <3>1, <3>2
    <2>3. begun \/ shown # <<>>
        OBVIOUS
    <2>4. items \o build(text, calls) = base \o CallItems(shown)
        <3>. DEFINE y == CallItems(shown)
        <3>1. y \in Seq(I)
            BY CallItemsTyped
        <3>. HIDE DEF y, first
        <3>2. (items \o first) \o y = items \o (first \o y)
            BY <2>2, <3>1, ConcatAssociative, SMTT(30)
        <3>. QED
            BY <2>1, <3>2 DEF y
    <2>5. begun \in BOOLEAN
        OBVIOUS
    <2>6. /\ base \o CallItems(shown) \in Seq(I)
          /\ chatRequest(p, base \o CallItems(shown)) =
               Append(R, Message("assistant", text, ReadCalls(p, shown)))
        <3>1. shown \in Seq(Kept(p)) /\ text \in Texts
            OBVIOUS
        <3>. HIDE DEF base, first, begun, R, p
        <3>. QED
            BY <1>1, <2>2, <2>3, <2>5, <3>1, CallsRead
    <2>. HIDE DEF base, first, begun
    <2>. QED
        BY <2>4, <2>6
<1>. QED
    BY <1>3, <1>4

\* A call is read as it was written, unless its arguments are spelled anew.
SameCall(body) ==
    /\ client.protocol = "anthropic" => body # "spaced"
    /\ client.protocol = "responses" /\ client.tool = "custom" => body = "compact"

LEMMA TwoJoined == ASSUME NEW a, NEW b PROVE <<a>> \o <<b>> = <<a, b>>
<1>. DEFINE S == {a, b}
            x == <<a>>
            y == <<b>>
            z == <<a, b>>
            xy == x \o y
<1>1. x \in Seq(S) /\ y \in Seq(S) /\ Len(x) = 1 /\ Len(y) = 1 /\ x[1] = a /\ y[1] = b
    OBVIOUS
<1>2. z \in Seq(S) /\ Len(z) = 2 /\ z[1] = a /\ z[2] = b
    OBVIOUS
<1>. HIDE DEF S, x, y, z
<1>3. /\ xy \in Seq(S) /\ Len(xy) = Len(x) + Len(y)
      /\ \A i \in 1..Len(x) + Len(y) : xy[i] = IF i <= Len(x) THEN x[i] ELSE y[i - Len(x)]
    BY <1>1, ConcatProperties
<1>. HIDE DEF xy
<1>4. Len(xy) = 2 /\ \A i \in 1..2 : xy[i] = IF i <= 1 THEN x[i] ELSE y[i - 1]
    BY <1>1, <1>3
<1>5. xy[1] = x[1] /\ xy[2] = y[1]
    BY <1>4
<1>6. \A i \in 1..Len(xy) : xy[i] = z[i]
    BY <1>1, <1>2, <1>4, <1>5
<1>7. xy = z
    BY <1>2, <1>3, <1>4, <1>6, SeqEqual
<1>. QED
    BY <1>7 DEF xy, x, y, z

LEMMA ToolNames ==
    /\ toolName \in Names
    /\ responsesQualifiedToolName(responseToolTarget(toolName).namespace,
                                  responseToolTarget(toolName).name) = toolName
    /\ responseToolTarget(toolName).namespace \in {<<>>, <<"ns">>}
    /\ responseToolTarget(toolName).name = <<"f">>
    /\ responseToolTarget(toolName).type = IF client.tool = "custom" THEN "custom" ELSE "function"
<1>. DEFINE plain == <<"f">>
            qualified == <<"ns", "f">>
<1>1. CASE toolName = plain
    <2>1. Len(plain) = 1
        OBVIOUS
    <2>2. <<>> \o plain = plain
        BY ConcatEmptySeq
    <2>. QED
        BY <1>1, <2>1, <2>2 DEF responsesQualifiedToolName, responseToolTarget, Names
<1>2. CASE toolName = qualified
    <2>1. Len(qualified) = 2 /\ qualified[1] = "ns" /\ Tail(qualified) = <<"f">>
        OBVIOUS
    <2>2. <<"ns">> \o <<"f">> = qualified
        BY TwoJoined
    <2>. QED
        BY <1>2, <2>1, <2>2 DEF responsesQualifiedToolName, responseToolTarget, Names
<1>. QED
    BY <1>1, <1>2 DEF toolName

LEMMA CallBack ==
    ASSUME client \in Clients, NEW body \in Bodies
    PROVE  LET shown == renderCall(ToolCall(body)) IN
           /\ ToolCall(body) \in CallRecords
           /\ shown \in Kept(client.protocol) /\ shown.id = body
           /\ readCall(client.protocol, shown) = ToolCall(body) <=> SameCall(body)
<1>. DEFINE args == Arguments(body)
            call == [id |-> body, name |-> toolName, args |-> args]
            p == client.protocol
            target == responseToolTarget(toolName)
<1>1. p \in {"chat", "anthropic", "responses"}
    BY ClientsAssumption
<1>2. body \in {"compact", "spaced", "empty"} /\ "compact" \in Bodies
    BY BodiesAssumption
<1>3. /\ args \in Bodies \cup {"{}"} /\ compactJSON(args) \in Bodies \cup {"{}"}
      /\ compactJSON(compactJSON(args)) = args <=> body # "spaced"
      /\ customToolInput(args) \in {"x", "{}"}
      /\ wrapInput(customToolInput(args)) \in Bodies \cup {"wrapped"}
      /\ wrapInput(customToolInput(args)) = args <=> body = "compact"
      /\ compactJSON(compactJSON(args)) \in Bodies \cup {"{}"}
    BY <1>2 DEF Arguments, compactJSON, customToolInput, wrapInput
<1>4. /\ toolName \in Names /\ target.namespace \in {<<>>, <<"ns">>} /\ target.name \in Names
      /\ responsesQualifiedToolName(target.namespace, target.name) = toolName
      /\ target.type = IF client.tool = "custom" THEN "custom" ELSE "function"
    BY ToolNames DEF Names
<1>5. call \in CallRecords /\ ToolCall(body) = call
    BY <1>3, <1>4 DEF CallRecords, ToolCall
<1>. HIDE DEF args, target
<1>6. CASE p = "chat"
    <2>. DEFINE shown == [type |-> "function", id |-> body, namespace |-> <<>>, name |-> toolName, args |-> args]
    <2>1. renderCall(call) = shown
        BY <1>6 DEF renderCall
    <2>2. readCall(p, shown) = call
        BY <1>6 DEF readCall
    <2>3. shown \in Kept(p)
        BY <1>3, <1>4, <1>5, <2>2 DEF Kept
    <2>. QED
        BY <1>5, <1>6, <2>1, <2>2, <2>3 DEF SameCall
<1>7. CASE p = "anthropic"
    <2>. DEFINE shown == [type |-> "function", id |-> body, namespace |-> <<>>, name |-> toolName,
                          args |-> compactJSON(args)]
                back == [id |-> body, name |-> toolName, args |-> compactJSON(compactJSON(args))]
    <2>1. renderCall(call) = shown
        BY <1>7 DEF renderCall
    <2>2. readCall(p, shown) = back
        BY <1>7 DEF readCall
    <2>3. back \in CallRecords /\ (back = call <=> body # "spaced")
        BY <1>3, <1>4 DEF CallRecords
    <2>. HIDE DEF back
    <2>4. shown \in Kept(p)
        BY <1>3, <1>4, <2>2, <2>3 DEF Kept
    <2>. QED
        BY <1>5, <1>7, <2>1, <2>2, <2>3, <2>4 DEF SameCall
<1>8. CASE p = "responses"
    <2>. DEFINE custom == client.tool = "custom"
                shown == [type |-> target.type, id |-> body, namespace |-> target.namespace,
                          name |-> target.name, args |-> IF custom THEN customToolInput(args) ELSE args]
                back == [id |-> body, name |-> toolName,
                         args |-> IF custom THEN wrapInput(customToolInput(args)) ELSE args]
    <2>1. renderCall(call) = shown
        BY <1>4, <1>8 DEF renderCall, target
    <2>2. readCall(p, shown) = back
        BY <1>4, <1>8 DEF readCall
    <2>3. back \in CallRecords /\ (back = call <=> (custom => body = "compact"))
        BY <1>3, <1>4 DEF CallRecords
    <2>. HIDE DEF back
    <2>4. shown \in Kept(p)
        BY <1>3, <1>4, <2>2, <2>3 DEF Kept
    <2>. QED
        BY <1>5, <1>8, <2>1, <2>2, <2>3, <2>4 DEF SameCall
<1>. QED
    BY <1>1, <1>6, <1>7, <1>8

LEMMA CallsBack ==
    ASSUME client \in Clients, NEW bodies \in Seq(Bodies)
    PROVE  LET p == client.protocol
               calls == [i \in DOMAIN bodies |-> ToolCall(bodies[i])]
               shown == [i \in DOMAIN calls |-> renderCall(calls[i])]
           IN  /\ calls \in Seq(CallRecords) /\ Len(calls) = Len(bodies)
               /\ shown \in Seq(Kept(p)) /\ Len(shown) = Len(bodies)
               /\ ReadCalls(p, shown) = calls <=> \A i \in DOMAIN bodies : SameCall(bodies[i])
<1>. DEFINE p == client.protocol
            calls == [i \in DOMAIN bodies |-> ToolCall(bodies[i])]
            shown == [i \in DOMAIN calls |-> renderCall(calls[i])]
            back == ReadCalls(p, shown)
<1>1. \A i \in DOMAIN bodies : bodies[i] \in Bodies
    BY LenProperties, ElementOfSeq
<1>2. /\ DOMAIN calls = DOMAIN bodies /\ \A i \in DOMAIN bodies : calls[i] = ToolCall(bodies[i])
      /\ DOMAIN shown = DOMAIN bodies /\ \A i \in DOMAIN bodies : shown[i] = renderCall(calls[i])
      /\ DOMAIN back = DOMAIN bodies /\ \A i \in DOMAIN bodies : back[i] = readCall(p, shown[i])
      /\ calls = [i \in DOMAIN bodies |-> calls[i]] /\ shown = [i \in DOMAIN bodies |-> shown[i]]
    BY DEF ReadCalls
<1>. HIDE DEF calls, shown, back, p
<1>3. ASSUME NEW i \in DOMAIN bodies
      PROVE  /\ calls[i] \in CallRecords /\ shown[i] \in Kept(p)
             /\ back[i] = calls[i] <=> SameCall(bodies[i])
    BY <1>1, <1>2, CallBack DEF p
<1>4. calls \in Seq(CallRecords) /\ Len(calls) = Len(bodies)
    BY <1>2, <1>3, MapTyped
<1>5. shown \in Seq(Kept(p)) /\ Len(shown) = Len(bodies)
    BY <1>2, <1>3, MapTyped
<1>6. back \in Seq(CallRecords) /\ Len(back) = Len(bodies)
    BY <1>5, CallItemsTyped DEF back
<1>7. back = calls <=> \A i \in DOMAIN bodies : back[i] = calls[i]
    <2>1. DOMAIN bodies = 1..Len(bodies)
        BY LenProperties
    <2>. QED
        BY <1>4, <1>6, <2>1, SeqEqual
<1>8. back = calls <=> \A i \in DOMAIN bodies : SameCall(bodies[i])
    BY <1>3, <1>7
<1>. QED
    BY <1>4, <1>5, <1>8 DEF calls, shown, back, p

(***************************************************************************)
(* What the parser finds.                                                  *)
(***************************************************************************)
LEMMA MaxOfBounded ==
    ASSUME NEW n \in Nat, NEW S, S \subseteq 1..n, S # {}
    PROVE  Max(S) \in S /\ \A x \in S : x <= Max(S)
<1>. DEFINE D == {d \in Nat : n - d \in S}
<1>1. D \subseteq Nat /\ D # {}
    <2>1. PICK x \in S : TRUE
        OBVIOUS
    <2>2. n - x \in Nat /\ n - (n - x) = x
        BY <2>1
    <2>. QED
        BY <2>1, <2>2
<1>2. Min(D) \in D /\ \A d \in D : Min(D) <= d
    <2>. HIDE DEF D
    <2>. QED
        BY <1>1, MinOfNats
<1>3. PICK d \in D : \A e \in D : d <= e
    BY <1>2
<1>4. n - d \in S /\ \A x \in S : x <= n - d
    <2>1. ASSUME NEW x \in S
          PROVE  x <= n - d
        <3>1. n - x \in D
            <4>1. n - x \in Nat /\ n - (n - x) = x
                OBVIOUS
            <4>. QED
                BY <4>1
        <3>. HIDE DEF D
        <3>2. d <= n - x /\ d \in Nat
            BY <1>1, <1>3, <3>1
        <3>. QED
            BY <3>2
    <2>. QED
        BY <2>1
<1>. QED
    BY <1>4 DEF Max

LEMMA TrimTyped ==
    ASSUME NEW text \in Seq(Tokens)
    PROVE  TrimSpace(text) \in Seq(Tokens)
<1>. DEFINE solid == {i \in 1..Len(text) : text[i] # "space"}
<1>1. Len(text) \in Nat
    BY LenProperties
<1>2. /\ SelectInSeq(text, LAMBDA t : t # "space") = IF solid # {} THEN Min(solid) ELSE 0
      /\ SelectLastInSeq(text, LAMBDA t : t # "space") = IF solid # {} THEN Max(solid) ELSE 0
    BY DEF SelectInSeq, SelectLastInSeq
<1>3. TrimSpace(text) = IF solid # {} THEN SubSeq(text, Min(solid), Max(solid)) ELSE SubSeq(text, 0, -1)
    <2>1. solid # {} => Min(solid) # 0
        <3>1. solid \subseteq Nat /\ 0 \notin solid
            BY <1>1
        <3>. HIDE DEF solid
        <3>. QED
            BY <3>1, MinOfNats
    <2>. HIDE DEF solid
    <2>. QED
        BY <1>2, <2>1 DEF TrimSpace
<1>4. CASE solid # {}
    <2>1. Min(solid) \in solid /\ Max(solid) \in solid /\ Min(solid) <= Max(solid)
        <3>1. solid \subseteq Nat /\ solid \subseteq 1..Len(text)
            BY <1>1
        <3>. HIDE DEF solid
        <3>. QED
            BY <1>1, <1>4, <3>1, MinOfNats, MaxOfBounded
    <2>2. Min(solid) \in Nat \ {0} /\ Max(solid) \in Nat /\ Max(solid) <= Len(text)
        BY <1>1, <2>1
    <2>. HIDE DEF solid
    <2>3. SubSeq(text, Min(solid), Max(solid)) \in Seq(Tokens)
        <3>. DEFINE a == Min(solid)
                    b == Max(solid)
        <3>1. a \in Nat \ {0} /\ b \in Nat /\ b <= Len(text) /\ a <= b + 1
            BY <2>1, <2>2
        <3>. HIDE DEF a, b
        <3>2. SubSeq(text, a, b) \in Seq(Tokens)
            BY <3>1, PartOf
        <3>. QED
            BY <3>2 DEF a, b
    <2>. QED
        BY <1>3, <1>4, <2>3
<1>5. CASE solid = {}
    <2>1. SubSeq(text, 0, -1) = <<>>
        BY SubSeqEmpty
    <2>. QED
        BY <1>3, <1>5, <2>1
<1>. QED
    BY <1>4, <1>5

\* Of two blocks the first starts first.
LEMMA BlocksIncrease ==
    ASSUME NEW text \in Seq(Tokens), NEW f, BlocksFrom(f, text)
    PROVE  \A o \in 1..Len(text) + 1 : \A i, j \in 1..Len(f[o]) : i < j => f[o][i].start < f[o][j].start
<1>. DEFINE size == Len(text)
            B == Candidates(text)
            Fine(o) == \A i, j \in 1..Len(f[o]) : i < j => f[o][i].start < f[o][j].start
            Has == {k \in Nat : \A o \in 1..size + 1 : o + k >= size + 1 => Fine(o)}
<1>1. size \in Nat /\ \A o \in 1..size + 1 : f[o] = BlocksAfter(f, text, o)
    BY LenProperties DEF BlocksFrom
<1>2. ASSUME NEW o \in 1..size + 1, \A n \in 1..size + 1 : n > o => Fine(n)
      PROVE  Fine(o)
    <2>. DEFINE open == Index(text, toolOpenTag, o)
                close == CloseOf(text, o)
                b == BlockAt(text, open, close)
                one == <<b>>
                rest == f[close + 2]
    <2>1. /\ open \in Nat /\ close \in Nat
          /\ close # 0 => open >= o /\ close >= open + 2 /\ close + 1 <= size
        <3>1. o \in Nat \ {0}
            BY <1>1
        <3>. QED
            BY <3>1, BlockIsHere
    <2>2. f[o] = IF close = 0 THEN <<>> ELSE one \o rest
        BY <1>1 DEF BlocksAfter
    <2>. HIDE DEF open, close
    <2>3. CASE close = 0
        <3>1. Len(f[o]) = 0
            BY <2>2, <2>3
        <3>. QED
            BY <3>1
    <2>4. CASE close # 0
        <3>1. close + 2 \in 1..size + 1 /\ close + 2 > o
            BY <1>1, <2>1, <2>4
        <3>2. /\ Fine(close + 2) /\ rest \in Seq(B)
              /\ \A c \in Range(rest) : c.start \in Nat /\ c.start >= close + 2
            BY <1>2, <3>1, BlocksAreInOrder
        <3>3. one \in Seq(B) /\ Len(one) = 1 /\ one[1] = b /\ b.start = open
            <4>1. b \in B /\ b.start = open
                BY <2>1 DEF Candidates, BlockAt
            <4>. HIDE DEF b, B
            <4>. QED
                BY <4>1
        <3>4. Len(rest) \in Nat /\ \A i \in 1..Len(rest) : rest[i].start \in Nat /\ rest[i].start >= close + 2
            BY <3>2, LenProperties DEF Range
        <3>. DEFINE whole == one \o rest
        <3>. HIDE DEF b, one, B
        <3>5. Len(whole) = Len(one) + Len(rest)
              /\ \A i \in 1..Len(one) + Len(rest) :
                   whole[i] = IF i <= Len(one) THEN one[i] ELSE rest[i - Len(one)]
            <4>. HIDE DEF rest
            <4>. QED
                BY <3>2, <3>3, ConcatProperties
        <3>. HIDE DEF whole
        <3>6. Len(whole) = Len(rest) + 1 /\ whole[1] = b
              /\ \A i \in 2..Len(rest) + 1 : whole[i] = rest[i - 1]
            BY <3>3, <3>4, <3>5
        <3>7. ASSUME NEW i \in 1..Len(whole), NEW j \in 1..Len(whole), i < j
              PROVE  whole[i].start < whole[j].start
            <4>1. whole[j] = rest[j - 1] /\ j - 1 \in 1..Len(rest)
                BY <3>4, <3>6, <3>7
            <4>2. CASE i = 1
                <5>1. whole[i].start = open /\ rest[j - 1].start \in Nat /\ rest[j - 1].start >= close + 2
                    BY <3>3, <3>4, <3>6, <4>1, <4>2
                <5>. QED
                    BY <2>1, <2>4, <4>1, <5>1
            <4>3. CASE i # 1
                <5>1. i - 1 \in 1..Len(rest) /\ i - 1 < j - 1 /\ whole[i] = rest[i - 1]
                    BY <3>4, <3>6, <3>7, <4>3
                <5>. QED
                    BY <3>2, <4>1, <5>1
            <4>. QED
                BY <4>2, <4>3
        <3>. QED
            BY <2>2, <2>4, <3>7 DEF whole
    <2>. QED
        BY <2>3, <2>4
<1>. HIDE DEF size, Fine
<1>3. 0 \in Has
    <2>1. \A o \in 1..size + 1 : o + 0 >= size + 1 => \A n \in 1..size + 1 : ~(n > o)
        BY <1>1
    <2>. QED
        BY <1>2, <2>1
<1>4. ASSUME NEW k \in Nat, k \in Has
      PROVE  k + 1 \in Has
    <2>. SUFFICES ASSUME NEW o \in 1..size + 1, o + (k + 1) >= size + 1
                  PROVE  Fine(o)
        OBVIOUS
    <2>1. \A n \in 1..size + 1 : n > o => n + k >= size + 1
        BY <1>1
    <2>. QED
        BY <1>2, <1>4, <2>1
<1>. HIDE DEF Has
<1>5. size \in Has
    BY <1>1, <1>3, <1>4, NatInSet
<1>6. ASSUME NEW o \in 1..Len(text) + 1
      PROVE  Fine(o)
    <2>1. o \in 1..size + 1 /\ o + size >= size + 1
        BY <1>1 DEF size
    <2>. QED
        BY <1>5, <2>1 DEF Has
<1>. QED
    BY <1>6 DEF Fine

\* The calls among the first n blocks.
Collects(calls, blocks) ==
    calls = [n \in 0..Len(blocks) |->
               IF n = 0 THEN <<>>
               ELSE IF n \in {i \in DOMAIN blocks : Valid(blocks[i])}
                    THEN Append(calls[n - 1], blocks[n].raw[1])
               ELSE calls[n - 1]]

LEMMA Collected ==
    ASSUME NEW B, NEW blocks \in Seq(B)
    PROVE  LET calls == CHOOSE c : Collects(c, blocks)
               found == calls[Len(blocks)]
           IN  found \in Seq(Bodies) /\ (found = <<>> <=> \A i \in DOMAIN blocks : ~Valid(blocks[i]))
<1>. DEFINE size == Len(blocks)
            V == Seq(Bodies)
            valid == {i \in DOMAIN blocks : Valid(blocks[i])}
            body(n) == blocks[n].raw[1]
            G == [n \in 1..size |-> [c \in V |-> IF n \in valid THEN Append(c, body(n)) ELSE c]]
            none == <<>>
            calls == CHOOSE c : Collects(c, blocks)
<1>1. size \in Nat /\ DOMAIN blocks = 1..size /\ none \in V
    BY LenProperties
<1>2. \A n \in valid : body(n) \in Bodies
    BY DEF Valid
<1>3. \A n \in valid : \A c \in V : Append(c, body(n)) \in V /\ Append(c, body(n)) # none
    BY <1>2, AppendProperties
<1>4. \A n \in 1..size : \A c \in V : G[n][c] = IF n \in valid THEN Append(c, body(n)) ELSE c
    OBVIOUS
<1>5. Steps(G, V, size)
    <2>1. ASSUME NEW n \in 1..size, NEW c \in V
          PROVE  G[n][c] \in V
        <3>. HIDE DEF G, V, valid, body
        <3>. QED
            BY <1>3, <1>4
    <2>. HIDE DEF G, V
    <2>. QED
        BY <2>1 DEF Steps
<1>. HIDE DEF size, V, G, none, valid, body, calls
<1>6. PICK h : Iteration(h, V, size, none, G)
    BY <1>1, <1>5, Iterated
<1>. DEFINE f == [n \in 0..size |-> h[n]]
            Step(c, n) == IF n = 0 THEN none ELSE IF n \in valid THEN Append(c[n - 1], body(n)) ELSE c[n - 1]
<1>7. ASSUME NEW n \in 0..size
      PROVE  f[n] = Step(f, n)
    <2>1. CASE n = 0
        BY <1>6, <2>1 DEF Iteration
    <2>2. CASE n # 0
        <3>1. n \in 1..size /\ n - 1 \in 0..size
            BY <1>1, <2>2
        <3>2. h[n - 1] \in V /\ h[n] = G[n][h[n - 1]]
            BY <1>6, <3>1 DEF Iteration
        <3>3. h[n] = IF n \in valid THEN Append(h[n - 1], body(n)) ELSE h[n - 1]
            BY <1>4, <3>1, <3>2
        <3>. QED
            BY <2>2, <3>1, <3>3
    <2>. QED
        BY <2>1, <2>2
<1>8. f = [n \in 0..size |-> f[n]]
    OBVIOUS
<1>9. Collects(f, blocks)
    <2>. HIDE DEF f
    <2>1. f = [n \in 0..size |-> Step(f, n)]
        BY <1>7, <1>8
    <2>. QED
        BY <2>1 DEF Collects, size, none, valid, body
<1>10. Collects(calls, blocks)
    <2>. HIDE DEF f
    <2>. QED
        BY <1>9 DEF calls
<1>11. \A n \in 0..size : calls[n] = Step(calls, n)
    BY <1>10 DEF Collects, size, none, valid, body
<1>. DEFINE Fine(n) == calls[n] \in V /\ (calls[n] = none <=> \A i \in 1..n : i \notin valid)
            S == {n \in Nat : n <= size => Fine(n)}
<1>12. 0 \in S
    <2>1. calls[0] = none
        BY <1>1, <1>11
    <2>. QED
        BY <1>1, <2>1
<1>13. ASSUME NEW n \in Nat, n \in S
       PROVE  n + 1 \in S
    <2>. SUFFICES ASSUME n + 1 <= size
                  PROVE  Fine(n + 1)
        OBVIOUS
    <2>. DEFINE k == n + 1
    <2>1. k \in 0..size /\ k # 0 /\ k - 1 = n /\ n <= size
        BY <1>1
    <2>2. Fine(n)
        BY <1>13, <2>1
    <2>3. \A i \in 1..k : i = k \/ i \in 1..n
        OBVIOUS
    <2>4. k \in 1..k /\ \A i \in 1..n : i \in 1..k
        OBVIOUS
    <2>. HIDE DEF k
    <2>5. calls[k] = IF k \in valid THEN Append(calls[n], body(k)) ELSE calls[n]
        BY <1>11, <2>1
    <2>6. Fine(k)
        <3>1. CASE k \in valid
            BY <1>3, <2>2, <2>4, <2>5, <3>1
        <3>2. CASE k \notin valid
            BY <2>2, <2>3, <2>4, <2>5, <3>2
        <3>. QED
            BY <3>1, <3>2
    <2>. QED
        BY <2>6 DEF k
<1>. HIDE DEF S, Fine
<1>14. size \in S
    BY <1>1, <1>12, <1>13, NatInSet
<1>15. Fine(size)
    BY <1>1, <1>14 DEF S
<1>16. (\A i \in 1..size : i \notin valid) <=> \A i \in DOMAIN blocks : ~Valid(blocks[i])
    BY <1>1 DEF valid
<1>. QED
    BY <1>15, <1>16 DEF Fine, size, V, none, calls

LEMMA Parsed ==
    ASSUME NEW text \in Seq(Tokens)
    PROVE  LET parsed == ParseToolCalls(text) IN
           /\ parsed.calls \in Seq(Bodies) /\ parsed.text \in Seq(Tokens)
           /\ Ordinary(text) \in Seq(Tokens)
           /\ parsed.calls = <<>> => parsed.text = text /\ Ordinary(text) = text
           /\ parsed.calls # <<>> => parsed.text = TrimSpace(Ordinary(text))
<1>. DEFINE f == Blocks(text)
            blocks == f[1]
            valid == {n \in DOMAIN blocks : Valid(blocks[n])}
            calls == CHOOSE c : Collects(c, blocks)
            found == calls[Len(blocks)]
            starts == {b.start : b \in {c \in Range(blocks) : Valid(c)}}
            before == SubSeq(text, 1, blocks[Min(valid)].start - 1)
<1>1. BlocksFrom(f, text)
    BY BlocksExist DEF Blocks
<1>2. 1 \in 1..Len(text) + 1
    BY LenProperties
<1>. HIDE DEF f
<1>3. /\ blocks \in Seq(Candidates(text))
      /\ \A b \in Range(blocks) : b.start \in Nat /\ b.start >= 1 /\ b.start <= Len(text)
      /\ \A i, j \in 1..Len(blocks) : i < j => blocks[i].start < blocks[j].start
    BY <1>1, <1>2, BlocksAreInOrder, BlocksIncrease
<1>4. ParseToolCalls(text) = [text |-> IF valid = {} THEN text ELSE TrimSpace(before), calls |-> found]
    BY FindsBlocks DEF ParseToolCalls, Collects, f
<1>5. Ordinary(text) = IF starts = {} THEN text ELSE SubSeq(text, 1, Min(starts) - 1)
    BY FindsBlocks DEF Ordinary, f
<1>. HIDE DEF blocks
<1>6. found \in Seq(Bodies) /\ (found = <<>> <=> \A i \in DOMAIN blocks : ~Valid(blocks[i]))
    BY <1>3, Collected
<1>. HIDE DEF found
<1>7. found = <<>> <=> valid = {}
    BY <1>6
<1>8. Len(blocks) \in Nat /\ DOMAIN blocks = 1..Len(blocks)
    BY <1>3, LenProperties
<1>9. starts = {} <=> valid = {}
    BY DEF Range
<1>10. CASE valid # {}
    <2>. DEFINE first == Min(valid)
                start == blocks[first].start
    <2>1. first \in valid /\ \A i \in valid : first <= i
        <3>1. valid \subseteq Nat
            BY <1>8
        <3>. HIDE DEF valid
        <3>. QED
            BY <1>10, <3>1, MinOfNats
    <2>2. first \in 1..Len(blocks) /\ Valid(blocks[first]) /\ blocks[first] \in Range(blocks)
        <3>. HIDE DEF first
        <3>. QED
            BY <1>8, <2>1 DEF Range
    <2>. HIDE DEF first
    <2>3. start \in starts /\ start \in Nat /\ start >= 1
        BY <1>3, <2>2
    <2>4. ASSUME NEW s \in starts
          PROVE  start <= s /\ s \in Nat
        <3>1. PICK i \in DOMAIN blocks : Valid(blocks[i]) /\ s = blocks[i].start
            BY DEF Range
        <3>2. s \in Nat /\ i \in valid /\ first <= i /\ i \in 1..Len(blocks)
            BY <1>3, <1>8, <2>1, <3>1 DEF Range
        <3>3. CASE first = i
            BY <2>3, <3>1, <3>3
        <3>4. CASE first # i
            <4>1. first < i
                BY <2>2, <3>2, <3>4
            <4>. QED
                BY <1>3, <2>2, <2>3, <3>1, <3>2, <4>1
        <3>. QED
            BY <3>3, <3>4
    <2>5. Min(starts) = start
        <3>1. starts \subseteq Nat /\ starts # {} /\ start \in starts /\ start \in Nat
              /\ \A s \in starts : start <= s
            BY <2>3, <2>4
        <3>. HIDE DEF starts, start
        <3>. DEFINE m == Min(starts)
        <3>2. m \in starts /\ m <= start /\ start <= m /\ m \in Nat
            BY <3>1, MinOfNats
        <3>. HIDE DEF m
        <3>3. m = start
            BY <3>1, <3>2
        <3>. QED
            BY <3>3 DEF m
    <2>6. before = SubSeq(text, 1, start - 1)
        BY DEF first
    <2>7. before \in Seq(Tokens)
        <3>1. start - 1 \in Nat /\ start - 1 <= Len(text) /\ 1 <= (start - 1) + 1
            BY <1>2, <1>3, <2>2, <2>3
        <3>. HIDE DEF start, before
        <3>. QED
            BY <2>6, <3>1, PartOf
    <2>8. TrimSpace(before) \in Seq(Tokens)
        <3>. HIDE DEF before
        <3>. QED
            BY <2>7, TrimTyped
    <2>. HIDE DEF before, start, starts, valid
    <2>9. Ordinary(text) = before
        BY <1>5, <1>9, <1>10, <2>5, <2>6
    <2>. QED
        BY <1>4, <1>6, <1>7, <1>10, <2>7, <2>8, <2>9
<1>11. CASE valid = {}
    <2>. HIDE DEF before, starts, valid
    <2>. QED
        BY <1>4, <1>5, <1>6, <1>7, <1>9, <1>11
<1>. QED
    BY <1>10, <1>11

(***************************************************************************)
(* The conversation before the question.                                   *)
(***************************************************************************)
LEMMA KeyAfter ==
    ASSUME NEW R \in Seq(Messages), NEW ms \in Seq(Messages), NEW n \in Nat, Longer(R, ms, n),
           R # <<>>, Last(R).role = "assistant"
    PROVE  conversationKey(ms) = R
<1>. DEFINE k == Len(R)
            S == {i \in 1..Len(ms) : ms[i].role = "assistant"}
<1>1. k \in Nat /\ k # 0 /\ Len(ms) = k + n
    BY LenProperties, EmptySeq DEF Longer
<1>2. k \in S
    <2>1. ms[k] = R[k]
        BY <1>1 DEF Longer
    <2>. QED
        BY <1>1, <2>1 DEF Last
<1>3. \A i \in S : i <= k
    <2>1. ASSUME NEW i \in 1..Len(ms), ~(i <= k)
          PROVE  ms[i].role # "assistant"
        <3>1. i \in k + 1..Len(ms)
            BY <1>1, <2>1
        <3>. QED
            BY <3>1 DEF Longer
    <2>. QED
        BY <2>1
<1>4. S \subseteq 1..Len(ms) /\ S # {} /\ Len(ms) \in Nat
    BY <1>1, <1>2
<1>5. LastAssistant(ms) = IF S # {} THEN Max(S) ELSE 0
    BY DEF LastAssistant, SelectLastInSeq
<1>. HIDE DEF S, k
<1>6. Max(S) = k
    <2>. DEFINE n0 == Len(ms)
                m == Max(S)
    <2>1. n0 \in Nat /\ S \subseteq 1..n0 /\ S # {}
        BY <1>4
    <2>. HIDE DEF n0
    <2>2. m \in S /\ \A x \in S : x <= m
        BY <2>1, MaxOfBounded
    <2>. HIDE DEF m
    <2>3. m \in Nat /\ m <= k /\ k <= m
        BY <1>2, <1>3, <2>1, <2>2
    <2>4. m = k
        BY <1>1, <2>3
    <2>. QED
        BY <2>4 DEF m
<1>7. conversationKey(ms) = SubSeq(ms, 1, k)
    BY <1>1, <1>4, <1>5, <1>6 DEF conversationKey, hashConversation
<1>. DEFINE part == SubSeq(ms, 1, k)
<1>8. /\ part \in Seq(Messages) /\ Len(part) = IF 1 <= k THEN k - 1 + 1 ELSE 0
      /\ \A i \in 1..k - 1 + 1 : part[i] = ms[1 + i - 1]
    <2>1. \A i \in 1..k : ms[i] \in Messages
        BY <1>1, ElementOfSeq
    <2>. QED
        BY <1>1, <2>1, SubSeqProperties
<1>. HIDE DEF part
<1>9. Len(part) = k /\ \A i \in 1..k : part[i] = ms[i]
    BY <1>1, <1>8
<1>10. \A i \in 1..k : ms[i] = R[i]
    BY DEF Longer, k
<1>11. part = R
    <2>1. Len(part) = Len(R) /\ \A i \in 1..Len(part) : part[i] = R[i]
        BY <1>9, <1>10 DEF k
    <2>. QED
        BY <1>8, <2>1, SeqEqual
<1>. QED
    BY <1>7, <1>11 DEF part

\* Names that are filled in change nothing else.
LEMMA EnrichTyped ==
    ASSUME NEW ms \in Seq(Messages), NEW t, \A n \in toolNames : n.name \in Names
    PROVE  /\ enrichToolResultNames(ms, t) \in Seq(Messages)
           /\ Len(enrichToolResultNames(ms, t)) = Len(ms)
<1>. DEFINE known(m) == {n \in toolNames : n.todo = t /\ n.call = m.call}
            name(m) == (CHOOSE n \in known(m) : TRUE).name
            fills(m) == (m.role = "tool" /\ m.name \in {<<>>, <<"tool">>}) /\ known(m) # {}
            f == enrichToolResultNames(ms, t)
<1>1. f = [i \in DOMAIN ms |-> IF fills(ms[i]) THEN [ms[i] EXCEPT !.name = name(ms[i])] ELSE ms[i]]
    BY DEF enrichToolResultNames
<1>2. ASSUME NEW m \in Messages, fills(m)
      PROVE  [m EXCEPT !.name = name(m)] \in Messages
    <2>. DEFINE x == name(m)
    <2>1. m.role = "tool"
        BY <1>2
    <2>2. x \in Names
        BY <1>2
    <2>. HIDE DEF x
    <2>3. [m EXCEPT !.name = x] \in Messages
        BY <2>1, <2>2 DEF Messages
    <2>. QED
        BY <2>3 DEF x
<1>. HIDE DEF fills, name, f
<1>3. \A i \in DOMAIN ms : f[i] \in Messages
    <2>1. \A i \in DOMAIN ms : ms[i] \in Messages
        BY LenProperties, ElementOfSeq
    <2>. QED
        BY <1>1, <1>2, <2>1
<1>4. DOMAIN f = DOMAIN ms /\ f = [i \in DOMAIN ms |-> f[i]]
    BY <1>1
<1>. QED
    BY <1>3, <1>4, MapTyped DEF f

LEMMA FlattenTyped ==
    ASSUME NEW S, NEW seqs \in Seq(Seq(S))
    PROVE  FlattenSeq(seqs) \in Seq(S)
<1>. DEFINE size == Len(seqs)
            V == Seq(S)
            none == <<>>
            G == [n \in 1..size |-> [c \in V |-> c \o seqs[n]]]
            Flattens(f) == f = [i \in 1..size |-> IF i = 1 THEN seqs[i] ELSE f[i - 1] \o seqs[i]]
            flatten == CHOOSE f : Flattens(f)
<1>1. size \in Nat /\ none \in V /\ \A n \in 1..size : seqs[n] \in V
    BY LenProperties, ElementOfSeq
<1>2. \A n \in 1..size : \A c \in V : G[n][c] = c \o seqs[n]
    OBVIOUS
<1>3. \A c, d \in V : c \o d \in V
    BY ConcatProperties
<1>4. \A c \in V : none \o c = c
    BY ConcatEmptySeq
<1>5. FlattenSeq(seqs) = IF size = 0 THEN seqs ELSE flatten[size]
    BY DEF FlattenSeq
<1>6. size = 0 => seqs = none
    BY EmptySeq
<1>. HIDE DEF size, V, none, G
<1>7. Steps(G, V, size)
    BY <1>1, <1>2, <1>3 DEF Steps
<1>8. PICK h : Iteration(h, V, size, none, G)
    BY <1>1, <1>7, Iterated
<1>. DEFINE f == [n \in 1..size |-> h[n]]
<1>9. ASSUME NEW n \in 1..size
      PROVE  f[n] = IF n = 1 THEN seqs[n] ELSE f[n - 1] \o seqs[n]
    <2>1. n - 1 \in 0..size /\ (n # 1 => n - 1 \in 1..size)
        BY <1>1
    <2>2. h[n - 1] \in V /\ h[n] = G[n][h[n - 1]] /\ h[0] = none
        BY <1>8, <2>1 DEF Iteration
    <2>3. h[n] = h[n - 1] \o seqs[n]
        BY <1>2, <2>2
    <2>4. n = 1 => n - 1 = 0
        OBVIOUS
    <2>. QED
        BY <1>1, <1>4, <2>1, <2>2, <2>3, <2>4
<1>10. Flattens(f)
    <2>1. f = [n \in 1..size |-> f[n]]
        OBVIOUS
    <2>. HIDE DEF f
    <2>. QED
        BY <1>9, <2>1
<1>11. Flattens(flatten)
    <2>. HIDE DEF f, Flattens
    <2>. QED
        BY <1>10
<1>. HIDE DEF flatten
<1>12. \A n \in 1..size : flatten[n] = IF n = 1 THEN seqs[n] ELSE flatten[n - 1] \o seqs[n]
    BY <1>11
<1>. DEFINE W == {n \in Nat : n + 1 <= size => flatten[n + 1] \in V}
<1>13. 0 \in W
    <2>. SUFFICES ASSUME 0 + 1 <= size
                  PROVE  flatten[0 + 1] \in V
        OBVIOUS
    <2>1. 1 \in 1..size /\ 0 + 1 = 1
        BY <1>1
    <2>. QED
        BY <1>1, <1>12, <2>1
<1>14. ASSUME NEW n \in Nat, n \in W
       PROVE  n + 1 \in W
    <2>. SUFFICES ASSUME (n + 1) + 1 <= size
                  PROVE  flatten[(n + 1) + 1] \in V
        OBVIOUS
    <2>. DEFINE k == (n + 1) + 1
    <2>1. k \in 1..size /\ k # 1 /\ k - 1 = n + 1 /\ n + 1 <= size
        BY <1>1
    <2>2. flatten[n + 1] \in V
        BY <1>14, <2>1
    <2>. HIDE DEF k
    <2>3. flatten[k] \in V
        BY <1>1, <1>3, <1>12, <2>1, <2>2
    <2>. QED
        BY <2>3 DEF k
<1>. HIDE DEF W
<1>15. CASE size # 0
    <2>1. size - 1 \in Nat /\ (size - 1) + 1 = size
        BY <1>1, <1>15
    <2>2. size - 1 \in W
        BY <1>13, <1>14, <2>1, NatInSet
    <2>3. flatten[size] \in V
        BY <1>1, <2>1, <2>2 DEF W
    <2>. QED
        BY <1>5, <1>15, <2>3 DEF V
<1>16. CASE size = 0
    BY <1>1, <1>5, <1>6, <1>16 DEF V
<1>. QED
    BY <1>15, <1>16

LEMMA UnansweredTyped ==
    ASSUME NEW protocol, history \in Seq(Items(protocol))
    PROVE  Unanswered \in Seq(Kept(protocol))
<1>. DEFINE K == Kept(protocol)
            S == {i \in 1..Len(history) : history[i].role \in {"user", "tool"}}
            answered == SelectLastInSeq(history, LAMBDA item : item.role \in {"user", "tool"})
            size == Len(history) - answered
            seqs == [i \in 1..size |-> history[answered + i].calls]
<1>1. Len(history) \in Nat
    BY LenProperties
<1>2. answered = IF S # {} THEN Max(S) ELSE 0
    BY DEF SelectLastInSeq
<1>. DEFINE most == Len(history)
<1>3. answered \in 0..most
    <2>1. S \subseteq 1..most /\ most \in Nat
        BY <1>1
    <2>. HIDE DEF answered, S, most
    <2>2. CASE S # {}
        <3>1. Max(S) \in S
            BY <2>1, <2>2, MaxOfBounded
        <3>2. answered = Max(S)
            BY <1>2, <2>2
        <3>3. answered \in 1..most
            BY <2>1, <3>1, <3>2
        <3>. QED
            BY <2>1, <3>3
    <2>3. CASE S = {}
        BY <1>2, <2>1, <2>3
    <2>. QED
        BY <2>2, <2>3
<1>4. Unanswered = FlattenSeq(seqs)
    BY DEF Unanswered
<1>. HIDE DEF answered
<1>5. size \in Nat
    BY <1>1, <1>3
<1>6. \A i \in 1..size : seqs[i] \in Seq(K)
    <2>. SUFFICES ASSUME NEW i \in 1..size
                  PROVE  history[answered + i].calls \in Seq(K)
        OBVIOUS
    <2>1. answered + i \in 1..Len(history)
        BY <1>1, <1>3
    <2>2. history[answered + i] \in Items(protocol)
        BY <2>1, ElementOfSeq
    <2>. QED
        BY <2>2 DEF Items
<1>7. seqs \in Seq(Seq(K))
    <2>. HIDE DEF size, K
    <2>1. seqs \in [1..size -> Seq(K)]
        BY <1>6
    <2>. HIDE DEF seqs
    <2>. QED
        BY <1>5, <2>1
<1>. HIDE DEF seqs
<1>. QED
    BY <1>4, <1>7, FlattenTyped

(***************************************************************************)
(* What the gateway knows of a client's history.                           *)
(***************************************************************************)
RespelledBy(c, text) ==
    LET calls == ParseToolCalls(text).calls IN
    /\ calls # <<>>
    /\ \/ c.stream /\ Ordinary(text) # TrimSpace(Ordinary(text))
       \/ c.protocol = "anthropic" /\ "spaced" \in Range(calls)
       \/ c.protocol = "responses" /\ c.tool = "custom" /\ Range(calls) # {"compact"}

\* Whether the last reply was recorded as the client keeps it.
Continues == ~RespelledBy(client, last.content) /\ ~last.named
Request == chatRequest(client.protocol, history)

\* Nothing longer than key is known, and key itself if the client continues.
KnownIn(entries, key, t, continues) ==
    /\ \A e \in entries : Len(e.key) <= Len(key) /\ (e.key = key => e.todo = t)
    /\ (\E e \in entries : e.key = key) <=> continues
Known(key) == KnownIn(byHistory, key, todo, Continues) /\ last.todo = todo

Entries(t) ==
    {e \in [key: Seq(Messages), todo: 1..t] : e.key # <<>> /\ Last(e.key).role = "assistant"}
NamesOf(t) == [todo: 1..t, call: Bodies, name: Names]

EchoTyped ==
    /\ history \in Seq(Items(client.protocol)) /\ msgs \in Seq(Messages)
    /\ pc \in {"idle", "lookup", "stream"}
    /\ todo \in Nat /\ resuming \in BOOLEAN /\ (pc = "stream" => todo > 0)
    /\ received \in 0..client.most /\ turn \in 0..client.turns
    /\ content # <<>> => turn < client.turns
    /\ byHistory \in SUBSET Entries(todo) /\ toolNames \in SUBSET NamesOf(todo)
Begun == turn = 0 => byHistory = {} /\ (pc = "idle" => history = <<>>)
Replied ==
    pc = "idle" /\ turn > 0 =>
        Request # <<>> /\ Last(Request).role = "assistant" /\ Known(Request)
Asked ==
    pc = "lookup" =>
        /\ msgs = Request /\ Request # <<>> /\ Last(Request).role # "assistant"
        /\ turn > 0 => /\ Known(conversationKey(Request))
                       /\ Len(conversationKey(Request)) \in 0..Len(Request) - 1
Answering ==
    pc = "stream" =>
        /\ Request # <<>> /\ Last(Request).role # "assistant" /\ Len(msgs) = Len(Request)
        /\ \A e \in byHistory : Len(e.key) <= Len(Request)
        /\ turn > 0 => /\ resuming <=> Continues
                       /\ resuming => todo = last.todo
ResumeInv == EchoTyped /\ Begun /\ Replied /\ Asked /\ Answering

LEMMA RespelledIs == \A text : Respelled(text) <=> RespelledBy(client, text)
BY Zenon DEF Respelled, RespelledBy

\* The calls come back as they were said, or the reply is spelled anew.
LEMMA CallsSame ==
    ASSUME client \in Clients, NEW bodies \in Seq(Bodies), bodies # <<>>
    PROVE  (\A i \in DOMAIN bodies : SameCall(bodies[i])) <=>
             /\ ~(client.protocol = "anthropic" /\ "spaced" \in Range(bodies))
             /\ ~(client.protocol = "responses" /\ client.tool = "custom" /\ Range(bodies) # {"compact"})
<1>1. Range(bodies) = {bodies[i] : i \in DOMAIN bodies}
    BY DEF Range
<1>2. 1 \in DOMAIN bodies
    BY LenProperties, EmptySeq
<1>3. Range(bodies) = {"compact"} <=> \A i \in DOMAIN bodies : bodies[i] = "compact"
    BY <1>1, <1>2
<1>4. "spaced" \in Range(bodies) <=> \E i \in DOMAIN bodies : bodies[i] = "spaced"
    BY <1>1
<1>. QED
    BY <1>3, <1>4 DEF SameCall

LEMMA SameMessage ==
    \A text, calls, given, read :
        Message("assistant", text, calls) = Message("assistant", given, read)
            <=> text = given /\ calls = read
<1>. SUFFICES ASSUME NEW text, NEW calls, NEW given, NEW read
              PROVE  Message("assistant", text, calls) = Message("assistant", given, read)
                       <=> text = given /\ calls = read
    OBVIOUS
<1>. DEFINE a == Message("assistant", text, calls)
            b == Message("assistant", given, read)
<1>1. a.text = text /\ a.calls = calls /\ b.text = given /\ b.calls = read
    BY DEF Message
<1>. HIDE DEF a, b
<1>2. a = b => text = given /\ calls = read
    BY <1>1
<1>3. text = given /\ calls = read => a = b
    BY DEF a, b
<1>. QED
    BY <1>2, <1>3 DEF a, b

\* The text a client is given of a whole reply.
GivenOf(c, text) == IF c.stream THEN Ordinary(text) ELSE ParseToolCalls(text).text
CallsOf(text) == [i \in DOMAIN ParseToolCalls(text).calls |-> ToolCall(ParseToolCalls(text).calls[i])]
ShownOf(text) == [i \in DOMAIN CallsOf(text) |-> renderCall(CallsOf(text)[i])]

LEMMA AnswerSame ==
    ASSUME client \in Clients, NEW text \in Seq(Tokens)
    PROVE  LET said == Message("assistant", ParseToolCalls(text).text, CallsOf(text))
               read == Message("assistant", GivenOf(client, text),
                               ReadCalls(client.protocol, ShownOf(text)))
           IN  /\ GivenOf(client, text) \in Texts /\ said \in Messages /\ said.role = "assistant"
               /\ CallsOf(text) \in Seq(CallRecords) /\ ShownOf(text) \in Seq(Kept(client.protocol))
               /\ Len(ShownOf(text)) = Len(CallsOf(text))
               /\ said = read <=> ~RespelledBy(client, text)
<1>. DEFINE parsed == ParseToolCalls(text)
            bodies == parsed.calls
            plain == Ordinary(text)
            given == GivenOf(client, text)
            calls == CallsOf(text)
            shown == ShownOf(text)
            p == client.protocol
            same == \A i \in DOMAIN bodies : SameCall(bodies[i])
<1>1. /\ bodies \in Seq(Bodies) /\ parsed.text \in Seq(Tokens) /\ plain \in Seq(Tokens)
      /\ bodies = <<>> => parsed.text = text /\ plain = text
      /\ bodies # <<>> => parsed.text = TrimSpace(plain)
    BY Parsed
<1>2. calls = [i \in DOMAIN bodies |-> ToolCall(bodies[i])]
    BY DEF CallsOf
<1>3. shown = [i \in DOMAIN calls |-> renderCall(calls[i])]
    BY DEF ShownOf
<1>4. given = IF client.stream THEN plain ELSE parsed.text
    BY DEF GivenOf
<1>5. RespelledBy(client, text) <=>
        /\ bodies # <<>>
        /\ \/ client.stream /\ plain # TrimSpace(plain)
           \/ p = "anthropic" /\ "spaced" \in Range(bodies)
           \/ p = "responses" /\ client.tool = "custom" /\ Range(bodies) # {"compact"}
    BY Zenon DEF RespelledBy
<1>6. \A t \in Seq(Tokens) : t \in Texts
    BY DEF Texts
<1>. HIDE DEF parsed, bodies, plain, given, calls, shown, same
<1>7. /\ calls \in Seq(CallRecords) /\ Len(calls) = Len(bodies)
      /\ shown \in Seq(Kept(p)) /\ Len(shown) = Len(bodies)
      /\ ReadCalls(p, shown) = calls <=> same
    BY <1>1, <1>2, <1>3, CallsBack DEF same
<1>8. Message("assistant", parsed.text, calls) = Message("assistant", given, ReadCalls(p, shown))
        <=> parsed.text = given /\ same
    <2>. DEFINE read == ReadCalls(p, shown)
    <2>1. calls = read <=> same
        BY <1>7
    <2>. HIDE DEF read
    <2>2. Message("assistant", parsed.text, calls) = Message("assistant", given, read)
            <=> parsed.text = given /\ calls = read
        BY SameMessage
    <2>. QED
        BY <2>1, <2>2 DEF read
<1>9. parsed.text = given /\ same <=> ~RespelledBy(client, text)
    <2>1. CASE bodies = <<>>
        <3>1. same
            BY <1>1, <2>1, LenProperties, EmptySeq DEF same
        <3>. QED
            BY <1>1, <1>4, <1>5, <2>1, <3>1
    <2>2. CASE bodies # <<>>
        <3>1. same <=> /\ ~(p = "anthropic" /\ "spaced" \in Range(bodies))
                       /\ ~(p = "responses" /\ client.tool = "custom" /\ Range(bodies) # {"compact"})
            BY <1>1, <2>2, CallsSame DEF same
        <3>2. parsed.text = given <=> ~(client.stream /\ plain # TrimSpace(plain))
            BY <1>1, <1>4, <2>2
        <3>. QED
            BY <1>5, <2>2, <3>1, <3>2
    <2>. QED
        BY <2>1, <2>2
<1>10. given \in Texts /\ parsed.text \in Texts
    BY <1>1, <1>4, <1>6
<1>11. /\ Message("assistant", parsed.text, calls) \in Messages
       /\ Message("assistant", parsed.text, calls).role = "assistant"
    BY <1>7, <1>10, MessageTyped
<1>. QED
    BY <1>7, <1>8, <1>9, <1>10, <1>11 DEF parsed, given, calls, shown

(***************************************************************************)
(* The conversation after a question, and after a reply.                   *)
(***************************************************************************)
LEMMA LongerLast ==
    ASSUME NEW R \in Seq(Messages), NEW ms \in Seq(Messages), NEW n \in Nat, n # 0, Longer(R, ms, n)
    PROVE  ms # <<>> /\ Last(ms).role # "assistant" /\ Len(R) < Len(ms)
<1>1. Len(R) \in Nat /\ Len(ms) \in Nat /\ Len(ms) = Len(R) + n
    BY LenProperties DEF Longer
<1>2. Len(ms) \in Len(R) + 1..Len(ms)
    BY <1>1
<1>3. ms[Len(ms)].role # "assistant"
    BY <1>2 DEF Longer
<1>. QED
    BY <1>1, <1>3, EmptySeq DEF Last

LEMMA LastAppended ==
    ASSUME NEW S, NEW s \in Seq(S), NEW e \in S
    PROVE  /\ Append(s, e) \in Seq(S) /\ Append(s, e) # <<>> /\ Last(Append(s, e)) = e
           /\ Len(Append(s, e)) = Len(s) + 1 /\ Len(s) \in Nat
<1>. DEFINE a == Append(s, e)
<1>1. a \in Seq(S) /\ a # <<>> /\ Len(a) = Len(s) + 1 /\ a[Len(s) + 1] = e
    BY AppendProperties
<1>2. Len(s) \in Nat
    BY LenProperties
<1>. HIDE DEF a
<1>3. Last(a) = e
    BY <1>1 DEF Last
<1>. QED
    BY <1>1, <1>2, <1>3 DEF a

\* The reply that was just recorded is known if it is the one read back.
LEMMA KnownAfter ==
    ASSUME NEW R \in Seq(Messages), NEW ms \in Seq(Messages), Len(ms) = Len(R),
           NEW a \in Messages, NEW b \in Messages, NEW t,
           NEW entries, \A e \in entries : e.key \in Seq(Messages) /\ Len(e.key) <= Len(R),
           NEW after, after = {e \in entries : e.key # Append(ms, a)} \cup {[key |-> Append(ms, a), todo |-> t]},
           NEW continues, continues <=> ms = R /\ a = b
    PROVE  KnownIn(after, Append(R, b), t, continues)
<1>. DEFINE key == Append(ms, a)
            read == Append(R, b)
            new == [key |-> key, todo |-> t]
<1>1. Len(key) = Len(read) /\ Len(read) = Len(R) + 1 /\ Len(R) \in Nat
    BY LastAppended
<1>2. key = read <=> ms = R /\ a = b
    BY AppendInjective
<1>3. new.key = key /\ new.todo = t
    OBVIOUS
<1>4. \A e \in after : e \in entries \/ e = new
    OBVIOUS
<1>5. new \in after
    OBVIOUS
<1>. HIDE DEF key, read, new
<1>6. ASSUME NEW e \in entries
      PROVE  Len(e.key) <= Len(read) /\ e.key # read
    <2>1. Len(e.key) \in Nat /\ Len(e.key) <= Len(R)
        BY LenProperties
    <2>. QED
        BY <1>1, <2>1
<1>7. \A e \in after : Len(e.key) <= Len(read) /\ (e.key = read => e.todo = t)
    BY <1>1, <1>3, <1>4, <1>6
<1>8. (\E e \in after : e.key = read) <=> key = read
    BY <1>3, <1>4, <1>5, <1>6
<1>. QED
    BY <1>2, <1>7, <1>8 DEF KnownIn, read

LEMMA AskedItems ==
    ASSUME client \in Clients, history \in Seq(Items(client.protocol)), NEW parts \in client.asks,
           Unanswered = <<>> => Acceptable(parts)
    PROVE  LET results == [i \in DOMAIN Unanswered |-> ResultItem(Unanswered[i].id)]
               more == IF results = <<>> THEN <<UserItem(parts)>> ELSE results
           IN  more \in Seq(Answers(client.protocol)) /\ Len(more) \in Nat \ {0}
<1>. DEFINE p == client.protocol
            calls == Unanswered
            results == [i \in DOMAIN calls |-> ResultItem(calls[i].id)]
<1>1. calls \in Seq(Kept(p))
    BY UnansweredTyped
<1>. HIDE DEF calls
<1>2. \A i \in DOMAIN calls : calls[i].id \in Bodies
    <2>1. \A i \in DOMAIN calls : calls[i] \in Kept(p)
        BY <1>1, LenProperties, ElementOfSeq
    <2>. QED
        BY <2>1 DEF Kept
<1>3. <<>> \in Texts /\ <<"word">> \in Texts
    BY DEF Texts, Tokens
<1>4. ASSUME NEW id \in Bodies
      PROVE  ResultItem(id) \in Answers(p)
    <2>1. ResultItem(id) = [role |-> "tool", text |-> <<"word">>, calls |-> <<>>, parts |-> <<>>, call |-> id]
        BY DEF ResultItem, Item
    <2>2. ResultItem(id) \in Items(p)
        BY <1>3, <2>1 DEF Items
    <2>. QED
        BY <2>1, <2>2 DEF Answers
<1>5. results \in Seq(Answers(p)) /\ Len(results) = Len(calls)
    <2>1. \A i \in DOMAIN calls : results[i] \in Answers(p)
        BY <1>2, <1>4
    <2>2. DOMAIN results = DOMAIN calls /\ results = [i \in DOMAIN calls |-> results[i]]
        OBVIOUS
    <2>. HIDE DEF results
    <2>. QED
        BY <1>1, <2>1, <2>2, MapTyped
<1>. HIDE DEF results
<1>6. CASE results # <<>>
    <2>1. Len(results) \in Nat \ {0}
        BY <1>5, <1>6, LenProperties, EmptySeq
    <2>. QED
        BY <1>5, <1>6, <2>1 DEF results, calls
<1>7. CASE results = <<>>
    <2>. DEFINE one == UserItem(parts)
    <2>1. calls = <<>>
        BY <1>1, <1>5, <1>7, EmptySeq
    <2>2. Acceptable(parts)
        BY <2>1 DEF calls
    <2>3. parts \in Seq({"text", "image", "link"})
        <3>1. parts \in Seq(Parts)
            BY ClientsAssumption
        <3>2. \A i \in DOMAIN parts : parts[i] \in {"text", "image", "link"}
            BY <2>2 DEF Acceptable
        <3>3. parts \in [1..Len(parts) -> {"text", "image", "link"}] /\ Len(parts) \in Nat
            BY <3>1, <3>2, LenProperties
        <3>. QED
            BY <3>3
    <2>4. one = [role |-> "user", text |-> <<>>, calls |-> <<>>, parts |-> parts, call |-> "none"]
        BY DEF UserItem, Item
    <2>. HIDE DEF one
    <2>5. one \in Answers(p)
        <3>1. one \in Items(p)
            BY <1>3, <2>3, <2>4 DEF Items
        <3>. QED
            BY <2>4, <3>1 DEF Answers
    <2>6. <<one>> \in Seq(Answers(p)) /\ Len(<<one>>) = 1
        BY <2>5
    <2>. QED
        BY <1>7, <2>6 DEF one, results, calls
<1>. QED
    BY <1>6, <1>7

(***************************************************************************)
(* The invariant.                                                          *)
(***************************************************************************)
LEMMA FilterTyped ==
    ASSUME EchoInv
    PROVE  /\ filter \in Filters /\ released \in Seq(Tokens)
           /\ filter.stopped => filter.pending = <<>>
<1>1. CASE client.stream /\ pc = "stream"
    <2>. DEFINE r == Pushed(filter, released)
    <2>1. content \in Seq(Tokens) /\ Right(content, 1, r) /\ r.filter = filter /\ r.out = released
        BY <1>1 DEF EchoInv, Streaming, Pushed
    <2>. HIDE DEF r
    <2>2. Len(content) \in Nat
        BY <2>1, LenProperties
    <2>3. \A k \in 1..Len(content) + 1 : SubSeq(content, 1, k - 1) \in Seq(Tokens)
        <3>. SUFFICES ASSUME NEW k \in 1..Len(content) + 1
                      PROVE  SubSeq(content, 1, k - 1) \in Seq(Tokens)
            OBVIOUS
        <3>1. k - 1 \in Nat /\ k - 1 <= Len(content) /\ 1 <= (k - 1) + 1
            BY <2>2
        <3>. QED
            BY <2>1, <3>1, PartOf
    <2>4. released \in Seq(Tokens)
        <3>1. \A k \in 1..Len(content) : k \in 1..Len(content) + 1
            BY <2>2
        <3>. QED
            BY <2>1, <2>3, <3>1 DEF Right, StopsAt, KeepsFrom
    <2>5. filter \in Filters /\ (filter.stopped => filter.pending = <<>>)
        BY <2>1 DEF Right, StopsAt
    <2>. QED
        BY <2>4, <2>5
<1>2. CASE ~(client.stream /\ pc = "stream")
    <2>1. filter = [pending |-> <<>>, inBlock |-> FALSE, stopped |-> FALSE] /\ released = <<>>
        BY <1>2 DEF EchoInv, Quiet, NewFilter
    <2>. QED
        BY <2>1 DEF Filters
<1>. QED
    BY <1>1, <1>2

LEMMA GivenIs ==
    ASSUME EchoInv, pc = "stream"
    PROVE  GivenOf(client, content) =
             IF client.stream THEN released \o Flush(filter) ELSE ParseToolCalls(content).text
<1>1. client.stream => released \o Flush(filter) = Ordinary(content)
    BY EchoInvAgrees, Zenon DEF FilterAgrees
<1>. QED
    BY <1>1 DEF GivenOf

LEMMA MoreEntries ==
    ASSUME NEW t \in Nat, NEW u \in Nat, t <= u
    PROVE  Entries(t) \subseteq Entries(u) /\ NamesOf(t) \subseteq NamesOf(u)
<1>1. 1..t \subseteq 1..u
    OBVIOUS
<1>. QED
    BY <1>1 DEF Entries, NamesOf

LEMMA ResumeInit == Init /\ client \in Clients => ResumeInv
<1>. SUFFICES ASSUME Init, client \in Clients
              PROVE  ResumeInv
    OBVIOUS
<1>1. client.most \in Nat /\ client.turns \in Nat
    BY ClientsAssumption
<1>2. /\ history = <<>> /\ msgs = <<>> /\ pc = "idle" /\ todo = 0 /\ resuming = FALSE
      /\ received = 0 /\ turn = 0 /\ content = <<>> /\ byHistory = {} /\ toolNames = {}
    BY DEF Init
<1>3. EchoTyped
    <2>1. 0 \in 0..client.most /\ 0 \in 0..client.turns
        BY <1>1
    <2>2. <<>> \in Seq(Items(client.protocol)) /\ <<>> \in Seq(Messages)
        OBVIOUS
    <2>. QED
        BY <1>2, <2>1, <2>2 DEF EchoTyped
<1>. QED
    BY <1>2, <1>3 DEF ResumeInv, Begun, Replied, Asked, Answering

LEMMA ResumeAsk ==
    ASSUME EchoInv, ResumeInv, NEW parts \in client.asks, Ask(parts)
    PROVE  ResumeInv'
<1>. DEFINE p == client.protocol
            results == [i \in DOMAIN Unanswered |-> ResultItem(Unanswered[i].id)]
            more == IF results = <<>> THEN <<UserItem(parts)>> ELSE results
            items == history \o more
            R == chatRequest(p, history)
            ms == chatRequest(p, items)
<1>1. client \in Clients /\ history \in Seq(Items(p)) /\ pc = "idle" /\ (Unanswered = <<>> => Acceptable(parts))
    BY DEF EchoInv, ResumeInv, EchoTyped, Ask
<1>2. more \in Seq(Answers(p)) /\ Len(more) \in Nat \ {0}
    BY <1>1, AskedItems
<1>3. /\ history' = items /\ msgs' = ms /\ pc' = "lookup" /\ client' = client /\ todo' = todo
      /\ resuming' = resuming /\ content' = content /\ received' = received /\ byHistory' = byHistory
      /\ toolNames' = toolNames /\ turn' = turn /\ last' = last
    BY DEF Ask, store
<1>. HIDE DEF more, results
<1>4. items \in Seq(Items(p)) /\ Longer(R, ms, Len(more))
    BY <1>1, <1>2, ReadAnswers
<1>. DEFINE n == Len(more)
<1>. HIDE DEF items
<1>5. R \in Seq(Messages) /\ ms \in Seq(Messages)
    BY <1>1, <1>4, ChatRequestTyped
<1>6. R = Request /\ ms = Request'
    BY <1>3 DEF Request
<1>. HIDE DEF R, ms, n, p
<1>7. ms # <<>> /\ Last(ms).role # "assistant" /\ Len(R) < Len(ms)
    <2>1. Longer(R, ms, n) /\ n \in Nat /\ n # 0
        BY <1>2, <1>4 DEF n
    <2>. QED
        BY <1>5, <2>1, LongerLast
<1>8. EchoTyped'
    BY <1>3, <1>4, <1>5 DEF ResumeInv, EchoTyped, p
<1>9. ASSUME turn > 0
      PROVE  conversationKey(ms) = R /\ KnownIn(byHistory, R, todo, Continues) /\ last.todo = todo
    <2>1. R # <<>> /\ Last(R).role = "assistant" /\ Known(R)
        BY <1>1, <1>6, <1>9 DEF ResumeInv, Replied
    <2>2. Longer(R, ms, n) /\ n \in Nat
        BY <1>2, <1>4 DEF n
    <2>3. conversationKey(ms) = R
        BY <1>5, <2>1, <2>2, KeyAfter
    <2>. QED
        BY <2>1, <2>3 DEF Known
<1>10. Asked'
    <2>1. Continues' = Continues
        BY <1>3 DEF Continues
    <2>2. msgs' = Request' /\ Request' # <<>> /\ Last(Request').role # "assistant"
        BY <1>3, <1>6, <1>7
    <2>3. ASSUME turn > 0
          PROVE  /\ KnownIn(byHistory', conversationKey(Request'), todo', Continues') /\ last'.todo = todo'
                 /\ Len(conversationKey(Request')) \in 0..Len(Request') - 1
        <3>1. Len(R) \in 0..Len(ms) - 1
            BY <1>5, <1>7, LenProperties
        <3>. QED
            BY <1>3, <1>6, <1>9, <2>1, <2>3, <3>1
    <2>. QED
        BY <1>3, <2>2, <2>3 DEF Asked, Known
<1>. QED
    BY <1>3, <1>8, <1>10 DEF ResumeInv, Begun, Replied, Answering

LEMMA ResumeLookup ==
    ASSUME EchoInv, ResumeInv, Lookup
    PROVE  ResumeInv'
<1>. DEFINE R == Request
            key == conversationKey(R)
            found == {e.todo : e \in {d \in byHistory : d.key = conversationKey(msgs)}}
<1>1. /\ pc = "lookup" /\ pc' = "stream" /\ client' = client /\ history' = history
      /\ content' = content /\ received' = received /\ byHistory' = byHistory
      /\ toolNames' = toolNames /\ turn' = turn /\ last' = last
    BY DEF Lookup, store
<1>2. \/ found = {} /\ todo' = todo + 1 /\ resuming' = FALSE /\ msgs' = msgs
      \/ todo' \in found /\ resuming' = TRUE /\ msgs' = enrichToolResultNames(msgs, todo')
    BY DEF Lookup
<1>3. /\ msgs = R /\ R # <<>> /\ Last(R).role # "assistant"
      /\ turn > 0 => Known(key) /\ Len(key) \in 0..Len(R) - 1
    BY <1>1 DEF ResumeInv, Asked
<1>4. EchoTyped /\ (turn = 0 => byHistory = {}) /\ turn \in Nat
    <2>1. client.turns \in Nat /\ turn \in 0..client.turns
        BY ClientsAssumption DEF EchoInv, ResumeInv, EchoTyped
    <2>. QED
        BY <2>1 DEF ResumeInv, Begun
<1>5. R' = R /\ Continues' = Continues
    BY <1>1 DEF Request, Continues
<1>6. found = {e.todo : e \in {d \in byHistory : d.key = key}}
    BY <1>3
<1>. HIDE DEF R, key, found
<1>7. todo \in Nat /\ msgs \in Seq(Messages) /\ byHistory \subseteq Entries(todo) /\ toolNames \subseteq NamesOf(todo)
    BY <1>4 DEF EchoTyped
<1>8. found \subseteq 1..todo
    BY <1>6, <1>7 DEF Entries
<1>9. turn = 0 => found = {}
    BY <1>4, <1>6
<1>10. ASSUME turn > 0
       PROVE  /\ found = {} <=> ~Continues
              /\ \A t \in found : t = todo /\ t = last.todo
              /\ \A e \in byHistory : Len(e.key) <= Len(key)
    BY <1>3, <1>6, <1>10 DEF Known, KnownIn
<1>11. /\ todo' \in Nat /\ todo <= todo' /\ todo' > 0
       /\ turn > 0 => (resuming' <=> Continues) /\ (resuming' => todo' = last.todo)
    <2>1. CASE todo' \in found /\ resuming' = TRUE
        <3>1. todo' \in 1..todo /\ found # {} /\ ~(turn = 0)
            BY <1>8, <1>9, <2>1
        <3>2. turn > 0
            BY <1>4, <3>1
        <3>3. Continues /\ todo' = todo /\ todo' = last.todo
            BY <1>10, <2>1, <3>1, <3>2
        <3>. QED
            BY <1>7, <2>1, <3>1, <3>3
    <2>2. CASE found = {} /\ todo' = todo + 1 /\ resuming' = FALSE
        <3>1. turn > 0 => ~Continues
            BY <1>10, <2>2
        <3>. QED
            BY <1>7, <2>2, <3>1
    <2>. QED
        BY <1>2, <2>1, <2>2
<1>12. msgs' \in Seq(Messages) /\ Len(msgs') = Len(R)
    <2>1. \A n \in toolNames : n.name \in Names
        BY <1>7 DEF NamesOf
    <2>2. CASE msgs' = msgs
        BY <1>3, <1>7, <2>2
    <2>3. CASE msgs' = enrichToolResultNames(msgs, todo')
        <3>. DEFINE u == todo'
        <3>. HIDE DEF u
        <3>1. /\ enrichToolResultNames(msgs, u) \in Seq(Messages)
              /\ Len(enrichToolResultNames(msgs, u)) = Len(msgs)
            BY <1>7, <2>1, EnrichTyped
        <3>. QED
            BY <1>3, <2>3, <3>1 DEF u
    <2>. QED
        BY <1>2, <2>2, <2>3
<1>13. byHistory' \in SUBSET Entries(todo') /\ toolNames' \in SUBSET NamesOf(todo')
    <2>1. Entries(todo) \subseteq Entries(todo') /\ NamesOf(todo) \subseteq NamesOf(todo')
        BY <1>7, <1>11, MoreEntries
    <2>. QED
        BY <1>1, <1>7, <2>1
<1>14. EchoTyped'
    BY <1>1, <1>2, <1>4, <1>11, <1>12, <1>13 DEF EchoTyped
<1>15. \A e \in byHistory : Len(e.key) <= Len(R)
    <2>1. CASE turn = 0
        BY <1>4, <2>1
    <2>2. CASE turn > 0
        <3>1. Len(key) \in 0..Len(R) - 1
            BY <1>3, <2>2
        <3>2. \A e \in byHistory : Len(e.key) \in Nat
            BY <1>7, LenProperties DEF Entries
        <3>3. Len(R) \in Nat
            BY <1>3, <1>7, LenProperties
        <3>. QED
            BY <1>10, <2>2, <3>1, <3>2, <3>3
    <2>. QED
        BY <1>4, <2>1, <2>2
<1>16. Answering'
    BY <1>1, <1>3, <1>5, <1>11, <1>12, <1>15 DEF Answering, R
<1>. QED
    BY <1>1, <1>4, <1>14, <1>16 DEF ResumeInv, Begun, Replied, Asked

LEMMA ResumeReceive ==
    ASSUME EchoInv, ResumeInv, NEW fragment \in client.fragments, Receive(fragment)
    PROVE  ResumeInv'
<1>1. /\ pc = "stream" /\ pc' = "stream" /\ client' = client /\ history' = history /\ msgs' = msgs
      /\ todo' = todo /\ resuming' = resuming /\ byHistory' = byHistory /\ toolNames' = toolNames
      /\ turn' = turn /\ last' = last /\ turn < client.turns
      /\ received < client.most /\ received' = received + 1
    BY DEF Receive, store
<1>2. received' \in 0..client.most
    <2>1. client.most \in Nat /\ received \in 0..client.most
        BY ClientsAssumption DEF EchoInv, ResumeInv, EchoTyped
    <2>. QED
        BY <1>1, <2>1
<1>3. EchoTyped'
    BY <1>1, <1>2 DEF ResumeInv, EchoTyped
<1>4. Request' = Request /\ Continues' = Continues
    BY <1>1 DEF Request, Continues
<1>5. Answering'
    BY <1>1, <1>4 DEF ResumeInv, Answering
<1>. QED
    BY <1>1, <1>3, <1>5 DEF ResumeInv, Begun, Replied, Asked

LEMMA ResumeAnswer ==
    ASSUME EchoInv, ResumeInv, Answer
    PROVE  ResumeInv'
<1>. DEFINE p == client.protocol
            parsed == ParseToolCalls(content)
            calls == CallsOf(content)
            shown == ShownOf(content)
            given == GivenOf(client, content)
            said == Message("assistant", parsed.text, calls)
            read == Message("assistant", given, ReadCalls(p, shown))
            key == Append(msgs, said)
            R == Request
            names == {[todo |-> todo, call |-> calls[i].id, name |-> calls[i].name] : i \in DOMAIN calls}
<1>1. /\ pc = "stream" /\ content # <<>> /\ pc' = "idle" /\ turn' = turn + 1
      /\ client' = client /\ msgs' = msgs /\ todo' = todo /\ resuming' = resuming
      /\ content' = <<>> /\ received' = 0
    BY DEF Answer
<1>2. calls = [i \in DOMAIN parsed.calls |-> ToolCall(parsed.calls[i])]
    BY DEF CallsOf
<1>3. given = IF client.stream THEN released \o Flush(filter) ELSE parsed.text
    BY <1>1, GivenIs
<1>4. byHistory' = {e \in byHistory : e.key # key} \cup {[key |-> key, todo |-> todo]}
    BY <1>2, Zenon DEF Answer, conversationKeyWith, hashConversation, CallsOf
<1>5. toolNames' = IF names = {} THEN toolNames ELSE {n \in toolNames : n.todo # todo} \cup names
    BY <1>2, Zenon DEF Answer, CallsOf
<1>6. history' = history \o build(given, calls)
    BY <1>1, <1>2, <1>3, Zenon DEF Answer, CallsOf
<1>7. last' = [content |-> content, todo |-> todo, named |-> msgs # R]
    BY DEF Answer, Request
<1>8. client \in Clients /\ content \in Seq(Tokens) /\ p \in Protocols
    BY ClientsAssumption DEF EchoInv, Protocols
<1>9. /\ EchoTyped /\ R # <<>> /\ Last(R).role # "assistant" /\ Len(msgs) = Len(R)
      /\ \A e \in byHistory : Len(e.key) <= Len(R)
    BY <1>1 DEF ResumeInv, Answering
<1>10. /\ history \in Seq(Items(p)) /\ msgs \in Seq(Messages) /\ todo \in Nat /\ todo > 0
       /\ byHistory \subseteq Entries(todo) /\ toolNames \subseteq NamesOf(todo)
       /\ turn < client.turns /\ turn \in 0..client.turns
    BY <1>1, <1>9 DEF EchoTyped
<1>11. /\ given \in Texts /\ said \in Messages /\ said.role = "assistant"
       /\ calls \in Seq(CallRecords) /\ shown \in Seq(Kept(p)) /\ Len(shown) = Len(calls)
       /\ said = read <=> ~RespelledBy(client, content)
    BY <1>8, AnswerSame
<1>12. R \in Seq(Messages)
    BY <1>10, ChatRequestTyped DEF Request
<1>13. shown = [i \in DOMAIN calls |-> renderCall(calls[i])]
    BY DEF ShownOf
<1>. HIDE DEF parsed, calls, shown, given, said, names, R
<1>14. /\ history' \in Seq(Items(p))
       /\ chatRequest(p, history') = Append(R, read)
    <2>1. /\ DOMAIN calls = 1..Len(calls) /\ Len(calls) \in Nat /\ (calls = <<>> <=> shown = <<>>)
        <3>1. calls = <<>> <=> Len(calls) = 0
            BY <1>11, EmptySeq
        <3>2. shown = <<>> <=> Len(shown) = 0
            BY <1>11, EmptySeq
        <3>. QED
            BY <1>11, <3>1, <3>2, LenProperties
    <2>2. chatRequest(p, history) = R
        BY DEF R, Request
    <2>3. /\ history \o build(given, calls) \in Seq(Items(p))
          /\ chatRequest(p, history \o build(given, calls)) = Append(R, read)
        BY <1>8, <1>9, <1>10, <1>11, <1>13, <2>1, <2>2, BuildRead
    <2>. QED
        BY <1>6, <2>3
<1>15. Request' = Append(R, read)
    BY <1>1, <1>14 DEF Request
<1>16. read.role = "assistant"
    BY DEF Message
<1>17. read \in Messages
    <2>1. ReadCalls(p, shown) \in Seq(CallRecords)
        BY <1>11, CallItemsTyped
    <2>. QED
        BY <1>11, <2>1, MessageTyped
<1>. HIDE DEF read
<1>18. /\ Request' # <<>> /\ Last(Request').role = "assistant"
       /\ key \in Seq(Messages) /\ key # <<>> /\ Last(key).role = "assistant"
    <2>1. Append(R, read) # <<>> /\ Last(Append(R, read)) = read
        BY <1>12, <1>17, LastAppended
    <2>2. msgs \in Seq(Messages) /\ said \in Messages
        BY <1>10, <1>11
    <2>3. key \in Seq(Messages) /\ key # <<>> /\ Last(key) = said
        BY <2>2, LastAppended
    <2>. HIDE DEF key
    <2>. QED
        BY <1>11, <1>15, <1>16, <2>1, <2>3
<1>19. Continues' <=> msgs = R /\ said = read
    <2>1. Continues' <=> ~RespelledBy(client', last'.content) /\ ~last'.named
        BY DEF Continues
    <2>2. last'.content = content /\ (last'.named <=> msgs # R)
        BY <1>7
    <2>. QED
        BY <1>1, <1>11, <2>1, <2>2
<1>20. KnownIn(byHistory', Append(R, read), todo, Continues')
    <2>1. \A e \in byHistory : e.key \in Seq(Messages) /\ Len(e.key) <= Len(R)
        BY <1>9, <1>10 DEF Entries
    <2>2. ASSUME NEW after, NEW continues,
                 after = {e \in byHistory : e.key # Append(msgs, said)}
                           \cup {[key |-> Append(msgs, said), todo |-> todo]},
                 continues <=> msgs = R /\ said = read
          PROVE  KnownIn(after, Append(R, read), todo, continues)
        <3>1. Len(msgs) = Len(R) /\ msgs \in Seq(Messages) /\ said \in Messages
            BY <1>9, <1>10, <1>11
        <3>. QED
            BY <1>12, <1>17, <2>1, <2>2, <3>1, KnownAfter
    <2>. QED
        BY <1>4, <1>19, <2>2
<1>21. Replied'
    <2>1. last'.todo = todo'
        BY <1>1, <1>7
    <2>2. KnownIn(byHistory', Request', todo', Continues')
        BY <1>1, <1>15, <1>20
    <2>. QED
        BY <1>18, <2>1, <2>2 DEF Replied, Known
<1>22. byHistory' \in SUBSET Entries(todo)
    <2>1. todo \in 1..todo
        BY <1>10
    <2>. HIDE DEF key
    <2>2. [key |-> key, todo |-> todo] \in Entries(todo)
        BY <1>18, <2>1 DEF Entries
    <2>. QED
        BY <1>4, <1>10, <2>2
<1>23. toolNames' \in SUBSET NamesOf(todo)
    <2>1. \A i \in DOMAIN calls : calls[i].id \in Bodies /\ calls[i].name \in Names
        <3>1. \A i \in DOMAIN calls : calls[i] \in CallRecords
            BY <1>11, LenProperties, ElementOfSeq
        <3>. QED
            BY <3>1 DEF CallRecords
    <2>2. todo \in 1..todo
        BY <1>10
    <2>3. names \subseteq NamesOf(todo)
        BY <2>1, <2>2 DEF names, NamesOf
    <2>. QED
        BY <1>5, <1>10, <2>3
<1>24. EchoTyped'
    <2>1. client.turns \in Nat /\ client.most \in Nat
        BY <1>8, ClientsAssumption
    <2>2. turn' \in 0..client.turns /\ received' \in 0..client.most
        BY <1>1, <1>10, <2>1
    <2>3. resuming' \in BOOLEAN
        BY <1>1, <1>9 DEF EchoTyped
    <2>. QED
        BY <1>1, <1>10, <1>14, <1>22, <1>23, <2>2, <2>3 DEF EchoTyped
<1>25. Begun'
    BY <1>1, <1>10 DEF Begun
<1>. QED
    BY <1>1, <1>21, <1>24, <1>25 DEF ResumeInv, Asked, Answering

LEMMA ResumeNext == EchoInv /\ ResumeInv /\ [Next]_vars => ResumeInv'
<1>. SUFFICES ASSUME EchoInv, ResumeInv, [Next]_vars
              PROVE  ResumeInv'
    OBVIOUS
<1>1. CASE \E parts \in client.asks : Ask(parts)
    BY <1>1, ResumeAsk
<1>2. CASE Lookup
    BY <1>2, ResumeLookup
<1>3. CASE \E fragment \in client.fragments : Receive(fragment)
    BY <1>3, ResumeReceive
<1>4. CASE Answer
    BY <1>4, ResumeAnswer
<1>5. CASE UNCHANGED vars
    <2>1. /\ client' = client /\ history' = history /\ pc' = pc /\ msgs' = msgs /\ todo' = todo
          /\ resuming' = resuming /\ content' = content /\ received' = received
          /\ byHistory' = byHistory /\ toolNames' = toolNames /\ turn' = turn /\ last' = last
        BY <1>5 DEF vars, store
    <2>2. Request' = Request /\ Continues' = Continues
        BY <2>1 DEF Request, Continues
    <2>3. EchoTyped' /\ Begun'
        BY <2>1, <2>2 DEF ResumeInv, EchoTyped, Begun
    <2>4. Replied' /\ Asked'
        BY <2>1, <2>2 DEF ResumeInv, Replied, Asked, Known
    <2>5. Answering'
        BY <2>1, <2>2 DEF ResumeInv, Answering
    <2>. QED
        BY <2>3, <2>4, <2>5 DEF ResumeInv
<1>. QED
    BY <1>1, <1>2, <1>3, <1>4, <1>5 DEF Next

LEMMA EchoIsTyped == EchoInv /\ ResumeInv => EchoTypeOK
<1>. SUFFICES ASSUME EchoInv, ResumeInv
              PROVE  EchoTypeOK
    OBVIOUS
<1>1. /\ client \in Clients /\ content \in Seq(Tokens)
      /\ filter \in Filters /\ released \in Seq(Tokens) /\ (filter.stopped => filter.pending = <<>>)
    BY FilterTyped DEF EchoInv
<1>2. EchoTyped
    BY DEF ResumeInv
<1>3. \A t \in Seq(Tokens) : t \in Texts
    BY DEF Texts
<1>4. filter \in [pending: Texts, inBlock: BOOLEAN, stopped: BOOLEAN]
    BY <1>1, <1>3 DEF Filters
<1>5. \A m \in Range(msgs) : m \in Messages
    <2>1. msgs \in Seq(Messages)
        BY <1>2 DEF EchoTyped
    <2>2. \A i \in DOMAIN msgs : msgs[i] \in Messages
        BY <2>1, LenProperties, ElementOfSeq
    <2>. QED
        BY <2>2 DEF Range
<1>6. \A m \in Range(msgs) :
        /\ m.role \in {"user", "assistant", "tool"} /\ m.text \in Texts
        /\ m.calls \in Seq(CallRecords) /\ m.name \in Names /\ m.images \in Nat
        /\ m.calls # <<>> => m.role = "assistant"
        /\ m.role = "tool" <=> m.call \in Bodies
        /\ m.name # <<>> => m.role = "tool"
    BY <1>5 DEF Messages
<1>7. \A e \in byHistory : e.todo \in 1..todo /\ Last(e.key).role = "assistant"
    BY <1>2 DEF EchoTyped, Entries
<1>8. toolNames \subseteq [todo: 1..todo, call: Bodies, name: Names]
    BY <1>2 DEF EchoTyped, NamesOf
<1>. QED
    BY <1>1, <1>2, <1>3, <1>4, <1>6, <1>7, <1>8 DEF EchoTypeOK, EchoTyped

LEMMA ResumesInv == ResumeInv => EchoResumes
<1>. SUFFICES ASSUME ResumeInv, pc = "stream", turn > 0
              PROVE  /\ resuming <=> ~Respelled(last.content) /\ ~last.named
                     /\ resuming => todo = last.todo
    BY DEF EchoResumes
<1>1. (resuming <=> Continues) /\ (resuming => todo = last.todo)
    BY DEF ResumeInv, Answering
<1>. QED
    BY <1>1, RespelledIs DEF Continues

\* Whatever clients and tools there are, every variable keeps its type:
\* messages and items are well formed in each protocol, only calls of known
\* todos have entries and names, every history that is known ends with a reply
\* of the assistant, and a filter that has met a call holds nothing.
THEOREM EchoKeepsItsTypes == Spec => []EchoTypeOK
<1>1. Init => EchoInv /\ ResumeInv
    BY EchoInvInit, ResumeInit DEF EchoInv
<1>2. (EchoInv /\ ResumeInv) /\ [Next]_vars => (EchoInv /\ ResumeInv)'
    BY EchoInvNext, ResumeNext
<1>3. EchoInv /\ ResumeInv => EchoTypeOK
    BY EchoIsTyped
<1>. QED
    BY <1>1, <1>2, <1>3, PTL DEF Spec

\* A client that sends back what it was given continues its todo, in each
\* protocol, streaming or not, however long the conversation: it is started
\* over exactly if the last reply was spelled differently for it than it was
\* recorded, or recorded with names it did not send (conversationKey,
\* conversationKeyWith, enrichToolResultNames, and the rendering and reading
\* of calls by the transports).
THEOREM EchoIsRecognised == Spec => []EchoResumes
<1>1. Init => EchoInv /\ ResumeInv
    BY EchoInvInit, ResumeInit DEF EchoInv
<1>2. (EchoInv /\ ResumeInv) /\ [Next]_vars => (EchoInv /\ ResumeInv)'
    BY EchoInvNext, ResumeNext
<1>3. EchoInv /\ ResumeInv => EchoResumes
    BY ResumesInv
<1>. QED
    BY <1>1, <1>2, <1>3, PTL DEF Spec
=============================================================================
