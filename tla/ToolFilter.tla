----------------------------- MODULE ToolFilter -----------------------------
(***************************************************************************)
(* The text protocol for client-side tools (internal/openai/toolproto.go): *)
(* the parser that finds the calls in a reply and the filter that streams  *)
(* the text around them.                                                   *)
(*                                                                         *)
(* A text is a sequence of tokens.  A tag is cut in two tokens, which is   *)
(* enough for it to arrive in pieces; "<" begins both tags.  The body of a *)
(* valid block is one token; anything else between two tags is not valid.  *)
(***************************************************************************)
EXTENDS Integers, Sequences, SequencesExt, FiniteSetsExt

CONSTANT Bodies \* bodies of blocks that decode to a call with a name

toolOpenTag  == <<"<", "TOOL_CALL>">>
toolCloseTag == <<"<", "/TOOL_CALL>">>
Tokens == Bodies \cup {"<", "TOOL_CALL>", "/TOOL_CALL>", "space", "word"}

\* Where tag begins in text, at or after from; 0 if it does not.
Index(text, tag, from) ==
    LET at == {i \in from..Len(text) - Len(tag) + 1 :
                 SubSeq(text, i, i + Len(tag) - 1) = tag}
    IN  IF at = {} THEN 0 ELSE Min(at)

Rest(text, from) == SubSeq(text, from, Len(text))

TrimSpace(text) ==
    LET solid(t) == t # "space" IN
    SubSeq(text, SelectInSeq(text, solid),
                 IF SelectInSeq(text, solid) = 0 THEN -1 ELSE SelectLastInSeq(text, solid))

-----------------------------------------------------------------------------
(***************************************************************************)
(* Faulty variants of the definitions below; nothing uses them.            *)
(***************************************************************************)
\* Only a whole tag is held back.
holdsNothing(text) == 0

\* A filter that stops at a block keeps the block.
keepsBlock(text) == [pending |-> text, inBlock |-> TRUE, stopped |-> TRUE]

-----------------------------------------------------------------------------
\* Every pair of an opening tag and the first closing tag after it.
findToolBlocks(text) ==
    LET from[o \in 1..Len(text) + 1] ==
          LET open == Index(text, toolOpenTag, o)
              close == IF open = 0 THEN 0 ELSE Index(text, toolCloseTag, open + 2)
          IN  IF close = 0 THEN <<>>
              ELSE <<[start |-> open, raw |-> TrimSpace(SubSeq(text, open + 2, close - 1))]>>
                   \o from[close + 2]
    IN  from[1]

\* A block that decodes to a call with a name.
Valid(block) == Len(block.raw) = 1 /\ block.raw[1] \in Bodies

\* The calls of the valid blocks, and the text before the first of them or all
\* of it.
ParseToolCalls(text) ==
    LET blocks == findToolBlocks(text)
        valid == {n \in DOMAIN blocks : Valid(blocks[n])}
        calls[n \in 0..Len(blocks)] ==
          IF n = 0 THEN <<>>
          ELSE IF n \in valid THEN Append(calls[n - 1], blocks[n].raw[1])
          ELSE calls[n - 1]
    IN  [text  |-> IF valid = {} THEN text
                   ELSE TrimSpace(SubSeq(text, 1, blocks[Min(valid)].start - 1)),
         calls |-> calls[Len(blocks)]]

HasToolCall(text) == \E block \in Range(findToolBlocks(text)) : Valid(block)

\* The length of the longest end of text that may be the beginning of a tag.
possibleToolTagPrefix(text) ==
    Max({0} \cup {n \in 1..Len(toolOpenTag) - 1 : IsSuffix(SubSeq(toolOpenTag, 1, n), text)})

-----------------------------------------------------------------------------
(***************************************************************************)
(* ToolCallStreamFilter.                                                   *)
(***************************************************************************)
NewFilter == [pending |-> <<>>, inBlock |-> FALSE, stopped |-> FALSE]

\* What Push leaves behind and what it gives out.
Pushed(filter, out) == [filter |-> filter, out |-> out]
Holding(text, inBlock) == [pending |-> text, inBlock |-> inBlock, stopped |-> FALSE]
Stopped(text) == [pending |-> <<>>, inBlock |-> TRUE, stopped |-> TRUE]

\* The loop of Push over text from o on, inside of a block or not.
Scan(text) ==
    LET After(out, next) == [next EXCEPT !.out = out \o @]
        loop[at \in (1..Len(text) + 1) \X BOOLEAN] ==
          LET o     == at[1]
              open  == Index(text, toolOpenTag, o)
              close == Index(text, toolCloseTag, o + 2)
              block == SubSeq(text, o, close + 1)
              safe  == Len(text) - possibleToolTagPrefix(Rest(text, o))
          IN  IF at[2]
              THEN IF close = 0 THEN Pushed(Holding(Rest(text, o), TRUE), <<>>)
                   ELSE IF HasToolCall(block) THEN Pushed(Stopped(block), <<>>)
                   ELSE After(block, loop[<<close + 2, FALSE>>])
              ELSE IF open # 0 THEN After(SubSeq(text, o, open - 1), loop[<<open, TRUE>>])
                   ELSE Pushed(Holding(Rest(text, safe + 1), FALSE), SubSeq(text, o, safe))
    IN  loop

Push(filter, fragment) ==
    IF filter.stopped THEN Pushed(filter, <<>>)
    ELSE Scan(filter.pending \o fragment)[<<1, filter.inBlock>>]

Flush(filter) == IF filter.stopped THEN <<>> ELSE filter.pending
=============================================================================
