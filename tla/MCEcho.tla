------------------------------- MODULE MCEcho -------------------------------
(***************************************************************************)
(* Instances of Echo for TLC.                                              *)
(***************************************************************************)
EXTENDS EchoProperties

Block(body) == toolOpenTag \o <<body>> \o toolCloseTag

\* One turn of a stream cut in every way: single tokens, tags and blocks.
Cutting == [protocol |-> "chat", stream |-> TRUE, tool |-> "function", asks |-> {<<"text">>},
            fragments |-> {<<t>> : t \in {"<", "TOOL_CALL>", "/TOOL_CALL>", "compact", "space"}}
                          \cup {toolOpenTag, Block("compact")},
            most |-> 6, turns |-> 1]

\* Conversations of whole blocks around text, for every other kind of client.
Talking(protocol, stream, tool) ==
    [protocol |-> protocol, stream |-> stream, tool |-> tool,
     asks |-> {<<"text", "image">>} \cup IF tool = "function" THEN {<<"link">>} ELSE {},
     fragments |-> {<<"space">>, <<"word">>} \cup {Block(b) : b \in Bodies},
     most |-> 2, turns |-> 2]

Everyone == {Cutting}
            \cup {Talking(p, s, "function") : p \in {"chat", "anthropic"}, s \in BOOLEAN}
            \cup {Talking("responses", s, t) : s \in BOOLEAN,
                     t \in {"function", "custom", "namespace", "undeclared"}}

\* HasToolCall says whether ParseToolCalls finds a call; of all texts of up to
\* five tokens, the shortest with one.
ASSUME MCToolCalls ==
    \A n \in 0..5 : \A text \in [1..n -> Tokens] :
        HasToolCall(text) <=> ParseToolCalls(text).calls # <<>>

ChatClient == {Talking("chat", FALSE, "function")}
=============================================================================
