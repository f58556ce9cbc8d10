--------------------------- MODULE MCConversation ---------------------------
(***************************************************************************)
(* Instances of Conversation for TLC.                                      *)
(***************************************************************************)
EXTENDS ConversationProperties, TLC
CONSTANTS c1, c2, x

TwoClients == {c1, c2}
OneWord    == {x}
Symmetry   == Permutations(Clients) \cup Permutations(Words)
=============================================================================
