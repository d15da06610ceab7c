--------------------------- MODULE MCChatSession ----------------------------
(* Two messages of one session, and one node: boxes are kept by node.       *)
EXTENDS ChatSession

CONSTANT n1

TwoMessages == 1..2
OneNode     == {n1}
=============================================================================
