-------------------------- MODULE MCKnowledgeSync --------------------------
(* Two workers, an operator who starts the script by hand, and a document. *)
EXTENDS KnowledgeSync

CONSTANTS w1, w2, op, a

TwoWorkers   == {w1, w2}
OneOperator  == {op}
OneDocument  == {a}
=============================================================================
