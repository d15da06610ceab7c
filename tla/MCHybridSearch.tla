--------------------------- MODULE MCHybridSearch ---------------------------
(* One worker that syncs, three documents, and room for two of them in an  *)
(* answer.                                                                 *)
EXTENDS RetrievalEvaluation

CONSTANTS w1, a, b, c

OneWorker      == {w1}
Nobody         == {}
ThreeDocuments == {a, b, c}

\* 1000 / log2(rank + 1)
ThreeDiscounts == <<1000, 631, 500>>
=============================================================================
