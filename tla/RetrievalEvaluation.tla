------------------------ MODULE RetrievalEvaluation -------------------------
(* The scores scripts/evaluate_retrieval.py gives to dense, lexical and     *)
(* hybrid retrieval: recall@k, reciprocal rank and nDCG@k of one query      *)
(* against its hand-labelled relevant chunks.  It runs the search of        *)
(* HybridSearch, here at whatever point of a sync; its tables, its rollback *)
(* and the means over the queries are left out.                             *)
EXTENDS HybridSearch

CONSTANTS
    EvalK,      \* RETRIEVAL_EVAL_K
    Discount    \* of each rank, multiples of 1/log2(rank + 1), rounded

ASSUME EvaluationAssumption ==
    /\ EvalK \in Nat \ {0}
    /\ Discount \in Seq(Nat \ {0}) /\ Len(Discount) >= EvalK
    /\ \A i, j \in DOMAIN Discount : i < j => Discount[i] > Discount[j]

(* recall_at_k, as the number of relevant chunks it has found. *)
FoundAtK(retrieved, relevant) ==
    Cardinality(ToSet(CutTo(EvalK, retrieved)) \cap relevant)

(* reciprocal_rank, as the rank; 0 when nothing relevant was retrieved.     *)
(* The list is not cut.                                                     *)
FirstRelevant(retrieved, relevant) ==
    SelectInSeq(retrieved, LAMBDA d : d \in relevant)

(* One pass over the list, best rank first. *)
Gain(list, relevant) ==
    FoldLeftDomain(LAMBDA sum, rank : IF list[rank] \in relevant THEN sum + Discount[rank]
                                      ELSE sum,
                   0, list)

\* Mutant of Dcg: the list is not cut.
DcgUncut(retrieved, relevant) == Gain(retrieved, relevant)

Dcg(retrieved, relevant) == Gain(CutTo(EvalK, retrieved), relevant)

TotalOf(list) == FoldLeft(LAMBDA sum, discount : sum + discount, 0, list)

(* Every relevant chunk at the top, as far as k has room for them. *)
IdealDcg(relevant) ==
    TotalOf(CutTo(IF Cardinality(relevant) < EvalK THEN Cardinality(relevant) ELSE EvalK,
                  Discount))

(* The rankings run_evaluation scores. *)
Arms == {half["dense"].chunks, half["lexical"].chunks, CutTo(Candidates, Fused(Lists))}

----------------------------------------------------------------------------
(* The metrics of a query agree, whatever was retrieved and whatever is     *)
(* relevant: nDCG sees something exactly when recall does, and then the     *)
(* reciprocal rank is at least 1/k.  And for a ranking without repeats nDCG *)
(* is at most 1 (evaluation.py:40), which it reaches exactly when nothing   *)
(* irrelevant stands where a relevant chunk could.                          *)
MetricsAgree ==
    Ended => \A retrieved \in Arms, relevant \in (SUBSET Documents) \ {{}} :
        /\ Dcg(retrieved, relevant) > 0 <=> FoundAtK(retrieved, relevant) > 0
        /\ Dcg(retrieved, relevant) > 0 <=> FirstRelevant(retrieved, relevant) \in 1..EvalK
        /\ ~Repeats(retrieved) =>
             /\ Dcg(retrieved, relevant) <= IdealDcg(relevant)
             /\ Dcg(retrieved, relevant) = IdealDcg(relevant) <=>
                  \/ relevant \subseteq ToSet(CutTo(Cardinality(relevant), retrieved))
                  \/ /\ Len(retrieved) >= EvalK
                     /\ ToSet(CutTo(EvalK, retrieved)) \subseteq relevant
=============================================================================
