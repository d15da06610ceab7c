---------------------------- MODULE HybridSearch ----------------------------
(* The hybrid search of the zoning agent beside the syncs that rewrite both *)
(* of its indexes: search_zoning_laws_hybrid asks Pinecone and Postgres in  *)
(* parallel, lets either of them fail, and fuses the two rankings with      *)
(* Reciprocal Rank Fusion.  The breaker in front of Pinecone is that of     *)
(* CircuitBreaker; here it is a reason to skip the dense half.              *)
(*                                                                          *)
(* Of a query only the orders matter in which it puts the documents: all of *)
(* them by their embeddings, those whose words match by their text.  Copies *)
(* of one document have the same text, hence the same rank score, and come  *)
(* next to each other.  Fused scores are multiples of 1/Unit.               *)
EXTENDS KnowledgeSync, SequencesExt

CONSTANTS
    Candidates,  \* HYBRID_RETRIEVAL_CANDIDATES_PER_SOURCE
    Results,     \* HYBRID_RETRIEVAL_RESULTS
    RrfK,        \* HYBRID_RETRIEVAL_RRF_K
    Unit         \* the score that stands for 1

ASSUME SearchAssumption ==
    /\ Candidates \in Nat \ {0} /\ Results \in Nat \ {0}
    /\ RrfK \in Nat /\ Unit \in Nat
    /\ \A rank \in 1..Candidates : Unit % (RrfK + rank) = 0

VARIABLES
    searching,   \* a search is under way
    half         \* what each half has answered: an error status or chunks

searchVars == <<searching, half>>
vars == <<syncVars, searchVars>>

Halves == {"dense", "lexical"}
Answer(status, chunks) == [status |-> status, chunks |-> chunks]
Waiting == [h \in Halves |-> Answer("waiting", <<>>)]

SearchInit == searching = FALSE /\ half = Waiting

----------------------------------------------------------------------------
CutTo(n, list) == SubSeq(list, 1, IF Len(list) < n THEN Len(list) ELSE n)

(* Each document of an order as often as the index holds it, cut to the     *)
(* number of candidates.                                                    *)
Hits(order, copies) ==
    CutTo(Candidates, FlattenSeq([i \in DOMAIN order |->
                                    [j \in 1..copies[order[i]] |-> order[i]]]))

RowsOf == [d \in Documents |-> Cardinality({row \in lexical : row[2] = d})]

(* reciprocal_rank_fusion: one pass over both lists that adds a term to the *)
(* score of every entry it meets.                                           *)
Term(rank) == Unit \div (RrfK + rank)

\* Mutant of AddTerms: a term replaces the score from the other list.
AddTermsOver(scores, list) ==
    FoldLeftDomain(LAMBDA acc, rank : [acc EXCEPT ![list[rank]] = Term(rank)],
                   scores, list)

AddTerms(scores, list) ==
    FoldLeftDomain(LAMBDA acc, rank : [acc EXCEPT ![list[rank]] = @ + Term(rank)],
                   scores, list)

Scores(lists) == FoldLeft(AddTerms, [d \in Documents |-> 0], lists)

FirstSeen(list, d) == SelectInSeq(list, LAMBDA e : e = d)

(* Best score first; equal scores keep the order of their first sight. *)
Precedes(score, seen, d, e) ==
    \/ score[d] > score[e]
    \/ score[d] = score[e] /\ FirstSeen(seen, d) < FirstSeen(seen, e)

Fused(lists) ==
    LET seen  == FlattenSeq(lists)
        score == Scores(lists)
    IN  CHOOSE ranking \in SetToSeqs(ToSet(seen)) :
          \A i, j \in DOMAIN ranking :
            i < j => Precedes(score, seen, ranking[i], ranking[j])

----------------------------------------------------------------------------
(* The agent calls the tool.  Without Pinecone's keys, or when the breaker  *)
(* refuses the call, the dense half is skipped before it starts.            *)
Ask ==
    /\ ~searching
    /\ searching' = TRUE
    /\ \E dense0 \in {Answer("waiting", <<>>), Answer("skipped", <<>>)} :
         half' = [Waiting EXCEPT !["dense"] = dense0]
    /\ UNCHANGED syncVars

HalfEnds(h, answer) ==
    /\ searching
    /\ half[h].status = "waiting"
    /\ half' = [half EXCEPT ![h] = answer]
    /\ UNCHANGED <<syncVars, searching>>

(* The two halves read their indexes on their own, in either order and with *)
(* any step of a sync in between.                                           *)
DenseAnswers ==
    \E order \in SetToSeqs(Documents) :
        HalfEnds("dense", Answer("answered", Hits(order, dense)))

LexicalAnswers ==
    \E order \in SetToAllKPermutations(Documents) :
        HalfEnds("lexical", Answer("answered", Hits(order, RowsOf)))

(* gather(return_exceptions=True) turns a failure into an empty list. *)
HalfFails(h) == HalfEnds(h, Answer("failed", <<>>))

(* Both halves have ended. *)
Ended == searching /\ \A h \in Halves : half[h].status # "waiting"

\* Mutant of Lists: a failed half takes the other with it.
ListsUnlessFailed ==
    IF \E h \in Halves : half[h].status = "failed" THEN <<<<>>, <<>>>>
    ELSE <<half["dense"].chunks, half["lexical"].chunks>>

Lists == <<half["dense"].chunks, half["lexical"].chunks>>

(* The chunks handed to the agent. *)
Shown == CutTo(Results, Fused(Lists))

(* The tool reports the dense call to the breaker, and hands over what is   *)
(* shown or says that nothing is available.                                 *)
Return ==
    /\ Ended
    /\ searching' = FALSE
    /\ half' = Waiting
    /\ UNCHANGED syncVars

SearchNext ==
    \/ Ask \/ DenseAnswers \/ LexicalAnswers \/ Return
    \/ \E h \in Halves : HalfFails(h)

Init == SyncInit /\ SearchInit
Next == (SyncNext /\ UNCHANGED searchVars) \/ SearchNext
Spec == Init /\ [][Next]_vars

----------------------------------------------------------------------------
Repeats(list) == ~IsInjective(list)

Found(h) == half[h].chunks

(* The score of hybrid_search.py:11-12: for every half that found d, 1/(k + *)
(* its position there).                                                     *)
Points(h, d) == IF Contains(Found(h), d) THEN Term(FirstSeen(Found(h), d)) ELSE 0

DocumentedScore(d) == Points("dense", d) + Points("lexical", d)

(* reciprocal_rank_fusion and the cut after it: when neither half repeats a *)
(* chunk, what is shown are the best of all that was found by the           *)
(* documented score, best first, none twice and none left out while there   *)
(* is room.  In particular "one side's outage never prevents the other from *)
(* being returned" (hybrid_search.py:104-105): what one half has found is   *)
(* shown when the other has failed, and in its order.                       *)
FusionAsDocumented ==
    Ended /\ (\A h \in Halves : ~Repeats(Found(h))) =>
        LET left == (UNION {ToSet(Found(h)) : h \in Halves}) \ ToSet(Shown)
            rank == [i \in DOMAIN Shown |-> DocumentedScore(Shown[i])]
        IN  /\ ~Repeats(Shown)
            /\ \A i, j \in DOMAIN Shown : i < j => rank[i] >= rank[j]
            /\ left # {} => Len(Shown) = Results
            /\ \A d \in left, i \in DOMAIN Shown : rank[i] >= DocumentedScore(d)
=============================================================================
