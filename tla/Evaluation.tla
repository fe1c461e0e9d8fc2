------------------------------ MODULE Evaluation ------------------------------
(***************************************************************************)
(* The retrieval metrics of app/eval/metrics.py, and what run_evaluation   *)
(* of app/eval/harness.py makes of one call of retrieve: the documents     *)
(* cited, best first, against those a golden case names.  Fractions are    *)
(* pairs of a numerator and a denominator.  The means over the cases are   *)
(* left out.                                                               *)
(***************************************************************************)
EXTENDS Retrieval

CONSTANTS
    DocumentOf,     \* the document of each chunk
    Ingested,       \* label_to_document_id, as the labels that have a document
    Cutoffs         \* the values of k

ASSUME EvaluationConstants ==
    /\ DOMAIN DocumentOf = Chunks
    /\ Cutoffs \subseteq Nat
-----------------------------------------------------------------------------
Fraction(n, d) == [num |-> n, den |-> d]
Zero == Fraction(0, 1)

recall_at_k(retrieved, relevant, k) ==
    IF relevant = {} THEN Zero
    ELSE Fraction(Cardinality(Elements(Cut(retrieved, k)) \cap relevant), Cardinality(relevant))

precision_at_k(retrieved, relevant, k) ==
    LET top_k == Cut(retrieved, k)
        hits == {i \in 1 .. Len(top_k) : top_k[i] \in relevant}
    IN  IF top_k = <<>> THEN Zero ELSE Fraction(Cardinality(hits), Len(top_k))

reciprocal_rank(retrieved, relevant) ==
    LET ranks == {i \in 1 .. Len(retrieved) : retrieved[i] \in relevant}
    IN  IF ranks = {} THEN Zero
        ELSE Fraction(1, CHOOSE i \in ranks : \A j \in ranks : i <= j)

\* Mutant: a document counts as often as it is cited.
SeenRepeatedly(cited) == [i \in 1 .. Len(cited) |-> DocumentOf[cited[i]]]

\* seen: the documents of the citations, each where it is cited first.
Seen(cited) ==
    LET first == {i \in 1 .. Len(cited) :
                    \A j \in 1 .. i - 1 : DocumentOf[cited[j]] # DocumentOf[cited[i]]}
        order == Arranged(first, {p \in first \X first : p[1] < p[2]})
    IN  [n \in 1 .. Len(order) |-> DocumentOf[cited[order[n]]]]

\* relevant_ids: a label whose document was not ingested is passed over.
RelevantIds(labels) == labels \cap Ingested
-----------------------------------------------------------------------------
(* Properties *)

\* The three figures of a report are about the same hits, whatever retrieve has
\* cited, however many chunks of one document: recall and precision count the same
\* documents among the first k, neither is more than one, and there is a hit among
\* them just when the first relevant document has a rank of at most k.
MetricsAgree ==
    done = "assemble" =>
        \A labels \in SUBSET {DocumentOf[c] : c \in Chunks}, k \in Cutoffs :
            LET seen == Seen(citations)
                relevant == RelevantIds(labels)
                r == recall_at_k(seen, relevant, k)
                p == precision_at_k(seen, relevant, k)
                rr == reciprocal_rank(seen, relevant)
            IN  /\ r.num = p.num
                /\ r.num <= r.den /\ p.num <= p.den
                /\ r.num > 0 <=> rr.num > 0 /\ rr.den <= k
=============================================================================
