------------------------------ MODULE Retrieval ------------------------------
(***************************************************************************)
(* One call of retrieve in app/services/retrieval.py: two searches, and    *)
(* then _fuse, _rerank and _assemble.  What the texts and the vectors are  *)
(* is left out: of a chunk it matters how many terms of the query it has   *)
(* and what it costs.                                                      *)
(***************************************************************************)
EXTENDS Naturals, Sequences, FiniteSets

CONSTANTS
    Chunks,
    Overlap,        \* the overlaps with the query a chunk may have
    Cost,           \* the costs a chunk may have; 0 for text without a token
    TopK,           \* settings.retrieval_top_k
    RerankTopK,     \* settings.rerank_top_k
    Budget          \* settings.context_token_budget

RRF_K == 60

ASSUME RetrievalConstants ==
    /\ IsFiniteSet(Chunks)
    /\ Overlap \subseteq Nat
    /\ Cost \subseteq Nat
    /\ TopK \in Nat \ {0}
    /\ RerankTopK \in Nat \ {0}
    /\ Budget \in Nat

VARIABLES
    matches, cost,      \* of each chunk: terms of the query, tokens
    dense, keyword,     \* the two rankings, best first
    fused, top,         \* the results of _fuse and _rerank
    citations,          \* of _assemble
    done                \* the step of retrieve that is done

retrievalVars == <<matches, cost, dense, keyword, fused, top, citations, done>>
-----------------------------------------------------------------------------
Elements(s) == {s[i] : i \in 1 .. Len(s)}

\* Rankings without repetition, of at most n chunks.
Rankings(n) ==
    LET length == 0 .. IF n < Cardinality(Chunks) THEN n ELSE Cardinality(Chunks)
    IN  {s \in UNION {[1 .. k -> Chunks] : k \in length} : Cardinality(Elements(s)) = Len(s)}

Rank(s, c) == CHOOSE i \in 1 .. Len(s) : s[i] = c

\* s[:n]
Cut(s, n) == SubSeq(s, 1, IF n < Len(s) THEN n ELSE Len(s))

\* S in the order that before, a set of pairs, puts it in.
Arranged(S, before) ==
    [i \in 1 .. Cardinality(S) |->
       CHOOSE c \in S : Cardinality({d \in S : <<d, c>> \in before}) = i - 1]

\* sorted(..., key, reverse=True) of the elements of S, which is stable: c comes after
\* those that are better and those that are as good and have a lower place.
Sorted(S, better, place) ==
    Arranged(S, {p \in S \X S :
                   \/ p \in better
                   \/ <<p[2], p[1]>> \notin better /\ place[p[1]] < place[p[2]]})

\* Scores are fractions: the sum of 1 / (_RRF_K + rank) over the rankings.
Add(x, y) == [num |-> x.num * y.den + y.num * x.den, den |-> x.den * y.den]

Greater(x, y) == x.num * y.den > y.num * x.den

Share(s, c) ==
    IF c \in Elements(s) THEN [num |-> 1, den |-> RRF_K + Rank(s, c)] ELSE [num |-> 0, den |-> 1]

\* Mutant: setdefault, for the score as for the chunk.
ScoreOnce(c) == IF c \in Elements(dense) THEN Share(dense, c) ELSE Share(keyword, c)

Score(c) == Add(Share(dense, c), Share(keyword, c))

\* The keys of _keyword, of _fuse and of _rerank: the pairs they tell apart.
MoreTerms == {p \in Chunks \X Chunks : matches[p[1]] > matches[p[2]]}

HigherScore == {p \in Chunks \X Chunks : Greater(Score(p[1]), Score(p[2]))}

Outranks == MoreTerms \cup {p \in HigherScore : matches[p[1]] = matches[p[2]]}

Places(s) == [c \in Elements(s) |-> Rank(s, c)]

Found == Elements(dense) \cup Elements(keyword)

\* fused: a dictionary, in the order the chunks are put into it.
Inserted ==
    [c \in Found |-> IF c \in Elements(dense) THEN Rank(dense, c)
                     ELSE Len(dense) + Rank(keyword, c)]

Spent(s) == LET sum[i \in 0 .. Len(s)] == IF i = 0 THEN 0 ELSE sum[i - 1] + cost[s[i]]
            IN  sum[Len(s)]

RetrievalInit ==
    /\ matches = [c \in Chunks |-> 0]
    /\ cost = [c \in Chunks |-> 0]
    /\ dense = <<>>
    /\ keyword = <<>>
    /\ fused = <<>>
    /\ top = <<>>
    /\ citations = <<>>
    /\ done = "nothing"
-----------------------------------------------------------------------------
\* A question is asked: _dense returns the nearest chunks, whatever their text.
DenseSearch ==
    /\ done = "nothing"
    /\ matches' \in [Chunks -> Overlap]
    /\ cost' \in [Chunks -> Cost]
    /\ dense' \in Rankings(TopK)
    /\ done' = "dense"
    /\ UNCHANGED <<keyword, fused, top, citations>>

\* _keyword: of the rows the scan returns, in no order and four times the limit
\* at most, those that have a term of the query.
KeywordSearch ==
    /\ done = "dense"
    /\ \E rows \in Rankings(4 * TopK) :
          LET scored == {c \in Elements(rows) : matches[c] > 0}
          IN  keyword' = Cut(Sorted(scored, MoreTerms, Places(rows)), TopK)
    /\ done' = "keyword"
    /\ UNCHANGED <<matches, cost, dense, fused, top, citations>>

Fuse ==
    /\ done = "keyword"
    /\ fused' = Sorted(Found, HigherScore, Inserted)
    /\ done' = "fuse"
    /\ UNCHANGED <<matches, cost, dense, keyword, top, citations>>

Reranked(s) == Sorted(Elements(s), Outranks, Places(s))

\* Mutant: the candidates are cut before they are sorted.
RerankCut ==
    /\ done = "fuse"
    /\ top' = Reranked(Cut(fused, RerankTopK))
    /\ done' = "rerank"
    /\ UNCHANGED <<matches, cost, dense, keyword, fused, citations>>

Rerank ==
    /\ done = "fuse"
    /\ top' = Cut(Reranked(fused), RerankTopK)
    /\ done' = "rerank"
    /\ UNCHANGED <<matches, cost, dense, keyword, fused, citations>>

\* _assemble takes the first chunk whatever it costs, and then all that fit up
\* to the first that does not.
Fits(c) == citations = <<>> \/ Spent(citations) + cost[c] <= Budget

Exhausted == Len(citations) = Len(top)

TakeChunk ==
    /\ done = "rerank"
    /\ ~Exhausted
    /\ LET next == top[Len(citations) + 1]
       IN  Fits(next) /\ citations' = Append(citations, next)
    /\ UNCHANGED <<matches, cost, dense, keyword, fused, top, done>>

Assemble ==
    /\ done = "rerank"
    /\ ~Exhausted => ~Fits(top[Len(citations) + 1])
    /\ done' = "assemble"
    /\ UNCHANGED <<matches, cost, dense, keyword, fused, top, citations>>
-----------------------------------------------------------------------------
RetrievalNext ==
    \/ DenseSearch
    \/ KeywordSearch
    \/ Fuse
    \/ Rerank
    \/ TakeChunk
    \/ Assemble

RetrievalSpec == RetrievalInit /\ [][RetrievalNext]_retrievalVars
-----------------------------------------------------------------------------
(* Properties *)

\* "Appears in both lists": fusion puts what both searches have found before what
\* only one of them has, even if that one has it first and the other two last: as
\* long as the rankings are no longer than the _RRF_K of the formula allows.
AgreementFirst ==
    done = "fuse" /\ TopK <= RRF_K + 1 =>
        \A i, j \in 1 .. Len(fused) :
            /\ fused[i] \in Elements(dense) \cap Elements(keyword)
            /\ fused[j] \notin Elements(dense) \cap Elements(keyword)
            => i < j

\* "Packed into a token budget": no chunk that is left out is better than one that
\* is cited, the context is within the budget unless it is a single chunk, and an
\* answer is grounded in something if anything has been found.
BestCited ==
    done = "assemble" =>
        LET cited == Elements(citations)
        IN  /\ cited \subseteq Found
            /\ Len(citations) <= RerankTopK
            /\ Found # {} => cited # {}
            /\ Spent(citations) <= Budget \/ Len(citations) = 1
            /\ \A c \in cited, d \in Found \ cited : <<d, c>> \notin Outranks
=============================================================================
