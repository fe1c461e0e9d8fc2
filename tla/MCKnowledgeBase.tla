-------------------------- MODULE MCKnowledgeBase --------------------------
(***************************************************************************)
(* Values for the constants of KnowledgeBase.                              *)
(***************************************************************************)
EXTENDS KnowledgeBase, TLC

MCFiles == {"report.txt"}
MCChecksum == [f \in MCFiles |-> "r"]
MCChunkCount == [f \in MCFiles |-> 2]

Symmetry == Permutations(Chatters) \cup Permutations(Workspaces)
              \cup Permutations(ConvIds) \cup Permutations(DocIds)
              \cup Permutations(Handlers \ Workers)

\* Bound: requests and tasks at work at once.
AtMostThree ==
    Cardinality({p \in Chatters : stage[p] # "idle"})
      + Cardinality({p \in Handlers \cup Workers : pc[p] # "idle"}) <= 3
=============================================================================
