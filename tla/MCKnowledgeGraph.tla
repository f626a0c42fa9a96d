--------------------------- MODULE MCKnowledgeGraph ---------------------------
(* Instance of KnowledgeGraph for TLC alone, for what the guide says of it. *)
EXTENDS KnowledgeGraph, TLC

CONSTANTS n1, n2, x1, x2

MCSymmetry == Permutations({n1, n2}) \union Permutations({x1, x2})
=============================================================================
