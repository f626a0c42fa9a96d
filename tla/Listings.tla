------------------------------- MODULE Listings -------------------------------
(***************************************************************************)
(* What a list of a store shows, and in which order: the rows of a set by  *)
(* an order, those of a list that belong to a set, the first of a list.    *)
(* Defined by what they promise, so that it can be reasoned about.         *)
(***************************************************************************)
EXTENDS Integers, FiniteSets, Sequences

(* The elements of S, each before the others as the order says.  Before is  *)
(* a strict total order on S.                                               *)
InOrder(S, Before(_, _)) ==
    CHOOSE s \in [1 .. Cardinality(S) -> S] :
        \A i, j \in 1 .. Cardinality(S) : i < j => Before(s[i], s[j])

(* The items of s that belong to T, in the order of s.                      *)
Among(s, T) ==
    LET at == InOrder({i \in DOMAIN s : s[i] \in T}, LAMBDA i, j : i < j)
    IN [k \in DOMAIN at |-> s[at[k]]]

First(n, s) == SubSeq(s, 1, IF n < Len(s) THEN n ELSE Len(s))
=============================================================================
