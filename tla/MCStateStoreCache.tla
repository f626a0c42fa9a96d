-------------------------- MODULE MCStateStoreCache --------------------------
(* Instance of StateStoreCache for TLC: three requests race on one project  *)
(* or meet on another; each may build a pool, two of them a store.          *)
EXTENDS StateStoreCache, TLC

CONSTANTS h1, h2, h3, p1, p2, q1, q2, q3, s1, s2

Handlers == {h1, h2, h3}
Projects == {p1, p2}
Pools == {q1, q2, q3}
Stores == {s1, s2}

Symmetry ==
    Permutations(Handlers) \union Permutations(Projects)
        \union Permutations(Pools) \union Permutations(Stores)
=============================================================================
