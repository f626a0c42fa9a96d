----------------------------- MODULE MCDocsStore -----------------------------
(* Instance of DocsStore for TLC: two overlapping requests.                 *)
EXTENDS DocsStore, TLC

CONSTANTS h1, h2, p1, p2, p3, t1, t2

Handlers == {h1, h2}
Paths == {p1, p2, p3}
Texts == {t1, t2}

(* clients that keep apart, and faults *)
Apart == [ops |-> Op, paths |-> {p1, p2}, apart |-> TRUE, faults |-> TRUE]

(* clients that race for the same documents *)
Racing == [ops |-> Op, paths |-> {p1, p2}, apart |-> FALSE, faults |-> FALSE]

(* clients that fill the folder *)
Filling == [ops |-> {"create", "delete"}, paths |-> Paths, apart |-> FALSE, faults |-> FALSE]

AllEnvironments == {Apart, Racing, Filling}
Symmetry == Permutations(Handlers) \union Permutations(Texts) \union Permutations({p1, p2})
=============================================================================
