---------------------------- MODULE MCProjectState ----------------------------
(* Instance of ProjectState for TLC: two overlapping requests, which may    *)
(* name different ids, and three versions of the signal files.              *)
EXTENDS ProjectState, TLC

CONSTANTS h1, h2, p1, p2

Handlers == {h1, h2}
Ids == {p1, p2}

(* a stdio client, a user who edits at any time, failures *)
Stdio == [sequential |-> TRUE, quiet |-> FALSE, reverts |-> FALSE,
          toggles |-> TRUE, faults |-> TRUE]

(* several clients, a user who waits for them, failures *)
Clients == [sequential |-> FALSE, quiet |-> TRUE, reverts |-> FALSE,
            toggles |-> FALSE, faults |-> TRUE]

(* everything at once *)
Anything == [sequential |-> FALSE, quiet |-> FALSE, reverts |-> TRUE,
             toggles |-> FALSE, faults |-> TRUE]

AllEnvironments == {Stdio, Clients, Anything}

Symmetry == Permutations(Handlers) \union Permutations(Ids)
=============================================================================
