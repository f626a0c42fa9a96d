------------------------------- MODULE DocShelf -------------------------------
(***************************************************************************)
(* What the managed folder promises to clients that keep apart, that is    *)
(* whose overlapping requests name different documents: every request is   *)
(* one step on a shelf of documents and a trash, or has no effect.  To     *)
(* other clients it promises nothing.                                      *)
(***************************************************************************)
CONSTANTS Path, Text, None, Blank

VARIABLES
    apart,   \* the clients keep apart
    docs,    \* the text of each document, or None
    trash    \* the text of each deleted document, or None

vars == <<apart, docs, trash>>

Init ==
    /\ apart \in BOOLEAN
    /\ docs = [p \in Path |-> None]
    /\ trash = [p \in Path |-> None]

Create(p, t) ==
    /\ docs[p] = None
    /\ docs' = [docs EXCEPT ![p] = t]
    /\ UNCHANGED trash

Update(p, t) ==
    /\ docs[p] # None
    /\ docs' = [docs EXCEPT ![p] = t]
    /\ UNCHANGED trash

(* A write that fails leaves a document without text.                       *)
Tear(p) == Update(p, Blank)

(* A deleted document replaces the one of the same path in the trash.       *)
Delete(p) ==
    /\ docs[p] # None
    /\ docs' = [docs EXCEPT ![p] = None]
    /\ trash' = [trash EXCEPT ![p] = docs[p]]

Move(p, q) ==
    /\ docs[p] # None
    /\ docs[q] = None
    /\ docs' = [docs EXCEPT ![p] = None, ![q] = docs[p]]
    /\ UNCHANGED trash

Restore(p) ==
    /\ trash[p] # None
    /\ docs[p] = None
    /\ docs' = [docs EXCEPT ![p] = trash[p]]
    /\ trash' = [trash EXCEPT ![p] = None]

Discard(p) ==
    /\ trash' = [trash EXCEPT ![p] = None]
    /\ UNCHANGED docs

Operation ==
    \/ \E p \in Path, t \in Text : Create(p, t) \/ Update(p, t)
    \/ \E p \in Path : Tear(p) \/ Delete(p) \/ Restore(p) \/ Discard(p)
    \/ \E p, q \in Path : Move(p, q)

Next ==
    /\ UNCHANGED apart
    /\ apart => Operation

Spec == Init /\ [][Next]_vars
=============================================================================
