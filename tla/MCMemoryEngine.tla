---------------------------- MODULE MCMemoryEngine ----------------------------
(* Instance of MemoryEngine for TLC: a file in the docs root and a          *)
(* transcript, which may grow from no chunk to two and shrink again.        *)
EXTENDS MemoryEngine, TLC

CONSTANTS d1, t1, blank, short, long

DocFiles == {d1}
TranscriptFiles == {t1}
Versions == {blank, short, long}
ChunksOf == (blank :> 0) @@ (short :> 1) @@ (long :> 2)

=============================================================================
