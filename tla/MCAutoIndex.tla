----------------------------- MODULE MCAutoIndex -----------------------------
(* Instance of AutoIndex for TLC: a doc and a transcript, and four edits,   *)
(* so that the doc can be written, rewritten, deleted and written again     *)
(* while the first of these events is still on its way.                     *)
EXTENDS AutoIndex, TLC

CONSTANTS d1, t1, v1, v2

DocFiles == {d1}
TranscriptFiles == {t1}
NoTranscripts == {}
Versions == {v1, v2}
ChunksOf == [v \in Versions |-> 1]
NoFaults == {}
=============================================================================
