SPECIFICATION FairSpec
CONSTANTS
  d1 = d1
  t1 = t1
  v1 = v1
  v2 = v2
  None = None
  MaxChunks = 1
  MaxEdits = 1
  Docs <- DocFiles
  Transcripts <- NoTranscripts
  Version <- Versions
  Chunks <- ChunksOf
  Faults <- NoFaults
PROPERTY DocsAreReflected
