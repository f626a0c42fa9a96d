SPECIFICATION Spec
CONSTANTS
  d1 = d1
  t1 = t1
  blank = blank
  short = short
  long = long
  None = None
  MaxChunks = 2
  Docs <- DocFiles
  Transcripts <- TranscriptFiles
  Version <- Versions
  Chunks <- ChunksOf
PROPERTY RemoveEmptiesBackend
