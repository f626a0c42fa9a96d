INIT ChunkInit
NEXT ChunkNext
CONSTANTS
    Grammars = {"rust"}
    LinesOf <- MCLinesOf
    MaxLines = 4
    BytesPerToken = 4
    MaxTokens = 2
INVARIANT BodiesAreIndexed
CHECK_DEADLOCK FALSE
