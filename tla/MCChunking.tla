----------------------------- MODULE MCChunking -----------------------------
(* Instance of Chunking for TLC: files of a few lines, of the kinds of line *)
(* that each grammar tells apart.                                           *)
EXTENDS Chunking

Opening == [PlainLine EXCEPT !.net = 1, !.open = TRUE]
Closing == [PlainLine EXCEPT !.net = -1]
ItemLine == [PlainLine EXCEPT !.item = TRUE]

MCLinesOf(g) ==
    {BlankLine, PlainLine} \union
    CASE g = "markdown" -> {[PlainLine EXCEPT !.hashes = h, !.titled = TRUE] : h \in {1, 2}}
                             \union {[PlainLine EXCEPT !.hashes = 2], [PlainLine EXCEPT !.fence = TRUE]}
      [] g = "python" -> {ItemLine, [PlainLine EXCEPT !.indent = 1], [PlainLine EXCEPT !.decorator = TRUE]}
      [] g = "go" -> {ItemLine, [ItemLine EXCEPT !.parens = 1, !.paren = TRUE], [PlainLine EXCEPT !.parens = -1],
                      [Opening EXCEPT !.item = TRUE], [Opening EXCEPT !.parens = -1], Closing}
      [] g = "text" -> {[PlainLine EXCEPT !.size = 9]}
      [] OTHER -> {ItemLine, [ItemLine EXCEPT !.semi = TRUE], [Opening EXCEPT !.item = TRUE], Opening, Closing,
                   [Opening EXCEPT !.item = TRUE, !.quotes = 1],
                   [PlainLine EXCEPT !.starts = TRUE], [PlainLine EXCEPT !.stops = TRUE]}

=============================================================================
