------------------------------ MODULE Chunking ------------------------------
(***************************************************************************)
(* How a file is cut into chunks.  A file is a sequence of lines; a line   *)
(* is what the chunkers can tell of it.  The file grows by a line a step,  *)
(* so that every file of at most MaxLines lines is met, and the properties *)
(* compare the chunks with the file.  A chunk is a sequence of line        *)
(* numbers and a line range; blank lines at its end are cut when the text  *)
(* is trimmed, which no property tells apart.                              *)
(***************************************************************************)
EXTENDS Integers, FiniteSets, Sequences, SequencesExt

CONSTANTS
    Grammars,      \* kinds of files: "markdown", "rust", ..., and the rest
    LinesOf(_),    \* the lines a file of a grammar can have
    MaxLines,      \* bound on the lines of a file
    BytesPerToken, \* 4
    MaxTokens      \* max_chunk_tokens

(* A blank line, and what may hold of others:                               *)
(*   size       bytes without the newline                                   *)
(*   hashes     number of # it begins with, and whether a title follows     *)
(*   fence      begins with three backquotes                                *)
(*   item       the regular expression of the language finds an item        *)
(*   net, open  braces opened less closed, and whether there is a {         *)
(*   parens     parentheses opened less closed; paren: there is a (         *)
(*   quotes     single quotes ahead of the braces                           *)
(*   semi       ends with a semicolon                                       *)
(*   starts, stops   a block comment opens at its end, or closes at its end *)
(*   indent, decorator   for Python                                         *)
Line == [size : Nat, hashes : Nat, titled : BOOLEAN, fence : BOOLEAN, item : BOOLEAN, net : Int,
         open : BOOLEAN, parens : Int, paren : BOOLEAN, quotes : Nat, semi : BOOLEAN,
         starts : BOOLEAN, stops : BOOLEAN, indent : Nat, decorator : BOOLEAN]
BlankLine == [size |-> 0, hashes |-> 0, titled |-> FALSE, fence |-> FALSE, item |-> FALSE, net |-> 0,
              open |-> FALSE, parens |-> 0, paren |-> FALSE, quotes |-> 0, semi |-> FALSE,
              starts |-> FALSE, stops |-> FALSE, indent |-> 0, decorator |-> FALSE]
PlainLine == [BlankLine EXCEPT !.size = 3]

ASSUME ChunkingAssumption ==
    /\ {MaxLines, BytesPerToken, MaxTokens} \subseteq Nat \ {0}
    /\ \A g \in Grammars : LinesOf(g) \subseteq Line

VARIABLES
    grammar,   \* what kind of file it is
    text       \* its lines so far

chunkVars == <<grammar, text>>

ChunkInit == grammar \in Grammars /\ text = <<>>
AddLine(l) ==
    /\ Len(text) < MaxLines
    /\ text' = Append(text, l) /\ UNCHANGED grammar
ChunkNext == \E l \in LinesOf(grammar) : AddLine(l)
ChunkSpec == ChunkInit /\ [][ChunkNext]_chunkVars

(* A fold over a sequence, as a function of how much of it is done: the     *)
(* chunkers are loops over lines, items or paragraphs.                      *)
Through(Step(_, _), start, seq) ==
    LET at[k \in 0 .. Len(seq)] == IF k = 0 THEN start ELSE Step(at[k - 1], seq[k]) IN at[Len(seq)]

From(a, b) == [k \in 1 .. b - a + 1 |-> a + k - 1]
Numbers == From(1, Len(text))
IsBlank(n) == text[n].size = 0
Bytes(ns) == Through(LAMBDA sum, n : sum + text[n].size + 1, 0, ns) - 1   \* lines joined by newlines
EstimateTokens(ns) == (Bytes(ns) + BytesPerToken - 1) \div BytesPerToken
MaxChars == MaxTokens * BytesPerToken
LastIsBlank(ns) == ns # <<>> /\ IsBlank(Last(ns))

ChunkOf(ns, first, last) == [lines |-> ns, first |-> first, last |-> last, hier |-> <<>>]

-----------------------------------------------------------------------------
(* Markdown: sections at the headings outside code blocks, then paragraphs  *)
(* for a section that is too large.                                         *)
ParseHeading(l) == IF l.titled THEN l.hashes ELSE 0

MutMarkdownLine(s, n) ==   \* keeps the hierarchy of the heading it flushes
    LET code == s.code # text[n].fence
        level == IF code THEN 0 ELSE ParseHeading(text[n])
    IN IF level = 0 THEN [s EXCEPT !.code = code, !.lines = Append(@, n)]
       ELSE [code |-> code, lines |-> <<n>>, hier |-> Append(s.hier, level), done |-> s.done]

(* The hierarchy is popped back to below the level of a heading.            *)
Popped(hier, level) ==
    SubSeq(hier, 1, CHOOSE k \in 0 .. Len(hier) : /\ k = 0 \/ hier[k] < level
                                                  /\ \A j \in k + 1 .. Len(hier) : hier[j] >= level)

Flushed(s) == IF s.lines = <<>> THEN s.done ELSE Append(s.done, [hier |-> s.hier, lines |-> s.lines])

MarkdownLine(s, n) ==
    LET code == s.code # text[n].fence
        level == IF code THEN 0 ELSE ParseHeading(text[n])
    IN IF level = 0 THEN [s EXCEPT !.code = code, !.lines = Append(@, n)]
       ELSE [code |-> code, lines |-> <<n>>, hier |-> Append(Popped(s.hier, level), level), done |-> Flushed(s)]

Sections == Flushed(Through(MarkdownLine, [code |-> FALSE, lines |-> <<>>, hier |-> <<>>, done |-> <<>>], Numbers))

(* A paragraph ends at a line with text after blank ones; those blank lines *)
(* go with the next paragraph.                                              *)
ParagraphLine(s, n) ==
    LET code == s.code # text[n].fence
        kept == CHOOSE k \in 0 .. Len(s.lines) :
                  /\ k = 0 \/ ~IsBlank(s.lines[k])
                  /\ \A j \in k + 1 .. Len(s.lines) : IsBlank(s.lines[j])
    IN IF ~code /\ LastIsBlank(s.lines) /\ ~IsBlank(n)
         THEN [code |-> code, lines |-> Append(SubSeq(s.lines, kept + 1, Len(s.lines)), n),
               done |-> IF kept = 0 THEN s.done ELSE Append(s.done, SubSeq(s.lines, 1, kept))]
         ELSE [s EXCEPT !.code = code, !.lines = Append(@, n)]

SplitParagraphsPreservingCodeBlocks(ns) ==
    LET s == Through(ParagraphLine, [code |-> FALSE, lines |-> <<>>, done |-> <<>>], ns)
    IN IF s.lines = <<>> THEN s.done ELSE Append(s.done, s.lines)

MutPackParagraph(s, p) ==   \* the paragraph that overflows is flushed with the rest
    IF s.tokens + EstimateTokens(p) > MaxTokens /\ s.lines # <<>>
      THEN [lines |-> <<>>, tokens |-> 0, done |-> Append(s.done, s.lines)]
      ELSE [s EXCEPT !.lines = @ \o p, !.tokens = @ + EstimateTokens(p)]

PackParagraph(s, p) ==
    IF s.tokens + EstimateTokens(p) > MaxTokens /\ s.lines # <<>>
      THEN [lines |-> p, tokens |-> EstimateTokens(p), done |-> Append(s.done, s.lines)]
      ELSE [s EXCEPT !.lines = @ \o p, !.tokens = @ + EstimateTokens(p)]

ChunkSection(section) ==
    LET packed == Through(PackParagraph, [lines |-> <<>>, tokens |-> 0, done |-> <<>>],
                          SplitParagraphsPreservingCodeBlocks(section.lines))
        pieces == IF EstimateTokens(section.lines) <= MaxTokens THEN <<section.lines>>
                  ELSE Append(packed.done, packed.lines)
    IN [k \in DOMAIN pieces |-> [ChunkOf(pieces[k], 0, 0) EXCEPT !.hier = section.hier]]

ChunkMarkdown == IF Sections = <<>> THEN <<ChunkOf(<<>>, 0, 0)>>
                 ELSE FlattenSeq([k \in DOMAIN Sections |-> ChunkSection(Sections[k])])

-----------------------------------------------------------------------------
(* Text: flushed at a blank line when half full and before a line that does *)
(* not fit.                                                                 *)
PushTextChunk(s, last) == Append(s.done, ChunkOf(s.lines, s.first, last))

TextLine(s, n) ==
    LET full == Bytes(s.lines) + 1
        push(first) == [lines |-> <<n>>, first |-> first, done |-> PushTextChunk(s, n)]
    IN CASE IsBlank(n) /\ s.lines # <<>> /\ full >= MaxChars \div 2 -> push(n + 1)
         [] ~(IsBlank(n) /\ full >= MaxChars \div 2) /\ s.lines # <<>> /\ full + text[n].size + 1 > MaxChars -> push(n)
         [] OTHER -> [s EXCEPT !.lines = Append(@, n)]

ChunkTextFallback ==
    LET s == Through(TextLine, [lines |-> <<>>, first |-> 1, done |-> <<>>], Numbers)
    IN IF s.lines = <<>> THEN s.done ELSE PushTextChunk(s, Len(text) + 1)

(* The blank line that a piece ends at is in no piece.                      *)
SplitLine(s, n) ==
    IF IsBlank(n) /\ Bytes(s.lines) + 1 >= MaxChars \div 2
      THEN [lines |-> <<>>, done |-> Append(s.done, s.lines)]
      ELSE [s EXCEPT !.lines = Append(@, n)]
SplitOnBlankLines(ns) ==
    LET s == Through(SplitLine, [lines |-> <<>>, done |-> <<>>], ns)
    IN IF s.lines = <<>> THEN s.done ELSE Append(s.done, s.lines)

-----------------------------------------------------------------------------
(* Code: a prelude up to the first item, then a chunk for each item.        *)
ChunkItem(item) ==
    LET ns == From(item.first, item.last)
        pieces == IF Bytes(ns) <= MaxChars THEN <<ns>> ELSE SplitOnBlankLines(ns)
    IN [k \in DOMAIN pieces |-> ChunkOf(pieces[k], item.first, item.last)]

ChunkByItems(items) ==
    LET end == IF items = <<>> THEN Len(text) ELSE Head(items).first - 1
        prelude == From(1, end)
    IN (IF \A n \in 1 .. end : IsBlank(n) THEN <<>> ELSE <<ChunkOf(prelude, 1, end)>>)
         \o FlattenSeq([k \in DOMAIN items |-> ChunkItem(items[k])])

(* What is left of a line when comments are cut: a block comment opens at  *)
(* the end of a line and nothing follows where it closes.                   *)
StripComments(l, inBlock) ==
    [line |-> IF inBlock THEN BlankLine ELSE l, inBlock |-> IF inBlock THEN ~l.stops ELSE l.starts]

(* A quote that is not closed, as that of a lifetime, hides the braces.     *)
CountBraces(l) == IF l.quotes % 2 = 0 THEN l.net ELSE 0
CountBracesTs(l) == IF l.quotes % 2 = 0 THEN l.net ELSE 0
CountBracesGo(l) == l.net

NoItems == [inBlock |-> FALSE, depth |-> 0, parens |-> 0, start |-> 0, items |-> <<>>]
Tracked(s, n, c, start, depth, parens, ends) ==
    [inBlock |-> c.inBlock, depth |-> depth, parens |-> parens, start |-> IF ends THEN 0 ELSE start,
     items |-> IF ends THEN Append(s.items, [first |-> start, last |-> n]) ELSE s.items]

RustLine(s, n) ==
    LET c == StripComments(text[n], s.inBlock)
        start == IF s.start = 0 /\ s.depth = 0 /\ c.line.item THEN n ELSE s.start
        depth == s.depth + CountBraces(c.line)
    IN Tracked(s, n, c, start, depth, 0, start # 0 /\ depth = 0 /\ (c.line.open \/ start # n \/ c.line.semi))

TypescriptLine(s, n) ==
    LET c == StripComments(text[n], s.inBlock)
        start == IF s.start = 0 /\ s.depth = 0 /\ c.line.item THEN n ELSE s.start
        depth == s.depth + CountBracesTs(c.line)
    IN Tracked(s, n, c, start, depth, 0, start # 0 /\ depth = 0 /\ (c.line.open \/ start # n \/ c.line.semi))

GoLine(s, n) ==
    LET c == StripComments(text[n], s.inBlock)
        start == IF s.start = 0 /\ s.depth = 0 /\ s.parens = 0 /\ c.line.item THEN n ELSE s.start
        depth == s.depth + CountBracesGo(c.line)
        parens == s.parens + c.line.parens
    IN Tracked(s, n, c, start, depth, parens,
               start # 0 /\ depth = 0 /\ parens = 0 /\ (start # n \/ ~(c.line.open \/ c.line.paren)))

(* Tree-sitter: the parser reads braces as they are.                        *)
ParsedLine(s, n) ==
    LET c == StripComments(text[n], s.inBlock)
        start == IF s.start = 0 /\ s.depth = 0 /\ c.line.item THEN n ELSE s.start
        depth == s.depth + c.line.net
    IN Tracked(s, n, c, start, depth, 0,
               start # 0 /\ depth = 0 /\ ((c.line.net < 0 /\ s.depth > 0) \/ (c.line.open /\ c.line.net = 0) \/ c.line.semi))

(* One pass over the lines finds the items of a file.                       *)
ScanLine(language, s, n) ==
    CASE language = "rust" -> RustLine(s, n)
      [] language = "typescript" -> TypescriptLine(s, n)
      [] language = "go" -> GoLine(s, n)
      [] OTHER -> ParsedLine(s, n)
Scan(language) == Through(LAMBDA s, n : ScanLine(language, s, n), NoItems, Numbers)

(* An item that is open at the end of the file: forgotten in Rust.          *)
AtEndOfFile(s) == IF s.start = 0 THEN s.items ELSE Append(s.items, [first |-> s.start, last |-> Len(text)])

ChunkRust == ChunkByItems(Scan("rust").items)
ChunkTsOrJs == ChunkByItems(AtEndOfFile(Scan("typescript")))
ChunkGo == ChunkByItems(AtEndOfFile(Scan("go")))

(* Python: decorators, the definition, and every line that is blank or      *)
(* indented after it; the scan skips all else.                              *)
FirstOf(ns, n) ==   \* the first of the lines ns from n on, or the end of the file
    CHOOSE k \in n .. Len(text) + 1 : (k \in ns \/ k = Len(text) + 1) /\ \A j \in n .. k - 1 : j \notin ns
WithText == {n \in DOMAIN text : ~IsBlank(n)}
Outer == {n \in WithText : text[n].indent = 0}
Undecorated == {n \in DOMAIN text : IsBlank(n) \/ ~text[n].decorator}

PythonLine(s, n) ==
    LET def == IF text[n].decorator THEN FirstOf(WithText, FirstOf(Undecorated, n)) ELSE n
        next == FirstOf(Outer, def + 1)
        end == CHOOSE k \in WithText : def <= k /\ k < next /\ \A j \in k + 1 .. next - 1 : IsBlank(j)
    IN CASE n < s.next \/ n \notin Outer -> s
         [] n >= s.next /\ n \in Outer /\ def \in Outer /\ text[def].item ->
              [next |-> next, items |-> Append(s.items, [first |-> n, last |-> end])]
         [] OTHER -> [s EXCEPT !.next = def + 1]
PythonItems == Through(PythonLine, [next |-> 1, items |-> <<>>], Numbers).items
ChunkPython == ChunkByItems(PythonItems)

(* A chunk for each node of the kinds asked for, and for no other line;     *)
(* nodes are never split.                                                   *)
NodesOfKinds == Scan("tree-sitter").items
ChunkWithTreeSitter == [k \in DOMAIN NodesOfKinds |->
    ChunkOf(From(NodesOfKinds[k].first, NodesOfKinds[k].last), NodesOfKinds[k].first, NodesOfKinds[k].last)]
ChunkRustTs == IF ChunkWithTreeSitter = <<>> THEN ChunkRust ELSE ChunkWithTreeSitter
ChunkJava == IF ChunkWithTreeSitter = <<>> THEN ChunkTextFallback ELSE ChunkWithTreeSitter

ChunkFile ==
    CASE grammar = "markdown" -> ChunkMarkdown
      [] grammar = "rust" -> ChunkRust
      [] grammar = "rust_ts" -> ChunkRustTs
      [] grammar = "typescript" -> ChunkTsOrJs
      [] grammar = "go" -> ChunkGo
      [] grammar = "python" -> ChunkPython
      [] grammar = "java" -> ChunkJava
      [] OTHER -> ChunkTextFallback

-----------------------------------------------------------------------------
ChunkTypeOK ==
    /\ grammar \in Grammars /\ text \in Seq(LinesOf(grammar))
    /\ LET cs == ChunkFile IN \A k \in DOMAIN cs : ToSet(cs[k].lines) \subseteq DOMAIN text

(* The lines of a chunk that its text shows.                                *)
Shown(c) == {n \in ToSet(c.lines) : ~IsBlank(n)}
ShownIn(cs) == UNION {Shown(cs[k]) : k \in DOMAIN cs}
Increasing(ns) == \A i, j \in DOMAIN ns : i < j => ns[i] < ns[j]

(* The chunks of a file hold its lines in their order and none twice; no    *)
(* line of a text or of a markdown file is lost, whatever its sections,     *)
(* paragraphs and code blocks are; of a code file only lines between items  *)
(* are lost, never one of an item that was split or one ahead of them all.  *)
TextIsChunked ==
    LET cs == ChunkFile IN
    /\ \A k \in DOMAIN cs : /\ Increasing(cs[k].lines)
                            /\ \A l \in DOMAIN cs : k < l =>
                                 \A m \in ToSet(cs[k].lines), n \in ToSet(cs[l].lines) : m < n
    /\ grammar \in {"markdown", "text"} => WithText \subseteq ShownIn(cs)
    /\ grammar \in {"rust", "typescript", "go", "python"} =>
         \A n \in WithText \ ShownIn(cs) : \A k \in DOMAIN cs :
            n \notin cs[k].first .. cs[k].last /\ (k = 1 => n > cs[k].first)
    /\ grammar # "markdown" => \A k \in DOMAIN cs : Shown(cs[k]) \subseteq cs[k].first .. cs[k].last

(* A heading above line n that no heading of its level or less follows.     *)
HeadingLevel(n) ==
    IF Cardinality({k \in 1 .. n : text[k].fence}) % 2 = 1 THEN 0 ELSE ParseHeading(text[n])
HeadingsAbove(n) ==
    {h \in 1 .. n : /\ HeadingLevel(h) # 0
                    /\ \A k \in h + 1 .. n : HeadingLevel(k) # 0 => HeadingLevel(k) > HeadingLevel(h)}

(* The heading hierarchy of a markdown chunk is that of each of its lines,  *)
(* in sections that are split as in those that are not; a text chunk is not *)
(* larger than the limit unless it is a single line.                        *)
ChunksAreLabelled ==
    LET cs == ChunkFile IN \A k \in DOMAIN cs :
      /\ grammar = "markdown" =>
           /\ Increasing(cs[k].hier)
           /\ \A n \in ToSet(cs[k].lines) : ToSet(cs[k].hier) = {HeadingLevel(h) : h \in HeadingsAbove(n)}
      /\ grammar = "text" /\ Len(cs[k].lines) > 1 => Bytes(cs[k].lines) < MaxChars

(* A file whose braces match as the compiler reads them: each block outside *)
(* of any other is that of an item, which may have lines ahead of it.       *)
Depths == FoldLeft(LAMBDA s, n : [at |-> Append(s.at, s.now + text[n].net), now |-> s.now + text[n].net],
                   [at |-> <<>>, now |-> 0], Numbers)
Between(n) == ~text[n].item /\ text[n].net = 0 /\ ~text[n].semi
WellFormed ==
    /\ Depths.now = 0
    /\ \A n \in DOMAIN text :
         /\ Depths.at[n] >= 0 /\ ~text[n].starts /\ ~text[n].stops
         /\ text[n].net = 1 /\ Depths.at[n] = 1 /\ ~text[n].item =>
              \E i \in 1 .. n - 1 : /\ text[i].item /\ text[i].net = 0 /\ ~text[i].semi
                                    /\ \A k \in i + 1 .. n - 1 : Between(k)

(* A line inside the braces of an item is in a chunk.                       *)
BodiesAreIndexed ==
    WellFormed => \A n \in WithText : Depths.at[n] > 0 => n \in ShownIn(ChunkFile)
=============================================================================
