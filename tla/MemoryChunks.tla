---------------------------- MODULE MemoryChunks ----------------------------
(* internal/memory/chunk.go, ChunkText: a document becomes the chunks that are  *)
(* embedded, one turn of a loop a step. Words are numbered through the document *)
(* and all of the same length, in letters that cost a quarter token; a text is  *)
(* [words, runes].                                                              *)
EXTENDS Integers, Sequences

CONSTANTS
  Target, OverlapAsked,   \* ChunkOptions
  Documents               \* sets of [each, lines]; a bound

\* A line is blank, a heading of a level, or text. first is the word that comes
\* next where it begins and ends are the last words of its sentences; a sentence
\* that goes on in the next line is written as one line, which weighs the same.
Line == [level : Nat, title : Nat, first : Nat \ {0}, ends : Seq(Nat)]

\* Where sentence k of a line, paragraph or block begins, and what comes behind all.
Begin(part, k) == IF k = 1 THEN part.first ELSE part.ends[k - 1] + 1
Behind(part) == Begin(part, Len(part.ends) + 1)
Ordered(part) ==
  \A k \in DOMAIN part.ends : part.first <= part.ends[k] /\ \A j \in 1 .. k - 1 : part.ends[j] < part.ends[k]
Numbered(parts) ==
  \A k \in DOMAIN parts :
    /\ parts[k].first = IF k = 1 THEN 1 ELSE Behind(parts[k - 1])
    /\ Ordered(parts[k])
    /\ parts[k].level > 0 => parts[k].ends = <<>>

ASSUME ChunksAssumption ==
  /\ Target \in Nat \ {0} /\ OverlapAsked \in Nat
  /\ \A d \in Documents : d \in [each : Nat \ {0}, lines : Seq(Line)] /\ Numbered(d.lines)

\* ChunkOptions.normalized.
Overlap == IF OverlapAsked >= Target \div 2 THEN Target \div 4 ELSE OverlapAsked

VARIABLES
  document,
  loop,              \* the loop it is in: lines, blocks, sentences, words, pieces, or over
  seen,              \* lines, then blocks, looked at
  gathered,          \* splitBlocks: the paragraph so far
  blocks,
  cut,               \* splitOversizedBlock, splitWords: [sentence, word, pieces, open, cost]
  chunks,            \* of [text, heading]
  current, curTok,   \* the chunk being filled and what its blocks cost
  heading, lastTail

chunkVars == <<document, loop, seen, gathered, blocks, cut, chunks, current, curTok, heading, lastTail>>

EmptyText == [words |-> <<>>, runes |-> 0]
Passage(first, last) == [i \in 1 .. last - first + 1 |-> first + i - 1]
Runes(n) == n * document.each + n - 1   \* of n words and what separates them
Span(first, last) == [words |-> Passage(first, last), runes |-> Runes(last - first + 1)]
BlockText(block) == Span(block.first, Behind(block) - 1)
Join(a, b, between) ==
  IF a = EmptyText THEN b ELSE [words |-> a.words \o b.words, runes |-> a.runes + between + b.runes]

Most(a, b) == IF a > b THEN a ELSE b
CostOf(text) == IF text.words = <<>> THEN 0 ELSE Most(1, text.runes \div 4)   \* EstimateTokens
WordCost == Most(1, document.each \div 4)

NoLines == [first |-> 1, ends |-> <<>>]
NoCut == [sentence |-> 1, word |-> 1, pieces |-> <<>>, open |-> EmptyText, cost |-> 0]
SizedTexts == [words : Seq(Nat), runes : Nat]
Cuts == [sentence : Nat, word : Nat, pieces : Seq(SizedTexts), open : SizedTexts, cost : Nat]

ChunksTypeOK ==
  /\ document \in [each : Nat \ {0}, lines : Seq(Line)] /\ seen \in Nat
  /\ loop \in {"lines", "blocks", "sentences", "words", "pieces", "over"}
  /\ gathered \in [first : Nat \ {0}, ends : Seq(Nat)] /\ blocks \in Seq(Line) /\ cut \in Cuts
  /\ chunks \in Seq([text : SizedTexts, heading : Seq(Nat)])
  /\ current \in SizedTexts /\ curTok \in Nat /\ heading \in Seq(Nat) /\ lastTail \in SizedTexts

Unread ==
  /\ loop = "lines" /\ seen = 0 /\ gathered = NoLines /\ blocks = <<>> /\ cut = NoCut
  /\ chunks = <<>> /\ current = EmptyText /\ curTok = 0 /\ heading = <<>> /\ lastTail = EmptyText
ChunksInit == document \in Documents /\ Unread

(* splitBlocks: lines of text that meet are one paragraph; a heading line stands *)
(* alone wherever it is.                                                         *)

AsBlock(part, level, title) == [level |-> level, title |-> title, first |-> part.first, ends |-> part.ends]
Gathered == IF gathered.ends = <<>> THEN blocks ELSE Append(blocks, AsBlock(gathered, 0, 0))

LookAtLine ==
  /\ loop = "lines" /\ seen < Len(document.lines) /\ seen' = seen + 1
  /\ LET line == document.lines[seen']
     IN  \/ /\ line.ends # <<>>
            /\ gathered' = [first |-> IF gathered.ends = <<>> THEN line.first ELSE gathered.first,
                            ends |-> gathered.ends \o line.ends]
            /\ UNCHANGED blocks
         \/ /\ line.ends = <<>>
            /\ gathered' = NoLines
            /\ blocks' = IF line.level = 0 THEN Gathered ELSE Append(Gathered, AsBlock(line, line.level, line.title))
  /\ UNCHANGED <<document, loop, cut, chunks, current, curTok, heading, lastTail>>

LinesEnd ==
  /\ loop = "lines" /\ seen = Len(document.lines)
  /\ blocks' = Gathered /\ gathered' = NoLines /\ loop' = "blocks" /\ seen' = 0
  /\ UNCHANGED <<document, cut, chunks, current, curTok, heading, lastTail>>

(* The loop over the blocks.                                                     *)

\* tailTokens: the last words that cost n together, or all of them.
TailTokens(text, n) ==
  LET enough == (n + WordCost - 1) \div WordCost
      k == IF enough < Len(text.words) THEN enough ELSE Len(text.words)
  IN  IF n = 0 THEN EmptyText
      ELSE [words |-> SubSeq(text.words, Len(text.words) - k + 1, Len(text.words)),
            runes |-> Runes(k)]

\* joinHeading, on the titles of the path.
JoinHeading(path, title, level) ==
  IF level <= 1 \/ path = <<>> THEN <<title>>
  ELSE Append(IF Len(path) >= level THEN SubSeq(path, 1, level - 1) ELSE path, title)

Emits(text) ==
  chunks' = Append(chunks, [text |-> text, heading |-> heading]) /\ lastTail' = TailTokens(text, Overlap)
Flush == IF current = EmptyText THEN UNCHANGED <<chunks, lastTail>> ELSE Emits(current)
Fills(text, cost) == current' = text /\ curTok' = cost

Turns == loop = "blocks" /\ seen' = seen + 1 /\ seen' <= Len(blocks) /\ UNCHANGED <<document, gathered, blocks>>

\* A heading closes the section.
OpenSection ==
  /\ Turns /\ blocks[seen'].level > 0
  /\ Flush /\ Fills(EmptyText, 0)
  /\ heading' = JoinHeading(heading, blocks[seen'].title, blocks[seen'].level)
  /\ UNCHANGED <<loop, cut>>

\* A paragraph that fits joins the chunk, or begins the next one with the end of it.
AddParagraph ==
  /\ Turns /\ blocks[seen'].level = 0
  /\ LET text == BlockText(blocks[seen'])
     IN  /\ CostOf(text) <= Target
         /\ \/ /\ curTok > 0 /\ curTok + CostOf(text) > Target
               /\ Flush /\ Fills(Join(lastTail', text, 2), CostOf(lastTail') + CostOf(text))
            \/ /\ ~(curTok > 0 /\ curTok + CostOf(text) > Target)
               /\ Fills(Join(current, text, 2), curTok + CostOf(text)) /\ UNCHANGED <<chunks, lastTail>>
  /\ UNCHANGED <<loop, heading, cut>>

\* One that does not is cut.
CutParagraph ==
  /\ Turns /\ blocks[seen'].level = 0 /\ CostOf(BlockText(blocks[seen'])) > Target
  /\ Flush /\ Fills(EmptyText, 0)
  /\ cut' = [NoCut EXCEPT !.word = blocks[seen'].first] /\ loop' = "sentences"
  /\ UNCHANGED heading

BlocksEnd ==
  /\ loop = "blocks" /\ seen = Len(blocks)
  /\ Flush /\ Fills(EmptyText, 0) /\ loop' = "over"
  /\ UNCHANGED <<document, seen, gathered, blocks, cut, heading>>

(* splitOversizedBlock and splitWords: sentences, or the words of one that is too *)
(* long, are joined while what they cost one by one is within the target.         *)

Packed(text) ==
  IF cut.cost > 0 /\ cut.cost + CostOf(text) > Target
  THEN [cut EXCEPT !.pieces = Append(@, cut.open), !.open = text, !.cost = CostOf(text)]
  ELSE [cut EXCEPT !.open = Join(cut.open, text, 1), !.cost = @ + CostOf(text)]
\* Faulty: what was open is forgotten.
ClosedForgets == [cut EXCEPT !.open = EmptyText, !.cost = 0]
Closed ==
  IF cut.open = EmptyText THEN cut
  ELSE [cut EXCEPT !.pieces = Append(@, cut.open), !.open = EmptyText, !.cost = 0]

Ending == blocks[seen].ends[cut.sentence]
Cutting(stage) ==
  loop = stage /\ UNCHANGED <<document, seen, gathered, blocks, chunks, current, curTok, heading, lastTail>>

PackSentence ==
  /\ Cutting("sentences") /\ cut.sentence <= Len(blocks[seen].ends)
  /\ LET text == Span(cut.word, Ending)
     IN  \/ /\ CostOf(text) <= Target
            /\ cut' = [Packed(text) EXCEPT !.sentence = @ + 1, !.word = Ending + 1] /\ UNCHANGED loop
         \/ CostOf(text) > Target /\ cut' = Closed /\ loop' = "words"
PackWord ==
  /\ Cutting("words") /\ cut.word <= Ending
  /\ cut' = [Packed(Span(cut.word, cut.word)) EXCEPT !.word = @ + 1] /\ UNCHANGED loop
WordsEnd ==
  /\ Cutting("words") /\ cut.word > Ending
  /\ cut' = [Closed EXCEPT !.sentence = @ + 1] /\ loop' = "sentences"
SentencesEnd ==
  /\ Cutting("sentences") /\ cut.sentence > Len(blocks[seen].ends)
  /\ cut' = Closed /\ loop' = "pieces"

\* Each piece is a chunk that begins with the end of the one before.
EmitPiece ==
  /\ loop = "pieces" /\ cut.pieces # <<>>
  /\ Emits(Join(lastTail, Head(cut.pieces), 2))
  /\ cut' = [cut EXCEPT !.pieces = Tail(@)]
  /\ UNCHANGED <<document, loop, seen, gathered, blocks, current, curTok, heading>>
PiecesEnd == Cutting("pieces") /\ cut.pieces = <<>> /\ loop' = "blocks" /\ cut' = NoCut

ChunksNext ==
  \/ LookAtLine \/ LinesEnd \/ OpenSection \/ AddParagraph \/ CutParagraph \/ BlocksEnd
  \/ PackSentence \/ PackWord \/ WordsEnd \/ SentencesEnd \/ EmitPiece \/ PiecesEnd
ChunksSpec == ChunksInit /\ [][ChunksNext]_chunkVars

\* No word is lost and none is out of place: a chunk is one passage of the
\* document, it goes on where the one before ended or repeats its end, it always
\* adds something, and together they reach the last word (chunk.go:106-189).
Ends(i) == IF i = 0 THEN 0 ELSE chunks[i].text.words[Len(chunks[i].text.words)]
AllIndexed ==
  /\ \A i \in DOMAIN chunks :
       LET words == chunks[i].text.words
       IN  /\ words # <<>> /\ words = Passage(words[1], Ends(i))
           /\ words[1] <= Ends(i - 1) + 1 /\ Ends(i - 1) < Ends(i)
  /\ loop = "over" =>
       LET n == Len(document.lines)
       IN  Ends(Len(chunks)) = IF n = 0 THEN 0 ELSE Behind(document.lines[n]) - 1

\* A cost is rounded down block by block, so a chunk may be larger than its
\* target and overlap, but not two and a quarter times as large (chunk.go:42-75).
SizeBounded ==
  \A i \in DOMAIN chunks : 4 * CostOf(chunks[i].text) <= 9 * (Target + Overlap + WordCost)

\* What a document says of a word: the last heading of each level that no
\* higher heading has closed, when levels are never skipped.
Before(w) == {k \in DOMAIN blocks : blocks[k].first <= w /\ blocks[k].level > 0}
Standing(headings) == {k \in headings : \A j \in headings : j > k => blocks[j].level > blocks[k].level}
Nested ==
  \A k \in DOMAIN blocks : blocks[k].level > 1 =>
    \E j \in 1 .. k - 1 :
      /\ blocks[j].level >= blocks[k].level - 1
      /\ \A i \in j + 1 .. k - 1 : blocks[i].level = 0 \/ blocks[i].level >= blocks[k].level
Under(headings, path) ==
  /\ \A d \in DOMAIN path : \E k \in Standing(headings) : blocks[k].level = d /\ blocks[k].title = path[d]
  /\ \A k \in Standing(headings) : blocks[k].level \in DOMAIN path

\* A passage is filed under the headings it stands under: what a chunk adds, and
\* what it repeats as well when no paragraph had to be cut ("the section boundary
\* is also a retrieval boundary", chunk.go:159-160).
NoneCut == \A k \in DOMAIN blocks : blocks[k].level = 0 => CostOf(BlockText(blocks[k])) <= Target
InSection ==
  Nested => \A i \in DOMAIN chunks :
    LET words == chunks[i].text.words
    IN  \A k \in DOMAIN words : words[k] > Ends(i - 1) \/ NoneCut => Under(Before(words[k]), chunks[i].heading)

\* No word of a document is lost on the way to the index, no chunk is far too
\* large, and each is filed under its headings (ChunkText).
ChunksHold == AllIndexed /\ SizeBounded /\ InSection
=============================================================================
