------------------------------ MODULE Chunking ------------------------------
(***************************************************************************)
(* From a parsed page to chunks, as operators: the segmenter, the three    *)
(* chunking rules and the recursive splitter.  A text is a sequence of     *)
(* words, each with its length in characters and the level of the          *)
(* separator behind it: 1 for "\n## " up to 6 for a blank, in the order of *)
(* SPLIT_SEPARATORS.  Loops are recursive functions over the positions of  *)
(* what they run through.                                                  *)
(***************************************************************************)
EXTENDS Integers, SequencesExt

CONSTANTS
  TargetTokens, OverlapTokens, MinTokens,   \* of section chunks
  TableRowLimit, TableTokenLimit,           \* of table chunks
  CharsPerToken,    \* of the tokenizer, 0 for the word-count fallback
  Slugify           \* the slug of each heading

ASSUME ChunkingAssumption ==
  /\ {OverlapTokens, MinTokens, CharsPerToken} \subseteq Nat
  /\ {TargetTokens, TableRowLimit, TableTokenLimit} \subseteq Nat \ {0}

Word == [id : Nat, gap : 1..6, chars : Nat \ {0}]

-----------------------------------------------------------------------------
(* Segments *)

\* A page has facts (field to value, "" when blank), sections [heading, body]
\* and tables [caption, header, rows]: the header is its token count, a row has
\* an id and its token count.  Of a part without content, which the segmenter
\* skips, there are no chunks.
Segment(page) ==
  <<[type |-> "fact_table", facts |-> page.facts]>>
  \o [i \in DOMAIN page.sections |->
        [type |-> "section_text", anchor |-> Slugify[page.sections[i].heading],
         body |-> page.sections[i].body]]
  \o [i \in DOMAIN page.tables |->
        [type |-> "table", anchor |-> Slugify[page.tables[i].caption],
         header |-> page.tables[i].header, rows |-> page.tables[i].rows]]

-----------------------------------------------------------------------------
(* The recursive splitter *)

\* The tokens of a word; without a tokenizer a word counts as one.
WordTokens(word) ==
  IF CharsPerToken = 0 THEN 1
  ELSE (word.chars + CharsPerToken - 1) \div CharsPerToken

\* The separators between words add no tokens here.
TokenCount(text) ==
  LET upTo[n \in 0..Len(text)] == IF n = 0 THEN 0 ELSE upTo[n - 1] + WordTokens(text[n])
  IN upTo[Len(text)]

\* The coarsest separator inside a text of several words.
FirstSeparator(text) == Min({text[i].gap : i \in 1..(Len(text) - 1)})

\* text.split(sep): the parts lie between one cut and the next.
SplitAt(text, level) ==
  LET cuts == {0, Len(text)} \cup {i \in 1..(Len(text) - 1) : text[i].gap = level}
      cut(k) == CHOOSE c \in cuts : Cardinality({d \in cuts : d < c}) = k
  IN [k \in 1..(Cardinality(cuts) - 1) |-> SubSeq(text, cut(k - 1) + 1, cut(k))]

\* Four characters per target token go to the first half, which may be all.
HardSplit(word) ==
  LET head == 4 * TargetTokens IN
  IF word.chars <= head
  THEN <<<<word>>, <<>>>>
  ELSE <<<<[word EXCEPT !.chars = head]>>, <<[word EXCEPT !.chars = @ - head]>>>>

\* A merge under way: the pieces put out and the one being glued.
Flush(acc) == IF acc.buf = <<>> THEN acc.out ELSE Append(acc.out, acc.buf)

\* A bug: a part that does not fit alone is kept as it is.
GlueNoRecursion(acc, part, split) ==
  IF TokenCount(acc.buf \o part) <= TargetTokens
  THEN [acc EXCEPT !.buf = @ \o part]
  ELSE [out |-> Append(acc.out, acc.buf), buf |-> part]

\* Parts are glued while they fit; a part that does not fit alone is split on.
Glue(acc, part, split) ==
  IF TokenCount(acc.buf \o part) <= TargetTokens
  THEN [out |-> acc.out, buf |-> acc.buf \o part]
  ELSE IF TokenCount(part) > TargetTokens
       THEN [out |-> Flush(acc) \o split[part], buf |-> <<>>]
       ELSE [out |-> Flush(acc), buf |-> part]

GreedyMerge(parts, split) ==
  LET upTo[n \in 0..Len(parts)] ==
        IF n = 0 THEN [out |-> <<>>, buf |-> <<>>] ELSE Glue(upTo[n - 1], parts[n], split)
  IN Flush(upTo[Len(parts)])

\* One call, where split is what the calls it makes return.
SplitOnce(text, split) ==
  IF text = <<>> THEN <<>>
  ELSE IF TokenCount(text) <= TargetTokens THEN <<text>>
  ELSE IF Len(text) > 1 THEN GreedyMerge(SplitAt(text, FirstSeparator(text)), split)
  ELSE HardSplit(text[1])

TextsUpTo(n) == {text \in Seq(Word) : Len(text) <= n}

RecursiveSplit(text) ==
  LET split[t \in TextsUpTo(Len(text))] == SplitOnce(t, split)
  IN split[text]

-----------------------------------------------------------------------------
(* Chunks: an id, a type, the token count of the body and the units of the   *)
(* page it holds: its facts, words and rows.  No field is called "c0", so    *)
(* ids of different types differ.                                            *)

\* Blank values are skipped.
ChunkFacts(seg) ==
  {[id |-> <<"fact", f, 0>>, type |-> "fact_table", tokens |-> 0, units |-> {<<"fact", f>>}] :
     f \in {g \in DOMAIN seg.facts : seg.facts[g] # ""}}

\* A bug: the overlap is taken from the start of the piece before it.
OverlappedHead(pieces) ==
  [i \in DOMAIN pieces |->
     IF i = 1 THEN pieces[i]
     ELSE SubSeq(pieces[i - 1], 1, Min({OverlapTokens, Len(pieces[i - 1])})) \o pieces[i]]

\* The last words of a text.
Tailing(text) == SubSeq(text, Max({1, Len(text) - OverlapTokens + 1}), Len(text))

\* The last words of the piece before it are put in front of each piece.
Overlapped(pieces) ==
  [i \in DOMAIN pieces |->
     IF i = 1 THEN pieces[i] ELSE Tailing(pieces[i - 1]) \o pieces[i]]

\* A bug: a tiny piece is dropped instead of joined to its predecessor.
JoinDropped(merged, piece) ==
  IF merged # <<>> /\ TokenCount(piece) < MinTokens THEN merged ELSE Append(merged, piece)

\* A piece below the minimum is joined to its predecessor.
Join(merged, piece) ==
  IF merged # <<>> /\ TokenCount(piece) < MinTokens
  THEN [merged EXCEPT ![Len(merged)] = @ \o piece]
  ELSE Append(merged, piece)

MergeTiny(pieces) ==
  LET upTo[n \in 0..Len(pieces)] == IF n = 0 THEN <<>> ELSE Join(upTo[n - 1], pieces[n])
  IN upTo[Len(pieces)]

WordUnits(text) == {<<"word", text[i].id>> : i \in DOMAIN text}

ChunkSection(seg) ==
  LET texts == MergeTiny(Overlapped(RecursiveSplit(seg.body))) IN
  {[id |-> <<"section", seg.anchor, i - 1>>, type |-> "section_text",
    tokens |-> TokenCount(texts[i]), units |-> WordUnits(texts[i])] : i \in DOMAIN texts}

\* The rendered table: caption and header, then the rows first..last.
TableTokens(seg, first, last) ==
  FoldSet(LAMBDA i, acc : acc + seg.rows[i].tokens, seg.header, first..last)

\* The window grows row by row until a limit is hit; it has at least one row.
WindowEnd(seg, first) ==
  Max({e \in first..Min({first + TableRowLimit - 1, Len(seg.rows)}) :
         \A i \in (first + 1)..e : TableTokens(seg, first, i) <= TableTokenLimit})

\* The first row of the window that follows, or still holds, row n.
WindowFrom(seg, first, n) == IF n <= WindowEnd(seg, first) THEN first ELSE n

TableWindows(seg) ==
  LET start[n \in 0..Len(seg.rows)] ==
        IF n = 0 THEN 1 ELSE WindowFrom(seg, start[n - 1], n)
  IN {<<start[n], WindowEnd(seg, start[n])>> : n \in 1..Len(seg.rows)}

ChunkTable(seg) ==
  {[id |-> <<"table", seg.anchor, w>>, type |-> "table",
    tokens |-> TableTokens(seg, w[1], w[2]),
    units |-> {<<"row", seg.rows[j].id>> : j \in w[1]..w[2]}] : w \in TableWindows(seg)}

ChunkSegment(seg) ==
  CASE seg.type = "fact_table" -> ChunkFacts(seg)
    [] seg.type = "section_text" -> ChunkSection(seg)
    [] seg.type = "table" -> ChunkTable(seg)

\* The chunks of each segment in turn.
Chunk(page) == [i \in DOMAIN Segment(page) |-> ChunkSegment(Segment(page)[i])]
=============================================================================
