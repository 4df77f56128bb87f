---------------------------- MODULE DocumentText ----------------------------
(* From the fragments of a PDF, or the words of an OCR, to the text that is  *)
(* read and its table of contents (extracted-text.ts and outline.ts of       *)
(* document/domain/services, pdfjs-text-extractor.adapter.ts, tesseract-     *)
(* tsv.ts).                                                                  *)
EXTENDS TextCleaning

CONSTANTS
  MinAvgCharsPerPage,      \* MIN_AVG_CHARS_PER_PAGE, 50
  HeadingPercent,          \* HEADING_FONT_RATIO, 108
  MaxHeadingLength,        \* MAX_HEADING_LENGTH, 120
  MaxKeywordLength,        \* MAX_KEYWORD_HEADING_LENGTH, 80
  MaxOutlineLevel,         \* MAX_OUTLINE_LEVEL, 3
  SameSize                 \* SAME_SIZE_POINTS

(* ------------------------------------------------------------------------- *)
(* Lines of a PDF page: its fragments up to each end of line.  A fragment is *)
(* [words, length, left, right, eol].                                        *)

\* Fragments from left to right, a new segment after a gap of SegmentGap.
toSegments(items, segmentGap) ==
  LET boxes == SortSeq(SelectSeq(items, LAMBDA item : item.words # <<>>),
                       LAMBDA a, b : a.left < b.left)
      add(segments, box) ==
        IF segments = <<>> \/ box.left - Last(segments).right >= segmentGap
        THEN Append(segments, [words |-> box.words, length |-> box.length,
                               left |-> box.left, right |-> box.right])
        ELSE LET last == Last(segments)
             IN Append(Front(segments), [words |-> last.words \o box.words,
                                         length |-> last.length + box.length, left |-> last.left,
                                         right |-> Max({last.right, box.right})])
  IN FoldLeft(add, <<>>, boxes)

\* What is after the last end of line is a line of its own if it has a text.
toLines(items) ==
  LET step(read, item) ==
        IF item.eol THEN [lines |-> Append(read.lines, Append(read.current, item)), current |-> <<>>]
        ELSE [read EXCEPT !.current = Append(@, item)]
      read == FoldLeft(step, [lines |-> <<>>, current |-> <<>>], items)
  IN read.lines \o (IF Words(read.current) = <<>> THEN <<>> ELSE <<read.current>>)

\* Bookmarks in reading order with their depth; one that cannot be followed to
\* a page is left out, an error in one leaves the PDF without bookmarks.
readBookmarks(nodes) ==
  LET walked == SelectSeq(nodes, LAMBDA node : node.level <= MaxOutlineLevel)
  IN IF \E i \in DOMAIN walked : walked[i].page = "error" THEN <<>>
     ELSE SelectSeq(walked, LAMBDA node : node.page # "none" /\ node.titled)

(* Words of the OCR in lines: a word is [key, words, length, left, right,    *)
(* conf], a line row is its key.  Words of a line the engine does not list   *)
(* are not read.                                                             *)
parseTesseractTsv(rows, words, wordHeight) ==
  LET read == SelectSeq(words, LAMBDA w : w.words # <<>>)
      of(key) == SelectSeq(read, LAMBDA w : w.key = key)
      listed == SelectSeq(rows, LAMBDA key : of(key) # <<>>)
      scored == SelectSeq(read, LAMBDA w : w.conf # NoValue)
  IN [lines |-> [i \in DOMAIN listed |->
                   [words |-> Words(of(listed[i])), segments |-> toSegments(of(listed[i]), wordHeight + 1)]],
      confidence |-> IF scored = <<>> THEN NoValue
                     ELSE FoldLeft(LAMBDA sum, w : sum + w.conf, 0, scored) \div Len(scored)]

(* ------------------------------------------------------------------------- *)
(* The text of a page.  Here a line is a sequence of words                   *)
(* [letters, length, dash, lower]: a word cut by a dash at the end of a line *)
(* is joined with the next one when that starts with a lower case letter.    *)

assemblePageText(lines) ==
  LET add(out, line) ==
        IF out # <<>> /\ Last(Last(out)).dash /\ line[1].lower
        THEN LET cut == Last(Last(out))
                 joined == [letters |-> cut.letters \o line[1].letters,
                            length |-> cut.length - 1 + line[1].length,
                            dash |-> line[1].dash, lower |-> cut.lower]
                 mended == Append(Front(out), Append(Front(Last(out)), joined))
             IN IF Len(line) > 1 THEN Append(mended, Tail(line)) ELSE mended
        ELSE Append(out, line)
  IN FoldLeft(add, <<>>, SelectSeq(lines, LAMBDA line : line # <<>>))

\* Billed characters: the words and the spaces between them, not the line ends.
countChars(text) ==
  FoldLeft(LAMBDA sum, line : sum + FoldLeft(LAMBDA chars, w : chars + w.length, Len(line) - 1, line),
           0, text)

(* What the extraction answers, from the raw length of the pages and the     *)
(* length the cleaning keeps of each.                                        *)
isScanned(raw) == raw # <<>> /\ FoldLeft(LAMBDA a, b : a + b, 0, raw) < MinAvgCharsPerPage * Len(raw)

prepareExtractedText(raw, kept) ==
  IF raw = <<>> THEN [ok |-> FALSE, reason |-> "empty"]
  ELSE IF isScanned(raw) THEN [ok |-> FALSE, reason |-> "scanned"]
  ELSE [ok |-> TRUE, charCount |-> FoldLeft(LAMBDA a, b : a + b, 0, kept)]

prepareOcrText(raw, kept) ==
  IF raw = <<>> THEN [ok |-> FALSE, reason |-> "empty"]
  ELSE LET charCount == FoldLeft(LAMBDA a, b : a + b, 0, kept)
       IN IF charCount = 0 THEN [ok |-> FALSE, reason |-> "ocr_no_text"]
          ELSE [ok |-> TRUE, charCount |-> charCount]

(* ------------------------------------------------------------------------- *)
(* The table of contents, from the lines that are kept: [words, length,      *)
(* fontSize, vertical, letters, keyword] (letters: it has enough of them).   *)

outlineFromBookmarks(bookmarks) ==
  SelectSeq(bookmarks, LAMBDA entry : entry.level <= MaxOutlineLevel /\ entry.titled)

NoCandidate == [words |-> <<>>]

candidateOf(line, pageNumber, body) ==
  LET sized == ~line.vertical /\ line.fontSize # NoValue /\ line.length <= MaxHeadingLength /\ line.letters
      large == 100 * line.fontSize >= HeadingPercent * body
      byKeyword == /\ Distance(line.fontSize, body) <= SameSize
                   /\ line.length <= MaxKeywordLength /\ line.keyword
  IN IF sized /\ (large \/ byKeyword)
     THEN [words |-> line.words, length |-> line.length, size |-> line.fontSize, pageNumber |-> pageNumber]
     ELSE NoCandidate

\* Lines that follow each other on a page with the same size are one title.
mergeWrapped(candidates) ==
  LET step(merged, i) ==
        LET c == candidates[i]
            previous == IF i = 1 THEN NoCandidate ELSE candidates[i - 1]
            last == Last(merged)
            wraps == /\ previous # NoCandidate
                     /\ previous.pageNumber = c.pageNumber
                     /\ Distance(previous.size, c.size) <= SameSize
                     /\ last.length + 1 + c.length <= MaxHeadingLength
        IN IF c = NoCandidate THEN merged
           ELSE IF wraps
           THEN Append(Front(merged), [last EXCEPT !.words = @ \o c.words, !.length = @ + 1 + c.length])
           ELSE Append(merged, c)
  IN FoldLeftDomain(step, <<>>, candidates)

\* From the largest down, a size that is not within SameSize of the one before.
distinctSizes(sizes) ==
  FoldLeft(LAMBDA distinct, size :
             IF distinct = <<>> \/ Last(distinct) - size > SameSize THEN Append(distinct, size) ELSE distinct,
           <<>>, SortSeq(sizes, LAMBDA a, b : a > b))

documentBodySize(pages) ==
  LET lines == SelectSeq(FlattenSeq(pages), LAMBDA line : ~line.vertical)
  IN bodyFontSize(lines, DOMAIN lines)

ranked(titles, sizes) ==
  LET rank(title) == SelectInSeq(sizes, LAMBDA size : Distance(size, title.size) <= SameSize)
  IN Each(LAMBDA title : [words |-> title.words, size |-> title.size, pageNumber |-> title.pageNumber,
                          level |-> Min({MaxOutlineLevel, rank(title)})], titles)

headingsAbove(body, pages) ==
  LET all == FoldLeftDomain(LAMBDA found, p :
               found \o Each(LAMBDA line : candidateOf(line, p, body), pages[p]), <<>>, pages)
      leveled(titles) == ranked(titles, distinctSizes(Each(LAMBDA title : title.size, titles)))
  IN IF body = NoValue THEN <<>> ELSE leveled(mergeWrapped(all))

detectHeadings(pages) == headingsAbove(documentBodySize(pages), pages)

buildOutline(bookmarks, keptPages) ==
  IF outlineFromBookmarks(bookmarks) # <<>>
  THEN [source |-> "bookmarks", entries |-> outlineFromBookmarks(bookmarks)]
  ELSE [source |-> "headings", entries |-> detectHeadings(keptPages)]

------------------------------------------------------------------------------
(* What the text and its outline promise *)

(* The letters of a page come out once each and in order; joining a cut word *)
(* only takes its dash away.                                                 *)
AssemblyKeepsLetters(lines) ==
  LET letters(text) == FlattenSeq([i \in DOMAIN text |-> FlattenSeq(
                         [k \in DOMAIN text[i] |-> text[i][k].letters])])
      text == assemblePageText(lines)
      words(t) == FoldLeft(LAMBDA n, line : n + Len(line), 0, t)
      spaces(t) == words(t) - Len(t)
      joins == words(lines) - words(text)
      chars(t) == countChars(t) - spaces(t)
  IN /\ letters(text) = letters(lines)
     /\ \A i \in DOMAIN text : text[i] # <<>>
     /\ chars(text) = chars(lines) - joins

\* Every fragment with a text is in one line, in order.
LinesKeepFragments(items) == FlattenSeq([i \in DOMAIN toLines(items) |-> Words(toLines(items)[i])]) = Words(items)

(* A title of the outline is made of consecutive lines kept on its page, in  *)
(* the order of the document; of two titles the larger is no deeper.         *)
EntriesAreSound(entries, pages) ==
  LET wordsOf(p) == Words(pages[p])
      inPage(words, p) == \E from \in 0 .. Len(wordsOf(p)) - Len(words) :
                            words = SubSeq(wordsOf(p), from + 1, from + Len(words))
  IN \A a \in DOMAIN entries :
       /\ entries[a].level \in 1 .. MaxOutlineLevel
       /\ entries[a].words # <<>> /\ inPage(entries[a].words, entries[a].pageNumber)
       /\ \A b \in DOMAIN entries :
            /\ a < b => entries[a].pageNumber <= entries[b].pageNumber
            /\ entries[a].size > entries[b].size => entries[a].level <= entries[b].level
            /\ a # b => ToSet(entries[a].words) \cap ToSet(entries[b].words) = {}

OutlineIsSound(pages) == EntriesAreSound(detectHeadings(pages), pages)

(* A native text that is accepted is never empty: at least half of what made *)
(* it pass for a text, and not for a scan, is read and billed.               *)
AcceptedTextIsRead(pages, cleaned) ==
  LET length(lines) == FoldLeft(LAMBDA sum, line : sum + line.length, 0, lines)
      accepted(answer) == answer.ok => answer.charCount > 0
  IN accepted(prepareExtractedText(Each(length, pages), Each(LAMBDA page : length(page.kept), cleaned)))
=============================================================================
