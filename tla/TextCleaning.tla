---------------------------- MODULE TextCleaning ----------------------------
(* Cleaning of the extracted text (document/domain/services/text-cleaning.ts):*)
(* page numbers, repeated headers and footers, footnotes, captions and       *)
(* tables are put aside with their reason, never thrown away.  What a regular*)
(* expression says of a line is an attribute of it: its look is one of Look, *)
(* its print (the fingerprint) a value, NoPrint for a line without a letter. *)
EXTENDS PageLayout

CONSTANTS
  Height,               \* a position is from 0, the top, to Height
  Margin,               \* MARGIN_RATIO, a tenth of the page
  MarginLines,          \* MARGIN_LINES_WITHOUT_POSITION, 2
  MinLinesForMargin,    \* MIN_LINES_FOR_POSITIONLESS_MARGIN, 6
  RepeatMinPages,       \* REPEAT_MIN_PAGES, 3
  RepeatWindowPages,    \* REPEAT_WINDOW_PAGES, 6
  TitlePercent,         \* TITLE_FONT_RATIO, 115
  FootnotePercent,      \* FOOTNOTE_FONT_RATIO, 85
  MaxShortLineLength,   \* MAX_SHORT_LINE_LENGTH, 200
  NoPrint

\* An ordinary line; one that has a call of a note after a word; one that
\* starts with a call; `12', `- xii -', `p. 3/300'; `Figure 3 :', `Source :'.
Look == {"text", "calls", "note", "number", "caption"}
Reason == {"header", "footer", "page_number", "footnote", "caption", "table"}
Kept == "kept"

isPageNumber(line) == line.look = "number"
isCaption(line) == line.look = "caption" /\ line.length < MaxShortLineLength
startsWithCall(line) == line.look = "note"
hasCall(line) == line.look = "calls"

zoneOf(line, index, count) ==
  IF line.top # NoValue
  THEN IF line.top <= Margin THEN "top" ELSE IF line.top >= Height - Margin THEN "bottom" ELSE "body"
  ELSE IF count < MinLinesForMargin THEN "body"
  ELSE IF index <= MarginLines THEN "top"
  ELSE IF index > count - MarginLines THEN "bottom" ELSE "body"

(* ------------------------------------------------------------------------- *)
(* Lines that come back in the margins of several pages *)

\* What makes two margin lines the same; NoPrint for a line that is not looked at.
MarginKey(page, i) ==
  LET zone == zoneOf(page[i], i, Len(page))
  IN IF zone = "body" \/ page[i].print = NoPrint \/ page[i].length >= MaxShortLineLength
     THEN NoPrint ELSE <<zone, page[i].print>>

PagesWith(pages, key) == {p \in DOMAIN pages : \E i \in DOMAIN pages[p] : MarginKey(pages[p], i) = key}

\* Some window of consecutive pages around this one has enough of them.
repeatsAround(pagesWithKey, page) ==
  \E start \in page - RepeatWindowPages + 1 .. page :
    Cardinality(pagesWithKey \cap (start .. start + RepeatWindowPages - 1)) >= RepeatMinPages

repeatedMarginLines(pages, p) ==
  {i \in DOMAIN pages[p] : LET key == MarginKey(pages[p], i)
                           IN key # NoPrint /\ repeatsAround(PagesWith(pages, key), p)}

\* First of a series: not in the margin of the pages just before.
opensSeries(pages, p, i) ==
  PagesWith(pages, MarginKey(pages[p], i)) \cap (p - RepeatWindowPages + 1 .. p - 1) = {}

(* ------------------------------------------------------------------------- *)
(* Reasons *)

\* Median size of the lines at the given indices, weighted by their length.
bodyFontSize(lines, indices) ==
  LET sized == {i \in indices : lines[i].fontSize # NoValue}
      weight(set) == MapThenSumSet(LAMBDA i : lines[i].length, set)
      upTo(size) == weight({i \in sized : lines[i].fontSize <= size})
  IN IF weight(sized) = 0 THEN NoValue
     ELSE Min({size \in {lines[i].fontSize : i \in sized} : 2 * upTo(size) >= weight(sized)})

isTitle(line, body) ==
  body # NoValue /\ line.fontSize # NoValue /\ 100 * line.fontSize >= TitlePercent * body

reasonOf(pages, p, tables, i) ==
  LET line == pages[p][i]
      zone == zoneOf(line, i, Len(pages[p]))
  IN IF i \in tables THEN "table"
     ELSE IF zone # "body" /\ isPageNumber(line) THEN "page_number"
     ELSE IF isCaption(line) THEN "caption"
     ELSE IF i \notin repeatedMarginLines(pages, p) THEN Kept
     ELSE IF zone = "bottom" THEN "footer"
     ELSE IF opensSeries(pages, p, i) /\ isTitle(line, bodyFontSize(pages[p], DOMAIN pages[p])) THEN Kept
     ELSE "header"

(* The notes at the foot of a page: from the first small line of the lower   *)
(* half that starts with a call, every line down to the bottom is small, and *)
(* a line above has a call.                                                  *)
markFootnotes(lines, reasons) ==
  LET kept == {i \in DOMAIN lines : reasons[i] = Kept}
      body == bodyFontSize(lines, kept)
      isSmall(i) == lines[i].fontSize # NoValue /\ 100 * lines[i].fontSize <= FootnotePercent * body
      placed == SetToSortSeq({i \in kept : lines[i].top # NoValue},
                             LAMBDA a, b : \/ lines[a].top < lines[b].top
                                           \/ lines[a].top = lines[b].top /\ a < b)
      startAt == SelectInSeq(placed, LAMBDA i :
                   2 * lines[i].top >= Height /\ isSmall(i) /\ startsWithCall(lines[i]))
      block == IF startAt = 0 THEN {} ELSE {placed[k] : k \in startAt .. Len(placed)}
  IN IF /\ body # NoValue
        /\ \A i \in block : isSmall(i)
        /\ \E k \in 1 .. startAt - 1 : hasCall(lines[placed[k]])
     THEN [i \in DOMAIN lines |-> IF i \in block THEN "footnote" ELSE reasons[i]]
     ELSE reasons

classify(pages, p, tables) ==
  markFootnotes(pages[p], FoldLeftDomain(LAMBDA reasons, i :
                  Append(reasons, reasonOf(pages, p, tables, i)), <<>>, pages[p]))

\* Fault: a page may lose its text.
NeverTooMuch(length, removed) == FALSE

\* Nothing to remove, or more than half of the page.
TooMuch(length, removed) == length = 0 \/ 2 * removed > length

\* A page that would lose more than half of its text is kept as it is.
applyWithGuard(lines, reasons) ==
  LET length(indices) == MapThenSumSet(LAMBDA i : lines[i].length, indices)
      removed == {i \in DOMAIN lines : reasons[i] # Kept}
      none == TooMuch(length(DOMAIN lines), length(removed))
      chosen(Test(_)) == SelectSeq([i \in 1 .. Len(lines) |-> i], Test)
      left == IF none THEN {} ELSE removed
      kept == chosen(LAMBDA i : i \notin left)
      aside == chosen(LAMBDA i : i \in left)
  IN [kept     |-> Each(LAMBDA i : lines[i], kept),
      setAside |-> Each(LAMBDA i :
                     [words  |-> IF reasons[i] = "table" THEN tableRowText(lines[i]) ELSE lines[i].words,
                      reason |-> reasons[i]], aside)]

cleanLaidOut(laidOut, pages) ==
  FoldLeftDomain(LAMBDA cleaned, p :
      Append(cleaned, applyWithGuard(pages[p],
        classify(pages, p, {i \in DOMAIN laidOut[p] : laidOut[p][i].table}))),
    <<>>, laidOut)

LaidOut(pages) == Each(LAMBDA page : restoreColumnOrder(page, findTableLines(page)), pages)
LinesOf(laidOut) == Each(LAMBDA page : Each(LAMBDA x : x.line, page), laidOut)
cleanPages(pages) == LET laidOut == LaidOut(pages) IN cleanLaidOut(laidOut, LinesOf(laidOut))

------------------------------------------------------------------------------
(* What the cleaning promises *)

(* Page by page: nothing is lost or doubled, a page keeps half of its text,  *)
(* what is put aside as a note lies below all that is kept.                  *)
CleanedKeepsText(page, kept, aside, laid) ==
  LET wordsOf(parts) == ToSet(Words(parts))
      length(lines) == FoldLeft(LAMBDA sum, line : sum + line.length, 0, lines)
      topOf(word) == page[SelectInSeq(page, LAMBDA line : word \in ToSet(line.words))].top
  IN /\ wordsOf(kept) \cup wordsOf(aside) = wordsOf(page)
     /\ Len(Words(kept)) + Len(Words(aside)) = Len(Words(page))
     /\ 2 * length(kept) >= length(laid)
     /\ \A a \in DOMAIN aside, k \in DOMAIN kept :
          aside[a].reason = "footnote" /\ kept[k].top # NoValue
          => \A note \in ToSet(aside[a].words) : kept[k].top <= topOf(note)

CleaningKeepsText(pages, cleaned, laid) ==
  \A p \in DOMAIN pages : CleanedKeepsText(pages[p], cleaned[p].kept, cleaned[p].setAside, laid[p])

(* A title that comes back is read at least where its series begins: the     *)
(* first of every series of pages that show it in their top margin keeps it. *)
TitlesAreReadOnce(pages, cleaned) ==
  \A p \in DOMAIN pages : \A i \in DOMAIN pages[p] :
       LET line == pages[p][i]
       IN /\ MarginKey(pages[p], i) # NoPrint /\ line.look = "text"
          /\ zoneOf(line, i, Len(pages[p])) = "top"
          /\ i \notin findTableLines(pages[p])
          /\ isTitle(line, bodyFontSize(pages[p], DOMAIN pages[p]))
          /\ opensSeries(pages, p, i)
          => ToSet(line.words) \subseteq ToSet(Words(cleaned[p].kept))
=============================================================================
