----------------------------- MODULE PageLayout -----------------------------
(* Lines of a page as the extractors give them, tables and columns           *)
(* (document/domain/services/layout.ts; pdfjs-text-extractor.adapter.ts and  *)
(* tesseract-tsv.ts build the lines).  Lengths are integers on a page of     *)
(* Width units; a line keeps the segments it is made of, each with its words.*)
EXTENDS Integers, SequencesExt, FiniteSetsExt

CONSTANTS
  Width,               \* BINS: units of width of a page
  MaxCellLength,       \* MAX_CELL_LENGTH, 25
  MinTableRows,        \* MIN_TABLE_ROWS, 3
  MinTableColumns,     \* MIN_TABLE_COLUMNS, 3
  MinAlignedColumns,   \* MIN_ALIGNED_COLUMNS, 2
  AlignedRowsPercent,  \* ALIGNED_ROWS_RATIO, 60
  AlignTolerance,      \* ALIGN_TOLERANCE
  MinGutterWidth,      \* MIN_GUTTER_WIDTH
  GutterMaxPercent,    \* GUTTER_MAX_COVERAGE, 10
  MinCrossingLines,    \* MIN_CROSSING_LINES, 3
  MinCrossingPercent,  \* MIN_CROSSING_RATIO, 30
  MinLinesForColumns,  \* MIN_LINES_FOR_COLUMNS, 6
  NoValue              \* an unknown position or size, no gutter

(* A segment is [words, length, left, right]; a line is [words, length, top, *)
(* fontSize, segments, vertical] and what its text looks like.               *)
TotalLength(segments) == FoldLeft(LAMBDA sum, s : sum + s.length, 0, segments)
Words(parts) == FlattenSeq([i \in DOMAIN parts |-> parts[i].words])

\* The sequence of what Op makes of each element.
Each(Op(_), seq) == FoldLeft(LAMBDA made, x : Append(made, Op(x)), <<>>, seq)

Distance(a, b) == IF a >= b THEN a - b ELSE b - a

(* ------------------------------------------------------------------------- *)
(* Tables *)

isTabular(line) ==
  Len(line.segments) >= 2 /\ TotalLength(line.segments) <= MaxCellLength * Len(line.segments)

\* Same left edge, same centre or same right edge.
isAligned(a, b) ==
  \/ Distance(a.left, b.left) <= AlignTolerance
  \/ Distance(a.left + a.right, b.left + b.right) <= 2 * AlignTolerance
  \/ Distance(a.right, b.right) <= AlignTolerance

\* The richest row is the reference: two of its columns come back in most rows.
columnsRepeat(rows, reference) ==
  LET rowsWith(cell) == {i \in DOMAIN rows : \E other \in ToSet(rows[i].segments) : isAligned(cell, other)}
      aligned == {c \in DOMAIN reference : 100 * Cardinality(rowsWith(reference[c])) >= AlignedRowsPercent * Len(rows)}
  IN Len(reference) >= MinTableColumns /\ Cardinality(aligned) >= MinAlignedColumns

isTable(rows) ==
  /\ Len(rows) >= MinTableRows
  /\ LET richest == SelectInSeq(rows, LAMBDA row : \A i \in DOMAIN rows :
                                        Len(rows[i].segments) <= Len(row.segments))
     IN columnsRepeat(rows, rows[richest].segments)

\* Indices of the lines of a table: whole runs of tabular lines.
findTableLines(lines) ==
  LET runs == {r \in (DOMAIN lines) \X (DOMAIN lines) :
                 /\ r[1] <= r[2] /\ \A i \in r[1] .. r[2] : isTabular(lines[i])
                 /\ r[1] = 1 \/ ~isTabular(lines[r[1] - 1])
                 /\ r[2] = Len(lines) \/ ~isTabular(lines[r[2] + 1])}
  IN UNION {r[1] .. r[2] : r \in {r \in runs : isTable(SubSeq(lines, r[1], r[2]))}}

tableRowText(line) == IF line.segments = <<>> THEN line.words ELSE Words(line.segments)

(* ------------------------------------------------------------------------- *)
(* Columns written across *)

\* The bands of consecutive empty bins, and twice the middle of the widest, the
\* first of them.
bandsOf(bins) == {b \in bins \X bins : b[1] <= b[2] /\ b[1] .. b[2] \subseteq bins}
middleOf(band) == IF band[2] - band[1] + 1 < MinGutterWidth THEN NoValue ELSE band[1] + band[2] + 1
widestMiddle(bands) ==
  LET size(b) == b[2] - b[1]
  IN IF bands = {} THEN NoValue
     ELSE middleOf(CHOOSE b \in bands : \A other \in bands :
                     \/ size(other) < size(b)
                     \/ size(other) = size(b) /\ b[1] <= other[1])

\* The gutter is in the central third, where few lines have text.
findGutter(lines) ==
  LET covers(s, x) == s.left <= x /\ x + 1 <= s.right
      coverage(x) == Cardinality({i \in DOMAIN lines : \E s \in ToSet(lines[i].segments) : covers(s, x)})
      central(x) == 3 * (2 * x + 1) >= 2 * Width /\ 3 * (2 * x + 1) <= 4 * Width
  IN IF Len(lines) < MinCrossingLines THEN NoValue
     ELSE widestMiddle(bandsOf({x \in 0 .. Width - 1 :
                                  central(x) /\ 100 * coverage(x) <= GutterMaxPercent * Len(lines)}))

OnLeft(s, gutter)  == 2 * s.right <= gutter
OnRight(s, gutter) == 2 * s.left >= gutter

sidesOf(line, gutter) ==
  LET some(Test(_)) == \E s \in ToSet(line.segments) : Test(s)
  IN IF some(LAMBDA s : ~OnLeft(s, gutter) /\ ~OnRight(s, gutter)) THEN "over"
     ELSE IF some(LAMBDA s : OnLeft(s, gutter)) /\ some(LAMBDA s : OnRight(s, gutter)) THEN "both"
     ELSE IF some(LAMBDA s : OnLeft(s, gutter)) THEN "left" ELSE "right"

\* A part of a line: everything but the direction of the writing is copied.
lineOf(line, segments) ==
  [line EXCEPT !.segments = segments, !.words = Words(segments),
               !.length = TotalLength(segments) + Len(segments) - 1, !.vertical = FALSE]

(* When lines have text on both sides of a common gutter, the left column is *)
(* read before the right one; a line over the gutter, of a table or without  *)
(* geometry first empties the two columns.  Gives the lines, each with       *)
(* whether it is of a table.                                                 *)
part(x, segments) == IF segments = <<>> THEN <<>> ELSE << [x EXCEPT !.line = lineOf(x.line, segments)] >>
flush(columns) == columns.ordered \o columns.left \o columns.right

place(columns, x, gutter) ==
  LET on(Side(_, _)) == SelectSeq(x.line.segments, LAMBDA s : Side(s, gutter))
  IN IF x.line.segments = <<>> \/ x.table \/ sidesOf(x.line, gutter) = "over"
     THEN [ordered |-> Append(flush(columns), x), left |-> <<>>, right |-> <<>>]
     ELSE [columns EXCEPT !.left = @ \o part(x, on(OnLeft)), !.right = @ \o part(x, on(OnRight))]

columnByColumn(shown, geometric, gutter) ==
  LET enough(crossing) == /\ crossing >= MinCrossingLines
                          /\ 100 * crossing >= MinCrossingPercent * Len(geometric)
  IN IF /\ Len(geometric) >= MinLinesForColumns
        /\ gutter # NoValue
        /\ enough(Len(SelectSeq(geometric, LAMBDA x : sidesOf(x.line, gutter) = "both")))
     THEN flush(FoldLeft(LAMBDA columns, x : place(columns, x, gutter),
                          [ordered |-> <<>>, left |-> <<>>, right |-> <<>>], shown))
     ELSE shown

restoreColumnOrder(lines, tables) ==
  LET shown == FoldLeftDomain(LAMBDA read, i :
                 Append(read, [line |-> lines[i], table |-> i \in tables]), <<>>, lines)
      geometric == SelectSeq(shown, LAMBDA x : x.line.segments # <<>> /\ ~x.table)
      severalParts == SelectSeq(geometric, LAMBDA x : Len(x.line.segments) >= 2)
  IN columnByColumn(shown, geometric, findGutter(Each(LAMBDA x : x.line, severalParts)))

------------------------------------------------------------------------------
(* What the layout promises *)

(* Reordering a page loses and repeats no word, and keeps the words of a     *)
(* line in the order of its parts.                                           *)
KeepsWords(restored, before) ==
  LET after == FlattenSeq([i \in DOMAIN restored |-> restored[i].line.words])
  IN /\ Len(after) = Len(before)
     /\ ToSet(after) = ToSet(before)
     /\ \A i \in DOMAIN restored : restored[i].line.words = tableRowText(restored[i].line)

LayoutKeepsWords(lines) == KeepsWords(restoreColumnOrder(lines, findTableLines(lines)), Words(lines))
=============================================================================
