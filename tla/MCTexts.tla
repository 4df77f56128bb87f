------------------------------- MODULE MCTexts -------------------------------
(* Small texts, pages, parts and timelines: the inputs of the algorithms     *)
(* that turn a file into text, and a text into speech, and their contracts.  *)
EXTENDS SsmlSegments, DocumentText, PartDelivery, BookmarkAnchors

W(lead, stem, dot, trail) == [lead |-> lead, stem |-> stem, dot |-> dot, trail |-> trail]
MCWords ==
  {Plain(stem) : stem \in {"mot", "Chapitre", "IV", "IIII", "2", "500", "F", "|", "M", "Paul", "JO",
                           "1.000.000", "29/2/2027", "Dr"}}
  \cup {W(FALSE, stem, TRUE, "none") : stem \in {"mot", "500", "C", "civ", "op", "t", "p", "M", "1/1/2027"}}
  \cup {W(FALSE, "CFA", TRUE, "closing"), W(FALSE, "cit", TRUE, "pause"), W(TRUE, "XIXe", FALSE, "none"),
        W(FALSE, "siècle", FALSE, "end"), W(TRUE, "TVA", TRUE, "closing"), W(FALSE, "l'OHADA", FALSE, "end")}

T(bytes, ends, hash) == [bytes |-> bytes, chars |-> bytes + 1, ends |-> ends, hash |-> hash]
MCTokens == {T(0, FALSE, 0), T(2, TRUE, 0), T(2, TRUE, 1), T(6, FALSE, 1), T(20, FALSE, 0)}

MCTimes == {Missing, 0, 2, 5}
MCSegments == {[times |-> t, frames |-> f, cut |-> c] :
                 t \in [1 .. 1 -> MCTimes] \cup [1 .. 2 -> MCTimes], f \in {0, 1}, c \in BOOLEAN}
MCParts == {Missing} \cup [durationMs : {1, 3}, wordCount : {2}]

\* Lines by their segments, on a page of nine units; their words are their place.
MCSpans == { <<>>, << <<0, 3>> >>, << <<6, 9>> >>, << <<0, 3>>, <<6, 9>> >>, << <<0, 8>> >>,
             << <<0, 1>>, <<3, 4>>, <<6, 7>> >> }
LaidLine(spans, i) ==
  LET segments == [k \in DOMAIN spans |-> [words |-> <<<<i, k>>>>, length |-> 2,
                                           left |-> spans[k][1], right |-> spans[k][2]]]
  IN [words |-> IF spans = <<>> THEN <<<<i, 0>>>> ELSE Words(segments), length |-> 3, top |-> NoValue,
      fontSize |-> NoValue, segments |-> segments, vertical |-> FALSE]

LaidPage(page) == FoldLeftDomain(LAMBDA lines, i : Append(lines, LaidLine(page[i], i)), <<>>, page)

\* Lines of the pages to clean: look, print, position, size, length.
L(look, print, top, size, length) ==
  [look |-> look, print |-> print, top |-> top, fontSize |-> size, length |-> length]
MCPages ==
  LET body == L("text", "corps", 5, 10, 6)
      called == L("calls", "corps", 5, 10, 6)
      title == L("text", "titre", 0, 12, 2)
      running == L("text", "titre", 0, 10, 2)
      foot == L("text", "pied", 9, 10, 2)
      number == L("number", NoPrint, 9, 10, 1)
      note == L("note", "note", 7, 8, 2)
      small == L("text", "corps", 8, 8, 2)
      legend == L("caption", "legende", 4, 10, 2)
      lost == L("text", "titre", NoValue, NoValue, 6)
  IN { <<>>, <<body>>, <<title, body>>, <<running, body, foot>>, <<title, number>>, <<called, note, small>>,
       <<body, note>>, <<called, note, body, number>>, <<title, legend, body, foot>>,
       <<lost, lost, lost>> }
PagesContract(pages, cleaned) ==
  /\ CleaningKeepsText(pages, cleaned, LinesOf(LaidOut(pages)))
  /\ AcceptedTextIsRead(pages, cleaned)
  /\ TitlesAreReadOnce(pages, cleaned)
CleaningContract(pages) == PagesContract(pages, cleanPages(pages))

PlacedPages(pages) ==
  LET placed(p) == FoldLeftDomain(LAMBDA lines, i :
        Append(lines, pages[p][i] @@ [words |-> <<<<p, i>>>>, segments |-> <<>>, vertical |-> FALSE]),
        <<>>, pages[p])
  IN FoldLeftDomain(LAMBDA all, p : Append(all, placed(p)), <<>>, pages)

MCCutLines == { <<[length |-> 2, dash |-> FALSE, lower |-> FALSE]>>,
                <<[length |-> 3, dash |-> TRUE, lower |-> TRUE]>>,
                <<[length |-> 2, dash |-> FALSE, lower |-> TRUE], [length |-> 3, dash |-> TRUE, lower |-> FALSE]>>,
                <<>> }
PlacedLine(line, i) == [k \in DOMAIN line |-> line[k] @@ [letters |-> <<<<i, k>>>>]]

MCItems == [text : BOOLEAN, eol : BOOLEAN]
PlacedItem(item, i) == [words |-> IF item.text THEN <<i>> ELSE <<>>, eol |-> item.eol]

MCTitles == [newPage : BOOLEAN, size : {10, 12, 13}, keyword : BOOLEAN] \cup {[newPage |-> FALSE, size |-> 16, keyword |-> FALSE]}
PagesOf(lines) ==
  FoldLeftDomain(LAMBDA pages, i :
      LET line == [words |-> <<i>>, length |-> 3, fontSize |-> lines[i].size, letters |-> TRUE,
                   vertical |-> FALSE, keyword |-> lines[i].keyword]
      IN IF pages = <<>> \/ lines[i].newPage THEN Append(pages, <<line>>)
         ELSE Append(Front(pages), Append(Last(pages), line)),
    <<>>, lines)

\* Words of a page, by their stems; a page of three words and what it became.
MCStems == {[stem |-> "a", length |-> 1, cut |-> "a"], [stem |-> "b", length |-> 1, cut |-> "b"],
            [stem |-> "b", length |-> 3, cut |-> "b"], [stem |-> "bc", length |-> 4, cut |-> "b"],
            [stem |-> NoStem, length |-> 1, cut |-> NoStem]}

TextAlphabet ==
  [words |-> MCWords, tokens |-> MCTokens, segments |-> MCSegments, parts |-> MCParts,
   spans |-> MCSpans, pages |-> MCPages, cut |-> MCCutLines, items |-> MCItems, titles |-> MCTitles,
   anchors |-> MCStems]
TextLength == [words |-> 3, tokens |-> 5, segments |-> 2, parts |-> 5, spans |-> 5, pages |-> 4,
               cut |-> 5, items |-> 5, titles |-> 4, anchors |-> 6]

\* The contracts, by kind of input.
TextContract(kind, of) ==
  CASE kind = "words"  -> RulesKeepWords(of) /\ SegmentsAreSound(tokenize(of))
    [] kind = "tokens" -> SegmentsAreSound(of) /\ PartsCoverSegments(buildSsmlSegments(of))
    [] kind = "segments" ->
         TimelineFitsAudio(
           [k \in DOMAIN of |->
              [times |-> of[k].times, pages |-> [i \in DOMAIN of[k].times |-> 1],
               firstWordIndex |-> IF k = 1 THEN 0 ELSE Len(of[1].times)]], of)
    [] kind = "parts" ->
         ManifestAgreesWithOverview(
           [k \in DOMAIN of |-> [index |-> k - 1, firstWordIndex |-> 2 * (k - 1), assembled |-> of[k]]])
    [] kind = "spans"  -> LayoutKeepsWords(LaidPage(of))
    [] kind = "pages"  -> CleaningContract(PlacedPages(of))
    [] kind = "cut"    -> AssemblyKeepsLetters([i \in DOMAIN of |-> PlacedLine(of[i], i)])
    [] kind = "items"  -> LinesKeepFragments([i \in DOMAIN of |-> PlacedItem(of[i], i)])
    [] kind = "titles" -> OutlineIsSound(PagesOf(of))
    [] kind = "anchors" -> Len(of) >= 3 => AnchorIsFound(SubSeq(of, 1, 3), SubSeq(of, 4, Len(of)))
=============================================================================
