--------------------------- MODULE BookmarkAnchors ---------------------------
(* The place a bookmark points to in the current text of its page            *)
(* (library/domain/services/bookmark-anchor.ts).  A page is a sequence of    *)
(* words, [stem, length, cut]: the stem is what is left of a word without    *)
(* case, accents and punctuation at its ends, NoStem when nothing is; `cut`  *)
(* is what is left so of its first MaxExcerptLength characters.              *)
EXTENDS Integers, Sequences, SequencesExt

CONSTANTS
  ExcerptWords,       \* EXCERPT_WORDS
  MaxExcerptLength,   \* MAX_EXCERPT_LENGTH; a word is as long as it says
  NoStem              \* a word without a letter or a digit

ASSUME AnchorAssumption == ExcerptWords \in Nat \ {0}

Cut(word) == [word EXCEPT !.stem = word.cut, !.length = MaxExcerptLength]

\* The words kept with a bookmark; places are counted from 0.  A first word
\* that is too long is cut.
excerptAt(words, index) ==
  LET wanted == SubSeq(words, index + 1, IF Len(words) < index + ExcerptWords
                                         THEN Len(words) ELSE index + ExcerptWords)
      length(n) == n - 1 + SumFunction([k \in 1 .. n |-> wanted[k].length])
      fitting == {n \in DOMAIN wanted : length(n) <= MaxExcerptLength}
  IN IF wanted = <<>> THEN <<>>
     ELSE IF fitting = {} THEN << Cut(wanted[1]) >>
     ELSE SubSeq(wanted, 1, CHOOSE n \in fitting : \A m \in fitting : m <= n)

\* A word past the end of the page is like one without a letter.
normalized(words, place) == IF place + 1 \in DOMAIN words THEN words[place + 1].stem ELSE NoStem
matchesAt(words, target, index) ==
  \A k \in DOMAIN target : normalized(words, index + k - 1) = target[k].stem

Gap(a, b) == IF a >= b THEN a - b ELSE b - a

\* Fault: the first occurrence.
FirstPlaces(places, index) == {i \in places : \A j \in places : i <= j}

Nearest(places, index) == {i \in places : \A j \in places : Gap(i, index) <= Gap(j, index)}

\* The place kept, else the nearest occurrence, else the nearest word.
locateAnchor(words, index, target) ==
  LET places == {i \in 0 .. Len(words) - Len(target) : matchesAt(words, target, i)}
      first(set) == CHOOSE i \in set : \A j \in set : i <= j
  IN IF words = <<>> THEN [wordIndex |-> 0, needsReview |-> TRUE]
     ELSE IF target # <<>> /\ matchesAt(words, target, index)
     THEN [wordIndex |-> index, needsReview |-> FALSE]
     ELSE IF target # <<>> /\ places # {}
     THEN [wordIndex |-> first(Nearest(places, index)), needsReview |-> FALSE]
     ELSE [wordIndex |-> IF index < Len(words) THEN index ELSE Len(words) - 1, needsReview |-> TRUE]

\* Where the words of a bookmark stand.
Occurrences(words, target) ==
  {i \in 0 .. Len(words) - 1 : /\ i + Len(target) <= Len(words)
                               /\ \A k \in DOMAIN target : words[i + k].stem = target[k].stem}

(* A bookmark is shown on its words while the page has them, whatever was    *)
(* corrected around them, at the occurrence nearest to where it was put; it  *)
(* is marked for review exactly when its words are gone; a page that did not *)
(* change shows it where it was put (ADR-0028, 4).  Bookmarks on punctuation *)
(* alone are excepted, they match past the end of the page; and where        *)
(* nothing changed, those on a word that was cut: the part that was kept is  *)
(* compared with whole words, and not found (bookmark-anchor.ts:24).         *)
AnchorIsFound(original, current) ==
  \A index \in 0 .. Len(original) - 1 :
    LET target == excerptAt(original, index)
        view == locateAnchor(current, index, target)
        places == Occurrences(current, target)
    IN Last(target).stem # NoStem =>
         /\ target # <<>> /\ (view.needsReview <=> places = {})
         /\ current # <<>> => view.wordIndex < Len(current)
         /\ ~view.needsReview => /\ view.wordIndex \in places
                                 /\ \A i \in places : Gap(view.wordIndex, index) <= Gap(i, index)
         /\ current = original /\ target[1].stem = original[index + 1].stem =>
              view.wordIndex = index /\ ~view.needsReview
=============================================================================
