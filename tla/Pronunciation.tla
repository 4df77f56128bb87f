---------------------------- MODULE Pronunciation ----------------------------
(* What the voice says for each displayed word (conversion/domain/services/  *)
(* pronunciation.ts).  A word is its opening mark, its core without the      *)
(* final dot (the stem), that dot, and the marks that close it: letters are  *)
(* abstracted to a small vocabulary with one stem or two per class the rules *)
(* tell apart.  A spoken form gives the stems said at this place, in which   *)
(* manner, and the punctuation the voice still finds there.                  *)
EXTENDS Integers, SequencesExt, TLC

Trail == {"none", "closing", "pause", "end"}   \* nothing, » ) ], , ; :, ! ? …
Manner == {"shown", "number", "date", "expanded", "acronym", "pause", "silent"}

(* The vocabulary. *)
RomanKeyword == {"Chapitre", "t"}
Roman == "I" :> <<1>> @@ "IV" :> <<1, 5>> @@ "IIII" :> <<1, 1, 1, 1>> @@ "M" :> <<1000>>
RomanOrdinal == "XIXe" :> <<10, 1, 10>> @@ "VXe" :> <<5, 10>>
Century == {"siècle"}
CalendarDate == "1/1/2027" :> <<1, 1, 2027>> @@ "29/2/2027" :> <<29, 2, 2027>>
DottedNumber == {"1.000.000"}
FirstGroup == {"2", "500"}
NextGroup == {"500"}
StartsWithDigit == FirstGroup \cup DottedNumber \cup DOMAIN CalendarDate
Currency == {"FCFA"}
TwoWordAbbreviation == {<<"C", "civ">>, <<"op", "cit">>}     \* with a dot after each
SafeAbbreviation == {[stem |-> "civ", dot |-> TRUE], [stem |-> "Dr", dot |-> FALSE]}
PageAbbreviation == {"p", "al"}
SpelledAcronym == {"TVA"}
WordAcronym == {"l'OHADA"}
ExpandedAcronym == {"JO"}
StartsWithUppercase == {"Chapitre", "Dr", "Paul"} \cup SpelledAcronym \cup ExpandedAcronym \cup Currency
                         \cup {"IV", "IIII", "XIXe", "VXe"} \cup {"F", "CFA", "C", "I", "M"}
OneLetter == {"I", "M", "F", "C"}

Plain(stem) == [lead |-> FALSE, stem |-> stem, dot |-> FALSE, trail |-> "none"]

(* ------------------------------------------------------------------------- *)
(* Roman numerals and dates *)

RomanSymbol ==
  << <<<<1000>>, 1000>>, <<<<100, 1000>>, 900>>, <<<<500>>, 500>>, <<<<100, 500>>, 400>>,
     <<<<100>>, 100>>, <<<<10, 100>>, 90>>, <<<<50>>, 50>>, <<<<10, 50>>, 40>>,
     <<<<10>>, 10>>, <<<<1, 10>>, 9>>, <<<<5>>, 5>>, <<<<1, 5>>, 4>>, <<<<1>>, 1>> >>

\* The greatest symbol that still fits, again and again.
toRoman(value) ==
  LET out[rest \in 0 .. value] ==
        IF rest = 0 THEN <<>>
        ELSE LET s == RomanSymbol[SelectInSeq(RomanSymbol, LAMBDA x : x[2] <= rest)]
             IN s[1] \o out[rest - s[2]]
  IN out[value]

\* A letter before a greater one is subtracted; 0 unless written canonically.
romanValue(letters) ==
  LET next(i) == IF i < Len(letters) THEN letters[i + 1] ELSE 0
      total == FoldLeftDomain(LAMBDA sum, i :
                 IF letters[i] < next(i) THEN sum - letters[i] ELSE sum + letters[i], 0, letters)
  IN IF total > 0 /\ toRoman(total) = letters THEN total ELSE 0

IsLeap(year) == year % 4 = 0 /\ (year % 100 # 0 \/ year % 400 = 0)
DaysInMonth(month, year) ==
  IF month = 2 THEN (IF IsLeap(year) THEN 29 ELSE 28)
  ELSE IF month \in {4, 6, 9, 11} THEN 30 ELSE 31

frenchDate(d) == d[2] \in 1 .. 12 /\ d[1] \in 1 .. DaysInMonth(d[2], d[3])

(* ------------------------------------------------------------------------- *)
(* What a rule does to a word it takes *)

Spoken(w, stems, manner, dot, abbreviation) ==
  [lead |-> w.lead, says |-> stems, manner |-> manner, dot |-> dot, trail |-> w.trail,
   abbreviation |-> abbreviation]

say(w, stems, manner) == Spoken(w, stems, manner, FALSE, FALSE)

\* The dot of a word recognised without it is given back.
sayStem(w, stems, manner) == Spoken(w, stems, manner, w.dot, FALSE)

\* Fault: the final dot goes with the word.
absorbWhole(w, keepFinalDot) ==
  [lead |-> FALSE, says |-> <<>>, manner |-> "silent", dot |-> FALSE, trail |-> w.trail, abbreviation |-> FALSE]

\* Said by the word before: only its closing punctuation remains.
absorb(w, keepFinalDot) ==
  [lead |-> FALSE, says |-> <<>>, manner |-> "silent", dot |-> keepFinalDot /\ w.dot,
   trail |-> w.trail, abbreviation |-> FALSE]

asShown(w) == sayStem(w, <<w.stem>>, "shown")

abbreviated(form) == [form EXCEPT !.abbreviation = TRUE]

\* The word without its marks, "" beyond the ends of the text.
bare(ws, i) == IF i \in DOMAIN ws THEN ws[i].stem ELSE ""

------------------------------------------------------------------------------
(* The rules, each given the text and a place: the forms of the words it     *)
(* takes from there, none when it does not apply.                            *)

tableSeparator(ws, i) ==
  IF ws[i].stem = "|" /\ ~ws[i].dot
  THEN << [Spoken(Plain("|"), <<>>, "pause", FALSE, FALSE) EXCEPT !.trail = "pause"] >> ELSE <<>>

romanAfterKeyword(stem, previous, following) ==
  \/ stem \in DOMAIN Roman /\ previous \in RomanKeyword /\ romanValue(Roman[stem]) # 0
  \/ stem \in DOMAIN RomanOrdinal /\ following \in Century /\ romanValue(RomanOrdinal[stem]) # 0

romanNumeral(ws, i) ==
  IF romanAfterKeyword(ws[i].stem, bare(ws, i - 1), bare(ws, i + 1))
  THEN << sayStem(ws[i], <<ws[i].stem>>, "number") >> ELSE <<>>

date(ws, i) ==
  IF ws[i].stem \in DOMAIN CalendarDate /\ frenchDate(CalendarDate[ws[i].stem])
  THEN << sayStem(ws[i], <<ws[i].stem>>, "date") >> ELSE <<>>

\* A group of digits that nothing closes: the number may go on after it.
OpenGroup(w, groups) == w.stem \in groups /\ w.trail = "none" /\ ~w.dot

\* Last word of the number that starts at i (i itself when it is alone).
GroupedNumberEnd(ws, i) ==
  LET isNext(j) == ws[j].stem \in NextGroup /\ ~ws[j].lead
      reaches(j) == /\ \A k \in i + 1 .. j : isNext(k)
                    /\ \A k \in i + 1 .. j - 1 : OpenGroup(ws[k], NextGroup)
  IN IF OpenGroup(ws[i], FirstGroup) /\ ~(i > 1 /\ OpenGroup(ws[i - 1], FirstGroup))
     THEN CHOOSE j \in i .. Len(ws) : reaches(j) /\ (j = Len(ws) \/ ~reaches(j + 1))
     ELSE i

saidAsOne(ws, i, last) ==
  IF last = i THEN <<>>
  ELSE << say(ws[i], [j \in 1 .. last - i + 1 |-> ws[i + j - 1].stem], "number") >>
         \o [j \in 1 .. last - i |-> absorb(ws[i + j], TRUE)]

groupedNumber(ws, i) ==
  IF ws[i].stem \in DottedNumber /\ ~ws[i].dot THEN << say(ws[i], <<ws[i].stem>>, "number") >>
  ELSE saidAsOne(ws, i, GroupedNumberEnd(ws, i))

amount(ws, i) ==
  IF ws[i].stem = "F" /\ ~ws[i].dot /\ bare(ws, i + 1) = "CFA"
  THEN << say(ws[i], <<"F", "CFA">>, "expanded"), absorb(ws[i + 1], TRUE) >>
  ELSE IF ws[i].stem \in Currency THEN << sayStem(ws[i], <<ws[i].stem>>, "expanded") >> ELSE <<>>

safeAbbreviation(ws, i) ==
  IF ws[i].dot /\ i < Len(ws) /\ ws[i + 1].dot /\ <<ws[i].stem, ws[i + 1].stem>> \in TwoWordAbbreviation
  THEN << abbreviated(say(ws[i], <<ws[i].stem, ws[i + 1].stem>>, "expanded")),
          abbreviated(absorb(ws[i + 1], FALSE)) >>
  ELSE IF [stem |-> ws[i].stem, dot |-> ws[i].dot] \in SafeAbbreviation
  THEN << [say(ws[i], <<ws[i].stem>>, "expanded") EXCEPT !.abbreviation = ws[i].dot] >>
  ELSE <<>>

\* p. 12, t. IV, M. Paul: read in full before what only they can precede.
contextualAbbreviation(w, next) ==
  /\ w.dot
  /\ \/ w.stem \in PageAbbreviation \cup {"t"} /\ next.stem \in StartsWithDigit
     \/ /\ w.stem = "t" /\ next.stem \in DOMAIN Roman /\ ~next.dot
        /\ romanValue(Roman[next.stem]) # 0
     \/ /\ w.stem = "M" /\ next.stem \in StartsWithUppercase
        /\ next.stem \in OneLetter => next.dot

ambiguousAbbreviation(ws, i) ==
  IF i < Len(ws) /\ contextualAbbreviation(ws[i], ws[i + 1])
  THEN << abbreviated(say(ws[i], <<ws[i].stem>>, "expanded")) >> ELSE <<>>

acronym(ws, i) ==
  IF ws[i].stem \in SpelledAcronym \cup WordAcronym \cup ExpandedAcronym
  THEN << sayStem(ws[i], <<ws[i].stem>>, "acronym") >> ELSE <<>>

\* The first rule that applies takes the word; no rule, it is said as shown.
RULES(ws, i) ==
  << tableSeparator(ws, i), romanNumeral(ws, i), date(ws, i), groupedNumber(ws, i), amount(ws, i),
     safeAbbreviation(ws, i), ambiguousAbbreviation(ws, i), acronym(ws, i), <<asShown(ws[i])>> >>

Taken(ws, i) == SelectSeq(RULES(ws, i), LAMBDA forms : forms # <<>>)[1]

pronounce(ws) ==
  LET andThen(forms, Rest(_)) == forms \o Rest(Len(forms))
      from[i \in 1 .. Len(ws) + 1] ==
        IF i > Len(ws) THEN <<>> ELSE andThen(Taken(ws, i), LAMBDA n : from[i + n])
  IN from[1]

------------------------------------------------------------------------------
(* What the rules promise *)

\* The displayed mark, or what the voice finds of it, ends a sentence.
EndsSentence(w) == w.trail = "end" \/ (w.dot /\ w.trail \in {"none", "closing"})

IsWord(w) == w.stem # "|"

(* Every stem is said once, at its place or by the word before it; where the *)
(* text is cut in sentences the voice finds the end of one, and nowhere does *)
(* the dot of an abbreviation make it stop.  (A table's bar is a pause.)     *)
FormsKeepWords(ws, forms) ==
  LET words == SelectSeq(ws, IsWord)
  IN /\ Len(forms) = Len(ws)
     /\ FlattenSeq([i \in DOMAIN forms |-> forms[i].says]) = [i \in DOMAIN words |-> words[i].stem]
     /\ \A i \in DOMAIN ws :
          /\ IsWord(ws[i]) /\ EndsSentence(ws[i]) /\ ~forms[i].abbreviation => EndsSentence(forms[i])
          /\ forms[i].abbreviation => ws[i].dot /\ ~forms[i].dot

RulesKeepWords(ws) == FormsKeepWords(ws, pronounce(ws))
=============================================================================
