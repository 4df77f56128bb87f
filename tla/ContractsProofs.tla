--------------------------- MODULE ContractsProofs ---------------------------
(***************************************************************************)
(* The contracts of the algorithms, for any input: where a bookmark's      *)
(* words are found in a corrected page, the segments and the parts a text  *)
(* is sent in, the times of its words, the manifest of a conversion, the   *)
(* answers of the outside services, the environment a server starts with.  *)
(***************************************************************************)
EXTENDS BookmarkAnchors, SsmlSegments, PartDelivery, Providers, Configuration, FiniteSums

-----------------------------------------------------------------------------
(* Bookmarks: where the words of a bookmark are in another text.             *)

\* The words of a page, whole or cut.
KeptWord(W) == W \cup {Cut(word) : word \in W}

\* The words kept with a bookmark stand where it was put, or are one of them, cut.
LEMMA ExcerptIsThere ==
  ASSUME NEW W, NEW words \in Seq(W), NEW index \in 0 .. Len(words) - 1
  PROVE  \E n \in 1 .. Len(words) - index :
           /\ excerptAt(words, index) \in Seq(KeptWord(W)) /\ Len(excerptAt(words, index)) = n
           /\ \/ \A k \in 1 .. n : excerptAt(words, index)[k] = words[index + k]
              \/ n = 1 /\ excerptAt(words, index)[1] = Cut(words[index + 1])
<1>1. PICK last : last = IF Len(words) < index + ExcerptWords THEN Len(words) ELSE index + ExcerptWords
  OBVIOUS
<1>2. last \in Nat /\ index + 1 <= last /\ last <= Len(words)
  BY <1>1, AnchorAssumption
<1>3. PICK wanted : wanted = SubSeq(words, index + 1, last)
  OBVIOUS
<1>4. wanted \in Seq(W) /\ Len(wanted) = last - index /\ \A k \in 1 .. last - index : wanted[k] = words[index + k]
  BY <1>2, <1>3, SMTT(60)
<1> DEFINE length(n) == n - 1 + SumFunction([k \in 1 .. n |-> wanted[k].length])
<1>5. PICK fitting : fitting = {n \in DOMAIN wanted : length(n) <= MaxExcerptLength}
  OBVIOUS
<1>6. excerptAt(words, index) = IF wanted = <<>> THEN <<>>
                                ELSE IF fitting = {} THEN << Cut(wanted[1]) >>
                                ELSE SubSeq(wanted, 1, CHOOSE n \in fitting : \A m \in fitting : m <= n)
  BY <1>1, <1>3, <1>5 DEF excerptAt
<1>7. fitting \in SUBSET (1 .. last - index) /\ last - index \in Nat /\ 1 \in 1 .. last - index
  BY <1>2, <1>4, <1>5
<1> HIDE DEF length
<1>8. wanted # <<>>
  BY <1>4, <1>7
<1>9. CASE fitting = {}
  <2>1. PICK word \in W : word = words[index + 1]
    BY <1>4, <1>7
  <2>2. excerptAt(words, index) = << Cut(word) >>
    BY <1>4, <1>6, <1>7, <1>8, <1>9, <2>1
  <2>3. Cut(word) \in KeptWord(W)
    BY DEF KeptWord
  <2> HIDE DEF Cut
  <2>4. /\ << Cut(word) >> \in Seq(KeptWord(W)) /\ Len(<< Cut(word) >>) = 1
        /\ << Cut(word) >>[1] = Cut(word)
    BY <2>3
  <2>5. 1 \in 1 .. Len(words) - index
    BY <1>2
  <2> QED
    BY <2>1, <2>2, <2>4, <2>5
<1>10. CASE fitting # {}
  <2>1. \E n \in fitting : \A m \in fitting : m <= n
    BY <1>7, <1>10, GreatestNatural
  <2>2. PICK n : n = CHOOSE x \in fitting : \A m \in fitting : m <= x
    OBVIOUS
  <2>3. n \in fitting
    BY <2>1, <2>2
  <2>4. excerptAt(words, index) = SubSeq(wanted, 1, n)
    BY <1>6, <1>8, <1>10, <2>2
  <2>5. n \in 0 .. Len(wanted) /\ n \in 1 .. Len(words) - index
    BY <1>2, <1>4, <1>7, <2>3
  <2>6. /\ excerptAt(words, index) \in Seq(W) /\ Len(excerptAt(words, index)) = n
        /\ \A k \in 1 .. n : excerptAt(words, index)[k] = wanted[k]
    BY <1>4, <2>4, <2>5, PrefixOf
  <2>7. excerptAt(words, index) \in Seq(KeptWord(W))
    BY <2>6 DEF KeptWord
  <2> QED
    BY <1>4, <1>7, <2>3, <2>5, <2>6, <2>7
<1> QED
  BY <1>9, <1>10

\* A target whose last word has a letter matches only where its words are.
LEMMA MatchesAreThere ==
  ASSUME NEW W, NEW words \in Seq(W), NEW target \in Seq(W), target # <<>>,
         target[Len(target)].stem # NoStem, NEW index \in Nat
  PROVE  matchesAt(words, target, index) <=>
           /\ index + Len(target) <= Len(words)
           /\ \A k \in DOMAIN target : words[index + k].stem = target[k].stem
<1>1. PICK n, m : n = Len(target) /\ m = Len(words) /\ n \in Nat \ {0} /\ m \in Nat
  OBVIOUS
<1>2. DOMAIN target = 1 .. n /\ DOMAIN words = 1 .. m /\ n \in 1 .. n
  BY <1>1
<1>3. \A k \in 1 .. n : normalized(words, index + k - 1) =
                          IF index + k <= m THEN words[index + k].stem ELSE NoStem
  <2> SUFFICES ASSUME NEW k \in 1 .. n
               PROVE  normalized(words, index + k - 1) =
                        IF index + k <= m THEN words[index + k].stem ELSE NoStem
    OBVIOUS
  <2>1. index + k - 1 + 1 = index + k /\ index + k >= 1
    BY <1>1
  <2> QED
    BY <1>1, <1>2, <2>1 DEF normalized
<1>4. ASSUME matchesAt(words, target, index)
      PROVE  index + n <= m
  <2>1. normalized(words, index + n - 1) = target[n].stem
    BY <1>2, <1>4 DEF matchesAt
  <2> QED
    BY <1>1, <1>2, <1>3, <2>1
<1>5. ASSUME index + n <= m
      PROVE  \A k \in 1 .. n : normalized(words, index + k - 1) = words[index + k].stem
  BY <1>1, <1>3, <1>5
<1> QED
  BY <1>1, <1>2, <1>4, <1>5 DEF matchesAt

\* The nearest of some places, the first of them.
LEMMA NearestIsThere ==
  ASSUME NEW places \in SUBSET Nat, places # {}, NEW index \in Nat
  PROVE  LET first == CHOOSE i \in Nearest(places, index) : \A j \in Nearest(places, index) : i <= j
         IN  first \in places /\ \A j \in places : Gap(first, index) <= Gap(j, index)
<1>1. PICK S : S = {Gap(i, index) : i \in places}
  OBVIOUS
<1>2. \A i \in places : Gap(i, index) \in Nat
  BY DEF Gap
<1>3. PICK d \in S : \A e \in S : d <= e
  <2>1. S \subseteq Nat /\ S # {}
    BY <1>1, <1>2
  <2> QED
    BY <2>1, LeastNatural
<1>4. PICK i \in places : d = Gap(i, index)
  BY <1>1, <1>3
<1>5. \A j \in places : Gap(i, index) <= Gap(j, index)
  BY <1>1, <1>3, <1>4
<1>6. PICK near : near = Nearest(places, index)
  OBVIOUS
<1>7. i \in near /\ near \subseteq places
  BY <1>5, <1>6 DEF Nearest
<1>8. \E a \in near : \A b \in near : a <= b
  BY <1>7, LeastNatural
<1>9. PICK x : x = CHOOSE a \in near : \A b \in near : a <= b
  OBVIOUS
<1>10. x \in near
  BY <1>8, <1>9
<1>11. x \in places /\ \A j \in places : Gap(x, index) <= Gap(j, index)
  BY <1>6, <1>10 DEF Nearest
<1> QED
  BY <1>6, <1>9, <1>11

\* Where a bookmark is shown: where it was put, else at the nearest occurrence
\* of its words, else on a word of the page.
LEMMA LocatedByWords ==
  ASSUME NEW W, NEW current \in Seq(W), current # <<>>, NEW target \in Seq(W), target # <<>>,
         target[Len(target)].stem # NoStem, NEW index \in Nat,
         NEW view, view = locateAnchor(current, index, target),
         NEW places, places = Occurrences(current, target)
  PROVE  \/ index \in places /\ view.wordIndex = index /\ ~view.needsReview
         \/ /\ index \notin places /\ view.wordIndex \in places /\ ~view.needsReview
            /\ \A j \in places : Gap(view.wordIndex, index) <= Gap(j, index)
         \/ places = {} /\ view.wordIndex \in 0 .. Len(current) - 1 /\ view.needsReview
<1>1. PICK n, m : n = Len(target) /\ m = Len(current) /\ n \in Nat \ {0} /\ m \in Nat \ {0}
  <2>1. Len(target) \in Nat /\ Len(current) \in Nat
    OBVIOUS
  <2>2. Len(target) # 0
    OBVIOUS
  <2>3. Len(current) # 0
    OBVIOUS
  <2> QED
    BY <2>1, <2>2, <2>3
<1>2. \A i \in Nat : matchesAt(current, target, i) <=> i \in places
  <2> SUFFICES ASSUME NEW i \in Nat PROVE matchesAt(current, target, i) <=> i \in places
    OBVIOUS
  <2>1. i + n <= m => i \in 0 .. m - 1
    BY <1>1
  <2>2. i \in places <=> /\ i + n <= m
                        /\ \A k \in DOMAIN target : current[i + k].stem = target[k].stem
    BY <1>1, <2>1 DEF Occurrences
  <2>3. matchesAt(current, target, i) <=>
          /\ i + Len(target) <= Len(current)
          /\ \A k \in DOMAIN target : current[i + k].stem = target[k].stem
    BY MatchesAreThere
  <2> QED
    BY <1>1, <2>2, <2>3
<1>3. PICK found : found = {i \in 0 .. Len(current) - Len(target) : matchesAt(current, target, i)}
  OBVIOUS
<1>4. found = places /\ places \in SUBSET Nat
  <2>1. ASSUME NEW i \in places
        PROVE  i \in 0 .. m - n /\ i \in Nat
    BY <1>1 DEF Occurrences
  <2>2. \A i \in 0 .. m - n : i \in Nat
    BY <1>1
  <2> QED
    BY <1>1, <1>2, <1>3, <2>1, <2>2
<1>5. CASE matchesAt(current, target, index)
  <2>1. view = [wordIndex |-> index, needsReview |-> FALSE]
    BY <1>5 DEF locateAnchor
  <2> QED
    BY <1>2, <1>5, <2>1
<1>6. CASE ~matchesAt(current, target, index) /\ places # {}
  <2>1. PICK first : first = CHOOSE i \in Nearest(places, index) : \A j \in Nearest(places, index) : i <= j
    OBVIOUS
  <2>2. first \in places /\ \A j \in places : Gap(first, index) <= Gap(j, index)
    BY <1>4, <1>6, <2>1, NearestIsThere
  <2>3. view = [wordIndex |-> first, needsReview |-> FALSE]
    BY <1>3, <1>4, <1>6, <2>1 DEF locateAnchor
  <2>4. view.wordIndex = first /\ ~view.needsReview /\ index \notin places
    BY <1>2, <1>6, <2>3
  <2> QED
    BY <2>2, <2>4
<1>7. CASE ~matchesAt(current, target, index) /\ places = {}
  <2>1. PICK i : i = IF index < m THEN index ELSE m - 1
    OBVIOUS
  <2>2. i \in 0 .. m - 1
    BY <1>1, <2>1
  <2>3. view = [wordIndex |-> i, needsReview |-> TRUE]
    BY <1>1, <1>3, <1>4, <1>7, <2>1 DEF locateAnchor
  <2>4. view.wordIndex = i /\ view.needsReview
    BY <2>3
  <2> QED
    BY <1>1, <1>7, <2>2, <2>4
<1> QED
  BY <1>5, <1>6, <1>7

\* A bookmark moved to another text of its page is shown at its own words if
\* they are there, at the nearest occurrence when there are several, where it
\* was when nothing has changed and its first word was kept whole, and the
\* reader is asked to look again exactly when the words are nowhere; always on
\* a word of the page (bookmark-anchor.ts).
THEOREM AnchorIsFoundHolds ==
  ASSUME NEW W, NEW original \in Seq(W), NEW current \in Seq(W)
  PROVE  AnchorIsFound(original, current)
<1> SUFFICES ASSUME NEW index \in 0 .. Len(original) - 1
             PROVE  LET target == excerptAt(original, index)
                        view == locateAnchor(current, index, target)
                        places == Occurrences(current, target)
                    IN Last(target).stem # NoStem =>
                         /\ target # <<>> /\ (view.needsReview <=> places = {})
                         /\ current # <<>> => view.wordIndex < Len(current)
                         /\ ~view.needsReview => /\ view.wordIndex \in places
                                                 /\ \A i \in places : Gap(view.wordIndex, index) <= Gap(i, index)
                         /\ current = original /\ target[1].stem = original[index + 1].stem =>
                              view.wordIndex = index /\ ~view.needsReview
  BY DEF AnchorIsFound
<1>1. PICK target, view, places : /\ target = excerptAt(original, index)
                                  /\ view = locateAnchor(current, index, target)
                                  /\ places = Occurrences(current, target)
  OBVIOUS
<1>2. SUFFICES ASSUME Last(target).stem # NoStem
               PROVE  /\ target # <<>> /\ (view.needsReview <=> places = {})
                      /\ current # <<>> => view.wordIndex < Len(current)
                      /\ ~view.needsReview => /\ view.wordIndex \in places
                                              /\ \A i \in places : Gap(view.wordIndex, index) <= Gap(i, index)
                      /\ current = original /\ target[1].stem = original[index + 1].stem =>
                           view.wordIndex = index /\ ~view.needsReview
  BY <1>1
<1>3. PICK n \in 1 .. Len(original) - index :
        /\ target \in Seq(KeptWord(W)) /\ Len(target) = n
        /\ (\A k \in 1 .. n : target[k] = original[index + k]) \/ n = 1
  BY <1>1, ExcerptIsThere, ZenonT(60)
<1>4. n \in Nat \ {0} /\ index \in Nat /\ index + n <= Len(original) /\ target # <<>>
  BY <1>3
<1>5. target[Len(target)].stem # NoStem /\ DOMAIN target = 1 .. n
  BY <1>3, <1>4, <1>2 DEF Last
<1>6. current \in Seq(KeptWord(W))
  BY DEF KeptWord
<1>7. CASE current = <<>>
  <2>1. view = [wordIndex |-> 0, needsReview |-> TRUE]
    BY <1>1, <1>7 DEF locateAnchor
  <2>2. view.needsReview /\ places = {}
    BY <1>1, <1>7, <2>1 DEF Occurrences
  <2>3. current # original
    BY <1>4, <1>7
  <2> QED
    BY <1>4, <1>7, <2>2, <2>3
<1>8. CASE current # <<>>
  <2>1. Len(current) \in Nat /\ \A i \in places : i \in Nat /\ i < Len(current)
    BY <1>1 DEF Occurrences
  <2>2. current = original /\ target[1].stem = original[index + 1].stem => index \in places
    <3> SUFFICES ASSUME current = original, target[1].stem = original[index + 1].stem
                 PROVE  index \in places
      OBVIOUS
    <3>1. index + Len(target) <= Len(original) /\ index \in 0 .. Len(original) - 1
      BY <1>3, <1>4
    <3>2. \A k \in DOMAIN target : original[index + k].stem = target[k].stem
      BY <1>3, <1>5
    <3> QED
      BY <1>1, <3>1, <3>2 DEF Occurrences
  <2>3. \/ index \in places /\ view.wordIndex = index /\ ~view.needsReview
        \/ /\ index \notin places /\ view.wordIndex \in places /\ ~view.needsReview
           /\ \A j \in places : Gap(view.wordIndex, index) <= Gap(j, index)
        \/ places = {} /\ view.wordIndex \in 0 .. Len(current) - 1 /\ view.needsReview
    BY <1>1, <1>3, <1>4, <1>5, <1>6, <1>8, LocatedByWords
  <2>4. \A i \in places : Gap(index, index) <= Gap(i, index)
    BY <1>4, <2>1 DEF Gap
  <2>5. CASE index \in places /\ view.wordIndex = index /\ ~view.needsReview
    BY <1>4, <2>1, <2>4, <2>5
  <2>6. CASE /\ index \notin places /\ view.wordIndex \in places /\ ~view.needsReview
             /\ \A j \in places : Gap(view.wordIndex, index) <= Gap(j, index)
    BY <1>4, <2>1, <2>2, <2>6
  <2>7. CASE places = {} /\ view.wordIndex \in 0 .. Len(current) - 1 /\ view.needsReview
    BY <1>4, <2>1, <2>2, <2>7
  <2> QED
    BY <2>3, <2>5, <2>6, <2>7
<1> QED
  BY <1>7, <1>8

-----------------------------------------------------------------------------
(* What a listener receives: the times of the words, the manifest.           *)

\* Rounding what lies between two times gives a time.
LEMMA InterpolatedType ==
  ASSUME NEW a \in Nat, NEW b \in Nat, NEW gap \in Nat \ {0}
  PROVE  Interpolated(a, b, gap) \in Nat
<1>1. PICK p : p = a * gap /\ p \in Nat /\ p >= a
  <2>1. a * gap \in Nat /\ gap - 1 \in Nat /\ a * (gap - 1) \in Nat
    OBVIOUS
  <2>2. a * gap = a * (gap - 1) + a
    OBVIOUS
  <2> QED
    BY <2>1, <2>2
<1>2. PICK x, d : x = 2 * (p + b - a) + gap /\ d = 2 * gap /\ x \in Nat /\ d \in Nat \ {0}
  BY <1>1
<1>3. x \div d \in Nat
  BY <1>2
<1> QED
  BY <1>1, <1>2, <1>3 DEF Interpolated

\* No word before the previous one.
LEMMA StartsInOrder ==
  ASSUME NEW n \in Nat, NEW starts \in [1 .. n -> Nat]
  PROVE  /\ InOrder(starts) \in [1 .. n -> Nat]
         /\ \A i \in 1 .. n : i > 1 => InOrder(starts)[i - 1] <= InOrder(starts)[i]
<1>1. PICK next : next = [i \in Nat |-> [p \in Nat |-> IF i \in 1 .. n THEN Later(starts[i], p) ELSE p]]
  OBVIOUS
<1>2. next \in [Nat -> [Nat -> Nat]] /\ \A i \in 1 .. n : \A p \in Nat : next[i][p] = Later(starts[i], p)
  BY <1>1 DEF Later
<1>3. PICK first \in Nat : n > 0 => first = starts[1]
  <2>1. n > 0 => 1 \in 1 .. n
    OBVIOUS
  <2> QED
    BY <2>1
<1>4. PICK f \in [1 .. n -> Nat] : StepByStep(f, first, next, n)
  BY <1>2, <1>3, RecursionExists
<1>5. \A i \in 1 .. n : f[i] = IF i = 1 THEN starts[1] ELSE Later(starts[i], f[i - 1])
  <2> SUFFICES ASSUME NEW i \in 1 .. n PROVE f[i] = IF i = 1 THEN starts[1] ELSE Later(starts[i], f[i - 1])
    OBVIOUS
  <2>1. n > 0 /\ (i # 1 => f[i - 1] \in Nat)
    OBVIOUS
  <2> QED
    BY <1>2, <1>3, <1>4, <2>1 DEF StepByStep
<1>6. f = [i \in 1 .. n |-> IF i = 1 THEN starts[1] ELSE Later(starts[i], f[i - 1])]
  BY <1>5
<1>7. PICK e : e = CHOOSE g : g = [i \in 1 .. n |-> IF i = 1 THEN starts[1] ELSE Later(starts[i], g[i - 1])]
  OBVIOUS
<1>8. e = [i \in 1 .. n |-> IF i = 1 THEN starts[1] ELSE Later(starts[i], e[i - 1])]
  BY <1>6, <1>7
<1>9. \A i \in 1 .. n : e[i] \in Nat
  <2> DEFINE T == {m \in Nat : m + 1 \in 1 .. n => e[m + 1] \in Nat}
  <2>1. 0 \in T
    <3> SUFFICES ASSUME 0 + 1 \in 1 .. n PROVE e[0 + 1] \in Nat
      OBVIOUS
    <3>1. 0 + 1 = 1 /\ e[1] = starts[1]
      BY <1>8
    <3> QED
      BY <3>1
  <2>2. ASSUME NEW m \in Nat, m \in T
        PROVE  m + 1 \in T
    <3> SUFFICES ASSUME (m + 1) + 1 \in 1 .. n PROVE e[(m + 1) + 1] \in Nat
      OBVIOUS
    <3>1. m + 1 \in 1 .. n /\ (m + 1) + 1 # 1 /\ ((m + 1) + 1) - 1 = m + 1
      OBVIOUS
    <3>2. e[m + 1] \in Nat /\ e[(m + 1) + 1] = Later(starts[(m + 1) + 1], e[m + 1])
      BY <1>8, <2>2, <3>1
    <3> QED
      BY <3>2 DEF Later
  <2> HIDE DEF T
  <2>3. Nat \subseteq T
    BY <2>1, <2>2, NaturalsReached
  <2>4. \A i \in 1 .. n : i - 1 \in Nat /\ (i - 1) + 1 = i
    OBVIOUS
  <2> QED
    BY <2>3, <2>4 DEF T
<1>10. ASSUME NEW i \in 1 .. n, i > 1
       PROVE  e[i - 1] <= e[i]
  <2>1. i - 1 \in 1 .. n /\ i # 1
    BY <1>10
  <2>2. e[i - 1] \in Nat /\ e[i] = Later(starts[i], e[i - 1]) /\ starts[i] \in Nat
    BY <1>8, <1>9, <2>1
  <2> QED
    BY <2>2 DEF Later
<1>11. InOrder(starts) = e
  BY <1>7 DEF InOrder
<1>12. e \in [1 .. n -> Nat]
  BY <1>8, <1>9
<1> QED
  BY <1>10, <1>11, <1>12

\* The next word that has a mark, or the end of the segment.
LEMMA NextKnownExists ==
  ASSUME NEW n \in Nat, NEW K \in SUBSET (1 .. n), NEW i \in 1 .. n
  PROVE  \E j \in i .. n + 1 : (j = n + 1 \/ j \in K) /\ \A k \in i .. j - 1 : k \notin K
<1>1. PICK T : T = {j \in i .. n + 1 : j = n + 1 \/ j \in K}
  OBVIOUS
<1>2. T \subseteq Nat /\ n + 1 \in T
  BY <1>1
<1>3. PICK j \in T : \A k \in T : j <= k
  BY <1>2, LeastNatural
<1>4. j \in i .. n + 1 /\ (j = n + 1 \/ j \in K)
  BY <1>1, <1>3
<1>5. ASSUME NEW k \in i .. j - 1, k \in K
      PROVE  FALSE
  <2>1. k \in i .. n + 1 /\ k < j /\ k \in Nat
    BY <1>4
  <2>2. k \in T
    BY <1>1, <1>5, <2>1
  <2> QED
    BY <1>3, <1>4, <2>1, <2>2
<1> QED
  BY <1>4, <1>5

\* Every word has a time, none before the previous one.
LEMMA WordStartsInOrder ==
  ASSUME NEW segment, segment.times \in Seq(Nat \cup {Missing}), segment.durationMs \in Nat
  PROVE  /\ wordStarts(segment) \in [1 .. Len(segment.times) -> Nat]
         /\ \A i \in 1 .. Len(segment.times) : i > 1 => wordStarts(segment)[i - 1] <= wordStarts(segment)[i]
<1> DEFINE N == Len(segment.times)
           known(i) == segment.times[i] # Missing
           nextKnown(i) == CHOOSE j \in i .. N + 1 : (j = N + 1 \/ known(j)) /\ \A k \in i .. j - 1 : ~known(k)
           placedAt(i, previous) ==
             IF known(i) THEN segment.times[i]
             ELSE LET j == nextKnown(i)
                  IN Interpolated(IF i = 1 THEN 0 ELSE previous,
                                  IF j = N + 1 THEN segment.durationMs ELSE segment.times[j], j - i + 1)
           placed == CHOOSE f : f = [i \in 1 .. N |-> placedAt(i, f[i - 1])]
<1>1. N \in Nat /\ \A i \in 1 .. N : known(i) => segment.times[i] \in Nat
  OBVIOUS
<1>2. ASSUME NEW i \in 1 .. N
      PROVE  nextKnown(i) \in i .. N + 1 /\ (nextKnown(i) = N + 1 \/ known(nextKnown(i)))
  <2>1. PICK K \in SUBSET (1 .. N) : K = {k \in 1 .. N : known(k)}
    OBVIOUS
  <2>2. PICK j \in i .. N + 1 : (j = N + 1 \/ j \in K) /\ \A k \in i .. j - 1 : k \notin K
    <3>1. PICK n \in Nat : n = N
      BY <1>1
    <3> HIDE DEF N
    <3>2. K \in SUBSET (1 .. n) /\ i \in 1 .. n
      BY <2>1, <3>1
    <3>3. \E j \in i .. n + 1 : (j = n + 1 \/ j \in K) /\ \A k \in i .. j - 1 : k \notin K
      BY <3>2, NextKnownExists
    <3> QED
      BY <3>1, <3>3
  <2>3. \A k \in i .. j - 1 : k \in 1 .. N
    BY <1>1
  <2>4. (j = N + 1 \/ known(j)) /\ \A k \in i .. j - 1 : ~known(k)
    BY <2>1, <2>2, <2>3
  <2> QED
    BY <2>4
<1> HIDE DEF known, nextKnown
<1>3. ASSUME NEW i \in 1 .. N, NEW previous \in Nat
      PROVE  placedAt(i, previous) \in Nat
  <2>1. CASE known(i)
    BY <1>1, <2>1
  <2>2. CASE ~known(i)
    <3>1. PICK j \in i .. N + 1 : j = nextKnown(i) /\ (j = N + 1 \/ known(j))
      BY <1>2
    <3>2. PICK a \in Nat : a = IF i = 1 THEN 0 ELSE previous
      OBVIOUS
    <3>3. PICK b \in Nat : b = IF j = N + 1 THEN segment.durationMs ELSE segment.times[j]
      <4>1. j # N + 1 => j \in 1 .. N
        BY <1>1, <3>1
      <4> QED
        BY <1>1, <3>1, <4>1
    <3>4. j - i + 1 \in Nat \ {0}
      BY <1>1
    <3>5. placedAt(i, previous) = Interpolated(a, b, j - i + 1)
      BY <2>2, <3>1, <3>2, <3>3
    <3> QED
      BY <3>4, <3>5, InterpolatedType
  <2> QED
    BY <2>1, <2>2
<1>4. \A i \in 1 .. N : i = 1 => \A p, q : placedAt(i, p) = placedAt(i, q)
  OBVIOUS
<1> HIDE DEF placedAt
<1>5. PICK next : next = [i \in Nat |-> [p \in Nat |-> IF i \in 1 .. N THEN placedAt(i, p) ELSE p]]
  OBVIOUS
<1>6. next \in [Nat -> [Nat -> Nat]] /\ \A i \in 1 .. N : \A p \in Nat : next[i][p] = placedAt(i, p)
  BY <1>3, <1>5
<1>7. PICK first \in Nat : N > 0 => first = placedAt(1, 0)
  <2>1. N > 0 => 1 \in 1 .. N
    BY <1>1
  <2>2. N > 0 => placedAt(1, 0) \in Nat
    BY <1>3, <2>1
  <2> QED
    BY <2>2
<1>8. PICK f \in [1 .. N -> Nat] : StepByStep(f, first, next, N)
  BY <1>1, <1>6, <1>7, RecursionExists
<1>9. ASSUME NEW i \in 1 .. N
      PROVE  f[i] = placedAt(i, f[i - 1])
  <2>1. CASE i = 1
    <3>1. f[i] = first /\ N > 0
      BY <1>1, <1>8, <2>1 DEF StepByStep
    <3>2. placedAt(1, 0) = placedAt(1, f[i - 1])
      BY <1>4, <2>1
    <3> QED
      BY <1>7, <2>1, <3>1, <3>2
  <2>2. CASE i # 1
    <3>1. i - 1 \in 1 .. N
      BY <1>1, <2>2
    <3>2. f[i - 1] \in Nat /\ f[i] = next[i][f[i - 1]]
      BY <1>8, <2>2, <3>1 DEF StepByStep
    <3> QED
      BY <1>6, <3>2
  <2> QED
    BY <2>1, <2>2
<1>10. f = [i \in 1 .. N |-> placedAt(i, f[i - 1])]
  BY <1>9
<1>11. placed = [i \in 1 .. N |-> placedAt(i, placed[i - 1])]
  BY <1>10
<1>12. wordStarts(segment) = InOrder(placed)
  BY DEF wordStarts, placedAt, nextKnown, known
<1> HIDE DEF placed
<1>13. \A i \in 1 .. N : placed[i] \in Nat
  <2> DEFINE T == {m \in Nat : m + 1 \in 1 .. N => placed[m + 1] \in Nat}
  <2>1. 0 \in T
    <3> SUFFICES ASSUME 0 + 1 \in 1 .. N PROVE placed[0 + 1] \in Nat
      OBVIOUS
    <3>0. 0 + 1 = 1 /\ 1 \in 1 .. N
      OBVIOUS
    <3>1. placed[1] = placedAt(1, placed[1 - 1])
      BY <1>11, <3>0
    <3>2. placedAt(1, placed[1 - 1]) = placedAt(1, 0)
      BY <1>4, <3>0
    <3> QED
      BY <1>3, <3>0, <3>1, <3>2
  <2>2. ASSUME NEW m \in Nat, m \in T
        PROVE  m + 1 \in T
    <3> SUFFICES ASSUME (m + 1) + 1 \in 1 .. N PROVE placed[(m + 1) + 1] \in Nat
      OBVIOUS
    <3>1. m + 1 \in 1 .. N /\ ((m + 1) + 1) - 1 = m + 1
      BY <1>1
    <3>2. placed[m + 1] \in Nat /\ placed[(m + 1) + 1] = placedAt((m + 1) + 1, placed[m + 1])
      BY <1>11, <2>2, <3>1
    <3> QED
      BY <1>3, <3>2
  <2> HIDE DEF T
  <2>3. Nat \subseteq T
    BY <2>1, <2>2, NaturalsReached
  <2>4. \A i \in 1 .. N : i - 1 \in Nat /\ (i - 1) + 1 = i
    BY <1>1
  <2> QED
    BY <2>3, <2>4 DEF T
<1>14. placed \in [1 .. N -> Nat]
  BY <1>11, <1>13
<1>15. PICK starts \in [1 .. N -> Nat] : starts = placed
  BY <1>14
<1> HIDE DEF N
<1>16. /\ InOrder(starts) \in [1 .. N -> Nat]
       /\ \A i \in 1 .. N : i > 1 => InOrder(starts)[i - 1] <= InOrder(starts)[i]
  BY <1>1, <1>15, StartsInOrder
<1>17. wordStarts(segment) = InOrder(starts)
  BY <1>12, <1>15
<1> QED
  BY <1>16, <1>17 DEF N

\* Whatever marks the provider gives for the words of a segment, in any order,
\* missing or past the end of the audio, the times of its words stay inside the
\* segment, in order, each word ending where the next one starts and the last
\* one with the segment, or where the segment ends for the words past it.
THEOREM WordsFitTheirSegment ==
  ASSUME NEW segment, segment.times \in Seq(Nat \cup {Missing}), segment.durationMs \in Nat,
         NEW offset \in Nat
  PROVE  LET words == timedWords(segment, wordStarts(segment), offset)
             count == Len(segment.times)
         IN /\ DOMAIN words = 1 .. count
            /\ \A i \in 1 .. count : /\ offset <= words[i].startMs
                                     /\ words[i].startMs <= words[i].endMs
                                     /\ words[i].endMs <= offset + segment.durationMs
            /\ \A i \in 1 .. count : words[i].endMs = IF i < count THEN words[i + 1].startMs
                                                        ELSE offset + segment.durationMs
<1>1. PICK n : n = Len(segment.times) /\ n \in Nat
  OBVIOUS
<1>2. PICK d \in Nat : d = segment.durationMs
  OBVIOUS
<1>3. PICK starts \in [1 .. n -> Nat] : /\ starts = wordStarts(segment)
                                       /\ \A i \in 1 .. n : i > 1 => starts[i - 1] <= starts[i]
  BY <1>1, WordStartsInOrder
<1>4. DOMAIN starts = 1 .. n /\ Len(starts) = n
  BY <1>1, <1>3
<1>5. PICK end : end = [i \in 1 .. n |-> IF i < n THEN starts[i + 1] ELSE d]
  OBVIOUS
<1>6. PICK words : words = timedWords(segment, starts, offset)
  OBVIOUS
<1>7. /\ DOMAIN words = 1 .. n
      /\ \A i \in 1 .. n : /\ words[i].startMs = offset + Earlier(starts[i], d)
                            /\ words[i].endMs = offset + Earlier(end[i], d)
  BY <1>2, <1>4, <1>5, <1>6 DEF timedWords
<1>8. ASSUME NEW i \in 1 .. n
      PROVE  /\ offset <= words[i].startMs
             /\ words[i].startMs <= words[i].endMs
             /\ words[i].endMs <= offset + d
             /\ words[i].endMs = IF i < n THEN words[i + 1].startMs ELSE offset + d
  <2>1. starts[i] \in Nat
    BY <1>3
  <2>2. CASE i < n
    <3>1. i + 1 \in 1 .. n /\ i + 1 > 1 /\ (i + 1) - 1 = i
      BY <1>1, <2>2
    <3>2. starts[i + 1] \in Nat /\ starts[i] <= starts[i + 1] /\ end[i] = starts[i + 1]
      BY <1>3, <1>5, <2>2, <3>1
    <3>3. words[i + 1].startMs = offset + Earlier(starts[i + 1], d)
      BY <1>7, <3>1
    <3> QED
      BY <1>2, <1>7, <2>1, <2>2, <3>2, <3>3, SMTT(60) DEF Earlier
  <2>3. CASE ~(i < n)
    <3>1. end[i] = d
      BY <1>5, <2>3
    <3> QED
      BY <1>2, <1>7, <2>1, <2>3, <3>1 DEF Earlier
  <2> QED
    BY <2>2, <2>3
<1> QED
  BY <1>1, <1>2, <1>3, <1>6, <1>7, <1>8

\* The extent ends with the part n, the last before the first that is missing.
PlayableUpTo(parts, len, extent, n) ==
  /\ \A k \in 1 .. n : Assembled(parts[k])
  /\ n = len \/ ~Assembled(parts[n + 1])
  /\ extent.wordCount = IF n = 0 THEN 0 ELSE parts[n].firstWordIndex + parts[n].assembled.wordCount
  /\ extent.durationMs = SumFunction([k \in 1 .. n |-> parts[k].assembled.durationMs])

LEMMA ExtentIsPrefix ==
  ASSUME NEW parts, NEW len \in Nat, DOMAIN parts = 1 .. len, \A k \in 1 .. len : parts[k].index = k - 1,
         NEW given, Range(given) = Range(parts), Len(given) = len
  PROVE  \E n \in 0 .. len : PlayableUpTo(parts, len, playableExtent(given), n)
<1> DEFINE part(k) == CHOOSE p \in Range(given) : p.index = k - 1
           inPlace(k) == (\E p \in Range(given) : p.index = k - 1) /\ Assembled(part(k))
           Prefix(n) == (\A k \in 1 .. n : inPlace(k)) /\ (n = Len(given) \/ ~inPlace(n + 1))
           prefix == CHOOSE n \in 0 .. Len(given) : Prefix(n)
<1>1. ASSUME NEW k \in 1 .. len
      PROVE  part(k) = parts[k] /\ (inPlace(k) <=> Assembled(parts[k]))
  <2>1. parts[k] \in Range(given) /\ parts[k].index = k - 1
    BY DEF Range
  <2>2. \A p \in Range(given) : p.index = k - 1 => p = parts[k]
    BY SMTT(60) DEF Range
  <2> QED
    BY <2>1, <2>2
<1>2. \E n \in 0 .. len : Prefix(n)
  <2> DEFINE T == {n \in 0 .. len : n = len \/ ~inPlace(n + 1)}
  <2>1. T \subseteq Nat /\ len \in T
    OBVIOUS
  <2>2. PICK n \in T : \A m \in T : n <= m
    BY <2>1, LeastNatural
  <2>3. \A k \in 1 .. n : inPlace(k)
    <3> SUFFICES ASSUME NEW k \in 1 .. n PROVE inPlace(k)
      OBVIOUS
    <3>1. k - 1 \in 0 .. len /\ k - 1 # len /\ (k - 1) + 1 = k
      OBVIOUS
    <3>2. k - 1 \notin T
      <4>1. n \in Nat /\ ~(n <= k - 1)
        BY <2>1, <2>2
      <4> QED
        BY <2>2, <4>1
    <3> HIDE DEF inPlace
    <3> QED
      BY <3>1, <3>2
  <2> QED
    BY <2>2, <2>3
<1>3. prefix \in 0 .. len /\ Prefix(prefix)
  BY <1>2
<1>4. playableExtent(given).durationMs = SumFunction([k \in 1 .. prefix |-> part(k).assembled.durationMs])
  BY DEF playableExtent, Sum
<1>5. playableExtent(given).wordCount =
        IF prefix = 0 THEN 0 ELSE part(prefix).firstWordIndex + part(prefix).assembled.wordCount
  BY DEF playableExtent
<1>6. PICK n : n = prefix /\ n \in 0 .. len
  BY <1>3
<1> HIDE DEF prefix
<1>7. \A k \in 1 .. n : k \in 1 .. len /\ part(k) = parts[k] /\ Assembled(parts[k])
  <2> HIDE DEF inPlace, part
  <2> QED
    BY <1>1, <1>3, <1>6
<1>8. n = len \/ ~Assembled(parts[n + 1])
  <2> HIDE DEF inPlace, part
  <2> QED
    BY <1>1, <1>3, <1>6
<1>9. [k \in 1 .. n |-> part(k).assembled.durationMs] = [k \in 1 .. n |-> parts[k].assembled.durationMs]
  <2> HIDE DEF part
  <2> QED
    BY <1>7
<1>10. n # 0 => part(n) = parts[n]
  <2> HIDE DEF part
  <2> QED
    BY <1>6, <1>7
<1> HIDE DEF part
<1>11. PlayableUpTo(parts, len, playableExtent(given), n)
  BY <1>4, <1>5, <1>6, <1>7, <1>8, <1>9, <1>10 DEF PlayableUpTo
<1> QED
  BY <1>6, <1>11

\* The parts of a conversion, in their order, with the words that were planned.
DeliveredPart == [index : Nat, firstWordIndex : Nat,
                  assembled : {Missing} \cup [durationMs : Nat, wordCount : Nat]]
PartsInOrder(parts, len) ==
  /\ parts \in Seq(DeliveredPart)
  /\ len = Len(parts)
  /\ \A k \in 1 .. len :
       /\ parts[k].index = k - 1
       /\ k = 1 => parts[k].firstWordIndex = 0
       /\ k < len /\ Assembled(parts[k]) =>
            parts[k + 1].firstWordIndex = parts[k].firstWordIndex + parts[k].assembled.wordCount

Unbroken(parts, k) == \A i \in 1 .. k - 1 : Assembled(parts[i])
HeardBefore(parts, k) == SumFunction([i \in 1 .. k - 1 |-> parts[i].assembled.durationMs])
StartOf(parts, k) == IF Unbroken(parts, k) THEN HeardBefore(parts, k) ELSE Missing

\* The start of a part, from the start of the part before.
LEMMA StartGoesOn ==
  ASSUME NEW parts, NEW len, PartsInOrder(parts, len), NEW k \in 1 .. len
  PROVE  /\ StartOf(parts, 1) = 0
         /\ StartOf(parts, k + 1) =
              IF StartOf(parts, k) = Missing \/ ~Assembled(parts[k]) THEN Missing
              ELSE StartOf(parts, k) + parts[k].assembled.durationMs
<1>1. len \in Nat /\ k \in Nat /\ k >= 1
  BY DEF PartsInOrder
<1>2. \A i \in 1 .. len : Assembled(parts[i]) => parts[i].assembled.durationMs \in Nat
  <2> SUFFICES ASSUME NEW i \in 1 .. len, Assembled(parts[i])
               PROVE  parts[i].assembled.durationMs \in Nat
    OBVIOUS
  <2>1. parts[i] \in DeliveredPart
    BY DEF PartsInOrder
  <2> QED
    BY <2>1 DEF Assembled, DeliveredPart
<1>3. Unbroken(parts, k + 1) <=> Unbroken(parts, k) /\ Assembled(parts[k])
  <2>1. \A i \in 1 .. (k + 1) - 1 : i = k \/ i \in 1 .. k - 1
    BY <1>1
  <2>2. k \in 1 .. (k + 1) - 1 /\ \A i \in 1 .. k - 1 : i \in 1 .. (k + 1) - 1
    BY <1>1
  <2> QED
    BY <2>1, <2>2 DEF Unbroken
<1>4. ASSUME Unbroken(parts, k)
      PROVE  HeardBefore(parts, k) \in Nat
  <2>1. PICK f : f = [i \in 1 .. k - 1 |-> parts[i].assembled.durationMs]
    OBVIOUS
  <2>2. \A i \in 1 .. k - 1 : f[i] \in Nat
    BY <1>1, <1>2, <1>4, <2>1 DEF Unbroken
  <2>3. IsFiniteSet(1 .. k - 1) /\ SumFunction(f) = SumFunctionOnSet(f, 1 .. k - 1)
    BY <1>1, <2>1, FS_Interval DEF SumFunction
  <2> QED
    BY <2>1, <2>2, <2>3, SumType DEF HeardBefore
<1>5. ASSUME Unbroken(parts, k + 1)
      PROVE  HeardBefore(parts, k + 1) = HeardBefore(parts, k) + parts[k].assembled.durationMs
  <2>1. PICK f : f = [i \in 1 .. k |-> parts[i].assembled.durationMs]
    OBVIOUS
  <2>2. PICK j : j = k - 1 /\ j \in Nat /\ j + 1 = k /\ (k + 1) - 1 = k
    BY <1>1
  <2>3. \A i \in 1 .. j + 1 : f[i] \in Nat
    BY <1>1, <1>2, <1>5, <2>1, <2>2 DEF Unbroken
  <2>4. SumFunction([i \in 1 .. j + 1 |-> f[i]]) = SumFunction([i \in 1 .. j |-> f[i]]) + f[j + 1]
    BY <2>2, <2>3, SumGrows
  <2>5. [i \in 1 .. j + 1 |-> f[i]] = [i \in 1 .. (k + 1) - 1 |-> parts[i].assembled.durationMs]
    BY <2>1, <2>2
  <2>6. [i \in 1 .. j |-> f[i]] = [i \in 1 .. k - 1 |-> parts[i].assembled.durationMs]
    BY <2>1, <2>2
  <2>7. f[j + 1] = parts[k].assembled.durationMs
    BY <1>1, <2>1, <2>2
  <2> QED
    BY <2>4, <2>5, <2>6, <2>7 DEF HeardBefore
<1>6. StartOf(parts, 1) = 0
  <2>1. 1 .. 1 - 1 = {}
    OBVIOUS
  <2>2. PICK f : f = [i \in 1 .. 1 - 1 |-> parts[i].assembled.durationMs]
    OBVIOUS
  <2>3. SumFunction(f) = 0
    BY <2>1, <2>2, SumEmpty DEF SumFunction
  <2> QED
    BY <2>1, <2>2, <2>3 DEF StartOf, Unbroken, HeardBefore
<1>7. CASE Unbroken(parts, k)
  <2>1. StartOf(parts, k) = HeardBefore(parts, k) /\ StartOf(parts, k) # Missing
    BY <1>4, <1>7, DeliveryAssumption DEF StartOf
  <2> QED
    BY <1>3, <1>5, <1>6, <1>7, <2>1 DEF StartOf
<1>8. CASE ~Unbroken(parts, k)
  BY <1>3, <1>6, <1>8 DEF StartOf
<1> QED
  BY <1>7, <1>8

\* The starts of the manifest, added up from part to part.
LEMMA ManifestStarts ==
  ASSUME NEW parts, NEW len, PartsInOrder(parts, len)
  PROVE  LET manifest == buildManifest(parts)
         IN /\ manifest.complete <=> parts # <<>> /\ \A k \in 1 .. len : Assembled(parts[k])
            /\ manifest.complete => manifest.durationMs = StartOf(parts, len + 1)
            /\ \A k \in 1 .. len : Assembled(parts[k]) => manifest.parts[k].startMs = StartOf(parts, k)
<1> DEFINE Step(f, k) ==
             IF k = 1 THEN 0
             ELSE IF f[k - 1] = Missing \/ ~Assembled(parts[k - 1]) THEN Missing
             ELSE f[k - 1] + parts[k - 1].assembled.durationMs
<1>1. len = Len(parts) /\ len \in Nat /\ DOMAIN parts = 1 .. len
  BY DEF PartsInOrder
<1>2. PICK starts : starts = [k \in 1 .. len + 1 |-> StartOf(parts, k)]
  OBVIOUS
<1>3. starts = [k \in 1 .. len + 1 |-> Step(starts, k)]
  <2> SUFFICES ASSUME NEW k \in 1 .. len + 1 PROVE StartOf(parts, k) = Step(starts, k)
    BY <1>2
  <2>1. CASE k = 1
    <3>1. CASE len = 0
      <4>1. 1 .. 1 - 1 = {}
        OBVIOUS
      <4>2. PICK f : f = [i \in 1 .. 1 - 1 |-> parts[i].assembled.durationMs]
        OBVIOUS
      <4>3. SumFunction(f) = 0
        BY <4>1, <4>2, SumEmpty DEF SumFunction
      <4> QED
        BY <2>1, <4>1, <4>2, <4>3 DEF StartOf, Unbroken, HeardBefore
    <3>2. CASE len # 0
      <4>1. 1 \in 1 .. len
        BY <1>1, <3>2
      <4> QED
        BY <2>1, <4>1, StartGoesOn
    <3> QED
      BY <3>1, <3>2
  <2>2. CASE k # 1
    <3>1. PICK j \in 1 .. len : k = j + 1 /\ k - 1 = j /\ j \in 1 .. len + 1
      <4>1. k - 1 \in 1 .. len /\ k - 1 \in 1 .. len + 1 /\ k = (k - 1) + 1
        BY <1>1, <2>2
      <4> QED
        BY <4>1
    <3>2. starts[j] = StartOf(parts, j)
      BY <1>2, <3>1
    <3> QED
      BY <2>2, <3>1, <3>2, StartGoesOn
  <2> QED
    BY <2>1, <2>2
<1>4. PICK e : e = CHOOSE f : f = [k \in 1 .. len + 1 |-> Step(f, k)]
  OBVIOUS
<1>5. e = [k \in 1 .. len + 1 |-> Step(e, k)]
  BY <1>3, <1>4
<1>6. \A k \in 1 .. len + 1 : e[k] = starts[k]
  <2> DEFINE T == {n \in Nat : n + 1 \in 1 .. len + 1 => e[n + 1] = starts[n + 1]}
  <2>1. 0 \in T
    <3>1. 0 + 1 \in 1 .. len + 1 /\ 0 + 1 = 1
      BY <1>1
    <3>2. e[1] = Step(e, 1) /\ starts[1] = Step(starts, 1)
      BY <1>3, <1>5, <3>1
    <3> QED
      BY <3>1, <3>2
  <2>2. ASSUME NEW n \in Nat, n \in T
        PROVE  n + 1 \in T
    <3> SUFFICES ASSUME (n + 1) + 1 \in 1 .. len + 1 PROVE e[(n + 1) + 1] = starts[(n + 1) + 1]
      OBVIOUS
    <3>1. n + 1 \in 1 .. len + 1 /\ (n + 1) + 1 # 1 /\ ((n + 1) + 1) - 1 = n + 1
      BY <1>1
    <3>2. e[n + 1] = starts[n + 1]
      BY <2>2, <3>1
    <3>3. e[(n + 1) + 1] = Step(e, (n + 1) + 1) /\ starts[(n + 1) + 1] = Step(starts, (n + 1) + 1)
      BY <1>3, <1>5
    <3> QED
      BY <3>1, <3>2, <3>3
  <2> HIDE DEF T
  <2>3. Nat \subseteq T
    BY <2>1, <2>2, NaturalsReached
  <2>4. \A k \in 1 .. len + 1 : k - 1 \in Nat /\ (k - 1) + 1 = k
    BY <1>1
  <2> QED
    BY <2>3, <2>4 DEF T
<1>7. /\ buildManifest(parts).complete <=> parts # <<>> /\ \A k \in DOMAIN parts : Assembled(parts[k])
      /\ buildManifest(parts).complete => buildManifest(parts).durationMs = e[Len(parts) + 1]
      /\ \A k \in DOMAIN parts : Assembled(parts[k]) => buildManifest(parts).parts[k].startMs = e[k]
  BY <1>1, <1>4 DEF buildManifest
<1> QED
  BY <1>1, <1>2, <1>6, <1>7

\* The manifest a player reads and the extent the overview shows, computed
\* from the parts in another order, agree for any number of parts: complete at
\* the same time and with the same duration, a part starting where those before
\* it end, nothing starting after a hole, and the extent up to the first hole
\* (conversion-manifest.ts, conversion-overview.ts).
THEOREM ManifestAgreesWithOverviewHolds ==
  ASSUME NEW parts, NEW len, PartsInOrder(parts, len)
  PROVE  ManifestAgreesWithOverview(parts)
<1> DEFINE before(k) == SumFunction([i \in 1 .. k - 1 |-> parts[i].assembled.durationMs])
<1>1. len = Len(parts) /\ len \in Nat /\ DOMAIN parts = 1 .. len /\ (parts = <<>> <=> len = 0)
  BY DEF PartsInOrder
<1>2. PICK given : given = Reverse(parts)
  OBVIOUS
<1>3. Len(given) = len /\ DOMAIN given = 1 .. len /\ \A k \in 1 .. len : given[k] = parts[(len - k) + 1]
  BY <1>1, <1>2 DEF Reverse
<1>4. \A k \in 1 .. len : (len - k) + 1 \in 1 .. len /\ (len - ((len - k) + 1)) + 1 = k
  BY <1>1
<1>5. Range(given) = Range(parts)
  <2>1. \A k \in 1 .. len : given[k] \in Range(parts)
    BY <1>1, <1>3, <1>4 DEF Range
  <2>2. \A k \in 1 .. len : parts[k] \in Range(given)
    BY <1>3, <1>4 DEF Range
  <2> QED
    BY <1>1, <1>3, <2>1, <2>2 DEF Range
<1>6. PICK n \in 0 .. len : PlayableUpTo(parts, len, playableExtent(given), n)
  <2>1. \A k \in 1 .. len : parts[k].index = k - 1
    BY DEF PartsInOrder
  <2> QED
    BY <1>1, <1>3, <1>5, <2>1, ExtentIsPrefix
<1>7. /\ \A k \in 1 .. n : Assembled(parts[k])
      /\ n = len \/ ~Assembled(parts[n + 1])
      /\ playableExtent(given).wordCount =
           IF n = 0 THEN 0 ELSE parts[n].firstWordIndex + parts[n].assembled.wordCount
      /\ playableExtent(given).durationMs = SumFunction([k \in 1 .. n |-> parts[k].assembled.durationMs])
  BY <1>6 DEF PlayableUpTo
<1>8. PICK hole : hole = {k \in DOMAIN parts : ~Assembled(parts[k])}
  OBVIOUS
<1>9. hole \subseteq 1 .. len /\ \A k \in 1 .. len : Assembled(parts[k]) <=> k \notin hole
  BY <1>1, <1>8
<1>10. PICK manifest : manifest = buildManifest(parts)
  OBVIOUS
<1>11. /\ manifest.complete <=> parts # <<>> /\ \A k \in 1 .. len : Assembled(parts[k])
       /\ manifest.complete => manifest.durationMs = StartOf(parts, len + 1)
       /\ \A k \in 1 .. len : Assembled(parts[k]) => manifest.parts[k].startMs = StartOf(parts, k)
  BY <1>10, ManifestStarts
<1>12. manifest.complete <=> parts # <<>> /\ hole = {}
  BY <1>9, <1>11
<1>13. ASSUME NEW k \in 1 .. len, k \notin hole
       PROVE  manifest.parts[k].startMs = (IF \E h \in hole : h < k THEN Missing ELSE before(k))
  <2>1. Unbroken(parts, k) <=> ~ \E h \in hole : h < k
    <3>1. \A i \in 1 .. k - 1 : i \in 1 .. len /\ i < k
      BY <1>1
    <3>2. \A h \in hole : h < k => h \in 1 .. k - 1
      BY <1>1, <1>9
    <3> QED
      BY <1>9, <3>1, <3>2 DEF Unbroken
  <2> QED
    BY <1>9, <1>11, <1>13, <2>1 DEF StartOf, HeardBefore
<1>14. ASSUME manifest.complete
       PROVE  manifest.durationMs = playableExtent(given).durationMs
  <2>1. n = len
    <3>1. n # len => n + 1 \in 1 .. len
      BY <1>1
    <3> QED
      BY <1>7, <1>11, <1>14, <3>1
  <2>2. Unbroken(parts, len + 1) /\ (len + 1) - 1 = len
    BY <1>1, <1>11, <1>14 DEF Unbroken
  <2>3. manifest.durationMs = HeardBefore(parts, len + 1)
    BY <1>11, <1>14, <2>2 DEF StartOf
  <2> QED
    BY <1>7, <2>1, <2>2, <2>3 DEF HeardBefore
<1>15. ASSUME hole # {}
       PROVE  LET first == CHOOSE h \in hole : \A g \in hole : h <= g
              IN /\ playableExtent(given).durationMs = before(first)
                 /\ playableExtent(given).wordCount = parts[first].firstWordIndex
  <2>1. n # len /\ n + 1 \in 1 .. len
    <3>1. PICK h \in hole : h \in 1 .. len /\ ~Assembled(parts[h])
      BY <1>9, <1>15
    <3>2. n # len
      BY <1>7, <3>1
    <3> QED
      BY <1>1, <3>2
  <2>2. n + 1 \in hole
    BY <1>7, <1>9, <2>1
  <2>3. \A g \in hole : n + 1 <= g
    <3> SUFFICES ASSUME NEW g \in hole, g <= n PROVE FALSE
      BY <1>1, <1>9
    <3>1. g \in 1 .. n
      BY <1>1, <1>9
    <3> QED
      BY <1>7, <1>9, <3>1
  <2>4. PICK first : first = CHOOSE h \in hole : \A g \in hole : h <= g
    OBVIOUS
  <2>5. first \in hole /\ \A g \in hole : first <= g
    BY <2>2, <2>3, <2>4
  <2>6. first = n + 1 /\ first - 1 = n
    <3>1. first <= n + 1 /\ n + 1 <= first /\ first \in Nat
      BY <1>9, <2>2, <2>3, <2>5
    <3> QED
      BY <1>1, <3>1
  <2>7. playableExtent(given).durationMs = before(first)
    BY <1>7, <2>6
  <2>8. playableExtent(given).wordCount = parts[first].firstWordIndex
    <3>1. CASE n = 0
      BY <1>7, <2>1, <2>6, <3>1 DEF PartsInOrder
    <3>2. CASE n # 0
      <4>1. n \in 1 .. len /\ n \in 1 .. n /\ n < len
        BY <1>1, <2>1, <3>2
      <4>2. Assembled(parts[n])
        BY <1>7, <4>1
      <4> QED
        BY <1>7, <2>6, <3>2, <4>1, <4>2 DEF PartsInOrder
    <3> QED
      BY <3>1, <3>2
  <2> QED
    BY <2>4, <2>7, <2>8
<1>16. playableExtent(given).partsReady = Cardinality(DOMAIN parts \ hole)
  <2>1. PICK ready : ready = {k \in DOMAIN given : Assembled(given[k])}
    OBVIOUS
  <2>2. PICK f : f = [k \in ready |-> (len - k) + 1]
    OBVIOUS
  <2>3. ready \subseteq 1 .. len /\ IsFiniteSet(ready)
    <3>1. ready \subseteq 1 .. len /\ IsFiniteSet(1 .. len)
      BY <1>1, <1>3, <2>1, FS_Interval
    <3> QED
      BY <3>1, FS_Subset
  <2>4. f \in Bijection(ready, (1 .. len) \ hole)
    <3>1. \A k \in ready : f[k] \in (1 .. len) \ hole
      BY <1>3, <1>4, <1>9, <2>1, <2>2
    <3>2. \A i, j \in ready : f[i] = f[j] => i = j
      <4>1. \A i, j \in 1 .. len : (len - i) + 1 = (len - j) + 1 => i = j
        BY <1>1
      <4> QED
        BY <2>2, <2>3, <4>1
    <3>3. \A k \in (1 .. len) \ hole : \E i \in ready : f[i] = k
      <4> SUFFICES ASSUME NEW k \in (1 .. len) \ hole PROVE \E i \in ready : f[i] = k
        OBVIOUS
      <4>1. PICK i : i = (len - k) + 1
        OBVIOUS
      <4>2. i \in 1 .. len /\ (len - i) + 1 = k
        BY <1>4, <4>1
      <4>3. i \in ready
        BY <1>3, <1>9, <2>1, <4>2
      <4> QED
        BY <2>2, <4>2, <4>3
    <3> QED
      BY <2>2, <3>1, <3>2, <3>3 DEF Bijection, Injection, Surjection, IsInjective
  <2>5. Cardinality(ready) = Cardinality((1 .. len) \ hole)
    BY <2>3, <2>4, FS_Bijection DEF ExistsBijection
  <2>6. playableExtent(given).partsReady = Cardinality(ready)
    BY <2>1 DEF playableExtent
  <2> QED
    BY <1>1, <2>5, <2>6
<1> QED
  BY <1>1, <1>2, <1>8, <1>10, <1>12, <1>13, <1>14, <1>15, <1>16 DEF ManifestAgreesWithOverview, Sum

-----------------------------------------------------------------------------
(* The text as it is sent: its sentences, the segments they fill, the parts  *)
(* the segments are grouped in.                                              *)

\* The sequences of a sequence, put end to end.
LEMMA FlattenEmpty == FlattenSeq(<<>>) = <<>>
  BY DEF FlattenSeq

LEMMA JoinedType == ASSUME NEW W, NEW s \in Seq(W), NEW t \in Seq(W) PROVE s \o t \in Seq(W)
  OBVIOUS

LEMMA SameSequence ==
  ASSUME NEW W, NEW s \in Seq(W), NEW t \in Seq(W), Len(s) = Len(t), \A i \in 1 .. Len(s) : s[i] = t[i]
  PROVE  s = t
  OBVIOUS

LEMMA Appended ==
  ASSUME NEW W, NEW s \in Seq(W), NEW x \in W
  PROVE  /\ Append(s, x) \in Seq(W) /\ Append(s, x) # <<>> /\ Len(Append(s, x)) = Len(s) + 1
         /\ \A i \in 1 .. Len(s) : Append(s, x)[i] = s[i]
         /\ Append(s, x)[Len(s) + 1] = x
<1>1. Append(s, x) \in Seq(W) /\ Len(Append(s, x)) = Len(s) + 1 /\ Len(s) \in Nat
  OBVIOUS
<1>2. Append(s, x) # <<>>
  <2>1. Len(<<>>) = 0
    OBVIOUS
  <2> QED
    BY <1>1, <2>1
<1> QED
  BY <1>1, <1>2

LEMMA OneAppended == ASSUME NEW W, NEW s \in Seq(W), NEW x \in W PROVE Append(s, x) = s \o <<x>> /\ <<x>> \in Seq(W)
<1>1. <<x>> \in Seq(W) /\ Len(<<x>>) = 1 /\ <<x>>[1] = x /\ Len(s) \in Nat
  OBVIOUS
<1>2. PICK t \in Seq(W) : t = s \o <<x>> /\ Len(t) = Len(s) + 1
  <2>1. Len(s \o <<x>>) = Len(s) + 1
    BY <1>1
  <2> QED
    BY <1>1, <2>1, JoinedType
<1>3. PICK u \in Seq(W) : u = Append(s, x) /\ Len(u) = Len(s) + 1
  BY Appended
<1>4. \A i \in 1 .. Len(s) + 1 : t[i] = u[i]
  <2>1. \A i \in 1 .. Len(s) : t[i] = s[i] /\ u[i] = s[i]
    BY <1>1, <1>2, <1>3
  <2>2. t[Len(s) + 1] = x /\ u[Len(s) + 1] = x
    BY <1>1, <1>2, <1>3
  <2>3. \A i \in 1 .. Len(s) + 1 : i = Len(s) + 1 \/ i \in 1 .. Len(s)
    BY <1>1
  <2> QED
    BY <2>1, <2>2, <2>3
<1>5. t = u
  BY <1>2, <1>3, <1>4, SameSequence
<1> QED
  BY <1>1, <1>2, <1>3, <1>5

LEMMA NoElement == ASSUME NEW W, NEW s \in Seq(W), Len(s) = 0 PROVE s = <<>>
  OBVIOUS

\* f[i] is the first i sequences put end to end.
Flattens(f, ss) == f[1] = ss[1] /\ \A i \in 1 .. Len(ss) : i # 1 => f[i] = f[i - 1] \o ss[i]

LEMMA FlattenStep ==
  ASSUME NEW W, NEW ss \in Seq(Seq(W)), Len(ss) # 0
  PROVE  \E f \in [1 .. Len(ss) -> Seq(W)] : FlattenSeq(ss) = f[Len(ss)] /\ Flattens(f, ss)
<1> DEFINE S == Seq(W)
<1>1. PICK n \in Nat : n = Len(ss) /\ n # 0
  OBVIOUS
<1>2. 1 \in 1 .. n /\ \A i \in 1 .. n : ss[i] \in S
  BY <1>1
<1>3. PICK next : next = [i \in Nat |-> [p \in S |-> IF i \in 1 .. n THEN p \o ss[i] ELSE p]]
  OBVIOUS
<1>4. next \in [Nat -> [S -> S]] /\ \A i \in 1 .. n : \A p \in S : next[i][p] = p \o ss[i]
  <2>1. \A i \in 1 .. n : \A p \in S : p \o ss[i] \in S
    BY <1>2, JoinedType
  <2>2. ASSUME NEW i \in Nat
        PROVE  next[i] \in [S -> S] /\ (i \in 1 .. n => \A p \in S : next[i][p] = p \o ss[i])
    <3> HIDE DEF S
    <3>1. next[i] = [p \in S |-> IF i \in 1 .. n THEN p \o ss[i] ELSE p]
      BY <1>3
    <3> QED
      BY <2>1, <3>1
  <2>3. DOMAIN next = Nat /\ next = [i \in Nat |-> next[i]]
    BY <1>3
  <2>4. next \in [Nat -> [S -> S]]
    <3> HIDE DEF S
    <3> QED
      BY <2>2, <2>3
  <2> HIDE DEF S
  <2> QED
    BY <2>2, <2>4, SMTT(60)
<1>5. PICK g \in [1 .. n -> S] : StepByStep(g, ss[1], next, n)
  <2> HIDE DEF S
  <2> QED
    BY <1>1, <1>2, <1>4, RecursionExists
<1>6. \A i \in 1 .. n : g[i] = IF i = 1 THEN ss[1] ELSE g[i - 1] \o ss[i]
  <2> SUFFICES ASSUME NEW i \in 1 .. n, i # 1 PROVE g[i] = g[i - 1] \o ss[i]
    BY <1>5 DEF StepByStep
  <2>1. i - 1 \in 1 .. n
    BY <1>1
  <2>2. g[i - 1] \in S /\ g[i] = next[i][g[i - 1]]
    BY <1>5, <2>1 DEF StepByStep
  <2> HIDE DEF S
  <2> QED
    BY <1>4, <2>2
<1>7. PICK f : f = CHOOSE h : h = [i \in 1 .. n |-> IF i = 1 THEN ss[i] ELSE h[i - 1] \o ss[i]]
  OBVIOUS
<1>8. g = [i \in 1 .. n |-> IF i = 1 THEN ss[i] ELSE g[i - 1] \o ss[i]]
  BY <1>5, <1>6
<1>9. f = [i \in 1 .. n |-> IF i = 1 THEN ss[i] ELSE f[i - 1] \o ss[i]]
  BY <1>7, <1>8
<1>10. FlattenSeq(ss) = f[n]
  BY <1>1, <1>7 DEF FlattenSeq
<1>11. f[1] = ss[1] /\ \A i \in 1 .. n : i # 1 => f[i] = f[i - 1] \o ss[i]
  BY <1>2, <1>9
<1>12. \A i \in 1 .. n : f[i] \in S
  <2> DEFINE T == {i \in Nat : i \in 1 .. n => f[i] \in S}
  <2>1. 0 \in T
    OBVIOUS
  <2>2. ASSUME NEW i \in 1 .. n, i - 1 \in T
        PROVE  i \in T
    <3>1. i = 1 => f[i] \in S
      BY <1>2, <1>11
    <3>2. i # 1 => f[i - 1] \in S /\ ss[i] \in S
      BY <1>1, <1>2, <2>2
    <3>3. i # 1 => f[i] \in S
      BY <1>11, <3>2, JoinedType
    <3> QED
      BY <1>1, <3>1, <3>3
  <2> HIDE DEF T
  <2>3. 0 .. n \subseteq T
    BY <1>1, <2>1, <2>2, BoundReached
  <2>4. \A i \in 1 .. n : i \in 0 .. n
    BY <1>1
  <2> QED
    BY <2>3, <2>4 DEF T
<1>13. f \in [1 .. n -> S]
  BY <1>9, <1>12
<1>14. Flattens(f, ss)
  BY <1>1, <1>11 DEF Flattens
<1> QED
  BY <1>1, <1>10, <1>13, <1>14

LEMMA FlattenAppend ==
  ASSUME NEW W, NEW ss \in Seq(Seq(W)), NEW s \in Seq(W)
  PROVE  /\ FlattenSeq(ss) \in Seq(W)
         /\ FlattenSeq(Append(ss, s)) = FlattenSeq(ss) \o s
<1>1. PICK n \in Nat : n = Len(ss)
  OBVIOUS
<1>2. PICK longer : longer = Append(ss, s)
  OBVIOUS
<1>3. /\ longer \in Seq(Seq(W)) /\ Len(longer) = n + 1 /\ longer[n + 1] = s
      /\ \A i \in 1 .. n : longer[i] = ss[i]
  BY <1>1, <1>2
<1>4. PICK g \in [1 .. n + 1 -> Seq(W)] :
        /\ FlattenSeq(longer) = g[n + 1]
        /\ g[1] = longer[1] /\ \A i \in 1 .. n + 1 : i # 1 => g[i] = g[i - 1] \o longer[i]
  <2>1. Len(longer) # 0
    BY <1>1, <1>3
  <2>2. PICK g \in [1 .. Len(longer) -> Seq(W)] :
          FlattenSeq(longer) = g[Len(longer)] /\ Flattens(g, longer)
    BY <1>3, <2>1, FlattenStep
  <2> QED
    BY <1>3, <2>2 DEF Flattens
<1>5. CASE n = 0
  <2>0. ss = <<>>
    BY <1>1, <1>5, NoElement
  <2>1. FlattenSeq(ss) = <<>>
    BY <2>0, FlattenEmpty
  <2>2. FlattenSeq(longer) = s
    BY <1>3, <1>4, <1>5
  <2>3. <<>> \o s = s /\ <<>> \in Seq(W)
    OBVIOUS
  <2> QED
    BY <1>2, <2>1, <2>2, <2>3
<1>6. CASE n # 0
  <2>1. PICK f \in [1 .. n -> Seq(W)] :
          FlattenSeq(ss) = f[n] /\ Flattens(f, ss)
    BY <1>1, <1>6, FlattenStep
  <2>2. n \in 1 .. n /\ n + 1 \in 1 .. n + 1 /\ n + 1 # 1 /\ (n + 1) - 1 = n /\ 1 \in 1 .. n
    BY <1>1, <1>6
  <2>3. g[n] = f[n]
    <3> DEFINE T == {i \in Nat : i \in 1 .. n => g[i] = f[i]}
    <3>1. 0 \in T
      OBVIOUS
    <3>2. ASSUME NEW i \in 1 .. n, i - 1 \in T
          PROVE  i \in T
      <4>1. i \in 1 .. n + 1 /\ longer[i] = ss[i] /\ (i # 1 => i - 1 \in 1 .. n)
        BY <1>1, <1>3
      <4>2. CASE i = 1
        BY <1>4, <2>1, <4>1, <4>2 DEF Flattens
      <4>3. CASE i # 1
        <5>1. g[i - 1] = f[i - 1]
          BY <3>2, <4>1, <4>3
        <5>2. g[i] = g[i - 1] \o longer[i]
          BY <1>4, <4>1, <4>3
        <5>3. f[i] = f[i - 1] \o ss[i]
          BY <1>1, <2>1, <4>3 DEF Flattens
        <5>4. g[i] = f[i]
          BY <4>1, <5>1, <5>2, <5>3
        <5> QED
          BY <5>4
      <4> QED
        BY <4>2, <4>3
    <3> HIDE DEF T
    <3>3. 0 .. n \subseteq T
      BY <1>1, <3>1, <3>2, BoundReached
    <3>4. n \in 0 .. n
      BY <1>1
    <3> QED
      BY <2>2, <3>3, <3>4 DEF T
  <2>4. FlattenSeq(longer) = f[n] \o s
    BY <1>3, <1>4, <2>2, <2>3
  <2> QED
    BY <1>2, <2>1, <2>2, <2>4
<1> QED
  BY <1>5, <1>6

\* Where the sequence k ends.
LEMMA FlattenPrefix ==
  ASSUME NEW W, NEW ss \in Seq(Seq(W)), NEW k \in 1 .. Len(ss)
  PROVE  /\ FlattenSeq(SubSeq(ss, 1, k - 1)) \in Seq(W)
         /\ FlattenSeq(SubSeq(ss, 1, k)) = FlattenSeq(SubSeq(ss, 1, k - 1)) \o ss[k]
<1>1. PICK before : before = SubSeq(ss, 1, k - 1)
  OBVIOUS
<1>2. ss[k] \in Seq(W) /\ k - 1 \in 0 .. Len(ss) /\ k \in 0 .. Len(ss)
  OBVIOUS
<1>3. /\ before \in Seq(Seq(W)) /\ Len(before) = k - 1
      /\ \A i \in 1 .. k - 1 : before[i] = ss[i]
  BY <1>1, <1>2, PrefixOf
<1>4. PICK upto : upto = SubSeq(ss, 1, k)
  OBVIOUS
<1>5. upto \in Seq(Seq(W)) /\ Len(upto) = k /\ \A i \in 1 .. k : upto[i] = ss[i]
  BY <1>2, <1>4, PrefixOf
<1>6. upto = Append(before, ss[k])
  <2>1. /\ Append(before, ss[k]) \in Seq(Seq(W)) /\ Len(Append(before, ss[k])) = k
        /\ \A i \in 1 .. k - 1 : Append(before, ss[k])[i] = ss[i]
        /\ Append(before, ss[k])[k] = ss[k]
    BY <1>2, <1>3
  <2>2. \A i \in 1 .. k : i = k \/ i \in 1 .. k - 1
    OBVIOUS
  <2>3. PICK t \in Seq(Seq(W)) : t = Append(before, ss[k]) /\ Len(t) = k
    BY <2>1
  <2>4. \A i \in 1 .. k : t[i] = upto[i]
    BY <1>5, <2>1, <2>2, <2>3
  <2> QED
    BY <1>5, <2>3, <2>4, SameSequence
<1> QED
  BY <1>1, <1>2, <1>3, <1>4, <1>6, FlattenAppend

\* The ends do not move when a sequence is added.
LEMMA PrefixOfAppended ==
  ASSUME NEW W, NEW ss \in Seq(W), NEW s \in W, NEW k \in 0 .. Len(ss)
  PROVE  SubSeq(Append(ss, s), 1, k) = SubSeq(ss, 1, k)
  OBVIOUS

\* The sizes are numbers, and those of words put together add up.
LEMMA BytesAtType ==
  ASSUME NEW said \in Token, NEW place \in Nat
  PROVE  /\ DigitCount(place) \in Nat
         /\ MarkFrameBytes + DigitCount(place) + said.bytes \in Nat
         /\ bytesAt(said, place) \in Nat
<1>1. PICK S : S = {k \in 1 .. place : NumeralBase ^ k <= place}
  OBVIOUS
<1>2. S \subseteq 1 .. place /\ IsFiniteSet(1 .. place)
  BY <1>1, FS_Interval
<1>3. Cardinality(S) \in Nat
  BY <1>2, FS_Subset, FS_CardinalityType
<1>4. DigitCount(place) \in Nat
  BY <1>1, <1>3 DEF DigitCount
<1> QED
  BY <1>4, SegmentAssumption DEF bytesAt, Token


LEMMA BytesOfType ==
  ASSUME NEW tokens \in Seq(Token), NEW start \in Nat
  PROVE  bytesOf(tokens, start) \in Nat
<1>1. PICK n \in Nat : n = Len(tokens) /\ DOMAIN tokens = 1 .. n
  OBVIOUS
<1>2. PICK f : f = [i \in DOMAIN tokens |-> bytesAt(tokens[i], start + i - 1)]
  OBVIOUS
<1>3. ASSUME NEW i \in 1 .. n
      PROVE  f[i] \in Nat
  <2>1. tokens[i] \in Token /\ start + i - 1 \in Nat
    BY <1>1
  <2> QED
    BY <1>1, <1>2, <2>1, BytesAtType
<1> QED
  BY <1>1, <1>2, <1>3, SumOfNaturals DEF bytesOf

LEMMA BytesJoined ==
  ASSUME NEW s \in Seq(Token), NEW t \in Seq(Token)
  PROVE  bytesOf(s \o t, 0) = bytesOf(s, 0) + bytesOf(t, Len(s))
<1>1. PICK n \in Nat, m \in Nat : /\ n = Len(s) /\ m = Len(t)
                                  /\ DOMAIN s = 1 .. n /\ DOMAIN t = 1 .. m
  OBVIOUS
<1>2. PICK whole \in Seq(Token) : whole = s \o t
  BY JoinedType
<1>3. /\ DOMAIN whole = 1 .. n + m
      /\ \A i \in 1 .. n : whole[i] = s[i]
      /\ \A i \in 1 .. m : whole[n + i] = t[i]
  BY <1>1, <1>2
<1>4. PICK f : f = [i \in 1 .. n + m |-> bytesAt(whole[i], 0 + i - 1)]
  OBVIOUS
<1>5. ASSUME NEW i \in 1 .. n + m
      PROVE  f[i] \in Nat
  <2>1. whole[i] \in Token /\ 0 + i - 1 \in Nat
    BY <1>2, <1>3
  <2> QED
    BY <1>4, <2>1, BytesAtType
<1>6. SumFunction([i \in 1 .. n + m |-> f[i]]) =
        SumFunction([i \in 1 .. n |-> f[i]]) + SumFunction([i \in 1 .. m |-> f[n + i]])
  BY <1>5, SumJoined
<1>7. [i \in 1 .. n + m |-> f[i]] = [i \in DOMAIN whole |-> bytesAt(whole[i], 0 + i - 1)]
  BY <1>3, <1>4
<1>8. [i \in 1 .. n |-> f[i]] = [i \in DOMAIN s |-> bytesAt(s[i], 0 + i - 1)]
  <2>1. \A i \in 1 .. n : i \in 1 .. n + m
    BY <1>1
  <2> QED
    BY <1>1, <1>3, <1>4, <2>1
<1>9. [i \in 1 .. m |-> f[n + i]] = [i \in DOMAIN t |-> bytesAt(t[i], Len(s) + i - 1)]
  <2>1. \A i \in 1 .. m : n + i \in 1 .. n + m /\ 0 + (n + i) - 1 = n + i - 1
    BY <1>1
  <2> QED
    BY <1>1, <1>3, <1>4, <2>1
<1> QED
  BY <1>2, <1>6, <1>7, <1>8, <1>9 DEF bytesOf

LEMMA BytesOfNothing == bytesOf(<<>>, 0) = 0
<1>1. PICK f : f = [i \in DOMAIN <<>> |-> bytesAt(<<>>[i], 0 + i - 1)]
  OBVIOUS
<1>2. DOMAIN f = {}
  BY <1>1
<1> QED
  BY <1>1, <1>2, SumEmpty DEF bytesOf, SumFunction

\* A segment is sent with the size it was given while it was filled.
LEMMA SizeOfSegment ==
  ASSUME NEW segment \in Seq(Token), segment # <<>>
  PROVE  ssmlByteLength(segment) = FrameBytes + bytesOf(segment, 0)
<1>1. PICK n \in Nat : n = Len(segment) /\ n # 0 /\ DOMAIN segment = 1 .. n
  <2>1. Len(segment) # 0
    BY NoElement
  <2> QED
    BY <2>1
<1>2. PICK f, g : /\ f = [i \in 1 .. n |-> bytesAt(segment[i], 0 + i - 1)]
                  /\ g = [i \in 1 .. n |-> MarkFrameBytes + DigitCount(i - 1) + segment[i].bytes]
  OBVIOUS
<1>3. ASSUME NEW i \in 1 .. n
      PROVE  f[i] \in Nat /\ g[i] \in Nat /\ f[i] = g[i] + (IF i = 1 THEN 0 ELSE 1)
  <2>1. segment[i] \in Token /\ i - 1 \in Nat /\ 0 + i - 1 = i - 1 /\ (i - 1 = 0 <=> i = 1)
    BY <1>1
  <2>2. PICK p \in Nat : p = i - 1
    BY <2>1
  <2>3. /\ MarkFrameBytes + DigitCount(p) + segment[i].bytes \in Nat
        /\ bytesAt(segment[i], p) \in Nat
        /\ bytesAt(segment[i], p) =
             (IF p = 0 THEN 0 ELSE 1) + MarkFrameBytes + DigitCount(p) + segment[i].bytes
        /\ DigitCount(p) \in Nat /\ MarkFrameBytes \in Nat /\ segment[i].bytes \in Nat
    BY <2>1, BytesAtType, SegmentAssumption DEF bytesAt, Token
  <2>4. f[i] = bytesAt(segment[i], p) /\ g[i] = MarkFrameBytes + DigitCount(p) + segment[i].bytes
    BY <1>2, <2>1, <2>2
  <2> QED
    BY <2>1, <2>2, <2>3, <2>4, SMTT(60)
<1>4. /\ SumFunction([i \in 1 .. n |-> g[i]]) \in Nat
      /\ SumFunction([i \in 1 .. n |-> f[i]]) = SumFunction([i \in 1 .. n |-> g[i]]) + (n - 1)
  <2> DEFINE F(k) == SumFunction([i \in 1 .. k |-> f[i]])
             G(k) == SumFunction([i \in 1 .. k |-> g[i]])
             T == {k \in Nat : k + 1 <= n => G(k + 1) \in Nat /\ F(k + 1) = G(k + 1) + k}
  <2>1. ASSUME NEW k \in Nat, k + 1 <= n
        PROVE  /\ F(k) \in Nat /\ F(k + 1) = F(k) + f[k + 1]
               /\ G(k) \in Nat /\ G(k + 1) = G(k) + g[k + 1]
    <3>1. \A i \in 1 .. k + 1 : f[i] \in Nat /\ g[i] \in Nat
      BY <1>1, <1>3, <2>1
    <3> QED
      BY <3>1, SumGrows
  <2>2. F(0) = 0 /\ G(0) = 0
    <3>1. PICK a, b : a = [i \in 1 .. 0 |-> f[i]] /\ b = [i \in 1 .. 0 |-> g[i]]
      OBVIOUS
    <3>2. DOMAIN a = {} /\ DOMAIN b = {}
      BY <3>1
    <3> QED
      BY <3>1, <3>2, SumEmpty DEF SumFunction
  <2> HIDE DEF F, G
  <2>3. 0 \in T
    <3>1. 1 \in 1 .. n /\ 0 + 1 = 1
      BY <1>1
    <3> QED
      BY <1>3, <2>1, <2>2, <3>1
  <2>4. ASSUME NEW k \in 1 .. n, k - 1 \in T
        PROVE  k \in T
    <3> SUFFICES ASSUME k + 1 <= n PROVE G(k + 1) \in Nat /\ F(k + 1) = G(k + 1) + k
      BY <1>1
    <3>1. /\ k \in Nat /\ k + 1 \in 1 .. n /\ k + 1 # 1 /\ (k - 1) + 1 = k /\ k <= n
      BY <1>1
    <3>2. G(k) \in Nat /\ F(k) = G(k) + (k - 1)
      BY <2>4, <3>1
    <3>3. f[k + 1] \in Nat /\ g[k + 1] \in Nat /\ f[k + 1] = g[k + 1] + 1
      BY <1>3, <3>1
    <3>4. F(k + 1) = F(k) + f[k + 1] /\ G(k + 1) = G(k) + g[k + 1]
      BY <2>1, <3>1
    <3> QED
      BY <3>1, <3>2, <3>3, <3>4
  <2> HIDE DEF T
  <2>5. n - 1 \in 0 .. n /\ (n - 1) + 1 = n
    BY <1>1
  <2>6. n - 1 \in T
    BY <1>1, <2>3, <2>4, <2>5, BoundReached
  <2>7. G(n) \in Nat /\ F(n) = G(n) + (n - 1)
    BY <1>1, <2>5, <2>6 DEF T
  <2> QED
    BY <2>7 DEF F, G
<1>5. [i \in 1 .. n |-> f[i]] = [i \in DOMAIN segment |-> bytesAt(segment[i], 0 + i - 1)]
      /\ [i \in 1 .. n |-> g[i]] = [i \in DOMAIN segment |-> MarkFrameBytes + DigitCount(i - 1) + segment[i].bytes]
  BY <1>1, <1>2
<1>6. PICK a, b : a = SumFunction([i \in 1 .. n |-> f[i]]) /\ b = SumFunction([i \in 1 .. n |-> g[i]])
  OBVIOUS
<1>7. bytesOf(segment, 0) = a /\ ssmlByteLength(segment) = FrameBytes + (n - 1) + b
  BY <1>1, <1>5, <1>6 DEF bytesOf, ssmlByteLength
<1>8. b \in Nat /\ a = b + (n - 1) /\ FrameBytes \in Nat
  BY <1>4, <1>6, SegmentAssumption
<1> QED
  BY <1>1, <1>7, <1>8

\* A segment the provider accepts, a word that is too large alone excepted.
IsAccepted(segment) ==
  FrameBytes + bytesOf(segment, 0) <= MaxSsmlBytes \/ (Len(segment) = 1 /\ Oversized(segment[1]))

EndOf(seqs, k) == Len(FlattenSeq(SubSeq(seqs, 1, k)))

\* The segments being filled hold the words said so far, and end where they may.
SegmentState == [done : Seq(Seq(Token)), current : Seq(Token), bytes : Nat]
Filling(s, said, ends) ==
  /\ s \in SegmentState
  /\ s.bytes = FrameBytes + bytesOf(s.current, 0)
  /\ FlattenSeq(s.done) \o s.current = said
  /\ \A k \in 1 .. Len(s.done) : s.done[k] # <<>> /\ IsAccepted(s.done[k]) /\ EndOf(s.done, k) \in ends
  /\ s.current # <<>> => IsAccepted(s.current)

LEMMA ClosePreserves ==
  ASSUME NEW s, NEW said, NEW ends, Filling(s, said, ends), s.current # <<>> => Len(said) \in ends
  PROVE  Filling(close(s), said, ends) /\ close(s).current = <<>>
<1>1. CASE s.current = <<>>
  BY <1>1 DEF close
<1>2. CASE s.current # <<>>
  <2>1. PICK done \in Seq(Seq(Token)), current \in Seq(Token) : done = s.done /\ current = s.current
    BY DEF Filling, SegmentState
  <2>2. PICK longer : longer = Append(done, current)
    OBVIOUS
  <2>3. PICK t : t = close(s)
    OBVIOUS
  <2>4. t = [done |-> longer, current |-> <<>>, bytes |-> FrameBytes]
    BY <1>2, <2>1, <2>2, <2>3 DEF close
  <2>5. t.done = longer /\ t.current = <<>> /\ t.bytes = FrameBytes
    BY <2>4
  <2>6. PICK n \in Nat : n = Len(done)
    OBVIOUS
  <2>7. /\ longer \in Seq(Seq(Token)) /\ Len(longer) = n + 1 /\ longer[n + 1] = current
        /\ \A k \in 1 .. n : longer[k] = done[k]
    BY <2>2, <2>6
  <2>8. t \in SegmentState
    <3>1. FrameBytes \in Nat /\ <<>> \in Seq(Token)
      BY SegmentAssumption
    <3> QED
      BY <2>4, <2>7, <3>1 DEF SegmentState
  <2>9. t.bytes = FrameBytes + bytesOf(t.current, 0)
    BY <2>5, BytesOfNothing, SegmentAssumption
  <2>10. FlattenSeq(longer) = said /\ FlattenSeq(done) \in Seq(Token)
    <3>1. FlattenSeq(longer) = FlattenSeq(done) \o current /\ FlattenSeq(done) \in Seq(Token)
      BY <2>2, FlattenAppend
    <3> QED
      BY <2>1, <3>1 DEF Filling
  <2>11. FlattenSeq(t.done) \o t.current = said
    <3>1. FlattenSeq(longer) \in Seq(Token)
      BY <2>1, <2>2, <2>10, FlattenAppend, JoinedType, ZenonT(60)
    <3>2. FlattenSeq(longer) \o <<>> = FlattenSeq(longer)
      BY <3>1
    <3> QED
      BY <2>5, <2>10, <3>2
  <2>12. ASSUME NEW k \in 1 .. n + 1
         PROVE  longer[k] # <<>> /\ IsAccepted(longer[k]) /\ EndOf(longer, k) \in ends
    <3>1. CASE k = n + 1
      <4>1. IsAccepted(current)
        BY <1>2, <2>1 DEF Filling
      <4>2. SubSeq(longer, 1, n + 1) = longer
        BY <2>7
      <4>3. EndOf(longer, k) = Len(said)
        BY <2>10, <3>1, <4>2 DEF EndOf
      <4> QED
        BY <1>2, <2>1, <2>7, <3>1, <4>1, <4>3
    <3>2. CASE k # n + 1
      <4>1. k \in 1 .. n /\ k \in 0 .. Len(done) /\ k \in 1 .. Len(s.done)
        BY <2>1, <2>6, <3>2
      <4>2. SubSeq(longer, 1, k) = SubSeq(done, 1, k)
        BY <2>2, <4>1, PrefixOfAppended
      <4>3. s.done[k] # <<>> /\ IsAccepted(s.done[k]) /\ EndOf(s.done, k) \in ends
        BY <4>1 DEF Filling
      <4> QED
        BY <2>1, <2>7, <4>1, <4>2, <4>3 DEF EndOf
    <3> QED
      BY <3>1, <3>2
  <2>13. \A k \in 1 .. Len(t.done) : t.done[k] # <<>> /\ IsAccepted(t.done[k]) /\ EndOf(t.done, k) \in ends
    BY <2>5, <2>7, <2>12
  <2> QED
    BY <2>3, <2>5, <2>8, <2>9, <2>11, <2>13 DEF Filling
<1> QED
  BY <1>1, <1>2

LEMMA JoinedAssociates ==
  ASSUME NEW W, NEW s \in Seq(W), NEW t \in Seq(W), NEW u \in Seq(W)
  PROVE  (s \o t) \o u = s \o (t \o u)
  OBVIOUS

LEMMA FitPreserves ==
  ASSUME NEW s, NEW said \in Seq(Token), NEW ends, Filling(s, said, ends), Len(said) \in ends,
         NEW tokens \in Seq(Token), tokens # <<>>, IsAccepted(tokens)
  PROVE  Filling(fit(s, tokens), said \o tokens, ends)
<1> DEFINE full == s.current # <<>> /\ s.bytes + bytesOf(tokens, Len(s.current)) > MaxSsmlBytes
<1>1. PICK into : into = IF full THEN close(s) ELSE s
  OBVIOUS
<1>2. Filling(into, said, ends)
  BY <1>1, ClosePreserves
<1>3. into.current = <<>> \/ into.bytes + bytesOf(tokens, Len(into.current)) <= MaxSsmlBytes
  <2>1. CASE full
    BY <1>1, <2>1, ClosePreserves
  <2>2. CASE ~full
    <3>1. s.bytes \in Nat /\ s.current \in Seq(Token)
      BY DEF Filling, SegmentState
    <3>2. Len(s.current) \in Nat
      BY <3>1
    <3>3. bytesOf(tokens, Len(s.current)) \in Nat
      BY <3>2, BytesOfType
    <3> QED
      BY <1>1, <2>2, <3>1, <3>3, SegmentAssumption
  <2> QED
    BY <2>1, <2>2
<1> HIDE DEF full
<1>4. PICK done \in Seq(Seq(Token)), current \in Seq(Token), bytes \in Nat :
        /\ into = [done |-> done, current |-> current, bytes |-> bytes]
        /\ done = into.done /\ current = into.current /\ bytes = into.bytes
  BY <1>2 DEF Filling, SegmentState
<1>5. PICK after \in Seq(Token), added \in Nat :
        after = current \o tokens /\ added = bytesOf(tokens, Len(current))
  <2>1. Len(current) \in Nat
    OBVIOUS
  <2> QED
    BY <2>1, JoinedType, BytesOfType
<1>6. PICK t : t = fit(s, tokens)
  OBVIOUS
<1>7. t = [done |-> done, current |-> after, bytes |-> bytes + added]
  <2>1. t = [into EXCEPT !.current = @ \o tokens, !.bytes = @ + bytesOf(tokens, Len(into.current))]
    BY <1>1, <1>6 DEF fit, full
  <2> QED
    BY <1>4, <1>5, <2>1
<1>8. t.done = done /\ t.current = after /\ t.bytes = bytes + added /\ t \in SegmentState
  <2>1. bytes + added \in Nat
    OBVIOUS
  <2> QED
    BY <1>7, <2>1 DEF SegmentState
<1>9. bytes = FrameBytes + bytesOf(current, 0) /\ bytesOf(after, 0) = bytesOf(current, 0) + added
      /\ bytesOf(current, 0) \in Nat
  <2>1. bytes = FrameBytes + bytesOf(current, 0)
    BY <1>2, <1>4 DEF Filling
  <2>2. bytesOf(after, 0) = bytesOf(current, 0) + added
    BY <1>5, BytesJoined
  <2> QED
    BY <2>1, <2>2, BytesOfType
<1>10. t.bytes = FrameBytes + bytesOf(t.current, 0)
  BY <1>8, <1>9, SegmentAssumption, SMTT(60)
<1>11. FlattenSeq(t.done) \o t.current = said \o tokens
  <2>1. PICK before \in Seq(Token) : before = FlattenSeq(done)
    BY <1>5, FlattenAppend
  <2>2. FlattenSeq(done) \o current = said
    BY <1>2, <1>4 DEF Filling
  <2>3. (before \o current) \o tokens = before \o (current \o tokens)
    BY JoinedAssociates, SMTT(60)
  <2> QED
    BY <1>5, <1>8, <2>1, <2>2, <2>3
<1>12. IsAccepted(after)
  <2>1. CASE current = <<>>
    <3>1. after = tokens
      BY <1>5, <2>1
    <3> QED
      BY <3>1
  <2>2. CASE current # <<>>
    <3>1. bytes + added <= MaxSsmlBytes
      BY <1>3, <1>4, <1>5, <2>2
    <3>2. FrameBytes + bytesOf(after, 0) = bytes + added
      BY <1>9, SegmentAssumption, SMTT(60)
    <3> QED
      BY <3>1, <3>2 DEF IsAccepted
  <2> QED
    BY <2>1, <2>2
<1>13. \A k \in 1 .. Len(t.done) : t.done[k] # <<>> /\ IsAccepted(t.done[k]) /\ EndOf(t.done, k) \in ends
  BY <1>2, <1>4, <1>8 DEF Filling
<1>14. t.current # <<>> => IsAccepted(t.current)
  BY <1>8, <1>12
<1> QED
  BY <1>6, <1>8, <1>10, <1>11, <1>13, <1>14 DEF Filling

LEMMA SizeType ==
  ASSUME NEW tokens \in Seq(Token)
  PROVE  FrameBytes + bytesOf(tokens, 0) \in Nat /\ MaxSsmlBytes \in Nat
<1>1. 0 \in Nat
  OBVIOUS
<1>2. bytesOf(tokens, 0) \in Nat
  BY <1>1, BytesOfType
<1> QED
  BY <1>2, SegmentAssumption

LEMMA CloseType == ASSUME NEW s \in SegmentState PROVE close(s) \in SegmentState
<1>1. CASE s.current = <<>>
  BY <1>1 DEF close
<1>2. CASE s.current # <<>>
  <2>1. Append(s.done, s.current) \in Seq(Seq(Token)) /\ <<>> \in Seq(Token) /\ FrameBytes \in Nat
    BY SegmentAssumption DEF SegmentState
  <2> QED
    BY <1>2, <2>1 DEF close, SegmentState
<1> QED
  BY <1>1, <1>2

LEMMA FitType ==
  ASSUME NEW s \in SegmentState, NEW tokens \in Seq(Token)
  PROVE  fit(s, tokens) \in SegmentState
<1> DEFINE full == s.current # <<>> /\ s.bytes + bytesOf(tokens, Len(s.current)) > MaxSsmlBytes
<1>1. PICK into \in SegmentState : into = IF full THEN close(s) ELSE s
  BY CloseType
<1>2. PICK done \in Seq(Seq(Token)), current \in Seq(Token), bytes \in Nat :
        into = [done |-> done, current |-> current, bytes |-> bytes]
  BY DEF SegmentState
<1>3. into.current = current /\ Len(current) \in Nat
  BY <1>2
<1>4. current \o tokens \in Seq(Token) /\ bytes + bytesOf(tokens, Len(current)) \in Nat
  <2>1. bytesOf(tokens, Len(current)) \in Nat
    BY <1>3, BytesOfType
  <2> QED
    BY <2>1, JoinedType
<1>5. fit(s, tokens) = [into EXCEPT !.current = @ \o tokens, !.bytes = @ + bytesOf(tokens, Len(into.current))]
  BY <1>1 DEF fit
<1>6. fit(s, tokens) = [done |-> done, current |-> current \o tokens, bytes |-> bytes + bytesOf(tokens, Len(current))]
  BY <1>2, <1>3, <1>5
<1> QED
  BY <1>4, <1>6 DEF SegmentState

LEMMA PrefixGrows ==
  ASSUME NEW W, NEW s \in Seq(W), NEW i \in 1 .. Len(s)
  PROVE  /\ SubSeq(s, 1, i - 1) \in Seq(W) /\ Len(SubSeq(s, 1, i - 1)) = i - 1
         /\ SubSeq(s, 1, i) = SubSeq(s, 1, i - 1) \o <<s[i]>>
<1>1. i - 1 \in 0 .. Len(s) /\ i \in 0 .. Len(s) /\ s[i] \in W
  OBVIOUS
<1>2. PICK a \in Seq(W) : a = SubSeq(s, 1, i - 1) /\ Len(a) = i - 1 /\ \A k \in 1 .. i - 1 : a[k] = s[k]
  BY <1>1, PrefixOf
<1>3. PICK b \in Seq(W) : b = SubSeq(s, 1, i) /\ Len(b) = i /\ \A k \in 1 .. i : b[k] = s[k]
  <2>1. PICK m \in 0 .. Len(s) : m = i
    BY <1>1
  <2>2. SubSeq(s, 1, m) \in Seq(W) /\ Len(SubSeq(s, 1, m)) = m /\ \A k \in 1 .. m : SubSeq(s, 1, m)[k] = s[k]
    BY PrefixOf
  <2> QED
    BY <2>1, <2>2
<1>4. PICK c \in Seq(W) : c = a \o <<s[i]>> /\ Len(c) = i
  <2>1. <<s[i]>> \in Seq(W)
    BY <1>1
  <2>2. a \o <<s[i]>> \in Seq(W)
    BY <2>1, JoinedType
  <2>3. Len(a \o <<s[i]>>) = i
    BY <1>2
  <2> QED
    BY <2>2, <2>3
<1>5. \A k \in 1 .. i : c[k] = b[k]
  <2> SUFFICES ASSUME NEW k \in 1 .. i PROVE c[k] = b[k]
    OBVIOUS
  <2>1. k = i \/ k \in 1 .. i - 1
    OBVIOUS
  <2>2. k \in 1 .. i - 1 => c[k] = a[k]
    BY <1>2, <1>4
  <2>3. c[i] = s[i]
    <3>1. i = Len(a) + 1
      BY <1>2
    <3>2. (a \o <<s[i]>>)[Len(a) + 1] = s[i]
      OBVIOUS
    <3> QED
      BY <1>4, <3>1, <3>2
  <2> QED
    BY <1>2, <1>3, <2>1, <2>2, <2>3
<1>6. b = c
  BY <1>3, <1>4, <1>5, SameSequence
<1> QED
  BY <1>2, <1>3, <1>4, <1>6

\* A sentence that is cut is cut between two words.
LEMMA FitEachPreserves ==
  ASSUME NEW s, NEW said \in Seq(Token), NEW ends, Filling(s, said, ends), NEW sentence \in Seq(Token),
         \A i \in 0 .. Len(sentence) : Len(said) + i \in ends
  PROVE  Filling(fitEach(s, sentence), said \o sentence, ends)
<1>1. PICK n \in Nat : n = Len(sentence) /\ \A i \in 1 .. n : sentence[i] \in Token
  OBVIOUS
<1>2. s \in SegmentState /\ \A i \in 1 .. n : <<sentence[i]>> \in Seq(Token)
  BY <1>1 DEF Filling
<1>3. PICK next : next = [i \in Nat |-> [p \in SegmentState |-> IF i \in 1 .. n THEN fit(p, <<sentence[i]>>) ELSE p]]
  OBVIOUS
<1>4. \A i \in 1 .. n : \A p \in SegmentState : fit(p, <<sentence[i]>>) \in SegmentState
  BY <1>2, FitType
<1>5. next \in [Nat -> [SegmentState -> SegmentState]]
      /\ \A i \in 1 .. n : \A p \in SegmentState : next[i][p] = fit(p, <<sentence[i]>>)
  BY <1>3, <1>4
<1>6. PICK g \in [0 .. n -> SegmentState] : Iterates(g, s, next, n)
  BY <1>2, <1>5, IterationExists
<1>7. g = [i \in 0 .. n |-> IF i = 0 THEN s ELSE fit(g[i - 1], <<sentence[i]>>)]
  <2>1. \A i \in 0 .. n : i # 0 => i \in 1 .. n /\ i - 1 \in 0 .. n
    BY <1>1
  <2> QED
    BY <1>5, <1>6, <2>1 DEF Iterates
<1>8. PICK f : f = CHOOSE h : h = [i \in 0 .. n |-> IF i = 0 THEN s ELSE fit(h[i - 1], <<sentence[i]>>)]
  OBVIOUS
<1>9. f = [i \in 0 .. n |-> IF i = 0 THEN s ELSE fit(f[i - 1], <<sentence[i]>>)]
  BY <1>7, <1>8
<1>10. fitEach(s, sentence) = f[n]
  BY <1>1, <1>8 DEF fitEach
<1> DEFINE T == {i \in 0 .. n : Filling(f[i], said \o SubSeq(sentence, 1, i), ends)}
<1>11. 0 \in T
  <2>1. 0 \in 0 .. n /\ SubSeq(sentence, 1, 0) = <<>> /\ said \o <<>> = said
    BY <1>1
  <2> QED
    BY <1>9, <2>1
<1>12. ASSUME NEW i \in 1 .. n, i - 1 \in T
       PROVE  i \in T
  <2>1. i \in 0 .. n /\ i # 0 /\ i \in 1 .. Len(sentence) /\ i - 1 \in 0 .. Len(sentence)
    BY <1>1
  <2>2. PICK start \in Seq(Token) :
          /\ start = SubSeq(sentence, 1, i - 1) /\ Len(start) = i - 1
          /\ SubSeq(sentence, 1, i) = start \o <<sentence[i]>>
    BY <2>1, PrefixGrows
  <2>3. PICK before \in Seq(Token) : before = said \o start
    BY JoinedType
  <2>4. Filling(f[i - 1], before, ends)
    BY <1>12, <2>2, <2>3
  <2>5. Len(before) = Len(said) + (i - 1)
    BY <2>2, <2>3
  <2>6. Len(before) \in ends
    BY <2>1, <2>5
  <2>7. PICK word \in Seq(Token) : word = <<sentence[i]>> /\ word # <<>> /\ Len(word) = 1 /\ word[1] = sentence[i]
    BY <1>2
  <2>8. IsAccepted(word)
    <3>1. FrameBytes + bytesOf(word, 0) \in Nat /\ MaxSsmlBytes \in Nat
      BY SizeType
    <3>2. bytesOf(<<word[1]>>, 0) = bytesOf(word, 0)
      BY <2>7
    <3> QED
      BY <2>7, <3>1, <3>2 DEF IsAccepted, Oversized
  <2>9. Filling(fit(f[i - 1], word), before \o word, ends)
    BY <2>4, <2>6, <2>7, <2>8, FitPreserves
  <2>10. f[i] = fit(f[i - 1], word)
    BY <1>9, <2>1, <2>7
  <2>11. before \o word = said \o SubSeq(sentence, 1, i)
    <3>1. (said \o start) \o word = said \o (start \o word)
      BY JoinedAssociates, SMTT(60)
    <3> QED
      BY <2>2, <2>3, <2>7, <3>1
  <2> QED
    BY <2>1, <2>9, <2>10, <2>11
<1> HIDE DEF T
<1>13. n \in T
  <2>1. n \in 0 .. n
    BY <1>1
  <2> QED
    BY <1>1, <1>11, <1>12, <2>1, BoundReached
<1>14. SubSeq(sentence, 1, n) = sentence
  BY <1>1
<1> QED
  BY <1>10, <1>13, <1>14 DEF T

LEMMA AddSentencePreserves ==
  ASSUME NEW s, NEW said \in Seq(Token), NEW ends, Filling(s, said, ends),
         NEW sentence \in Seq(Token), sentence # <<>>, Len(said) \in ends, Len(said) + Len(sentence) \in ends,
         FrameBytes + bytesOf(sentence, 0) > MaxSsmlBytes => \A i \in 0 .. Len(sentence) : Len(said) + i \in ends
  PROVE  Filling(addSentence(s, sentence), said \o sentence, ends)
<1>1. PICK filled : filled = IF FrameBytes + bytesOf(sentence, 0) <= MaxSsmlBytes THEN fit(s, sentence)
                             ELSE fitEach(s, sentence)
  OBVIOUS
<1>2. PICK after \in Seq(Token) : after = said \o sentence /\ Len(after) = Len(said) + Len(sentence)
  <2>1. Len(said \o sentence) = Len(said) + Len(sentence)
    OBVIOUS
  <2> QED
    BY <2>1, JoinedType
<1>3. Filling(filled, after, ends)
  <2>1. CASE FrameBytes + bytesOf(sentence, 0) <= MaxSsmlBytes
    <3>1. IsAccepted(sentence)
      BY <2>1 DEF IsAccepted
    <3> QED
      BY <1>1, <1>2, <2>1, <3>1, FitPreserves
  <2>2. CASE ~(FrameBytes + bytesOf(sentence, 0) <= MaxSsmlBytes)
    <3>1. FrameBytes + bytesOf(sentence, 0) \in Nat /\ MaxSsmlBytes \in Nat
      BY SizeType
    <3>2. FrameBytes + bytesOf(sentence, 0) > MaxSsmlBytes
      BY <2>2, <3>1
    <3> QED
      BY <1>1, <1>2, <2>2, <3>2, FitEachPreserves
  <2> QED
    BY <2>1, <2>2
<1>4. Filling(close(filled), after, ends)
  BY <1>2, <1>3, ClosePreserves
<1>5. addSentence(s, sentence) = filled \/ addSentence(s, sentence) = close(filled)
  BY <1>1 DEF addSentence
<1> QED
  BY <1>2, <1>3, <1>4, <1>5

\* The sentences that have ended and the open one hold the words read so far.
SplitState == [done : Seq(Seq(Token)), open : Seq(Token)]
Splitting(split, read) ==
  /\ split \in SplitState
  /\ FlattenSeq(split.done) \o split.open = read
  /\ \A k \in 1 .. Len(split.done) : split.done[k] # <<>>

LEMMA AddTokenPreserves ==
  ASSUME NEW split \in SplitState, NEW said \in Token
  PROVE  /\ addToken(split, said) \in SplitState
         /\ \A read : Splitting(split, read) => Splitting(addToken(split, said), read \o <<said>>)
<1>1. PICK done \in Seq(Seq(Token)), open \in Seq(Token) :
        split = [done |-> done, open |-> open] /\ split.done = done /\ split.open = open
  BY DEF SplitState
<1>2. PICK longer \in Seq(Token) : longer = Append(open, said) /\ longer = open \o <<said>> /\ longer # <<>>
  <2>1. Append(open, said) \in Seq(Token) /\ Append(open, said) # <<>> /\ Append(open, said) = open \o <<said>>
    BY Appended, OneAppended
  <2> QED
    BY <2>1
<1>3. PICK t : t = addToken(split, said)
  OBVIOUS
<1>4. PICK before \in Seq(Token) : before = FlattenSeq(done)
  BY <1>2, FlattenAppend
<1>5. ASSUME NEW read, Splitting(split, read)
      PROVE  read \o <<said>> = before \o longer
  <2>1. PICK word \in Seq(Token) : word = <<said>>
    BY <1>1, OneAppended
  <2>2. (before \o open) \o word = before \o (open \o word)
    BY JoinedAssociates, SMTT(60)
  <2> QED
    BY <1>1, <1>2, <1>4, <1>5, <2>1, <2>2 DEF Splitting
<1>6. CASE said.ends
  <2>1. PICK more \in Seq(Seq(Token)) : more = Append(done, longer)
    BY Appended
  <2>2. t = [done |-> more, open |-> <<>>]
    BY <1>1, <1>2, <1>3, <1>6, <2>1 DEF addToken
  <2>3. t \in SplitState /\ t.done = more /\ t.open = <<>>
    <3>1. <<>> \in Seq(Token)
      OBVIOUS
    <3> QED
      BY <2>2, <3>1 DEF SplitState
  <2>4. FlattenSeq(more) \o <<>> = before \o longer
    <3>1. FlattenSeq(more) = before \o longer
      BY <1>4, <2>1, FlattenAppend
    <3>2. PICK whole \in Seq(Token) : whole = before \o longer
      BY JoinedType
    <3>3. whole \o <<>> = whole
      OBVIOUS
    <3> QED
      BY <3>1, <3>2, <3>3
  <2>5. ASSUME \A k \in 1 .. Len(done) : done[k] # <<>>
        PROVE  \A k \in 1 .. Len(more) : more[k] # <<>>
    <3>1. /\ Len(more) = Len(done) + 1 /\ more[Len(done) + 1] = longer
          /\ \A k \in 1 .. Len(done) : more[k] = done[k]
      BY <2>1
    <3>2. \A k \in 1 .. Len(more) : k = Len(done) + 1 \/ k \in 1 .. Len(done)
      BY <3>1
    <3> QED
      BY <1>2, <2>5, <3>1, <3>2
  <2>6. ASSUME NEW read, Splitting(split, read)
        PROVE  Splitting(t, read \o <<said>>)
    BY <1>1, <1>5, <2>3, <2>4, <2>5, <2>6 DEF Splitting
  <2> QED
    BY <1>3, <2>3, <2>6
<1>7. CASE ~said.ends
  <2>1. t = [done |-> done, open |-> longer]
    BY <1>1, <1>2, <1>3, <1>7 DEF addToken
  <2>2. t \in SplitState /\ t.done = done /\ t.open = longer
    BY <2>1 DEF SplitState
  <2>3. ASSUME NEW read, Splitting(split, read)
        PROVE  Splitting(t, read \o <<said>>)
    BY <1>1, <1>4, <1>5, <2>2, <2>3 DEF Splitting
  <2> QED
    BY <1>3, <2>2, <2>3
<1> QED
  BY <1>6, <1>7

\* The sentences are the text, cut.
LEMMA SentencesAreWhole ==
  ASSUME NEW tokens \in Seq(Token)
  PROVE  LET sentences == splitSentences(tokens)
         IN /\ sentences \in Seq(Seq(Token)) /\ FlattenSeq(sentences) = tokens
            /\ \A k \in 1 .. Len(sentences) : sentences[k] # <<>>
<1>1. PICK n \in Nat : n = Len(tokens) /\ \A i \in 1 .. n : tokens[i] \in Token
  OBVIOUS
<1>2. PICK base \in SplitState : base = [done |-> <<>>, open |-> <<>>]
  <2>1. <<>> \in Seq(Seq(Token)) /\ <<>> \in Seq(Token)
    OBVIOUS
  <2> QED
    BY <2>1 DEF SplitState
<1>3. \A i \in 1 .. n : \A p \in SplitState : addToken(p, tokens[i]) \in SplitState
  BY <1>1, AddTokenPreserves
<1>4. PICK next : next = [i \in Nat |-> [p \in SplitState |-> IF i \in 1 .. n THEN addToken(p, tokens[i]) ELSE p]]
  OBVIOUS
<1>5. next \in [Nat -> [SplitState -> SplitState]]
      /\ \A i \in 1 .. n : \A p \in SplitState : next[i][p] = addToken(p, tokens[i])
  BY <1>3, <1>4
<1>6. PICK g \in [0 .. n -> SplitState] : Iterates(g, base, next, n)
  BY <1>5, IterationExists
<1>7. g = [i \in 0 .. n |-> IF i = 0 THEN base ELSE addToken(g[i - 1], tokens[i])]
  <2>1. \A i \in 0 .. n : i # 0 => i \in 1 .. n /\ i - 1 \in 0 .. n
    BY <1>1
  <2> QED
    BY <1>5, <1>6, <2>1 DEF Iterates
<1>8. PICK f : f = CHOOSE h : h = [i \in 0 .. n |-> IF i = 0 THEN base ELSE addToken(h[i - 1], tokens[i])]
  OBVIOUS
<1>9. f = [i \in 0 .. n |-> IF i = 0 THEN base ELSE addToken(f[i - 1], tokens[i])]
  BY <1>7, <1>8
<1>10. splitSentences(tokens) = IF f[n].open = <<>> THEN f[n].done ELSE Append(f[n].done, f[n].open)
  BY <1>1, <1>2, <1>8 DEF splitSentences
<1> DEFINE T == {i \in 0 .. n : Splitting(f[i], SubSeq(tokens, 1, i))}
<1>11. 0 \in T
  <2>1. 0 \in 0 .. n /\ SubSeq(tokens, 1, 0) = <<>>
    BY <1>1
  <2>2. base.done = <<>> /\ base.open = <<>> /\ <<>> \o <<>> = <<>> /\ 1 .. Len(<<>>) = {}
    BY <1>2
  <2>3. Splitting(base, <<>>)
    BY <2>2, FlattenEmpty DEF Splitting
  <2> QED
    BY <1>9, <2>1, <2>3
<1>12. ASSUME NEW i \in 1 .. n, i - 1 \in T
       PROVE  i \in T
  <2>1. i \in 0 .. n /\ i # 0 /\ i \in 1 .. Len(tokens)
    BY <1>1
  <2>2. SubSeq(tokens, 1, i) = SubSeq(tokens, 1, i - 1) \o <<tokens[i]>>
    BY <2>1, PrefixGrows
  <2>3. Splitting(f[i - 1], SubSeq(tokens, 1, i - 1)) /\ f[i - 1] \in SplitState
    BY <1>12 DEF Splitting
  <2>4. Splitting(addToken(f[i - 1], tokens[i]), SubSeq(tokens, 1, i - 1) \o <<tokens[i]>>)
    BY <1>1, <2>3, AddTokenPreserves
  <2>5. f[i] = addToken(f[i - 1], tokens[i])
    BY <1>9, <2>1
  <2> QED
    BY <2>1, <2>2, <2>4, <2>5
<1> HIDE DEF T
<1>13. n \in T /\ SubSeq(tokens, 1, n) = tokens
  <2>1. n \in 0 .. n /\ SubSeq(tokens, 1, n) = tokens
    BY <1>1
  <2> QED
    BY <1>1, <1>11, <1>12, <2>1, BoundReached
<1>14. PICK done \in Seq(Seq(Token)), open \in Seq(Token) :
         /\ f[n].done = done /\ f[n].open = open /\ FlattenSeq(done) \o open = tokens
         /\ \A k \in 1 .. Len(done) : done[k] # <<>>
  BY <1>13 DEF T, Splitting, SplitState
<1>15. CASE open = <<>>
  <2>1. PICK whole \in Seq(Token) : whole = FlattenSeq(done)
    BY FlattenAppend, <1>14
  <2>2. whole \o <<>> = whole
    OBVIOUS
  <2> QED
    BY <1>10, <1>14, <1>15, <2>1, <2>2
<1>16. CASE open # <<>>
  <2>1. PICK sentences \in Seq(Seq(Token)) : sentences = Append(done, open)
    BY Appended
  <2>2. FlattenSeq(sentences) = tokens
    BY <1>14, <2>1, FlattenAppend
  <2>3. /\ Len(sentences) = Len(done) + 1 /\ sentences[Len(done) + 1] = open
        /\ \A k \in 1 .. Len(done) : sentences[k] = done[k]
    BY <2>1
  <2>4. \A k \in 1 .. Len(sentences) : k = Len(done) + 1 \/ k \in 1 .. Len(done)
    BY <2>3
  <2>5. \A k \in 1 .. Len(sentences) : sentences[k] # <<>>
    BY <1>14, <1>16, <2>3, <2>4
  <2> QED
    BY <1>10, <1>14, <1>16, <2>1, <2>2, <2>5
<1> QED
  BY <1>15, <1>16

\* The ends of the sentences, one after the other.
LEMMA EndsGrow ==
  ASSUME NEW W, NEW seqs \in Seq(Seq(W)), NEW n \in 1 .. Len(seqs)
  PROVE  /\ EndOf(seqs, n - 1) \in Nat /\ EndOf(seqs, n) \in Nat
         /\ EndOf(seqs, n) = EndOf(seqs, n - 1) + Len(seqs[n])
<1>1. PICK before \in Seq(W) : before = FlattenSeq(SubSeq(seqs, 1, n - 1))
  BY FlattenPrefix
<1>2. PICK one \in Seq(W) : one = seqs[n]
  OBVIOUS
<1>3. FlattenSeq(SubSeq(seqs, 1, n)) = before \o one
  BY <1>1, <1>2, FlattenPrefix
<1>4. Len(before) \in Nat /\ Len(before \o one) = Len(before) + Len(one) /\ Len(one) \in Nat
  OBVIOUS
<1>5. EndOf(seqs, n - 1) = Len(before)
  BY <1>1 DEF EndOf
<1>6. EndOf(seqs, n) = Len(before) + Len(one)
  <2>1. EndOf(seqs, n) = Len(before \o one)
    BY <1>3 DEF EndOf
  <2> QED
    BY <1>4, <2>1
<1>7. PICK a \in Nat, b \in Nat : a = Len(before) /\ b = Len(one)
  BY <1>4
<1>8. EndOf(seqs, n - 1) \in Nat
  BY <1>5, <1>7
<1>9. a + b \in Nat
  OBVIOUS
<1>10. EndOf(seqs, n) \in Nat
  BY <1>6, <1>7, <1>9
<1>11. EndOf(seqs, n) = EndOf(seqs, n - 1) + Len(seqs[n])
  BY <1>2, <1>5, <1>6
<1> QED
  BY <1>8, <1>10, <1>11

LEMMA EndsInOrder ==
  ASSUME NEW W, NEW seqs \in Seq(Seq(W)), NEW m \in 0 .. Len(seqs), NEW n \in 0 .. Len(seqs), m <= n
  PROVE  EndOf(seqs, m) \in Nat /\ EndOf(seqs, m) <= EndOf(seqs, n)
<1>1. PICK len \in Nat : len = Len(seqs)
  OBVIOUS
<1>2. EndOf(seqs, 0) \in Nat
  <2>1. SubSeq(seqs, 1, 0) = <<>> /\ Len(<<>>) = 0
    OBVIOUS
  <2> QED
    BY <2>1, FlattenEmpty DEF EndOf
<1>3. \A k \in 0 .. len : EndOf(seqs, k) \in Nat
  <2>1. \A k \in 1 .. len : EndOf(seqs, k) \in Nat
    BY <1>1, EndsGrow
  <2>2. \A k \in 0 .. len : k = 0 \/ k \in 1 .. len
    OBVIOUS
  <2> QED
    BY <1>2, <2>1, <2>2
<1> DEFINE T == {k \in 0 .. len : m <= k => EndOf(seqs, m) <= EndOf(seqs, k)}
<1>4. 0 \in T
  <2>1. m <= 0 => m = 0
    BY <1>1
  <2>2. 0 \in 0 .. len
    OBVIOUS
  <2> QED
    BY <1>2, <2>1, <2>2
<1>5. ASSUME NEW k \in 1 .. len, k - 1 \in T
      PROVE  k \in T
  <2>1. k \in 0 .. len /\ k \in 1 .. Len(seqs) /\ (m <= k => m = k \/ m <= k - 1) /\ m \in 0 .. len
    BY <1>1
  <2>2. EndOf(seqs, k - 1) \in Nat /\ EndOf(seqs, k) = EndOf(seqs, k - 1) + Len(seqs[k]) /\ Len(seqs[k]) \in Nat
    <3>1. seqs[k] \in Seq(W)
      BY <2>1
    <3> QED
      BY <2>1, <3>1, EndsGrow
  <2>3. EndOf(seqs, m) \in Nat /\ EndOf(seqs, k) \in Nat
    BY <1>3, <2>1
  <2>4. m <= k - 1 => EndOf(seqs, m) <= EndOf(seqs, k - 1)
    BY <1>5
  <2> QED
    BY <2>1, <2>2, <2>3, <2>4
<1> HIDE DEF T
<1>6. n \in T
  BY <1>1, <1>4, <1>5, BoundReached
<1> QED
  BY <1>1, <1>3, <1>6 DEF T

\* Where a segment may end: not inside a sentence that fits in a segment.
MayEnd(sentences) ==
  {p \in Nat : \A n \in 1 .. Len(sentences) :
     EndOf(sentences, n - 1) < p /\ p < EndOf(sentences, n) => FrameBytes + bytesOf(sentences[n], 0) > MaxSsmlBytes}

LEMMA EndsAllowed ==
  ASSUME NEW sentences \in Seq(Seq(Token)), NEW n \in 1 .. Len(sentences), NEW p \in Nat,
         EndOf(sentences, n - 1) <= p, p <= EndOf(sentences, n),
         \/ p = EndOf(sentences, n - 1) \/ p = EndOf(sentences, n)
         \/ FrameBytes + bytesOf(sentences[n], 0) > MaxSsmlBytes
  PROVE  p \in MayEnd(sentences)
<1> SUFFICES ASSUME NEW m \in 1 .. Len(sentences), EndOf(sentences, m - 1) < p, p < EndOf(sentences, m)
             PROVE  FrameBytes + bytesOf(sentences[m], 0) > MaxSsmlBytes
  BY DEF MayEnd
<1>1. Len(sentences) \in Nat
  OBVIOUS
<1>2. /\ m \in 0 .. Len(sentences) /\ m - 1 \in 0 .. Len(sentences)
      /\ n \in 0 .. Len(sentences) /\ n - 1 \in 0 .. Len(sentences)
  BY <1>1
<1>3. /\ EndOf(sentences, m) \in Nat /\ EndOf(sentences, m - 1) \in Nat
      /\ EndOf(sentences, n) \in Nat /\ EndOf(sentences, n - 1) \in Nat
  BY EndsGrow
<1>4. CASE m < n
  <2>1. m <= n - 1
    BY <1>1, <1>4
  <2>2. EndOf(sentences, m) <= EndOf(sentences, n - 1)
    BY <1>2, <2>1, EndsInOrder
  <2> QED
    BY <1>3, <2>2
<1>5. CASE m > n
  <2>1. n <= m - 1
    BY <1>1, <1>5
  <2>2. EndOf(sentences, n) <= EndOf(sentences, m - 1)
    BY <1>2, <2>1, EndsInOrder
  <2> QED
    BY <1>3, <2>2
<1>6. CASE m = n
  BY <1>3, <1>6
<1> QED
  BY <1>1, <1>4, <1>5, <1>6

\* What a sentence adds, and the state it leaves.
LEMMA AddSentenceType ==
  ASSUME NEW s \in SegmentState, NEW sentence \in Seq(Token)
  PROVE  addSentence(s, sentence) \in SegmentState
<1>1. PICK n \in Nat : n = Len(sentence) /\ \A i \in 1 .. n : <<sentence[i]>> \in Seq(Token)
  OBVIOUS
<1>2. PICK next : next = [i \in Nat |-> [p \in SegmentState |-> IF i \in 1 .. n THEN fit(p, <<sentence[i]>>) ELSE p]]
  OBVIOUS
<1>3. \A i \in 1 .. n : \A p \in SegmentState : fit(p, <<sentence[i]>>) \in SegmentState
  BY <1>1, FitType
<1>4. next \in [Nat -> [SegmentState -> SegmentState]]
      /\ \A i \in 1 .. n : \A p \in SegmentState : next[i][p] = fit(p, <<sentence[i]>>)
  BY <1>2, <1>3
<1>5. PICK g \in [0 .. n -> SegmentState] : Iterates(g, s, next, n)
  BY <1>4, IterationExists
<1>6. g = [i \in 0 .. n |-> IF i = 0 THEN s ELSE fit(g[i - 1], <<sentence[i]>>)]
  <2>1. \A i \in 0 .. n : i # 0 => i \in 1 .. n /\ i - 1 \in 0 .. n
    BY <1>1
  <2> QED
    BY <1>4, <1>5, <2>1 DEF Iterates
<1>7. PICK f : f = CHOOSE h : h = [i \in 0 .. n |-> IF i = 0 THEN s ELSE fit(h[i - 1], <<sentence[i]>>)]
  OBVIOUS
<1>8. f = [i \in 0 .. n |-> IF i = 0 THEN s ELSE fit(f[i - 1], <<sentence[i]>>)]
  BY <1>6, <1>7
<1> DEFINE T == {i \in 0 .. n : f[i] \in SegmentState}
<1>9. 0 \in T
  BY <1>8
<1>10. ASSUME NEW i \in 1 .. n, i - 1 \in T
       PROVE  i \in T
  <2>1. i \in 0 .. n /\ i # 0
    BY <1>1
  <2> QED
    BY <1>3, <1>8, <1>10, <2>1
<1> HIDE DEF T
<1>11. f[n] \in SegmentState
  <2>1. n \in 0 .. n
    BY <1>1
  <2>2. n \in T
    BY <1>9, <1>10, <2>1, BoundReached
  <2> QED
    BY <2>2 DEF T
<1>12. fitEach(s, sentence) = f[n]
  BY <1>1, <1>7 DEF fitEach
<1>13. PICK filled \in SegmentState : filled = IF FrameBytes + bytesOf(sentence, 0) <= MaxSsmlBytes THEN fit(s, sentence)
                                              ELSE fitEach(s, sentence)
  BY <1>11, <1>12, FitType
<1>14. addSentence(s, sentence) = filled \/ addSentence(s, sentence) = close(filled)
  BY <1>13 DEF addSentence
<1> QED
  BY <1>13, <1>14, CloseType

\* The segments of some sentences.
LEMMA SegmentsFilled ==
  ASSUME NEW sentences \in Seq(Seq(Token)), \A n \in 1 .. Len(sentences) : sentences[n] # <<>>
  PROVE  \E s : Filling(s, FlattenSeq(sentences), MayEnd(sentences))
                /\ s.current = <<>> /\ segmentsOf(sentences) = s.done
<1>1. PICK n \in Nat : n = Len(sentences) /\ \A i \in 1 .. n : sentences[i] \in Seq(Token)
  OBVIOUS
<1>2. PICK base \in SegmentState : base = [done |-> <<>>, current |-> <<>>, bytes |-> FrameBytes]
  <2>1. <<>> \in Seq(Seq(Token)) /\ <<>> \in Seq(Token) /\ FrameBytes \in Nat
    BY SegmentAssumption
  <2> QED
    BY <2>1 DEF SegmentState
<1>3. \A i \in 1 .. n : \A p \in SegmentState : addSentence(p, sentences[i]) \in SegmentState
  BY <1>1, AddSentenceType
<1>4. PICK next : next = [i \in Nat |-> [p \in SegmentState |-> IF i \in 1 .. n THEN addSentence(p, sentences[i]) ELSE p]]
  OBVIOUS
<1>5. next \in [Nat -> [SegmentState -> SegmentState]]
      /\ \A i \in 1 .. n : \A p \in SegmentState : next[i][p] = addSentence(p, sentences[i])
  BY <1>3, <1>4
<1>6. PICK g \in [0 .. n -> SegmentState] : Iterates(g, base, next, n)
  BY <1>5, IterationExists
<1>7. g = [i \in 0 .. n |-> IF i = 0 THEN base ELSE addSentence(g[i - 1], sentences[i])]
  <2>1. \A i \in 0 .. n : i # 0 => i \in 1 .. n /\ i - 1 \in 0 .. n
    BY <1>1
  <2> QED
    BY <1>5, <1>6, <2>1 DEF Iterates
<1>8. PICK f : f = CHOOSE h : h = [i \in 0 .. n |-> IF i = 0 THEN base ELSE addSentence(h[i - 1], sentences[i])]
  OBVIOUS
<1>9. f = [i \in 0 .. n |-> IF i = 0 THEN base ELSE addSentence(f[i - 1], sentences[i])]
  BY <1>7, <1>8
<1>10. segmentsOf(sentences) = close(f[n]).done
  BY <1>1, <1>2, <1>8 DEF segmentsOf
<1> DEFINE Said(i) == FlattenSeq(SubSeq(sentences, 1, i))
           T == {i \in 0 .. n : Filling(f[i], Said(i), MayEnd(sentences))}
<1>11. 0 \in T
  <2>1. 0 \in 0 .. n /\ SubSeq(sentences, 1, 0) = <<>>
    BY <1>1
  <2>2. base.done = <<>> /\ base.current = <<>> /\ base.bytes = FrameBytes
        /\ <<>> \o <<>> = <<>> /\ 1 .. Len(<<>>) = {}
    BY <1>2
  <2>3. FrameBytes + 0 = FrameBytes
    BY SegmentAssumption
  <2>4. Filling(base, <<>>, MayEnd(sentences))
    BY <2>2, <2>3, FlattenEmpty, BytesOfNothing DEF Filling
  <2>5. Said(0) = <<>> /\ f[0] = base
    BY <1>9, <2>1, FlattenEmpty
  <2> QED
    BY <2>1, <2>4, <2>5
<1>12. ASSUME NEW i \in 1 .. n, i - 1 \in T
       PROVE  i \in T
  <2>1. i \in 0 .. n /\ i # 0 /\ i \in 1 .. Len(sentences)
    BY <1>1
  <2>2. PICK before \in Seq(Token), one \in Seq(Token) :
          before = Said(i - 1) /\ one = sentences[i] /\ one # <<>> /\ Said(i) = before \o one
    BY <1>1, <2>1, FlattenPrefix
  <2>3. Filling(f[i - 1], before, MayEnd(sentences))
    BY <1>12, <2>2
  <2>4. /\ Len(before) \in Nat /\ Len(one) \in Nat
        /\ EndOf(sentences, i - 1) = Len(before) /\ EndOf(sentences, i) = Len(before) + Len(one)
    <3>1. EndOf(sentences, i - 1) = Len(before)
      BY <2>2 DEF EndOf
    <3>2. EndOf(sentences, i) = EndOf(sentences, i - 1) + Len(one)
      BY <2>1, <2>2, EndsGrow
    <3>3. Len(before) \in Nat
      BY <2>2
    <3>4. Len(one) \in Nat
      BY <2>2
    <3>5. EndOf(sentences, i) = Len(before) + Len(one)
      BY <3>1, <3>2
    <3> QED
      BY <3>1, <3>3, <3>4, <3>5
  <2>5. Len(before) \in MayEnd(sentences) /\ Len(before) + Len(one) \in MayEnd(sentences)
    <3>1. PICK a \in Nat, b \in Nat : a = Len(before) /\ b = Len(one)
      BY <2>4
    <3>2. a + b \in Nat /\ a <= a + b /\ a <= a /\ a + b <= a + b
      OBVIOUS
    <3>3. EndOf(sentences, i - 1) = a /\ EndOf(sentences, i) = a + b
      BY <2>4, <3>1
    <3>4. a \in MayEnd(sentences)
      BY <2>1, <3>2, <3>3, EndsAllowed
    <3>5. a + b \in MayEnd(sentences)
      BY <2>1, <3>2, <3>3, EndsAllowed
    <3> QED
      BY <3>1, <3>4, <3>5
  <2>6. FrameBytes + bytesOf(one, 0) > MaxSsmlBytes =>
          \A k \in 0 .. Len(one) : Len(before) + k \in MayEnd(sentences)
    <3> SUFFICES ASSUME FrameBytes + bytesOf(one, 0) > MaxSsmlBytes, NEW k \in 0 .. Len(one)
                 PROVE  Len(before) + k \in MayEnd(sentences)
      OBVIOUS
    <3>1. Len(before) + k \in Nat /\ Len(before) <= Len(before) + k /\ Len(before) + k <= Len(before) + Len(one)
      BY <2>4
    <3> QED
      BY <2>1, <2>2, <2>4, <3>1, EndsAllowed
  <2>7. Filling(addSentence(f[i - 1], one), before \o one, MayEnd(sentences))
    BY <2>2, <2>3, <2>5, <2>6, AddSentencePreserves
  <2>8. f[i] = addSentence(f[i - 1], one)
    BY <1>9, <2>1, <2>2
  <2> QED
    BY <2>1, <2>2, <2>7, <2>8
<1> HIDE DEF T
<1>13. n \in T /\ SubSeq(sentences, 1, n) = sentences
  <2>1. n \in 0 .. n /\ SubSeq(sentences, 1, n) = sentences
    BY <1>1
  <2> QED
    BY <1>1, <1>11, <1>12, <2>1, BoundReached
<1>14. Filling(f[n], FlattenSeq(sentences), MayEnd(sentences))
  BY <1>13 DEF T
<1>15. f[n].current # <<>> => Len(FlattenSeq(sentences)) \in MayEnd(sentences)
  <2>1. CASE n = 0
    <3>1. f[n].current = <<>>
      BY <1>2, <1>9, <2>1
    <3> QED
      BY <3>1
  <2>2. CASE n # 0
    <3>1. n \in 1 .. Len(sentences)
      BY <1>1, <2>2
    <3>2. EndOf(sentences, n) = Len(FlattenSeq(sentences))
      BY <1>13 DEF EndOf
    <3>3. EndOf(sentences, n) \in Nat /\ EndOf(sentences, n - 1) \in Nat /\ Len(sentences[n]) \in Nat
          /\ EndOf(sentences, n) = EndOf(sentences, n - 1) + Len(sentences[n])
      <4>1. sentences[n] \in Seq(Token)
        BY <3>1
      <4> QED
        BY <3>1, <4>1, EndsGrow
    <3>4. EndOf(sentences, n - 1) <= EndOf(sentences, n)
      BY <3>3
    <3> QED
      BY <3>1, <3>2, <3>3, <3>4, EndsAllowed
  <2> QED
    BY <2>1, <2>2
<1>16. PICK s : s = close(f[n])
  OBVIOUS
<1>17. Filling(s, FlattenSeq(sentences), MayEnd(sentences)) /\ s.current = <<>>
  BY <1>14, <1>15, <1>16, ClosePreserves
<1> QED
  BY <1>10, <1>16, <1>17

\* Any text is sent whole: every word once and in order, in segments that are
\* not empty and that the provider accepts, a word that is too large alone
\* excepted, and a sentence is cut only when it fits in no segment
\* (ssml-segmenter.ts).
THEOREM SegmentsAreSoundHolds == \A tokens \in Seq(Token) : SegmentsAreSound(tokens)
<1> SUFFICES ASSUME NEW tokens \in Seq(Token)
             PROVE  SegmentsAreSound(tokens)
  OBVIOUS
<1>1. PICK sentences \in Seq(Seq(Token)) :
        /\ sentences = splitSentences(tokens) /\ FlattenSeq(sentences) = tokens
        /\ \A n \in 1 .. Len(sentences) : sentences[n] # <<>>
  BY SentencesAreWhole
<1>2. PICK s : /\ Filling(s, FlattenSeq(sentences), MayEnd(sentences))
               /\ s.current = <<>> /\ segmentsOf(sentences) = s.done
  BY <1>1, SegmentsFilled
<1>3. PICK segments \in Seq(Seq(Token)) : segments = s.done /\ segments = segmentsOf(sentences)
  BY <1>2 DEF Filling, SegmentState
<1>4. FlattenSeq(segments) = tokens
  <2>1. FlattenSeq(segments) \o <<>> = tokens
    BY <1>1, <1>2, <1>3 DEF Filling
  <2>2. PICK whole \in Seq(Token) : whole = FlattenSeq(segments)
    <3>1. <<>> \in Seq(Token)
      OBVIOUS
    <3> QED
      BY <3>1, FlattenAppend
  <2>3. whole \o <<>> = whole
    OBVIOUS
  <2> QED
    BY <2>1, <2>2, <2>3
<1>5. ASSUME NEW k \in DOMAIN segments
      PROVE  /\ segments[k] # <<>> /\ EndOf(segments, k) \in MayEnd(sentences)
             /\ ssmlByteLength(segments[k]) <= MaxSsmlBytes \/ (Len(segments[k]) = 1 /\ Oversized(segments[k][1]))
  <2>1. k \in 1 .. Len(s.done) /\ segments[k] \in Seq(Token)
    BY <1>3
  <2>2. segments[k] # <<>> /\ IsAccepted(segments[k]) /\ EndOf(segments, k) \in MayEnd(sentences)
    BY <1>2, <1>3, <2>1 DEF Filling
  <2>3. ssmlByteLength(segments[k]) = FrameBytes + bytesOf(segments[k], 0)
    BY <2>1, <2>2, SizeOfSegment
  <2> QED
    BY <2>2, <2>3 DEF IsAccepted
<1>6. ASSUME NEW k \in DOMAIN segments, NEW n \in DOMAIN sentences,
             EndOf(sentences, n - 1) < EndOf(segments, k), EndOf(segments, k) < EndOf(sentences, n)
      PROVE  FrameBytes + bytesOf(sentences[n], 0) > MaxSsmlBytes
  <2>1. EndOf(segments, k) \in MayEnd(sentences) /\ n \in 1 .. Len(sentences)
    BY <1>5
  <2> QED
    BY <1>6, <2>1 DEF MayEnd
<1>7. Sound(tokens, sentences, segments)
  BY <1>1, <1>4, <1>5, <1>6 DEF Sound, EndOf
<1> QED
  BY <1>1, <1>3, <1>7 DEF SegmentsAreSound, buildSsmlSegments

\* The characters of some segments that follow each other.
CharsOf(segments, first, last) == SumFunction([i \in first .. last |-> charCount(segments[i])])
Target(k) == IF k = 1 THEN FirstPartTargetChars ELSE PartTargetChars

LEMMA CharCountType ==
  ASSUME NEW segment \in Seq(Token), segment # <<>>
  PROVE  charCount(segment) \in Nat
<1>1. PICK n \in Nat : n = Len(segment) /\ n # 0 /\ DOMAIN segment = 1 .. n
  <2>1. Len(segment) # 0
    BY NoElement
  <2> QED
    BY <2>1
<1>2. PICK f : f = [i \in DOMAIN segment |-> segment[i].chars]
  OBVIOUS
<1>3. DOMAIN f = 1 .. n /\ \A i \in 1 .. n : f[i] \in Nat
  <2>1. \A i \in 1 .. n : segment[i] \in Token
    BY <1>1
  <2>2. \A i \in 1 .. n : segment[i].chars \in Nat
    BY <2>1 DEF Token
  <2> QED
    BY <1>1, <1>2, <2>2
<1>4. PICK c \in Nat : c = SumFunction(f)
  BY <1>3, SumOfNaturals
<1>5. charCount(segment) = c + n - 1
  BY <1>1, <1>2, <1>4 DEF charCount
<1> QED
  BY <1>1, <1>5

LEMMA CharsAdd ==
  ASSUME NEW segments, NEW first \in Nat, NEW last \in Nat,
         \A i \in first .. last : charCount(segments[i]) \in Nat
  PROVE  /\ CharsOf(segments, first, last) \in Nat
         /\ first > last => CharsOf(segments, first, last) = 0
         /\ first <= last => CharsOf(segments, first, last) =
                               CharsOf(segments, first, last - 1) + charCount(segments[last])
<1>1. PICK f, g : /\ f = [i \in first .. last |-> charCount(segments[i])]
                  /\ g = [i \in first .. last - 1 |-> charCount(segments[i])]
  OBVIOUS
<1>2. /\ CharsOf(segments, first, last) = SumFunctionOnSet(f, first .. last)
      /\ CharsOf(segments, first, last - 1) = SumFunctionOnSet(g, first .. last - 1)
      /\ IsFiniteSet(first .. last) /\ IsFiniteSet(first .. last - 1)
  BY <1>1, FS_Interval DEF CharsOf, SumFunction
<1>3. \A i \in first .. last : f[i] \in Nat
  BY <1>1
<1>4. CharsOf(segments, first, last) \in Nat
  BY <1>2, <1>3, SumType
<1>5. ASSUME first > last PROVE CharsOf(segments, first, last) = 0
  <2>1. first .. last = {}
    BY <1>5
  <2> QED
    BY <1>2, <2>1, SumEmpty
<1>6. ASSUME first <= last
      PROVE  CharsOf(segments, first, last) = CharsOf(segments, first, last - 1) + charCount(segments[last])
  <2>1. /\ last \notin first .. last - 1 /\ first .. last = (first .. last - 1) \cup {last}
        /\ last \in first .. last /\ first .. last - 1 \subseteq first .. last
    BY <1>6
  <2>2. \A i \in first .. last - 1 : g[i] \in Int /\ g[i] = f[i]
    BY <1>1, <1>3, <2>1
  <2>3. f[last] \in Int /\ f[last] = charCount(segments[last])
    BY <1>1, <1>3, <2>1
  <2>4. PICK before : before = first .. last - 1
    OBVIOUS
  <2>5. /\ IsFiniteSet(before) /\ last \notin before /\ \A i \in before : g[i] \in Int /\ g[i] = f[i]
        /\ first .. last = before \cup {last}
    BY <1>2, <2>1, <2>2, <2>4
  <2>6. SumFunctionOnSet(f, before \cup {last}) = SumFunctionOnSet(g, before) + f[last]
    BY <2>3, <2>5, SumAdded
  <2> QED
    BY <1>2, <2>3, <2>4, <2>5, <2>6
<1> QED
  BY <1>4, <1>5, <1>6

\* The parts that are closed after i segments, and the characters of the open one.
Part == [firstSegment : Nat, lastSegment : Nat]
PlanState == [parts : Seq(Part), first : Nat, chars : Nat]

FollowOn(parts, k) ==
  parts[k].firstSegment = IF k = 1 THEN 1 ELSE parts[k - 1].lastSegment + 1
Closed(segments, parts, k, i) ==
  /\ parts[k].firstSegment <= parts[k].lastSegment /\ parts[k].lastSegment <= i
  /\ CharsOf(segments, parts[k].firstSegment, parts[k].lastSegment - 1) < Target(k)
  /\ parts[k].lastSegment < Len(segments) =>
       CharsOf(segments, parts[k].firstSegment, parts[k].lastSegment) >= Target(k)
Planning(plan, segments, i) ==
  /\ plan \in PlanState
  /\ plan.first = IF plan.parts = <<>> THEN 1 ELSE plan.parts[Len(plan.parts)].lastSegment + 1
  /\ plan.first <= i + 1 /\ (i = Len(segments) => plan.first = i + 1)
  /\ plan.chars = CharsOf(segments, plan.first, i)
  /\ plan.chars < Target(Len(plan.parts) + 1)
  /\ \A k \in 1 .. Len(plan.parts) : FollowOn(plan.parts, k) /\ Closed(segments, plan.parts, k, i)

LEMMA TargetsArePositive == \A k \in Nat : Target(k) \in Nat /\ 0 < Target(k)
BY SegmentAssumption DEF Target

LEMMA NoParts == ASSUME NEW W, NEW s \in Seq(W) PROVE Len(s) = 0 <=> s = <<>>
<1>1. Len(s) = 0 => s = <<>>
  BY NoElement
<1> QED
  BY <1>1

LEMMA AddSegmentType ==
  ASSUME NEW segments \in Seq(Seq(Token)), \A k \in 1 .. Len(segments) : segments[k] # <<>>,
         NEW i \in 1 .. Len(segments), NEW plan \in PlanState
  PROVE  addSegment(plan, i, segments) \in PlanState
<1>1. PICK c \in Nat : c = plan.chars + charCount(segments[i])
  <2>1. segments[i] \in Seq(Token) /\ segments[i] # <<>> /\ plan.chars \in Nat
    BY DEF PlanState
  <2>2. charCount(segments[i]) \in Nat
    BY <2>1, CharCountType
  <2> QED
    BY <2>1, <2>2
<1>2. PICK parts \in Seq(Part), first \in Nat, chars \in Nat :
        plan = [parts |-> parts, first |-> first, chars |-> chars]
  BY DEF PlanState
<1>3. PICK part \in Part : part = [firstSegment |-> first, lastSegment |-> i]
  <2>1. i \in Nat
    OBVIOUS
  <2> QED
    BY <2>1 DEF Part
<1>4. PICK more \in Seq(Part) : more = Append(parts, part)
  BY Appended
<1>5. \/ addSegment(plan, i, segments) = [parts |-> more, first |-> i + 1, chars |-> 0]
      \/ addSegment(plan, i, segments) = [parts |-> parts, first |-> first, chars |-> c]
  BY <1>1, <1>2, <1>3, <1>4 DEF addSegment
<1>6. i + 1 \in Nat /\ 0 \in Nat
  OBVIOUS
<1>7. [parts |-> more, first |-> i + 1, chars |-> 0] \in PlanState
  BY <1>6 DEF PlanState
<1>8. [parts |-> parts, first |-> first, chars |-> c] \in PlanState
  BY DEF PlanState
<1> QED
  BY <1>5, <1>7, <1>8

LEMMA AddSegmentPreserves ==
  ASSUME NEW segments \in Seq(Seq(Token)), \A k \in 1 .. Len(segments) : segments[k] # <<>>,
         NEW i \in 1 .. Len(segments), NEW plan, Planning(plan, segments, i - 1)
  PROVE  Planning(addSegment(plan, i, segments), segments, i)
<1>1. PICK parts \in Seq(Part), first \in Nat, chars \in Nat :
        /\ plan = [parts |-> parts, first |-> first, chars |-> chars]
        /\ plan.parts = parts /\ plan.first = first /\ plan.chars = chars
  BY DEF PlanState, Planning
<1>2. PICK n \in Nat, m \in Nat : n = Len(parts) /\ m = Len(segments) /\ i \in Nat /\ 1 <= i /\ i <= m
  OBVIOUS
<1>3. \A k \in 1 .. m : charCount(segments[k]) \in Nat
  <2>1. ASSUME NEW k \in 1 .. m PROVE segments[k] \in Seq(Token) /\ segments[k] # <<>>
    <3>1. k \in 1 .. Len(segments)
      BY <1>2
    <3>2. segments[k] \in Seq(Token)
      BY <3>1
    <3>3. segments[k] # <<>>
      BY <3>1
    <3> QED
      BY <3>2, <3>3
  <2> QED
    BY <2>1, CharCountType
<1>4. 1 <= first /\ first <= i
  <2>1. \/ parts = <<>> /\ first = 1
        \/ parts # <<>> /\ first = parts[n].lastSegment + 1
    BY <1>1, <1>2 DEF Planning
  <2>2. parts # <<>> => n \in 1 .. n
    BY <1>2, NoParts
  <2>3. parts # <<>> => parts[n] \in Part
    BY <1>2, <2>2
  <2>4. parts # <<>> => parts[n].lastSegment \in Nat
    BY <2>3 DEF Part
  <2>5. first <= (i - 1) + 1
    BY <1>1 DEF Planning
  <2> QED
    BY <1>2, <2>1, <2>4, <2>5
<1>5. /\ chars = CharsOf(segments, first, i - 1) /\ chars < Target(n + 1)
      /\ \A k \in 1 .. n : FollowOn(parts, k) /\ Closed(segments, parts, k, i - 1)
  BY <1>1, <1>2 DEF Planning
<1>6. PICK c \in Nat : c = chars + charCount(segments[i]) /\ c = CharsOf(segments, first, i)
  <2>1. i \in 1 .. m /\ \A k \in first .. i : k \in 1 .. m
    BY <1>2, <1>4
  <2>2. \A k \in first .. i : charCount(segments[k]) \in Nat
    BY <1>3, <2>1
  <2>3. CharsOf(segments, first, i) \in Nat
        /\ CharsOf(segments, first, i) = CharsOf(segments, first, i - 1) + charCount(segments[i])
    BY <1>2, <1>4, <2>2, CharsAdd
  <2> QED
    BY <1>5, <2>3
<1>7. PICK target \in Nat : target = Target(n + 1) /\ 0 < target
  <2>1. n + 1 \in Nat
    OBVIOUS
  <2> QED
    BY <2>1, TargetsArePositive
<1>8. (IF parts = <<>> THEN FirstPartTargetChars ELSE PartTargetChars) = target
  <2>1. n = 0 <=> parts = <<>>
    BY <1>2, NoParts
  <2> QED
    BY <1>7, <2>1 DEF Target
<1>9. PICK next : next = addSegment(plan, i, segments)
  OBVIOUS
<1>10. next \in PlanState
  <2>1. plan \in PlanState
    BY DEF Planning
  <2> QED
    BY <1>9, <2>1, AddSegmentType
<1>11. CASE c >= target \/ i = m
  <2>1. PICK part \in Part : part = [firstSegment |-> first, lastSegment |-> i]
    BY <1>2 DEF Part
  <2>2. PICK more \in Seq(Part) : more = Append(parts, part)
    BY Appended
  <2>3. next = [parts |-> more, first |-> i + 1, chars |-> 0]
    BY <1>1, <1>2, <1>6, <1>8, <1>9, <1>11, <2>1, <2>2 DEF addSegment
  <2>4. /\ Len(more) = n + 1 /\ more[n + 1] = part /\ \A k \in 1 .. n : more[k] = parts[k]
    BY <1>2, <2>2
  <2>5. more # <<>>
    BY <2>2, Appended
  <2>6. CharsOf(segments, i + 1, i) = 0
    <3>1. i + 1 \in Nat /\ i + 1 > i /\ (i + 1) .. i = {}
      BY <1>2
    <3> QED
      BY <1>2, <3>1, CharsAdd
  <2>7. 0 < Target(Len(more) + 1)
    <3>1. Len(more) + 1 \in Nat
      BY <1>2, <2>4
    <3> QED
      BY <3>1, TargetsArePositive
  <2>8. more[n + 1].lastSegment = i /\ more[n + 1].firstSegment = first
    BY <2>1, <2>4
  <2>9. ASSUME NEW k \in 1 .. n
        PROVE  FollowOn(more, k) /\ Closed(segments, more, k, i)
    <3>1. FollowOn(parts, k) /\ Closed(segments, parts, k, i - 1) /\ more[k] = parts[k]
      BY <1>5, <2>4
    <3>2. k # 1 => k - 1 \in 1 .. n
      OBVIOUS
    <3>3. FollowOn(more, k)
      BY <2>4, <3>1, <3>2 DEF FollowOn
    <3>4. parts[k] \in Part
      BY <1>2
    <3>5. parts[k].lastSegment <= i - 1 => parts[k].lastSegment <= i
      BY <1>2, <3>4, SMTT(60) DEF Part
    <3>6. Closed(segments, more, k, i)
      BY <3>1, <3>5 DEF Closed
    <3> QED
      BY <3>3, <3>6
  <2>10. FollowOn(more, n + 1)
    <3>1. CASE n = 0
      <4>1. first = 1
        BY <1>1, <1>2, <3>1, NoParts DEF Planning
      <4> QED
        BY <2>8, <3>1, <4>1 DEF FollowOn
    <3>2. CASE n # 0
      <4>1. parts # <<>> /\ n \in 1 .. n
        BY <1>2, <3>2, NoParts
      <4>2. first = parts[n].lastSegment + 1
        BY <1>1, <1>2, <4>1 DEF Planning
      <4>3. (n + 1) - 1 = n /\ n + 1 # 1
        BY <3>2
      <4>4. more[n] = parts[n]
        BY <2>4, <4>1
      <4> QED
        BY <2>8, <4>2, <4>3, <4>4 DEF FollowOn
    <3> QED
      BY <3>1, <3>2
  <2>11. Closed(segments, more, n + 1, i)
    <3>1. i < Len(segments) => c >= target
      BY <1>2, <1>11
    <3>2. i <= i
      BY <1>2
    <3> QED
      BY <1>4, <1>5, <1>6, <1>7, <2>8, <3>1, <3>2 DEF Closed
  <2>12. \A k \in 1 .. Len(more) : FollowOn(more, k) /\ Closed(segments, more, k, i)
    <3>1. \A k \in 1 .. Len(more) : k = n + 1 \/ k \in 1 .. n
      BY <2>4
    <3> QED
      BY <2>9, <2>10, <2>11, <3>1
  <2>13. next.parts = more /\ next.first = i + 1 /\ next.chars = 0
    BY <2>3
  <2>14. next.first <= i + 1
    BY <1>2, <2>13
  <2>15. next.first = IF next.parts = <<>> THEN 1 ELSE next.parts[Len(next.parts)].lastSegment + 1
    BY <2>4, <2>5, <2>8, <2>13
  <2> QED
    BY <1>9, <1>10, <2>6, <2>7, <2>12, <2>13, <2>14, <2>15 DEF Planning
<1>12. CASE ~(c >= target \/ i = m)
  <2>1. next = [parts |-> parts, first |-> first, chars |-> c]
    BY <1>1, <1>2, <1>6, <1>8, <1>9, <1>12 DEF addSegment
  <2>2. next.parts = parts /\ next.first = first /\ next.chars = c
    BY <2>1
  <2>3. c < target /\ first <= i + 1 /\ i # Len(segments)
    BY <1>2, <1>4, <1>12
  <2>4. ASSUME NEW k \in 1 .. n
        PROVE  FollowOn(parts, k) /\ Closed(segments, parts, k, i)
    <3>1. parts[k] \in Part
      BY <1>2
    <3>2. parts[k].lastSegment <= i - 1 => parts[k].lastSegment <= i
      BY <1>2, <3>1 DEF Part
    <3> QED
      BY <1>5, <3>2 DEF Closed
  <2>5. first = IF parts = <<>> THEN 1 ELSE parts[Len(parts)].lastSegment + 1
    BY <1>1 DEF Planning
  <2> QED
    BY <1>2, <1>6, <1>7, <1>9, <1>10, <2>2, <2>3, <2>4, <2>5 DEF Planning
<1> QED
  BY <1>11, <1>12

\* Whatever the segments, if none is empty.
LEMMA PartsOfSegments ==
  ASSUME NEW segments \in Seq(Seq(Token)), \A k \in 1 .. Len(segments) : segments[k] # <<>>
  PROVE  PartsCoverSegments(segments)
<1>1. PICK n \in Nat : n = Len(segments)
  OBVIOUS
<1>2. PICK base \in PlanState : base = [parts |-> <<>>, first |-> 1, chars |-> 0]
  <2>1. <<>> \in Seq(Part) /\ 0 \in Nat /\ 1 \in Nat
    OBVIOUS
  <2> QED
    BY <2>1 DEF PlanState
<1>3. \A i \in 1 .. n : \A p \in PlanState : addSegment(p, i, segments) \in PlanState
  BY <1>1, AddSegmentType
<1>4. PICK step : step = [i \in Nat |-> [p \in PlanState |-> IF i \in 1 .. n THEN addSegment(p, i, segments) ELSE p]]
  OBVIOUS
<1>5. step \in [Nat -> [PlanState -> PlanState]]
      /\ \A i \in 1 .. n : \A p \in PlanState : step[i][p] = addSegment(p, i, segments)
  <2>1. \A i \in Nat : \A p \in PlanState : (IF i \in 1 .. n THEN addSegment(p, i, segments) ELSE p) \in PlanState
    BY <1>3
  <2>2. step \in [Nat -> [PlanState -> PlanState]]
    BY <1>4, <2>1
  <2>3. \A i \in 1 .. n : i \in Nat
    OBVIOUS
  <2> QED
    BY <1>4, <2>2, <2>3
<1>6. PICK g \in [0 .. n -> PlanState] : Iterates(g, base, step, n)
  BY <1>5, IterationExists
<1>7. g = [i \in 0 .. n |-> IF i = 0 THEN base ELSE addSegment(g[i - 1], i, segments)]
  <2>1. \A i \in 0 .. n : i # 0 => i \in 1 .. n /\ i - 1 \in 0 .. n
    BY <1>1
  <2> QED
    BY <1>5, <1>6, <2>1 DEF Iterates
<1>8. PICK f : f = CHOOSE h : h = [i \in 0 .. n |-> IF i = 0 THEN base ELSE addSegment(h[i - 1], i, segments)]
  OBVIOUS
<1>9. f = [i \in 0 .. n |-> IF i = 0 THEN base ELSE addSegment(f[i - 1], i, segments)]
  BY <1>7, <1>8
<1>10. planParts(segments) = f[n].parts
  BY <1>1, <1>2, <1>8 DEF planParts
<1> DEFINE T == {i \in 0 .. n : Planning(f[i], segments, i)}
<1>11. 0 \in T
  <2>1. base.parts = <<>> /\ base.first = 1 /\ base.chars = 0 /\ Len(<<>>) = 0 /\ 1 .. 0 = {}
    BY <1>2
  <2>2. CharsOf(segments, 1, 0) = 0
    BY <2>1, CharsAdd
  <2>3. 0 < Target(0 + 1)
    BY TargetsArePositive
  <2>4. Planning(base, segments, 0)
    BY <2>1, <2>2, <2>3 DEF Planning
  <2>5. 0 \in 0 .. n /\ f[0] = base
    BY <1>9
  <2> QED
    BY <2>4, <2>5
<1>12. ASSUME NEW i \in 1 .. n, i - 1 \in T
       PROVE  i \in T
  <2>1. i \in 0 .. n /\ i # 0 /\ i \in 1 .. Len(segments)
    BY <1>1
  <2>2. Planning(f[i - 1], segments, i - 1)
    BY <1>12
  <2>3. Planning(addSegment(f[i - 1], i, segments), segments, i)
    BY <2>1, <2>2, AddSegmentPreserves
  <2>4. f[i] = addSegment(f[i - 1], i, segments)
    BY <1>9, <2>1
  <2> QED
    BY <2>1, <2>3, <2>4
<1> HIDE DEF T
<1>13. Planning(f[n], segments, n)
  <2>1. n \in 0 .. n
    BY <1>1
  <2>2. n \in T
    BY <1>1, <1>11, <1>12, <2>1, BoundReached
  <2> QED
    BY <2>2 DEF T
<1>14. PICK parts \in Seq(Part), first \in Nat :
         /\ parts = f[n].parts /\ first = f[n].first /\ first = n + 1
         /\ first = IF parts = <<>> THEN 1 ELSE parts[Len(parts)].lastSegment + 1
         /\ \A k \in 1 .. Len(parts) : FollowOn(parts, k) /\ Closed(segments, parts, k, n)
  BY <1>1, <1>13 DEF Planning, PlanState
<1>15. PICK m \in Nat : m = Len(parts) /\ DOMAIN parts = 1 .. m /\ \A k \in 1 .. m : parts[k] \in Part
  OBVIOUS
<1>16. segments # <<>> => parts # <<>> /\ parts[Len(parts)].lastSegment = Len(segments)
  <2>1. segments # <<>> => n # 0
    BY <1>1, NoElement
  <2>2. parts # <<>> => m \in 1 .. m
    BY <1>15, NoParts
  <2>3. parts # <<>> => parts[m].lastSegment \in Nat
    BY <1>15, <2>2 DEF Part
  <2> QED
    BY <1>1, <1>14, <1>15, <2>1, <2>3
<1>17. ASSUME NEW k \in DOMAIN parts, k < Len(parts)
       PROVE  parts[k].lastSegment < Len(segments)
  <2>1. k \in 1 .. m /\ k + 1 \in 1 .. m /\ (k + 1) - 1 = k /\ k + 1 # 1
    BY <1>15, <1>17
  <2>2. FollowOn(parts, k + 1) /\ Closed(segments, parts, k + 1, n)
    BY <1>14, <1>15, <2>1
  <2>3. parts[k + 1].firstSegment = parts[k].lastSegment + 1
    BY <2>1, <2>2 DEF FollowOn
  <2>4. parts[k + 1].firstSegment <= parts[k + 1].lastSegment /\ parts[k + 1].lastSegment <= n
    BY <2>2 DEF Closed
  <2>5. parts[k] \in Part /\ parts[k + 1] \in Part
    BY <1>15, <2>1
  <2>6. parts[k].lastSegment \in Nat /\ parts[k + 1].firstSegment \in Nat /\ parts[k + 1].lastSegment \in Nat
    BY <2>5 DEF Part
  <2> QED
    BY <1>1, <2>3, <2>4, <2>6
<1>18. ASSUME NEW k \in DOMAIN parts
       PROVE  /\ parts[k].firstSegment = (IF k = 1 THEN 1 ELSE parts[k - 1].lastSegment + 1)
              /\ parts[k].firstSegment <= parts[k].lastSegment
              /\ CharsOf(segments, parts[k].firstSegment, parts[k].lastSegment - 1) < Target(k)
              /\ k < Len(parts) => CharsOf(segments, parts[k].firstSegment, parts[k].lastSegment) >= Target(k)
  <2>1. FollowOn(parts, k) /\ Closed(segments, parts, k, n)
    BY <1>14, <1>15
  <2> QED
    BY <1>17, <2>1 DEF FollowOn, Closed
<1>19. planParts(segments) = parts
  BY <1>10, <1>14
<1> QED
  BY <1>16, <1>18, <1>19 DEF PartsCoverSegments, CharsOf, Target

\* The listening parts of any text follow each other over all its segments, and
\* each but the last closes as soon as it reaches its target (part-plan.ts).
THEOREM PartsCoverSegmentsHolds ==
  \A tokens \in Seq(Token) : PartsCoverSegments(buildSsmlSegments(tokens))
<1> SUFFICES ASSUME NEW tokens \in Seq(Token)
             PROVE  PartsCoverSegments(buildSsmlSegments(tokens))
  OBVIOUS
<1>1. PICK sentences \in Seq(Seq(Token)) :
        /\ sentences = splitSentences(tokens)
        /\ \A n \in 1 .. Len(sentences) : sentences[n] # <<>>
  BY SentencesAreWhole
<1>2. PICK s : Filling(s, FlattenSeq(sentences), MayEnd(sentences)) /\ segmentsOf(sentences) = s.done
  BY <1>1, SegmentsFilled
<1>3. PICK segments \in Seq(Seq(Token)) : segments = s.done /\ segments = segmentsOf(sentences)
  BY <1>2 DEF Filling, SegmentState
<1>4. \A k \in 1 .. Len(segments) : segments[k] # <<>>
  BY <1>2, <1>3 DEF Filling
<1> QED
  BY <1>1, <1>3, <1>4, PartsOfSegments DEF buildSsmlSegments

-----------------------------------------------------------------------------
(* A part as it is heard: its segments joined, with the times of its words.  *)

\* The segments of a part, numbered on from its first word, and their audio.
SegmentToTime == [times : Seq(Nat \cup {Missing}), pages : Seq(Nat), firstWordIndex : Nat]
SegmentsOfPart(segments, chunks) ==
  /\ segments \in Seq(SegmentToTime) /\ chunks \in Seq(Chunk) /\ Len(chunks) = Len(segments)
  /\ \A k \in 1 .. Len(segments) :
       /\ Len(segments[k].pages) = Len(segments[k].times)
       /\ k > 1 => segments[k].firstWordIndex = segments[k - 1].firstWordIndex + Len(segments[k - 1].times)

\* What is heard of the first k segments.
Heard(chunks, k) == SumFunction([i \in 1 .. k |-> FrameMs * chunks[i].frames])

LEMMA HeardGrows ==
  ASSUME NEW chunks \in Seq(Chunk), NEW k \in 0 .. Len(chunks)
  PROVE  /\ Heard(chunks, k) \in Nat /\ Heard(chunks, 0) = 0
         /\ k > 0 => /\ chunks[k].frames \in Nat /\ FrameMs * chunks[k].frames \in Nat
                     /\ Heard(chunks, k - 1) \in Nat
                     /\ Heard(chunks, k) = Heard(chunks, k - 1) + FrameMs * chunks[k].frames
<1>1. PICK n \in Nat : n = Len(chunks)
  OBVIOUS
<1>2. ASSUME NEW i \in 1 .. n PROVE chunks[i].frames \in Nat /\ FrameMs * chunks[i].frames \in Nat
  <2>1. chunks[i] \in Chunk
    BY <1>1
  <2>2. PICK a \in Nat : a = chunks[i].frames
    BY <2>1 DEF Chunk
  <2>3. PICK b \in Nat : b = FrameMs
    BY DeliveryAssumption
  <2>4. b * a \in Nat
    OBVIOUS
  <2> QED
    BY <2>2, <2>3, <2>4
<1>3. PICK f : f = [i \in 1 .. n |-> FrameMs * chunks[i].frames]
  OBVIOUS
<1>4. ASSUME NEW j \in 0 .. n PROVE Heard(chunks, j) = SumFunction([i \in 1 .. j |-> f[i]])
  <2>1. \A i \in 1 .. j : i \in 1 .. n
    OBVIOUS
  <2>2. [i \in 1 .. j |-> f[i]] = [i \in 1 .. j |-> FrameMs * chunks[i].frames]
    BY <1>3, <2>1
  <2> QED
    BY <2>2 DEF Heard
<1>5. Heard(chunks, 0) = 0
  <2>1. PICK g : g = [i \in 1 .. 0 |-> FrameMs * chunks[i].frames]
    OBVIOUS
  <2>2. DOMAIN g = {}
    BY <2>1
  <2> QED
    BY <2>1, <2>2, SumEmpty DEF Heard, SumFunction
<1>6. CASE k = 0
  BY <1>5, <1>6
<1>7. CASE k > 0
  <2>1. PICK j \in Nat : j = k - 1 /\ j + 1 = k /\ j \in 0 .. n /\ k \in 0 .. n /\ k \in 1 .. n
    BY <1>1, <1>7
  <2>2. \A i \in 1 .. j + 1 : f[i] \in Nat
    BY <1>2, <1>3, <2>1
  <2>3. /\ SumFunction([i \in 1 .. j |-> f[i]]) \in Nat
        /\ SumFunction([i \in 1 .. j + 1 |-> f[i]]) = SumFunction([i \in 1 .. j |-> f[i]]) + f[j + 1]
    BY <2>2, SumGrows
  <2>4. Heard(chunks, j) = SumFunction([i \in 1 .. j |-> f[i]])
        /\ Heard(chunks, k) = SumFunction([i \in 1 .. j + 1 |-> f[i]])
    BY <1>4, <2>1
  <2>5. f[j + 1] = FrameMs * chunks[k].frames /\ chunks[k].frames \in Nat /\ FrameMs * chunks[k].frames \in Nat
    BY <1>2, <1>3, <2>1
  <2>6. PICK a \in Nat, b \in Nat : a = Heard(chunks, j) /\ b = FrameMs * chunks[k].frames
    BY <2>3, <2>4, <2>5
  <2>7. Heard(chunks, k) = a + b
    BY <2>3, <2>4, <2>5, <2>6
  <2> QED
    BY <1>5, <2>1, <2>5, <2>6, <2>7
<1> QED
  BY <1>6, <1>7

\* The joined audio lasts as long as its segments together.
LEMMA JoinedIsHeard ==
  ASSUME NEW chunks \in Seq(Chunk), NEW k \in 0 .. Len(chunks)
  PROVE  mp3DurationMs(join(SubSeq(chunks, 1, k)).audio) = Heard(chunks, k)
<1>1. PICK n \in Nat : n = Len(chunks)
  OBVIOUS
<1>2. ASSUME NEW i \in 1 .. n PROVE chunks[i] \in Chunk /\ chunks[i].frames \in Nat
  <2>1. chunks[i] \in Chunk
    BY <1>1
  <2> QED
    BY <2>1 DEF Chunk
<1>3. PICK f : f = [i \in 1 .. n |-> chunks[i].frames]
  OBVIOUS
<1> DEFINE N(j) == SumFunction([i \in 1 .. j |-> f[i]])
<1>4. ASSUME NEW j \in 0 .. n
      PROVE  mp3DurationMs(join(SubSeq(chunks, 1, j)).audio) = FrameMs * (N(j) + 0)
  <2>1. PICK sub : sub = SubSeq(chunks, 1, j)
    OBVIOUS
  <2>2. DOMAIN sub = 1 .. j /\ \A i \in 1 .. j : sub[i] = chunks[i]
    BY <1>1, <2>1, PrefixOf
  <2>3. \A i \in 1 .. j : mp3AudioFrames(sub[i]).frames = f[i]
    <3> SUFFICES ASSUME NEW i \in 1 .. j PROVE mp3AudioFrames(sub[i]).frames = f[i]
      OBVIOUS
    <3>1. i \in 1 .. n
      OBVIOUS
    <3>2. PICK c \in Chunk : c = chunks[i]
      BY <1>2, <3>1
    <3>3. [c EXCEPT !.cut = FALSE].frames = c.frames
      BY DEF Chunk
    <3> QED
      BY <1>3, <2>2, <3>1, <3>2, <3>3 DEF mp3AudioFrames
  <2>4. [i \in DOMAIN sub |-> mp3AudioFrames(sub[i]).frames] = [i \in 1 .. j |-> f[i]]
    BY <2>2, <2>3
  <2>5. join(sub).audio = [frames |-> N(j), cut |-> FALSE]
    BY <2>4 DEF join, Sum
  <2>6. PICK sum : sum = N(j)
    OBVIOUS
  <2>7. PICK audio : audio = join(sub).audio
    OBVIOUS
  <2> HIDE DEF N
  <2>8. audio.frames = sum /\ audio.cut = FALSE
    BY <2>5, <2>6, <2>7
  <2>9. mp3DurationMs(audio) = FrameMs * (sum + 0)
    BY <2>8 DEF mp3DurationMs
  <2> QED
    BY <2>1, <2>6, <2>7, <2>9
<1> DEFINE T == {j \in 0 .. n : N(j) \in Nat /\ FrameMs * N(j) = Heard(chunks, j)}
<1>5. 0 \in T
  <2>1. PICK g : g = [i \in 1 .. 0 |-> f[i]]
    OBVIOUS
  <2>2. DOMAIN g = {}
    BY <2>1
  <2>3. N(0) = 0
    BY <2>1, <2>2, SumEmpty DEF SumFunction
  <2>4. FrameMs * 0 = 0 /\ 0 \in 0 .. n /\ 0 \in 0 .. Len(chunks)
    BY <1>1, DeliveryAssumption
  <2>5. Heard(chunks, 0) = 0
    BY <2>4, HeardGrows
  <2> QED
    BY <2>3, <2>4, <2>5
<1>6. ASSUME NEW j \in 1 .. n, j - 1 \in T
      PROVE  j \in T
  <2>1. PICK m \in Nat : m = j - 1 /\ m + 1 = j /\ m \in T /\ j \in 0 .. n /\ j \in 0 .. Len(chunks) /\ j > 0
    <3> HIDE DEF T
    <3>1. j - 1 \in Nat /\ (j - 1) + 1 = j /\ j \in 0 .. n /\ j > 0
      OBVIOUS
    <3> QED
      BY <1>1, <1>6, <3>1
  <2>2. \A i \in 1 .. m + 1 : f[i] \in Nat
    BY <1>2, <1>3, <2>1
  <2>3. N(m) \in Nat /\ N(m + 1) = N(m) + f[m + 1]
    BY <2>2, SumGrows
  <2>4. FrameMs * N(m) = Heard(chunks, m)
    BY <2>1
  <2>5. f[j] = chunks[j].frames /\ Heard(chunks, j) = Heard(chunks, m) + FrameMs * chunks[j].frames
        /\ chunks[j].frames \in Nat
    BY <1>3, <2>1, HeardGrows
  <2> HIDE DEF N
  <2>6. PICK a \in Nat, b \in Nat, c \in Nat : a = N(m) /\ b = chunks[j].frames /\ c = FrameMs
    BY <2>3, <2>5, DeliveryAssumption
  <2>7. c * (a + b) = c * a + c * b /\ a + b \in Nat
    OBVIOUS
  <2>8. N(j) = a + b
    BY <2>1, <2>3, <2>5, <2>6
  <2>9. FrameMs * N(j) = Heard(chunks, j)
    BY <2>4, <2>5, <2>6, <2>7, <2>8
  <2> QED
    BY <2>1, <2>7, <2>8, <2>9
<1> HIDE DEF T, N
<1>7. k \in 0 .. n
  BY <1>1
<1>8. k \in T
  BY <1>1, <1>5, <1>6, <1>7, BoundReached
<1>9. N(k) \in Nat /\ FrameMs * N(k) = Heard(chunks, k)
  BY <1>8 DEF T
<1> QED
  BY <1>4, <1>7, <1>9

\* The words of the segment k, in its part.
TimedWord == [index : Nat, page : Nat, startMs : Nat, endMs : Nat]
WordsOf(segments, chunks, k) ==
  LET s == TimelineSegment(segments[k], FrameMs * chunks[k].frames)
  IN timedWords(s, wordStarts(s), Heard(chunks, k - 1))
\* A word of the segment m is inside its audio.
SpokenIn(word, segments, chunks, m) ==
  /\ segments[m].firstWordIndex <= word.index
  /\ word.index <= segments[m].firstWordIndex + Len(segments[m].times) - 1
  /\ Heard(chunks, m - 1) <= word.startMs /\ word.startMs <= word.endMs /\ word.endMs <= Heard(chunks, m)

LEMMA SegmentFacts ==
  ASSUME NEW segments, NEW chunks, SegmentsOfPart(segments, chunks), NEW k \in 1 .. Len(segments)
  PROVE  /\ segments[k].times \in Seq(Nat \cup {Missing}) /\ segments[k].pages \in Seq(Nat)
         /\ segments[k].firstWordIndex \in Nat /\ Len(segments[k].times) \in Nat
         /\ Len(segments[k].pages) = Len(segments[k].times)
         /\ k \in 1 .. Len(chunks) /\ k \in 0 .. Len(chunks) /\ k > 0
<1>1. segments \in Seq(SegmentToTime) /\ Len(chunks) = Len(segments)
      /\ Len(segments[k].pages) = Len(segments[k].times)
  BY DEF SegmentsOfPart
<1>2. segments[k] \in SegmentToTime
  BY <1>1
<1>3. /\ segments[k].times \in Seq(Nat \cup {Missing}) /\ segments[k].pages \in Seq(Nat)
      /\ segments[k].firstWordIndex \in Nat
  BY <1>2 DEF SegmentToTime
<1>4. Len(segments[k].times) \in Nat
  BY <1>3
<1>5. k \in 1 .. Len(chunks) /\ k \in 0 .. Len(chunks) /\ k > 0
  BY <1>1
<1> QED
  BY <1>1, <1>3, <1>4, <1>5

LEMMA WordsOfSegment ==
  ASSUME NEW segments, NEW chunks, SegmentsOfPart(segments, chunks), NEW k \in 1 .. Len(segments)
  PROVE  /\ WordsOf(segments, chunks, k) \in Seq(TimedWord)
         /\ Len(WordsOf(segments, chunks, k)) = Len(segments[k].times)
         /\ \A i \in 1 .. Len(segments[k].times) : SpokenIn(WordsOf(segments, chunks, k)[i], segments, chunks, k)
         /\ \A i \in 1 .. Len(segments[k].times) : i < Len(segments[k].times) =>
              WordsOf(segments, chunks, k)[i].endMs = WordsOf(segments, chunks, k)[i + 1].startMs
<1>1. PICK n \in Nat, first \in Nat, before \in Nat, d \in Nat :
        /\ n = Len(segments[k].times) /\ first = segments[k].firstWordIndex
        /\ before = Heard(chunks, k - 1) /\ d = FrameMs * chunks[k].frames /\ Heard(chunks, k) = before + d
  <2>1. chunks \in Seq(Chunk)
    BY DEF SegmentsOfPart
  <2>2. Heard(chunks, k - 1) \in Nat /\ FrameMs * chunks[k].frames \in Nat
        /\ Heard(chunks, k) = Heard(chunks, k - 1) + FrameMs * chunks[k].frames
    BY <2>1, SegmentFacts, HeardGrows
  <2>3. Len(segments[k].times) \in Nat /\ segments[k].firstWordIndex \in Nat
    BY SegmentFacts
  <2> QED
    BY <2>2, <2>3
<1>2. PICK s : s = TimelineSegment(segments[k], d)
  OBVIOUS
<1>3. /\ s.times = segments[k].times /\ s.pages = segments[k].pages /\ s.firstWordIndex = first
      /\ s.durationMs = d /\ s.times \in Seq(Nat \cup {Missing}) /\ Len(s.times) = n
      /\ s.pages \in Seq(Nat) /\ Len(s.pages) = n
  BY <1>1, <1>2, SegmentFacts DEF TimelineSegment
<1>4. PICK words : words = timedWords(s, wordStarts(s), before)
  OBVIOUS
<1>5. WordsOf(segments, chunks, k) = words
  BY <1>1, <1>2, <1>4 DEF WordsOf
<1>6. /\ DOMAIN words = 1 .. n
      /\ \A i \in 1 .. n : /\ before <= words[i].startMs /\ words[i].startMs <= words[i].endMs
                           /\ words[i].endMs <= before + d
      /\ \A i \in 1 .. n : words[i].endMs = IF i < n THEN words[i + 1].startMs ELSE before + d
  BY <1>1, <1>3, <1>4, WordsFitTheirSegment, ZenonT(60)
<1>7. PICK starts \in [1 .. n -> Nat] : starts = wordStarts(s)
  BY <1>1, <1>3, WordStartsInOrder
<1>8. PICK end : end = [i \in 1 .. n |-> Earlier(IF i < n THEN starts[i + 1] ELSE d, d)]
  OBVIOUS
<1>9. \A i \in 1 .. n : end[i] \in Nat /\ Earlier(starts[i], d) \in Nat
  BY <1>7, <1>8 DEF Earlier
<1>10. ASSUME NEW i \in 1 .. n
       PROVE  words[i] = [index |-> first + i - 1, page |-> s.pages[i], startMs |-> before + Earlier(starts[i], d),
                          endMs |-> before + end[i]]
  <2>1. DOMAIN starts = 1 .. n /\ Len(starts) = n
    BY <1>7
  <2> QED
    BY <1>3, <1>4, <1>7, <1>8, <2>1 DEF timedWords
<1>11. ASSUME NEW i \in 1 .. n PROVE words[i] \in TimedWord /\ words[i].index = first + i - 1
  <2>1. first + i - 1 \in Nat /\ s.pages[i] \in Nat
    <3>1. PICK pages \in Seq(Nat) : pages = s.pages /\ Len(pages) = n
      BY <1>3
    <3>2. pages[i] \in Nat
      BY <3>1
    <3>3. first + i - 1 \in Nat
      OBVIOUS
    <3> QED
      BY <3>1, <3>2, <3>3
  <2>2. PICK a \in Nat, b \in Nat : a = Earlier(starts[i], d) /\ b = end[i]
    BY <1>9
  <2>3. before + a \in Nat /\ before + b \in Nat
    OBVIOUS
  <2>4. words[i] = [index |-> first + i - 1, page |-> s.pages[i], startMs |-> before + a, endMs |-> before + b]
    BY <1>10, <2>2
  <2> QED
    BY <2>1, <2>3, <2>4 DEF TimedWord
<1>12. words \in Seq(TimedWord) /\ Len(words) = n
  <2>1. words = [i \in 1 .. n |-> words[i]]
    <3>1. words = [i \in DOMAIN starts |-> [index |-> s.firstWordIndex + i - 1, page |-> s.pages[i],
                     startMs |-> before + Earlier(starts[i], s.durationMs),
                     endMs |-> before + Earlier(IF i < Len(starts) THEN starts[i + 1] ELSE s.durationMs, s.durationMs)]]
      BY <1>4, <1>7 DEF timedWords
    <3>2. DOMAIN starts = 1 .. n
      BY <1>7
    <3> QED
      BY <3>1, <3>2
  <2>2. words \in [1 .. n -> TimedWord]
    BY <1>11, <2>1
  <2> QED
    BY <2>2
<1>13. ASSUME NEW i \in 1 .. n PROVE SpokenIn(words[i], segments, chunks, k)
  <2>1. first <= first + i - 1 /\ first + i - 1 <= first + n - 1
    OBVIOUS
  <2> QED
    BY <1>1, <1>6, <1>11, <2>1 DEF SpokenIn
<1> QED
  BY <1>1, <1>5, <1>6, <1>12, <1>13

\* The words of the first k segments: all of them, each inside the audio of its
\* segment, one after the other.
WordCount(segments, k) == SumFunction([i \in 1 .. k |-> Len(segments[i].times)])
InPlace(words, segments, chunks, k) ==
  /\ words \in Seq(TimedWord)
  /\ Len(words) = WordCount(segments, k)
  /\ \A i \in 1 .. Len(words) : words[i].endMs <= Heard(chunks, k)
                                /\ \E m \in 1 .. k : SpokenIn(words[i], segments, chunks, m)
  /\ \A i \in 1 .. Len(words) : i < Len(words) => words[i].endMs <= words[i + 1].startMs

LEMMA CountGrows ==
  ASSUME NEW segments, NEW chunks, SegmentsOfPart(segments, chunks), NEW k \in 1 .. Len(segments)
  PROVE  /\ WordCount(segments, 0) = 0
         /\ WordCount(segments, k - 1) \in Nat
         /\ WordCount(segments, k) = WordCount(segments, k - 1) + Len(segments[k].times)
<1>1. PICK n \in Nat, j \in Nat : n = Len(segments) /\ j = k - 1 /\ j + 1 = k /\ k \in 1 .. n /\ j + 1 <= n
  <2>1. segments \in Seq(SegmentToTime)
    BY DEF SegmentsOfPart
  <2> QED
    BY <2>1
<1>2. PICK f : f = [i \in 1 .. n |-> Len(segments[i].times)]
  OBVIOUS
<1>3. \A i \in 1 .. j + 1 : i \in 1 .. n
  BY <1>1
<1>4. \A i \in 1 .. j + 1 : f[i] \in Nat /\ f[i] = Len(segments[i].times)
  BY <1>1, <1>2, <1>3, SegmentFacts
<1>5. /\ SumFunction([i \in 1 .. j |-> f[i]]) \in Nat
      /\ SumFunction([i \in 1 .. j + 1 |-> f[i]]) = SumFunction([i \in 1 .. j |-> f[i]]) + f[j + 1]
  BY <1>4, SumGrows
<1>6. /\ WordCount(segments, j) = SumFunction([i \in 1 .. j |-> f[i]])
      /\ WordCount(segments, j + 1) = SumFunction([i \in 1 .. j + 1 |-> f[i]])
  <2>1. \A i \in 1 .. j : i \in 1 .. j + 1
    OBVIOUS
  <2>2. /\ [i \in 1 .. j |-> f[i]] = [i \in 1 .. j |-> Len(segments[i].times)]
        /\ [i \in 1 .. j + 1 |-> f[i]] = [i \in 1 .. j + 1 |-> Len(segments[i].times)]
    BY <1>4, <2>1
  <2> QED
    BY <2>2 DEF WordCount
<1>7. WordCount(segments, 0) = 0
  <2>1. PICK g : g = [i \in 1 .. 0 |-> Len(segments[i].times)]
    OBVIOUS
  <2>2. DOMAIN g = {}
    BY <2>1
  <2> QED
    BY <2>1, <2>2, SumEmpty DEF WordCount, SumFunction
<1>8. f[j + 1] = Len(segments[k].times)
  BY <1>1, <1>4
<1> QED
  BY <1>1, <1>5, <1>6, <1>7, <1>8

PutTogether(r, s, t) ==
  /\ Len(r) = Len(s) + Len(t)
  /\ \A i \in 1 .. Len(s) : r[i] = s[i]
  /\ \A i \in 1 .. Len(t) : r[Len(s) + i] = t[i]

LEMMA JoinedItems ==
  ASSUME NEW W, NEW s \in Seq(W), NEW t \in Seq(W)
  PROVE  PutTogether(s \o t, s, t)
<1>1. ASSUME NEW i \in 1 .. Len(t) PROVE (s \o t)[Len(s) + i] = t[i]
  <2>1. Len(s) + i \in 1 .. Len(s) + Len(t) /\ Len(s) + i > Len(s) /\ (Len(s) + i) - Len(s) = i
    OBVIOUS
  <2> QED
    BY <2>1
<1>2. Len(s \o t) = Len(s) + Len(t) /\ \A i \in 1 .. Len(s) : (s \o t)[i] = s[i]
  OBVIOUS
<1> QED
  BY <1>1, <1>2 DEF PutTogether

\* The words of one more segment.
LEMMA WordsAdded ==
  ASSUME NEW segments, NEW chunks, SegmentsOfPart(segments, chunks), NEW k \in 1 .. Len(segments),
         NEW words, InPlace(words, segments, chunks, k - 1)
  PROVE  InPlace(words \o WordsOf(segments, chunks, k), segments, chunks, k)
<1>1. PICK more \in Seq(TimedWord), b \in Nat :
        /\ more = WordsOf(segments, chunks, k) /\ b = Len(more) /\ b = Len(segments[k].times)
        /\ \A i \in 1 .. b : SpokenIn(more[i], segments, chunks, k)
        /\ \A i \in 1 .. b : i < b => more[i].endMs = more[i + 1].startMs
  <2>1. Len(segments[k].times) \in Nat
    BY SegmentFacts
  <2> QED
    BY <2>1, WordsOfSegment, SMTT(60)
<1>2. PICK a \in Nat : /\ words \in Seq(TimedWord) /\ a = Len(words) /\ a = WordCount(segments, k - 1)
                       /\ \A i \in 1 .. a : words[i].endMs <= Heard(chunks, k - 1)
                                            /\ \E m \in 1 .. k - 1 : SpokenIn(words[i], segments, chunks, m)
                       /\ \A i \in 1 .. a : i < a => words[i].endMs <= words[i + 1].startMs
  BY DEF InPlace
<1>3. PICK all \in Seq(TimedWord) :
        /\ all = words \o more /\ Len(all) = a + b
        /\ \A i \in 1 .. a : all[i] = words[i]
        /\ \A i \in 1 .. b : all[a + i] = more[i]
  <2>1. words \in Seq(TimedWord) /\ more \in Seq(TimedWord) /\ Len(words) = a /\ Len(more) = b
    BY <1>1, <1>2
  <2>2. PICK all : all = words \o more
    OBVIOUS
  <2>3. all \in Seq(TimedWord)
    BY <2>1, <2>2, JoinedType
  <2>4. PutTogether(words \o more, words, more)
    BY <2>1, JoinedItems
  <2>5. PutTogether(all, words, more)
    BY <2>2, <2>4
  <2>6. /\ Len(all) = a + b
        /\ \A i \in 1 .. a : all[i] = words[i]
        /\ \A i \in 1 .. b : all[a + i] = more[i]
    BY <2>1, <2>5 DEF PutTogether
  <2> QED
    BY <2>2, <2>3, <2>6
<1>4. PICK before \in Nat, now \in Nat :
        before = Heard(chunks, k - 1) /\ now = Heard(chunks, k) /\ before <= now
  <2>1. chunks \in Seq(Chunk)
    BY DEF SegmentsOfPart
  <2>2. Heard(chunks, k - 1) \in Nat /\ Heard(chunks, k) \in Nat /\ FrameMs * chunks[k].frames \in Nat
        /\ Heard(chunks, k) = Heard(chunks, k - 1) + FrameMs * chunks[k].frames
    BY <2>1, SegmentFacts, HeardGrows
  <2>3. Heard(chunks, k - 1) <= Heard(chunks, k)
    BY <2>2
  <2> QED
    BY <2>2, <2>3
<1>5. \A i \in 1 .. a + b : i \in 1 .. a \/ (i - a \in 1 .. b /\ a + (i - a) = i)
  OBVIOUS
<1>6. \A i \in 1 .. a + b : all[i].endMs \in Nat /\ all[i].startMs \in Nat
  <2>1. \A i \in 1 .. a + b : all[i] \in TimedWord
    BY <1>3
  <2> QED
    BY <2>1 DEF TimedWord
<1>7. k - 1 \in Nat /\ k \in 1 .. k /\ \A m \in 1 .. k - 1 : m \in 1 .. k
  OBVIOUS
<1>8. ASSUME NEW i \in 1 .. a + b
      PROVE  all[i].endMs <= now /\ \E m \in 1 .. k : SpokenIn(all[i], segments, chunks, m)
  <2>1. CASE i \in 1 .. a
    <3>1. all[i] = words[i] /\ words[i].endMs <= before
      BY <1>2, <1>3, <1>4, <2>1
    <3>2. all[i].endMs <= now
      BY <1>4, <1>6, <3>1
    <3>3. PICK m \in 1 .. k - 1 : SpokenIn(words[i], segments, chunks, m)
      BY <1>2, <2>1
    <3> QED
      BY <1>7, <3>1, <3>2, <3>3
  <2>2. CASE i \notin 1 .. a
    <3>1. PICK j \in 1 .. b : a + j = i
      BY <1>5, <2>2
    <3>2. all[i] = more[j] /\ SpokenIn(more[j], segments, chunks, k)
      BY <1>1, <1>3, <3>1
    <3>3. all[i].endMs <= now
      BY <1>4, <3>2 DEF SpokenIn
    <3> QED
      BY <1>7, <3>2, <3>3
  <2> QED
    BY <2>1, <2>2
<1>9. ASSUME NEW i \in 1 .. a + b, i < a + b
      PROVE  all[i].endMs <= all[i + 1].startMs
  <2>1. i + 1 \in 1 .. a + b
    BY <1>9
  <2>2. CASE i < a
    <3>1. i \in 1 .. a /\ i + 1 \in 1 .. a
      BY <2>2
    <3>2. words[i].endMs <= words[i + 1].startMs
      BY <1>2, <2>2, <3>1
    <3> QED
      BY <1>3, <3>1, <3>2
  <2>3. CASE i = a
    <3>1. i \in 1 .. a /\ 1 \in 1 .. b
      BY <1>9, <2>3
    <3>2. all[i].endMs <= before
      BY <1>2, <1>3, <1>4, <3>1
    <3>3. all[i + 1] = more[1]
      BY <1>3, <2>3, <3>1
    <3>4. before <= all[i + 1].startMs
      BY <1>1, <1>4, <3>1, <3>3 DEF SpokenIn
    <3>5. PICK x \in Nat, y \in Nat : x = all[i].endMs /\ y = all[i + 1].startMs
      BY <1>6, <2>1
    <3>6. x <= before /\ before <= y
      BY <3>2, <3>4, <3>5
    <3>7. x <= y
      BY <3>6
    <3> QED
      BY <3>5, <3>7
  <2>4. CASE i > a
    <3>1. PICK j \in 1 .. b : a + j = i /\ j < b /\ j + 1 \in 1 .. b /\ a + (j + 1) = i + 1
      <4>1. i - a \in 1 .. b /\ a + (i - a) = i /\ i - a < b /\ (i - a) + 1 \in 1 .. b /\ a + ((i - a) + 1) = i + 1
        BY <1>9, <2>4
      <4> QED
        BY <4>1
    <3>2. all[i] = more[j] /\ all[i + 1] = more[j + 1]
      BY <1>3, <3>1
    <3>3. more[j].endMs = more[j + 1].startMs
      BY <1>1, <3>1
    <3> QED
      BY <1>6, <2>1, <3>2, <3>3
  <2> QED
    BY <2>2, <2>3, <2>4
<1>10. Len(all) = WordCount(segments, k)
  <2>1. WordCount(segments, k) = WordCount(segments, k - 1) + Len(segments[k].times)
    BY CountGrows
  <2> QED
    BY <1>1, <1>2, <1>3, <2>1
<1>11. InPlace(all, segments, chunks, k)
  BY <1>3, <1>4, <1>8, <1>9, <1>10 DEF InPlace
<1> QED
  BY <1>1, <1>3, <1>11

\* The numbers of the words of two segments are apart.
LEMMA NumbersApart ==
  ASSUME NEW segments, NEW chunks, SegmentsOfPart(segments, chunks),
         NEW m \in 1 .. Len(segments), NEW k \in 1 .. Len(segments), m < k
  PROVE  segments[m].firstWordIndex + Len(segments[m].times) <= segments[k].firstWordIndex
<1>1. PICK n \in Nat : n = Len(segments)
  <2>1. segments \in Seq(SegmentToTime)
    BY DEF SegmentsOfPart
  <2> QED
    BY <2>1
<1>2. PICK first, count : /\ first = [i \in 1 .. n |-> segments[i].firstWordIndex]
                          /\ count = [i \in 1 .. n |-> Len(segments[i].times)]
  OBVIOUS
<1>3. \A i \in 1 .. n : first[i] \in Nat /\ count[i] \in Nat
  BY <1>1, <1>2, SegmentFacts
<1>4. \A i \in 1 .. n : i > 1 => first[i] = first[i - 1] + count[i - 1]
  <2> SUFFICES ASSUME NEW i \in 1 .. n, i > 1 PROVE first[i] = first[i - 1] + count[i - 1]
    OBVIOUS
  <2>1. i - 1 \in 1 .. n /\ i \in 1 .. Len(segments)
    BY <1>1
  <2>2. segments[i].firstWordIndex = segments[i - 1].firstWordIndex + Len(segments[i - 1].times)
    BY <2>1 DEF SegmentsOfPart
  <2> QED
    BY <1>2, <2>1, <2>2
<1> DEFINE T == {j \in 0 .. n : m < j => first[m] + count[m] <= first[j]}
<1>5. m \in 1 .. n /\ k \in 1 .. n /\ k \in 0 .. n
  BY <1>1
<1>6. 0 \in T
  BY <1>5
<1>7. ASSUME NEW j \in 1 .. n, j - 1 \in T PROVE j \in T
  <2>1. j \in 0 .. n
    OBVIOUS
  <2>2. ASSUME m < j PROVE first[m] + count[m] <= first[j]
    <3>1. j > 1 /\ j - 1 \in 1 .. n /\ (m = j - 1 \/ m < j - 1)
      BY <1>5, <2>2
    <3>2. first[j] = first[j - 1] + count[j - 1]
      BY <1>4, <3>1
    <3>3. PICK a \in Nat, b \in Nat, c \in Nat, d \in Nat :
            a = first[m] /\ b = count[m] /\ c = first[j - 1] /\ d = count[j - 1]
      BY <1>3, <1>5, <3>1
    <3>4. m < j - 1 => a + b <= c
      BY <1>7, <3>3
    <3>5. m = j - 1 => a = c /\ b = d
      BY <3>3
    <3>6. CASE m = j - 1
      BY <3>2, <3>3, <3>5, <3>6
    <3>7. CASE m < j - 1
      <4>1. a + b <= c /\ c <= c + d
        BY <3>4, <3>7
      <4>2. a + b <= c + d
        BY <4>1
      <4> QED
        BY <3>2, <3>3, <4>2
    <3> QED
      BY <3>1, <3>6, <3>7
  <2> QED
    BY <2>1, <2>2
<1> HIDE DEF T
<1>8. k \in T
  BY <1>1, <1>5, <1>6, <1>7, BoundReached
<1>9. first[m] + count[m] <= first[k]
  BY <1>8 DEF T
<1> QED
  BY <1>2, <1>5, <1>9

LEMMA NoWordYet == ASSUME NEW segments, NEW chunks PROVE InPlace(<<>>, segments, chunks, 0)
<1>1. WordCount(segments, 0) = 0
  <2>1. PICK g : g = [i \in 1 .. 0 |-> Len(segments[i].times)]
    OBVIOUS
  <2>2. DOMAIN g = {}
    BY <2>1
  <2> QED
    BY <2>1, <2>2, SumEmpty DEF WordCount, SumFunction
<1>2. PICK words \in Seq(TimedWord) : words = <<>> /\ Len(words) = 0
  <2>1. <<>> \in Seq(TimedWord) /\ Len(<<>>) = 0
    OBVIOUS
  <2> QED
    BY <2>1
<1>3. \A i \in 1 .. Len(words) : FALSE
  BY <1>2
<1>4. InPlace(words, segments, chunks, 0)
  BY <1>1, <1>2, <1>3 DEF InPlace
<1> QED
  BY <1>2, <1>4

\* A word belongs to the one segment it is spoken in.
LEMMA SegmentOfWord ==
  ASSUME NEW segments, NEW chunks, SegmentsOfPart(segments, chunks), NEW word \in TimedWord,
         NEW m \in 1 .. Len(segments), SpokenIn(word, segments, chunks, m)
  PROVE  (CHOOSE k \in DOMAIN segments :
            word.index \in segments[k].firstWordIndex ..
                           segments[k].firstWordIndex + Len(segments[k].times) - 1) = m
<1>1. PICK index \in Nat : index = word.index
  BY DEF TimedWord
<1>2. PICK n \in Nat : n = Len(segments) /\ DOMAIN segments = 1 .. n
  <2>1. segments \in Seq(SegmentToTime)
    BY DEF SegmentsOfPart
  <2> QED
    BY <2>1
<1>3. PICK first, count : /\ first = [i \in 1 .. n |-> segments[i].firstWordIndex]
                          /\ count = [i \in 1 .. n |-> Len(segments[i].times)]
  OBVIOUS
<1>4. \A i \in 1 .. n : /\ first[i] \in Nat /\ count[i] \in Nat
                        /\ first[i] = segments[i].firstWordIndex /\ count[i] = Len(segments[i].times)
  BY <1>2, <1>3, SegmentFacts
<1>5. ASSUME NEW i \in 1 .. n, NEW k \in 1 .. n, i < k PROVE first[i] + count[i] <= first[k]
  BY <1>2, <1>4, <1>5, NumbersApart
<1>6. m \in 1 .. n /\ first[m] <= index /\ index <= first[m] + count[m] - 1
  BY <1>1, <1>2, <1>4 DEF SpokenIn
<1>7. ASSUME NEW k \in 1 .. n PROVE index \in first[k] .. first[k] + count[k] - 1 <=> k = m
  <2>1. PICK a \in Nat, b \in Nat, c \in Nat, d \in Nat :
          a = first[m] /\ b = count[m] /\ c = first[k] /\ d = count[k]
    BY <1>4, <1>6
  <2>2. k < m => c + d <= a
    BY <1>5, <1>6, <2>1
  <2>3. m < k => a + b <= c
    BY <1>5, <1>6, <2>1
  <2>4. a <= index /\ index <= a + b - 1
    BY <1>6, <2>1
  <2>5. index \in c .. c + d - 1 <=> k = m
    <3>1. CASE k < m
      <4>1. ~(index <= c + d - 1) /\ k # m
        BY <2>2, <2>4, <3>1
      <4> QED
        BY <4>1
    <3>2. CASE m < k
      <4>1. ~(c <= index) /\ k # m
        BY <2>3, <2>4, <3>2
      <4> QED
        BY <4>1
    <3>3. CASE k = m
      <4>1. a = c /\ b = d
        BY <2>1, <3>3
      <4> QED
        BY <2>4, <3>3, <4>1
    <3>4. k < m \/ m < k \/ k = m
      BY <1>6
    <3> QED
      BY <3>1, <3>2, <3>3, <3>4
  <2> QED
    BY <2>1, <2>5
<1>8. ASSUME NEW k \in DOMAIN segments
      PROVE  word.index \in segments[k].firstWordIndex .. segments[k].firstWordIndex + Len(segments[k].times) - 1
             <=> k = m
  BY <1>1, <1>2, <1>4, <1>7
<1>9. m \in DOMAIN segments
  BY <1>2, <1>6
<1> QED
  BY <1>8, <1>9

\* The timeline of a part is the words of its segments, one segment after the other.
LEMMA TimelineIsFlat ==
  ASSUME NEW segments, NEW chunks, SegmentsOfPart(segments, chunks)
  PROVE  buildPartTimeline([k \in DOMAIN segments |->
           TimelineSegment(segments[k], join(chunks).durationsMs[k])])
         = FlattenSeq([k \in 1 .. Len(segments) |-> WordsOf(segments, chunks, k)])
<1>1. PICK n \in Nat : /\ n = Len(segments) /\ n = Len(chunks) /\ DOMAIN segments = 1 .. n /\ DOMAIN chunks = 1 .. n
                       /\ chunks \in Seq(Chunk)
  <2>1. segments \in Seq(SegmentToTime) /\ chunks \in Seq(Chunk) /\ Len(chunks) = Len(segments)
    BY DEF SegmentsOfPart
  <2> QED
    BY <2>1
<1>2. PICK d : d = [k \in 1 .. n |-> FrameMs * chunks[k].frames]
  OBVIOUS
<1>3. ASSUME NEW k \in 1 .. n PROVE join(chunks).durationsMs[k] = d[k]
  <2>1. PICK c \in Chunk : c = chunks[k]
    BY <1>1
  <2>2. PICK a \in Nat : a = c.frames
    BY <2>1 DEF Chunk
  <2>3. PICK whole : whole = mp3AudioFrames(c)
    OBVIOUS
  <2>4. whole.frames = a /\ whole.cut = FALSE
    BY <2>1, <2>2, <2>3 DEF mp3AudioFrames, Chunk
  <2>5. mp3DurationMs(whole) = FrameMs * (a + 0) /\ a + 0 = a
    BY <2>4 DEF mp3DurationMs
  <2>6. join(chunks).durationsMs[k] = mp3DurationMs(whole)
    BY <1>1, <2>1, <2>3 DEF join
  <2> QED
    BY <1>2, <2>1, <2>2, <2>5, <2>6
<1>4. PICK timed : timed = [k \in 1 .. n |-> TimelineSegment(segments[k], d[k])]
  OBVIOUS
<1>5. [k \in DOMAIN segments |-> TimelineSegment(segments[k], join(chunks).durationsMs[k])] = timed
  BY <1>1, <1>3, <1>4
<1>6. ASSUME NEW k \in 1 .. n PROVE timed[k].durationMs = d[k]
  BY <1>4 DEF TimelineSegment
<1>7. ASSUME NEW k \in 1 .. n
      PROVE  Sum([i \in 1 .. k - 1 |-> timed[i].durationMs]) = Heard(chunks, k - 1)
  <2>1. \A i \in 1 .. k - 1 : i \in 1 .. n
    OBVIOUS
  <2>2. [i \in 1 .. k - 1 |-> timed[i].durationMs] = [i \in 1 .. k - 1 |-> FrameMs * chunks[i].frames]
    BY <1>2, <1>6, <2>1
  <2> QED
    BY <2>2 DEF Sum, Heard
<1>8. ASSUME NEW k \in 1 .. n
      PROVE  timedWords(timed[k], wordStarts(timed[k]), Sum([i \in 1 .. k - 1 |-> timed[i].durationMs]))
             = WordsOf(segments, chunks, k)
  <2>1. timed[k] = TimelineSegment(segments[k], FrameMs * chunks[k].frames)
    BY <1>2, <1>4
  <2> QED
    BY <1>7, <2>1 DEF WordsOf
<1>9. DOMAIN timed = 1 .. n
  BY <1>4
<1>10. buildPartTimeline(timed) = FlattenSeq([k \in 1 .. n |-> WordsOf(segments, chunks, k)])
  BY <1>8, <1>9 DEF buildPartTimeline
<1> QED
  BY <1>1, <1>5, <1>10

\* What TimelineFitsAudio says of a run is so for any segments and any audio: the
\* words of a part are in order, inside the audio that is really there, and a
\* cue is never empty (buildPartTimeline, assemble-part.use-case.ts).
THEOREM TimelineFitsAudioHolds ==
  ASSUME NEW segments, NEW chunks, SegmentsOfPart(segments, chunks)
  PROVE  TimelineFitsAudio(segments, chunks)
<1>1. PICK n \in Nat : n = Len(segments) /\ n = Len(chunks) /\ DOMAIN segments = 1 .. n /\ chunks \in Seq(Chunk)
  <2>1. segments \in Seq(SegmentToTime) /\ chunks \in Seq(Chunk) /\ Len(chunks) = Len(segments)
    BY DEF SegmentsOfPart
  <2> QED
    BY <2>1
<1>2. PICK pieces \in Seq(Seq(TimedWord)) :
        /\ pieces = [k \in 1 .. n |-> WordsOf(segments, chunks, k)] /\ Len(pieces) = n
        /\ \A k \in 1 .. n : pieces[k] = WordsOf(segments, chunks, k)
  <2>1. \A k \in 1 .. n : WordsOf(segments, chunks, k) \in Seq(TimedWord)
    BY <1>1, WordsOfSegment
  <2>2. PICK f : f = [k \in 1 .. n |-> WordsOf(segments, chunks, k)]
    OBVIOUS
  <2>3. f \in [1 .. n -> Seq(TimedWord)]
    BY <2>1, <2>2
  <2>4. f \in Seq(Seq(TimedWord)) /\ Len(f) = n
    BY <2>3
  <2> QED
    BY <2>2, <2>4
<1> DEFINE T == {k \in 0 .. n : InPlace(FlattenSeq(SubSeq(pieces, 1, k)), segments, chunks, k)}
<1>3. 0 \in T
  <2>1. SubSeq(pieces, 1, 0) = <<>>
    BY <1>2
  <2>2. InPlace(FlattenSeq(SubSeq(pieces, 1, 0)), segments, chunks, 0)
    BY <2>1, FlattenEmpty, NoWordYet
  <2> QED
    BY <2>2
<1>4. ASSUME NEW k \in 1 .. n, k - 1 \in T PROVE k \in T
  <2>1. InPlace(FlattenSeq(SubSeq(pieces, 1, k - 1)), segments, chunks, k - 1)
    BY <1>4
  <2>2. k \in 1 .. Len(pieces) /\ k \in 1 .. Len(segments) /\ k \in 0 .. n
    BY <1>1, <1>2
  <2>3. FlattenSeq(SubSeq(pieces, 1, k)) = FlattenSeq(SubSeq(pieces, 1, k - 1)) \o pieces[k]
    BY <2>2, FlattenPrefix
  <2>4. pieces[k] = WordsOf(segments, chunks, k)
    BY <1>2
  <2>5. PICK before : before = FlattenSeq(SubSeq(pieces, 1, k - 1))
    OBVIOUS
  <2>6. InPlace(before \o WordsOf(segments, chunks, k), segments, chunks, k)
    BY <2>1, <2>2, <2>5, WordsAdded
  <2>7. InPlace(FlattenSeq(SubSeq(pieces, 1, k)), segments, chunks, k)
    BY <2>3, <2>4, <2>5, <2>6
  <2> QED
    BY <2>2, <2>7
<1> HIDE DEF T
<1>5. n \in T
  <2>1. n \in 0 .. n
    OBVIOUS
  <2> QED
    BY <1>3, <1>4, <2>1, BoundReached
<1>6. SubSeq(pieces, 1, n) = pieces
  BY <1>2
<1>7. PICK words : words = FlattenSeq(pieces)
  OBVIOUS
<1>8. InPlace(words, segments, chunks, n)
  BY <1>5, <1>6, <1>7 DEF T
<1>9. PICK cues : cues = buildWebVtt(words)
  OBVIOUS
<1>10. PICK count \in Nat : /\ words \in Seq(TimedWord) /\ count = Len(words) /\ DOMAIN words = 1 .. count
                            /\ count = WordCount(segments, n)
  BY <1>8 DEF InPlace
<1>11. ASSUME NEW i \in 1 .. count
       PROVE  LET segment == CHOOSE k \in DOMAIN segments :
                    words[i].index \in segments[k].firstWordIndex ..
                                       segments[k].firstWordIndex + Len(segments[k].times) - 1
                  heard(k) == mp3DurationMs(join(SubSeq(chunks, 1, k)).audio)
              IN /\ words[i].startMs <= words[i].endMs
                 /\ words[i].startMs >= (IF segment = 1 THEN 0 ELSE heard(segment - 1))
                 /\ words[i].endMs <= heard(segment)
  <2>1. words[i] \in TimedWord
    BY <1>10
  <2>2. words[i].startMs \in Nat /\ words[i].endMs \in Nat
    BY <2>1 DEF TimedWord
  <2>3. PICK m \in 1 .. n : SpokenIn(words[i], segments, chunks, m)
    BY <1>8, <1>10 DEF InPlace
  <2>4. (CHOOSE k \in DOMAIN segments :
           words[i].index \in segments[k].firstWordIndex ..
                              segments[k].firstWordIndex + Len(segments[k].times) - 1) = m
    BY <1>1, <2>1, <2>3, SegmentOfWord
  <2>5. m \in 0 .. Len(chunks) /\ m - 1 \in 0 .. Len(chunks)
    BY <1>1
  <2>6. /\ mp3DurationMs(join(SubSeq(chunks, 1, m)).audio) = Heard(chunks, m)
        /\ mp3DurationMs(join(SubSeq(chunks, 1, m - 1)).audio) = Heard(chunks, m - 1)
    BY <1>1, <2>5, JoinedIsHeard
  <2>7. Heard(chunks, m) \in Nat /\ Heard(chunks, m - 1) \in Nat
    BY <1>1, <2>5, HeardGrows
  <2>8. /\ Heard(chunks, m - 1) <= words[i].startMs /\ words[i].startMs <= words[i].endMs
        /\ words[i].endMs <= Heard(chunks, m)
    BY <2>3 DEF SpokenIn
  <2>9. words[i].startMs >= (IF m = 1 THEN 0 ELSE Heard(chunks, m - 1))
    BY <2>2, <2>7, <2>8
  <2> QED
    BY <2>4, <2>6, <2>8, <2>9
<1>12. ASSUME NEW i \in 1 .. count
       PROVE  /\ i < Len(words) => words[i].endMs <= words[i + 1].startMs
              /\ cues[i].startMs < cues[i].endMs /\ cues[i].endMs <= Later(words[i].endMs, cues[i].startMs + 1)
  <2>1. i < Len(words) => words[i].endMs <= words[i + 1].startMs
    BY <1>8, <1>10 DEF InPlace
  <2>2. words[i] \in TimedWord
    BY <1>10
  <2>3. PICK a \in Nat, b \in Nat : a = words[i].startMs /\ b = words[i].endMs
    BY <2>2 DEF TimedWord
  <2>4. cues[i] = [startMs |-> a, endMs |-> Later(b, a + 1)]
    BY <1>9, <1>10, <2>3 DEF buildWebVtt
  <2>5. a < Later(b, a + 1) /\ Later(b, a + 1) <= Later(b, a + 1)
    BY DEF Later
  <2>6. cues[i].startMs = a /\ cues[i].endMs = Later(b, a + 1)
    BY <2>4
  <2> QED
    BY <2>1, <2>3, <2>5, <2>6
<1>13. Len(words) = Sum([k \in DOMAIN segments |-> Len(segments[k].times)])
  BY <1>1, <1>10 DEF WordCount, Sum
<1>14. WordsFitAudio(words, cues, segments, chunks)
  BY <1>10, <1>11, <1>12, <1>13 DEF WordsFitAudio
<1>15. buildPartTimeline([k \in DOMAIN segments |->
         TimelineSegment(segments[k], join(chunks).durationsMs[k])]) = words
  BY <1>1, <1>2, <1>7, TimelineIsFlat
<1> QED
  BY <1>9, <1>14, <1>15 DEF TimelineFitsAudio, CuesFitAudio

-----------------------------------------------------------------------------
(* The answers of the outside services, and the files that keep them.        *)

\* Of some places, one is the last.
LEMMA LastPlace ==
  ASSUME NEW n \in Nat, NEW S, S \subseteq 1 .. n, S # {}
  PROVE  Max(S) \in S
<1>1. S \subseteq Nat /\ \A m \in S : m <= n
  OBVIOUS
<1>2. \E x \in S : \A y \in S : y <= x
  BY <1>1, GreatestNatural
<1>3. PICK x \in S : \A y \in S : y <= x
  BY <1>2
<1>4. \A y \in S : x >= y
  BY <1>1, <1>3
<1> QED
  BY <1>4 DEF Max

\* The lines of a stream of marks, and a file of the cache.
MarkLine(wordCount) ==
  [kind : {"ssml"}, word : 1 .. wordCount, time : Nat] \cup [kind : {"sentence", "blank", "unreadable"}]
SpeechAnswer == [error : {"none", "request", "other"}, empty : BOOLEAN, chunk : Chunk]
MarksAnswer(wordCount) ==
  [error : {"none", "request", "other"}, empty : BOOLEAN, lines : Seq(MarkLine(wordCount))]
TimesGiven(files) ==
  files.marks # <<>> /\ files.marks[1].readable =>
    \A i \in DOMAIN files.marks[1].marks : files.marks[1].marks[i].time \in Nat
CachedMark == [kind : {"ssml"}, word : Nat, time : Nat]
CacheEntry == [readable : {FALSE}] \cup [readable : {TRUE}, marks : Seq(CachedMark), durationMs : Nat]
CacheFiles == [audio : BOOLEAN, marks : {<<>>} \cup {<<e>> : e \in CacheEntry}]

\* What the first i lines leave in a stream of marks.
KeptOf(kept, lines, i, W) ==
  /\ kept \in Seq(W)
  /\ \A k \in 1 .. Len(kept) : kept[k].kind = "ssml"
  /\ \A j \in 1 .. i : lines[j].kind = "ssml" => \E k \in 1 .. Len(kept) : kept[k] = lines[j]

LEMMA KeptOnce ==
  ASSUME NEW W, NEW n \in Nat, NEW lines, \A j \in 1 .. n : lines[j] \in W, NEW i \in 1 .. n,
         NEW kept, KeptOf(kept, lines, i - 1, W)
  PROVE  KeptOf(IF lines[i].kind = "ssml" THEN Append(kept, lines[i]) ELSE kept, lines, i, W)
<1>1. kept \in Seq(W) /\ lines[i] \in W /\ Len(kept) \in Nat
  BY DEF KeptOf
<1>2. \A j \in 1 .. i : j = i \/ j \in 1 .. i - 1
  OBVIOUS
<1>3. CASE lines[i].kind # "ssml"
  BY <1>2, <1>3 DEF KeptOf
<1>4. CASE lines[i].kind = "ssml"
  <2>1. PICK more \in Seq(W), a \in Nat :
          /\ more = Append(kept, lines[i]) /\ a = Len(kept) /\ Len(more) = a + 1
          /\ \A k \in 1 .. a : more[k] = kept[k]
          /\ more[a + 1] = lines[i]
    <3>1. PICK x \in W, s \in Seq(W) : x = lines[i] /\ s = kept
      BY <1>1
    <3>2. /\ Append(s, x) \in Seq(W) /\ Len(Append(s, x)) = Len(s) + 1
          /\ \A k \in 1 .. Len(s) : Append(s, x)[k] = s[k]
          /\ Append(s, x)[Len(s) + 1] = x
      BY Appended
    <3> QED
      BY <1>1, <3>1, <3>2
  <2>2. \A k \in 1 .. a + 1 : k = a + 1 \/ k \in 1 .. a
    OBVIOUS
  <2>3. \A k \in 1 .. a : k \in 1 .. a + 1
    OBVIOUS
  <2>4. a + 1 \in 1 .. a + 1
    OBVIOUS
  <2>5. \A k \in 1 .. a + 1 : more[k].kind = "ssml"
    BY <1>4, <2>1, <2>2 DEF KeptOf
  <2>6. ASSUME NEW j \in 1 .. i, lines[j].kind = "ssml"
        PROVE  \E k \in 1 .. a + 1 : more[k] = lines[j]
    <3>1. CASE j = i
      BY <2>1, <2>4, <3>1
    <3>2. CASE j \in 1 .. i - 1
      <4>1. PICK k \in 1 .. a : kept[k] = lines[j]
        BY <2>1, <2>6, <3>2 DEF KeptOf
      <4> QED
        BY <2>1, <2>3, <4>1
    <3> QED
      BY <1>2, <3>1, <3>2
  <2>7. KeptOf(more, lines, i, W)
    BY <2>1, <2>5, <2>6 DEF KeptOf
  <2> QED
    BY <1>4, <2>1, <2>7
<1> QED
  BY <1>3, <1>4

\* Every mark of a word is kept.
LEMMA MarksAreKept ==
  ASSUME NEW W, NEW lines \in Seq(W), parseMarks(lines).ok
  PROVE  KeptOf(parseMarks(lines).marks, lines, Len(lines), W)
<1>1. PICK n \in Nat : n = Len(lines)
  OBVIOUS
<1>2. \A j \in 1 .. n : lines[j] \in W
  BY <1>1
<1>3. PICK step : step = [i \in Nat |-> [kept \in Seq(W) |->
                     IF i \in 1 .. n THEN (IF lines[i].kind = "ssml" THEN Append(kept, lines[i]) ELSE kept) ELSE kept]]
  OBVIOUS
<1>4. step \in [Nat -> [Seq(W) -> Seq(W)]]
  <2>1. ASSUME NEW i \in Nat, NEW kept \in Seq(W)
        PROVE  (IF i \in 1 .. n THEN (IF lines[i].kind = "ssml" THEN Append(kept, lines[i]) ELSE kept) ELSE kept) \in Seq(W)
    <3>1. CASE i \in 1 .. n
      <4>1. Append(kept, lines[i]) \in Seq(W)
        BY <1>2, <3>1, Appended
      <4> QED
        BY <3>1, <4>1
    <3> QED
      BY <3>1
  <2> QED
    BY <1>3, <2>1
<1>5. <<>> \in Seq(W)
  OBVIOUS
<1>6. PICK g \in [0 .. n -> Seq(W)] : Iterates(g, <<>>, step, n)
  BY <1>4, <1>5, IterationExists
<1>7. g = [i \in 0 .. n |-> IF i = 0 THEN <<>>
                            ELSE IF lines[i].kind = "ssml" THEN Append(g[i - 1], lines[i]) ELSE g[i - 1]]
  <2>1. \A i \in 0 .. n : i # 0 => i \in 1 .. n /\ i - 1 \in 0 .. n /\ i \in Nat
    BY <1>1
  <2>2. ASSUME NEW i \in 1 .. n
        PROVE  g[i] = IF lines[i].kind = "ssml" THEN Append(g[i - 1], lines[i]) ELSE g[i - 1]
    <3>1. g[i - 1] \in Seq(W) /\ i \in Nat
      BY <2>1
    <3>2. g[i] = step[i][g[i - 1]]
      BY <1>6 DEF Iterates
    <3> QED
      BY <1>3, <3>1, <3>2
  <2>3. g[0] = <<>>
    BY <1>6 DEF Iterates
  <2> QED
    BY <2>1, <2>2, <2>3
<1>8. PICK f : f = CHOOSE h : h = [i \in 0 .. n |-> IF i = 0 THEN <<>>
                  ELSE IF lines[i].kind = "ssml" THEN Append(h[i - 1], lines[i]) ELSE h[i - 1]]
  OBVIOUS
<1>9. f = [i \in 0 .. n |-> IF i = 0 THEN <<>>
             ELSE IF lines[i].kind = "ssml" THEN Append(f[i - 1], lines[i]) ELSE f[i - 1]]
  BY <1>7, <1>8
<1>10. parseMarks(lines).marks = f[n]
  BY <1>1, <1>8 DEF parseMarks
<1> DEFINE T == {i \in 0 .. n : KeptOf(f[i], lines, i, W)}
<1>11. 0 \in T
  <2>1. 0 \in 0 .. n /\ f[0] = <<>>
    BY <1>9
  <2>2. KeptOf(<<>>, lines, 0, W)
    <3>1. PICK none \in Seq(W) : none = <<>> /\ Len(none) = 0
      BY <1>5
    <3>2. KeptOf(none, lines, 0, W)
      BY <3>1 DEF KeptOf
    <3> QED
      BY <3>1, <3>2
  <2> QED
    BY <2>1, <2>2
<1>12. ASSUME NEW i \in 1 .. n, i - 1 \in T PROVE i \in T
  <2>1. KeptOf(f[i - 1], lines, i - 1, W) /\ i \in 0 .. n /\ i # 0
    BY <1>12
  <2>2. KeptOf(IF lines[i].kind = "ssml" THEN Append(f[i - 1], lines[i]) ELSE f[i - 1], lines, i, W)
    BY <1>2, <2>1, KeptOnce
  <2>3. f[i] = IF lines[i].kind = "ssml" THEN Append(f[i - 1], lines[i]) ELSE f[i - 1]
    BY <1>9, <2>1
  <2> QED
    BY <2>1, <2>2, <2>3
<1> HIDE DEF T
<1>13. n \in T
  <2>1. n \in 0 .. n
    OBVIOUS
  <2> QED
    BY <1>11, <1>12, <2>1, BoundReached
<1> QED
  BY <1>1, <1>10, <1>13 DEF T

\* A word the provider marked has a time.
LEMMA MarkedIsTimed ==
  ASSUME NEW wordCount \in Nat, NEW W, NEW marks \in Seq(W), NEW word \in 1 .. wordCount,
         \A k \in 1 .. Len(marks) : marks[k].time # Missing,
         \E k \in 1 .. Len(marks) : marks[k].word = word
  PROVE  alignTimepoints(wordCount, marks)[word] # Missing
<1>1. PICK n \in Nat : n = Len(marks) /\ DOMAIN marks = 1 .. n
  OBVIOUS
<1>2. PICK named : named = {k \in DOMAIN marks : marks[k].word = word}
  OBVIOUS
<1>3. named \subseteq 1 .. n /\ named # {}
  BY <1>1, <1>2
<1>4. Max(named) \in 1 .. n
  BY <1>3, LastPlace
<1>5. alignTimepoints(wordCount, marks)[word] = marks[Max(named)].time
  BY <1>2, <1>3 DEF alignTimepoints
<1> QED
  BY <1>1, <1>4, <1>5

\* What is read of a file of the cache is not cut short.
LEMMA ReadIsWhole ==
  ASSUME NEW f, TimesGiven(f), NEW h \in readCache(f)
  PROVE  f.audio /\ \A i \in DOMAIN h.marks : h.marks[i].time < h.durationMs
<1>1. /\ f.marks # <<>> /\ f.audio /\ h = f.marks[1] /\ h.readable
      /\ isAudioComplete(Times(h.marks), h.durationMs)
  BY DEF readCache
<1>2. \A i \in DOMAIN h.marks : h.marks[i].time \in Nat
  BY <1>1 DEF TimesGiven
<1>3. ASSUME NEW i \in DOMAIN h.marks PROVE h.marks[i].time < h.durationMs
  <2>1. i \in DOMAIN Times(h.marks) /\ Times(h.marks)[i] = h.marks[i].time
    BY DEF Times
  <2>2. h.marks[i].time # Missing
    BY <1>2, DeliveryAssumption
  <2> QED
    BY <1>1, <2>1, <2>2 DEF isAudioComplete
<1> QED
  BY <1>1, <1>3

\* The files a synthesis leaves, wherever its writing stopped.
LEMMA StoredTimes ==
  ASSUME NEW files \in CacheFiles, TimesGiven(files), NEW result,
         \A i \in DOMAIN result.marks : result.marks[i].time \in Nat,
         NEW after \in storeSynthesis(files, result)
  PROVE  TimesGiven(after)
<1>1. files.marks = [files EXCEPT !.audio = TRUE].marks
  BY DEF CacheFiles
<1>2. CASE after = files
  BY <1>2
<1>3. CASE after = [files EXCEPT !.audio = TRUE]
  BY <1>1, <1>3 DEF TimesGiven
<1>4. CASE after = [audio |-> TRUE, marks |-> <<[readable |-> TRUE, marks |-> result.marks,
                                                 durationMs |-> result.durationMs]>>]
  <2>1. after.marks[1].marks = result.marks
    BY <1>4
  <2> QED
    BY <2>1 DEF TimesGiven
<1> QED
  BY <1>2, <1>3, <1>4 DEF storeSynthesis

\* A conversion fails for good only on a refusal of the provider, and what is
\* kept of an answer, or read of the cache wherever its writing stopped, has its
\* audio and a mark for every marked word, before the end of the audio: for any
\* stream of marks and any files (polly-tts.adapter.ts, synthesize-segment.use-case.ts).
THEOREM SpeechIsWholeHolds ==
  ASSUME NEW wordCount \in Nat, NEW voice \in PollyVoices, NEW audio \in SpeechAnswer,
         NEW marks \in MarksAnswer(wordCount), NEW files \in CacheFiles
  PROVE  SpeechIsWhole(voice, wordCount, audio, marks, files)
<1> DEFINE Line == MarkLine(wordCount)
           whole(f) == \A h \in readCache(f) : f.audio /\ \A i \in DOMAIN h.marks : h.marks[i].time < h.durationMs
<1>1. TimesGiven(files)
  <2> SUFFICES ASSUME files.marks # <<>>, files.marks[1].readable
               PROVE  \A i \in DOMAIN files.marks[1].marks : files.marks[1].marks[i].time \in Nat
    BY DEF TimesGiven
  <2>1. PICK e \in CacheEntry : files.marks = <<e>>
    BY DEF CacheFiles
  <2>2. files.marks[1] = e /\ e.readable
    BY <2>1
  <2>3. PICK m \in Seq(CachedMark) : m = e.marks
    BY <2>2 DEF CacheEntry
  <2>4. \A i \in DOMAIN m : m[i] \in CachedMark
    OBVIOUS
  <2> QED
    BY <2>2, <2>3, <2>4 DEF CachedMark
<1>2. PICK lines \in Seq(Line) : lines = marks.lines
  BY DEF MarksAnswer
<1>3. \A x \in Line : x.kind = "ssml" => x.word \in 1 .. wordCount /\ x.time \in Nat
  BY DEF MarkLine
<1>4. whole(files)
  BY <1>1, ReadIsWhole
<1>5. PICK outcomes : outcomes = synthesize(voice, audio, marks)
  OBVIOUS
<1>6. audio.error \in {"none", "request", "other"} /\ marks.error \in {"none", "request", "other"}
      /\ audio.empty \in BOOLEAN
  BY DEF SpeechAnswer, MarksAnswer
<1>7. ASSUME NEW o \in outcomes, o.kind = "rejected"
      PROVE  "request" \in {audio.error, marks.error}
  <2>1. PICK failures : failures = {send(audio), send(marks)} \ {"ok"}
    OBVIOUS
  <2>2. outcomes = IF failures # {} THEN {[kind |-> f] : f \in failures}
                   ELSE IF audio.empty \/ marks.empty \/ ~parseMarks(marks.lines).ok THEN {[kind |-> "unavailable"]}
                   ELSE {[kind |-> "audio", marks |-> parseMarks(marks.lines).marks,
                          durationMs |-> mp3DurationMs(audio.chunk)]}
    BY <1>5, <2>1 DEF synthesize
  <2>3. failures # {} /\ "rejected" \in failures
    BY <1>7, <2>2
  <2> QED
    BY <1>6, <2>1, <2>3 DEF send, REJECTED_ERRORS
<1>8. ASSUME NEW o \in outcomes, o.kind = "audio"
      PROVE  /\ audio.error = "none" /\ marks.error = "none" /\ ~audio.empty
             /\ parseMarks(lines).ok /\ o.marks = parseMarks(lines).marks
  <2>1. PICK failures : failures = {send(audio), send(marks)} \ {"ok"}
    OBVIOUS
  <2>2. outcomes = IF failures # {} THEN {[kind |-> f] : f \in failures}
                   ELSE IF audio.empty \/ marks.empty \/ ~parseMarks(lines).ok THEN {[kind |-> "unavailable"]}
                   ELSE {[kind |-> "audio", marks |-> parseMarks(lines).marks,
                          durationMs |-> mp3DurationMs(audio.chunk)]}
    BY <1>2, <1>5, <2>1 DEF synthesize
  <2>3. "audio" \notin failures
    BY <2>1 DEF send
  <2>4. failures = {}
    BY <1>8, <2>2, <2>3
  <2>5. send(audio) = "ok" /\ send(marks) = "ok"
    BY <2>1, <2>4
  <2>6. audio.error = "none" /\ marks.error = "none"
    BY <2>5 DEF send
  <2>7. ~audio.empty /\ parseMarks(lines).ok
    BY <1>8, <2>2, <2>4
  <2>8. o.marks = parseMarks(lines).marks
    BY <2>2, <2>4, <1>8
  <2> QED
    BY <2>6, <2>7, <2>8
<1>9. ASSUME NEW o \in outcomes, o.kind = "audio"
      PROVE  /\ \A i \in DOMAIN lines : lines[i].kind = "ssml" =>
                  alignTimepoints(wordCount, o.marks)[lines[i].word] # Missing
             /\ \A after \in storeSynthesis(files, o) : whole(after)
  <2>1. PICK kept \in Seq(Line) : kept = o.marks /\ KeptOf(kept, lines, Len(lines), Line)
    <3>1. KeptOf(parseMarks(lines).marks, lines, Len(lines), Line)
      BY <1>2, <1>8, <1>9, MarksAreKept
    <3> QED
      BY <1>8, <1>9, <3>1 DEF KeptOf
  <2>2. \A k \in 1 .. Len(kept) : kept[k] \in Line /\ kept[k].kind = "ssml"
    BY <2>1 DEF KeptOf
  <2>3. \A k \in 1 .. Len(kept) : kept[k].time \in Nat
    BY <1>3, <2>2
  <2>4. ASSUME NEW i \in DOMAIN lines, lines[i].kind = "ssml"
        PROVE  alignTimepoints(wordCount, kept)[lines[i].word] # Missing
    <3>1. i \in 1 .. Len(lines) /\ lines[i] \in Line
      BY <1>2
    <3>2. \E k \in 1 .. Len(kept) : kept[k] = lines[i]
      BY <2>1, <2>4, <3>1 DEF KeptOf
    <3>3. PICK word \in 1 .. wordCount : word = lines[i].word
      BY <1>3, <2>4, <3>1
    <3>4. \E k \in 1 .. Len(kept) : kept[k].word = word
      BY <3>2, <3>3
    <3>5. \A k \in 1 .. Len(kept) : kept[k].time # Missing
      BY <2>3, DeliveryAssumption
    <3> QED
      BY <3>3, <3>4, <3>5, MarkedIsTimed
  <2>5. \A i \in DOMAIN o.marks : o.marks[i].time \in Nat
    <3>1. DOMAIN kept = 1 .. Len(kept)
      OBVIOUS
    <3> QED
      BY <2>1, <2>3, <3>1
  <2>6. ASSUME NEW after \in storeSynthesis(files, o) PROVE whole(after)
    <3>1. TimesGiven(after)
      BY <1>1, <2>5, StoredTimes
    <3> QED
      BY <3>1, ReadIsWhole
  <2> HIDE DEF whole
  <2> QED
    BY <2>1, <2>4, <2>6
<1> QED
  BY <1>2, <1>4, <1>5, <1>7, <1>8, <1>9 DEF SpeechIsWhole

\* As many frames as are needed last as long as they have to.
LEMMA FramesLast ==
  ASSUME NEW d \in Nat, NEW f \in Nat \ {0}
  PROVE  /\ (d + f - 1) \div f \in Nat
         /\ d <= f * ((d + f - 1) \div f)
<1>1. PICK x \in Nat : x = d + f - 1
  OBVIOUS
<1>2. PICK q \in Nat : q = x \div f
  OBVIOUS
<1>3. x < f * q + f
  BY <1>2
<1>4. f * q \in Nat
  OBVIOUS
<1>5. d <= f * q
  BY <1>1, <1>3, <1>4
<1> QED
  BY <1>1, <1>2, <1>5

\* The fake engine is never taken for a voice cut short, for any number of words
\* and any pace (fake-tts.adapter.ts, mp3.ts).
THEOREM FakeIsWholeHolds ==
  ASSUME NEW wordCount \in Nat, NEW wordMs \in Nat
  PROVE  FakeIsWhole(wordCount, wordMs)
<1>1. PICK d \in Nat, f \in Nat \ {0} : d = wordCount * wordMs /\ f = FrameMs
  <2>1. wordCount * wordMs \in Nat
    OBVIOUS
  <2> QED
    BY <2>1, DeliveryAssumption
<1>2. PICK fake : fake = fakeSynthesis(wordCount, wordMs)
  OBVIOUS
<1>3. PICK marks : marks = [i \in 1 .. wordCount |-> [kind |-> "ssml", word |-> i, time |-> (i - 1) * wordMs]]
  OBVIOUS
<1>4. fake.marks = marks /\ fake.durationMs = mp3DurationMs(silentMp3(d))
  BY <1>1, <1>2, <1>3 DEF fakeSynthesis
<1>5. PICK frames \in Nat \ {0} : /\ d <= f * frames
                                  /\ silentMp3(d) = [frames |-> frames, cut |-> FALSE]
  <2>1. CASE d = 0
    <3>1. PICK q \in Nat \ {0} : q = 1 /\ f * q = f
      OBVIOUS
    <3>2. silentMp3(d) = [frames |-> q, cut |-> FALSE]
      BY <2>1, <3>1 DEF silentMp3
    <3>3. d <= f * q
      BY <2>1, <3>1
    <3> QED
      BY <3>2, <3>3
  <2>2. CASE d # 0
    <3>1. PICK q \in Nat : q = (d + f - 1) \div f /\ d <= f * q
      BY FramesLast
    <3>2. q # 0
      <4>1. q = 0 => f * q = 0
        OBVIOUS
      <4> QED
        BY <2>2, <3>1, <4>1
    <3>3. silentMp3(d) = [frames |-> q, cut |-> FALSE]
      BY <1>1, <2>2, <3>1 DEF silentMp3
    <3> QED
      BY <3>1, <3>2, <3>3
  <2> QED
    BY <2>1, <2>2
<1>6. PICK last \in Nat \ {0} : last = fake.durationMs /\ d <= last
  <2>1. PICK last : last = f * frames
    OBVIOUS
  <2>2. last \in Nat \ {0}
    BY <2>1
  <2>3. mp3DurationMs([frames |-> frames, cut |-> FALSE]) = FrameMs * (frames + 0)
    BY DEF mp3DurationMs
  <2>4. frames + 0 = frames
    OBVIOUS
  <2> QED
    BY <1>1, <1>4, <1>5, <2>1, <2>2, <2>3, <2>4
<1>7. ASSUME NEW i \in 1 .. wordCount PROVE (i - 1) * wordMs \in Nat /\ (i - 1) * wordMs < last
  <2>1. PICK j \in Nat, k \in Nat : i - 1 = j /\ wordCount = j + 1 + k
    <3>1. i - 1 \in Nat /\ wordCount - i \in Nat /\ wordCount = (i - 1) + 1 + (wordCount - i)
      OBVIOUS
    <3> QED
      BY <3>1
  <2>2. (j + 1 + k) * wordMs = j * wordMs + wordMs + k * wordMs
    OBVIOUS
  <2>3. j * wordMs \in Nat /\ k * wordMs \in Nat
    OBVIOUS
  <2>4. PICK a \in Nat, b \in Nat : a = j * wordMs /\ b = k * wordMs
    BY <2>3
  <2>5. d = a + wordMs + b
    BY <1>1, <2>1, <2>2, <2>4
  <2>6. CASE wordMs = 0
    <3>1. a = 0
      BY <2>4, <2>6
    <3> QED
      BY <1>6, <2>1, <2>4, <3>1
  <2>7. CASE wordMs # 0
    <3>1. a < d
      BY <2>5, <2>7
    <3> QED
      BY <1>6, <2>1, <2>4, <3>1
  <2> QED
    BY <2>6, <2>7
<1>8. isAudioComplete(Times(fake.marks), fake.durationMs)
  <2>1. PICK times : times = Times(fake.marks)
    OBVIOUS
  <2>2. DOMAIN times = 1 .. wordCount /\ \A i \in 1 .. wordCount : times[i] = (i - 1) * wordMs
    BY <1>3, <1>4, <2>1 DEF Times
  <2>3. \A i \in DOMAIN times : times[i] < last
    BY <1>7, <2>2
  <2>4. last > 0
    OBVIOUS
  <2> QED
    BY <1>6, <2>1, <2>3, <2>4 DEF isAudioComplete
<1>9. ASSUME NEW i \in 1 .. wordCount PROVE alignTimepoints(wordCount, marks)[i] # Missing
  <2>1. \A k \in 1 .. wordCount : [kind |-> "ssml", word |-> k, time |-> (k - 1) * wordMs] \in CachedMark
    BY <1>7 DEF CachedMark
  <2>2. marks \in Seq(CachedMark) /\ Len(marks) = wordCount
    <3>1. marks \in [1 .. wordCount -> CachedMark]
      BY <1>3, <2>1
    <3> QED
      BY <3>1
  <2>3. \A k \in 1 .. Len(marks) : marks[k].time # Missing
    BY <1>3, <1>7, <2>2, DeliveryAssumption
  <2>4. marks[i].word = i /\ i \in 1 .. Len(marks)
    BY <1>3, <2>2
  <2> QED
    BY <2>2, <2>3, <2>4, MarkedIsTimed
<1>10. Missing \notin Range(alignTimepoints(wordCount, marks))
  <2>1. DOMAIN alignTimepoints(wordCount, marks) = 1 .. wordCount
    BY DEF alignTimepoints
  <2> QED
    BY <1>9, <2>1 DEF Range
<1> QED
  BY <1>2, <1>4, <1>8, <1>10 DEF FakeIsWhole

\* The pages of a scan are given whole and in order, or the batch is done again,
\* whatever the renderer left or the recogniser killed (tesseract-ocr.adapter.ts).
THEOREM PagesAreWholeHolds ==
  ASSUME NEW run, run.files \subseteq {"page", "source"} \X Nat,
         NEW firstPage \in Nat, NEW lastPage \in Nat, firstPage <= lastPage
  PROVE  PagesAreWhole(run, firstPage, lastPage)
<1>1. PICK n \in Nat : n = lastPage - firstPage + 1
  OBVIOUS
<1>2. PICK wanted : wanted = [i \in 1 .. n |-> firstPage + i - 1]
  OBVIOUS
<1>3. PICK result : result = recognizePages(run, firstPage, lastPage)
  OBVIOUS
<1>4. wanted \in Seq(Int) /\ Len(wanted) = n /\ DOMAIN wanted = 1 .. n
  <2>1. wanted \in [1 .. n -> Int]
    BY <1>2
  <2> QED
    BY <2>1
<1>5. result = CASE renderPages(run) = "unreadable" -> [kind |-> "unreadable"]
                 [] renderPages(run) = "fails"      -> [kind |-> "retry"]
                 [] OTHER -> IF \E i \in DOMAIN wanted : wanted[i] \notin renderedPages(run) \ run.killed
                             THEN [kind |-> "retry"]
                             ELSE [kind |-> "pages", of |-> wanted]
  BY <1>1, <1>2, <1>3 DEF recognizePages
<1>6. ASSUME result.kind = "pages"
      PROVE  result.of = wanted /\ \A i \in 1 .. n : wanted[i] \in renderedPages(run) \ run.killed
  BY <1>4, <1>5, <1>6 DEF renderPages
<1>7. ASSUME NEW p \in renderedPages(run) PROVE <<"page", p>> \in run.files
  <2>1. PICK g \in run.files : g[1] = "page" /\ g[2] = p
    BY DEF renderedPages
  <2>2. g = <<g[1], g[2]>>
    OBVIOUS
  <2> QED
    BY <2>1, <2>2
<1>8. result.kind = "unreadable" => run.exit = 1
  BY <1>5 DEF renderPages
<1> QED
  BY <1>1, <1>2, <1>3, <1>4, <1>6, <1>7, <1>8 DEF PagesAreWhole

\* A notification is taken only when it was signed with the key of the
\* application, as announced, and in its time (hs256-jwt.ts, campay.gateway.ts).
THEOREM NotificationsAreSignedHolds ==
  ASSUME NEW payload, NEW now \in Nat, payload.fields \in BOOLEAN, payload.token.ourKey \in BOOLEAN,
         payload.token.exp \in Seq(Nat), payload.token.nbf \in Seq(Nat)
  PROVE  NotificationsAreSigned(payload, now)
<1> SUFFICES ASSUME verifyNotification(payload, now).taken
             PROVE  /\ payload.fields /\ payload.token.ourKey /\ payload.token.alg = "HS256"
                    /\ payload.token.exp # <<>> => now < payload.token.exp[1]
                    /\ payload.token.nbf # <<>> => now >= payload.token.nbf[1]
  BY DEF NotificationsAreSigned
<1>1. payload.fields /\ checkHs256Jwt(payload.token, now) = "valid"
  BY DEF verifyNotification, reject
<1>2. PICK token : token = payload.token
  OBVIOUS
<1>3. /\ token.ourKey /\ token.alg = "HS256" /\ ~Expired(token, now)
      /\ ~(token.nbf # <<>> /\ now < token.nbf[1])
  BY <1>1, <1>2 DEF checkHs256Jwt
<1>4. \A s \in Seq(Nat) : s # <<>> => s[1] \in Nat
  OBVIOUS
<1>5. token.exp # <<>> => token.exp[1] \in Nat /\ ~(now >= token.exp[1])
  BY <1>2, <1>3, <1>4 DEF Expired
<1>6. token.nbf # <<>> => token.nbf[1] \in Nat /\ ~(now < token.nbf[1])
  BY <1>2, <1>3, <1>4
<1> QED
  BY <1>1, <1>2, <1>3, <1>5, <1>6, SMTT(60)

\* A demand that may be on the client's phone is never declared refused, one
\* declared taken was, and the verdict read is the provider's, whatever comes
\* back: it gives a reference only for a demand it took, and takes none it
\* answers by a refusal (campay.gateway.ts).
THEOREM DemandsAreUnderstoodHolds ==
  ASSUME NEW wire, wire.cut \in BOOLEAN, wire.took \in BOOLEAN,
         ~wire.cut => /\ wire.body.kind = "reference" => wire.took
                      /\ wire.status \in 400 .. 499 => ~wire.took
  PROVE  DemandsAreUnderstood(wire)
<1>1. PICK answer : answer = call(wire)
  OBVIOUS
<1>2. wire.cut => answer.status = 0 /\ answer.body.kind = "none"
  BY <1>1 DEF call
<1>3. ~wire.cut => answer.status = wire.status /\ answer.body = wire.body
  BY <1>1 DEF call
<1>4. ASSUME collect(wire) = "refused" PROVE ~wire.took
  <2>1. answer.status \in 400 .. 499
    BY <1>1, <1>4 DEF collect
  <2> QED
    BY <1>2, <1>3, <2>1
<1>5. ASSUME collect(wire) = "accepted" PROVE wire.took
  <2>1. answer.body.kind = "reference"
    BY <1>1, <1>5 DEF collect
  <2> QED
    BY <1>2, <1>3, <2>1
<1>6. ASSUME getTransaction(wire).status # "unavailable"
      PROVE  ~wire.cut /\ wire.body.kind = "transaction" /\ STATUS[wire.body.status] = getTransaction(wire).status
  <2>1. /\ answer.status = 200 /\ transactionResponse(answer.body)
        /\ getTransaction(wire).status = STATUS[answer.body.status]
    BY <1>1, <1>6 DEF getTransaction
  <2> QED
    BY <1>2, <1>3, <2>1 DEF transactionResponse
<1> QED
  BY <1>4, <1>5, <1>6 DEF DemandsAreUnderstood

-----------------------------------------------------------------------------
(* The environment a server starts with.                                     *)

\* What the schema makes of the variables: a blank secret is absent, and a
\* server that starts has no blank variable left.
LEMMA ParsedValues ==
  ASSUME NEW raw \in Environment, NEW env, env = parsed(raw), validateEnv(raw) = {}
  PROVE  /\ \A v \in DOMAIN raw : /\ env[v] = optionalSecret(raw, v)
                                 /\ env[v] \notin {"blank", "short"}
         /\ ConsistencyRules(env) = {}
         /\ env.node = "production" => ProductionRules(env) = {}
<1>1. envSchema(env) = {} /\ ConsistencyRules(env) = {}
      /\ (env.node = "production" => ProductionRules(env) = {})
  BY DEF validateEnv
<1>2. DOMAIN env = DOMAIN raw /\ \A v \in DOMAIN raw : env[v] = optionalSecret(raw, v)
  BY DEF parsed
<1> QED
  BY <1>1, <1>2 DEF envSchema

\* The values the factories read, as the variables gave them.
LEMMA SecretsOf ==
  ASSUME NEW raw \in Environment, NEW env, env = parsed(raw), validateEnv(raw) = {}
  PROVE  /\ env.keyId \in {"absent", "set"} /\ (env.keyId = "set" <=> raw.keyId = "set")
         /\ env.smsId \in {"absent", "set"} /\ (env.smsId = "set" <=> raw.smsId = "set")
         /\ env.region \in {"absent", "set"} /\ env.redisHost # "blank"
         /\ env.node = raw.node /\ env.logAllowed = raw.logAllowed /\ env.swagger = raw.swagger
         /\ env.payment = raw.payment /\ env.campayUrl = raw.campayUrl
         /\ env.tts = raw.tts /\ env.otpMode = raw.otpMode
<1>1. \A v \in DOMAIN raw : env[v] = optionalSecret(raw, v) /\ env[v] \notin {"blank", "short"}
  BY ParsedValues
<1>2. {"keyId", "smsId", "region", "redisHost", "node", "logAllowed", "swagger", "payment", "campayUrl", "tts", "otpMode"}
        \subseteq DOMAIN raw
  BY DEF Environment
<1>3. raw.keyId \in Blankable /\ raw.smsId \in Blankable /\ raw.region \in Blankable
  BY DEF Environment
<1> QED
  BY <1>1, <1>2, <1>3 DEF optionalSecret, OptionalSecrets, Blankable

\* Whatever the environment holds, a server that starts with it has every part
\* it was asked for in full: no factory throws, no half of a pair of secrets is
\* ignored, a store, a voice or an email sender has its region, and in
\* production nothing is kept in the memory of one instance nor faked
\* (env.schema.ts and the factories that read it).
THEOREM StartsCompleteHolds == \A raw \in Environment : StartsComplete(raw)
<1> SUFFICES ASSUME NEW raw \in Environment, validateEnv(raw) = {}
             PROVE  StartsComplete(raw)
  BY DEF StartsComplete
<1>1. PICK env : env = parsed(raw)
  OBVIOUS
<1>2. /\ ConsistencyRules(env) = {} /\ (raw.node = "production" => ProductionRules(env) = {})
      /\ env.node = raw.node
  BY <1>1, ParsedValues, SecretsOf
<1>3. /\ env.databaseUrl = "absent" => env.database = "all"
      /\ ~Half(env, "smsId", "smsSecret") /\ ~Half(env, "keyId", "keySecret")
      /\ env.bucket # "absent" /\ env.endpoint = "absent" => env.region # "absent"
      /\ env.otpMode = "notification" => env.emailFrom # "absent" /\ env.region # "absent"
      /\ env.tts = "polly" => env.region # "absent"
      /\ env.payment = "campay" => Absent(env, {"campayUrl", "campayToken", "campayKey"}) = {}
  BY <1>2 DEF ConsistencyRules
<1>4. raw.node = "production" =>
        /\ env.redisUrl # "absent" \/ env.redisHost # "absent"
        /\ env.cursorSecret # "absent" /\ env.bucket # "absent"
        /\ env.counters = "database" /\ env.tts = "polly" /\ env.payment # "fake"
        /\ env.otpMode = "log" => env.logAllowed = "true"
        /\ env.payment = "campay" => env.campayUrl = "live"
  BY <1>2 DEF ProductionRules, Absent
<1>5. /\ env.keyId \in {"absent", "set"} /\ (env.keyId = "set" <=> raw.keyId = "set")
      /\ env.smsId \in {"absent", "set"} /\ (env.smsId = "set" <=> raw.smsId = "set")
      /\ env.region \in {"absent", "set"} /\ env.redisHost # "blank" /\ env.logAllowed = raw.logAllowed /\ env.swagger = raw.swagger
      /\ env.payment = raw.payment /\ env.campayUrl = raw.campayUrl
      /\ env.tts = raw.tts /\ env.otpMode = raw.otpMode
  BY <1>1, SecretsOf
<1>6. /\ raw.payment \in {"disabled", "fake", "campay"} /\ raw.campayUrl \in {"absent", "demo", "live"}
      /\ raw.tts \in {"fake", "polly"} /\ raw.otpMode \in {"log", "notification"}
      /\ raw.swagger \in {"absent", "true", "false"}
  BY DEF Environment
<1>7. createPostgresClient(env) = "all"
  BY <1>3 DEF createPostgresClient
<1>8. buildPaymentGateway(env) = IF env.payment = "campay" THEN env.campayUrl ELSE env.payment
  BY <1>3 DEF buildPaymentGateway
<1>9. buildPaymentGateway(env) # "throws"
  BY <1>5, <1>6, <1>8
<1>10. PICK storage : storage = ObjectStorage(env)
  OBVIOUS
<1>11. /\ storage.kind = "s3" <=> env.bucket # "absent"
       /\ storage.kind = "s3" => /\ storage.region = "set"
                                 /\ (storage.credentials = "keys" <=> raw.keyId = "set")
  <2>1. CASE env.bucket = "absent"
    BY <1>10, <2>1 DEF ObjectStorage
  <2>2. CASE env.bucket # "absent"
    <3>1. storage = [kind |-> "s3", region |-> IF env.endpoint = "absent" THEN env.region ELSE "set",
                     credentials |-> IF env.keyId = "absent" \/ env.keySecret = "absent" THEN "chain" ELSE "keys"]
      BY <1>10, <2>2 DEF ObjectStorage, s3ConnectionFromEnv
    <3>2. env.keyId = "absent" <=> env.keySecret = "absent"
      BY <1>3 DEF Half
    <3> QED
      BY <1>3, <1>5, <2>2, <3>1, <3>2
  <2> QED
    BY <2>1, <2>2
<1>12. PICK tts : tts = buildTtsEngine(env)
  OBVIOUS
<1>13. (tts.kind = "polly" <=> env.tts = "polly") /\ (tts.kind = "polly" => tts.region = "set")
  BY <1>3, <1>5, <1>6, <1>12 DEF buildTtsEngine
<1>14. OtpSender(env) = "notification" => buildEmailSender(env) = "ses"
  BY <1>3, <1>5, <1>6 DEF OtpSender, buildEmailSender, Absent
<1>15. buildSmsSender(env) = "orange" <=> raw.smsId = "set"
  <2>1. env.smsId = "absent" <=> env.smsSecret = "absent"
    BY <1>3 DEF Half
  <2> QED
    BY <1>5, <2>1 DEF buildSmsSender, Absent
<1>16. OtpSender(env) = "log" <=> env.otpMode = "log"
  BY DEF OtpSender
<1>17. configureSwagger(env) /\ raw.node = "production" => raw.swagger = "true"
  BY <1>2, <1>5 DEF configureSwagger
<1>18. raw.node = "production" => /\ buildRedisOptions(env) = "configured" /\ RateLimitStore(env) = "redis"
                                 /\ resolveCursorSecret(env) = "own"
  BY <1>4, <1>5 DEF buildRedisOptions, RateLimitStore, resolveCursorSecret
<1>19. raw.node = "production" => storage.kind = "s3" /\ tts.kind = "polly"
                                 /\ buildPaymentGateway(env) \in {"live", "disabled"}
  BY <1>4, <1>5, <1>6, <1>8, <1>11, <1>13
<1>20. raw.node = "production" =>
         /\ env.counters = "database"
         /\ OtpSender(env) = "log" => raw.logAllowed = "true"
  BY <1>4, <1>5, <1>16
<1> QED
  BY <1>1, <1>7, <1>9, <1>10, <1>11, <1>12, <1>13, <1>14, <1>15, <1>17, <1>18, <1>19, <1>20 DEF StartsComplete

=============================================================================
