---------------------------- MODULE SsmlSegments ----------------------------
(* The SSML segments of a text and the listening parts they are grouped in   *)
(* (conversion/domain/services/ssml-segmenter.ts, part-plan.ts).  A token is *)
(* a word with the size of what is said for it, whether it ends a sentence   *)
(* and what it adds to the hash that makes a sentence an anchor.             *)
EXTENDS Pronunciation

CONSTANTS
  MaxSsmlBytes,       \* MAX_SSML_BYTES, 4800
  SoftMinSsmlBytes,   \* SOFT_MIN_SSML_BYTES, 2400
  FrameBytes,         \* <speak></speak>
  MarkFrameBytes,     \* a mark without its number
  NumeralBase,        \* base of the marks' numbers: 10
  FirstPartTargetChars,  \* FIRST_PART_TARGET_CHARS, 1800
  PartTargetChars        \* PART_TARGET_CHARS, 9000

ASSUME SegmentAssumption ==
  /\ NumeralBase \in Nat \ {0, 1}
  /\ {MaxSsmlBytes, SoftMinSsmlBytes, FrameBytes, MarkFrameBytes} \subseteq Nat
  /\ {FirstPartTargetChars, PartTargetChars} \subseteq Nat \ {0}

Token == [bytes : Nat, chars : Nat, ends : BOOLEAN, hash : {0, 1}]

\* Escaped size of a spoken form: one byte per mark, two per stem.
escapedByteLength(form) ==
  LET mark(present) == IF present THEN 1 ELSE 0
  IN mark(form.lead) + 2 * Len(form.says) + mark(form.dot) + mark(form.trail # "none")

\* Every word in order; a recognised abbreviation ends no sentence.
tokensOf(ws, forms) ==
  [i \in DOMAIN ws |-> [bytes |-> escapedByteLength(forms[i]), chars |-> 1,
                        ends  |-> ~forms[i].abbreviation /\ EndsSentence(ws[i]),
                        hash  |-> IF ws[i].lead THEN 1 ELSE 0]]
tokenize(ws) == tokensOf(ws, pronounce(ws))

DigitCount(n) == 1 + Cardinality({k \in 1 .. n : NumeralBase ^ k <= n})

\* Bytes that tokens add from a position on: separator, mark, word.
bytesAt(token, position) ==
  (IF position = 0 THEN 0 ELSE 1) + MarkFrameBytes + DigitCount(position) + token.bytes
bytesOf(tokens, start) == SumFunction([i \in DOMAIN tokens |-> bytesAt(tokens[i], start + i - 1)])

\* The sentences that have ended, and the one that is open.
addToken(split, token) ==
  IF token.ends THEN [done |-> Append(split.done, Append(split.open, token)), open |-> <<>>]
  ELSE [split EXCEPT !.open = Append(@, token)]

splitSentences(tokens) ==
  LET split[i \in 0 .. Len(tokens)] ==
        IF i = 0 THEN [done |-> <<>>, open |-> <<>>] ELSE addToken(split[i - 1], tokens[i])
      end == split[Len(tokens)]
  IN IF end.open = <<>> THEN end.done ELSE Append(end.done, end.open)

isAnchor(sentence) == SumFunction([i \in DOMAIN sentence |-> sentence[i].hash]) % 2 = 0

(* The segment being filled and those before it. *)
close(s) ==
  IF s.current = <<>> THEN s
  ELSE [done |-> Append(s.done, s.current), current |-> <<>>, bytes |-> FrameBytes]

\* Fault: a full segment is not closed.
fitAnyway(s, tokens) == [s EXCEPT !.current = @ \o tokens, !.bytes = @ + bytesOf(tokens, Len(s.current))]

fit(s, tokens) ==
  LET full == s.current # <<>> /\ s.bytes + bytesOf(tokens, Len(s.current)) > MaxSsmlBytes
      into == IF full THEN close(s) ELSE s
  IN [into EXCEPT !.current = @ \o tokens, !.bytes = @ + bytesOf(tokens, Len(into.current))]

\* A sentence larger than a segment is cut between two words.
fitEach(s, tokens) ==
  LET filled[i \in 0 .. Len(tokens)] == IF i = 0 THEN s ELSE fit(filled[i - 1], <<tokens[i]>>)
  IN filled[Len(tokens)]

addSentence(s, sentence) ==
  LET filled == IF FrameBytes + bytesOf(sentence, 0) <= MaxSsmlBytes THEN fit(s, sentence)
                ELSE fitEach(s, sentence)
  IN IF filled.bytes >= SoftMinSsmlBytes /\ isAnchor(sentence) THEN close(filled) ELSE filled

segmentsOf(sentences) ==
  LET filled[n \in 0 .. Len(sentences)] ==
        IF n = 0 THEN [done |-> <<>>, current |-> <<>>, bytes |-> FrameBytes]
        ELSE addSentence(filled[n - 1], sentences[n])
  IN close(filled[Len(sentences)]).done

buildSsmlSegments(tokens) == segmentsOf(splitSentences(tokens))

\* A segment as it is sent: its marks are numbered from 0, its words apart by a space.
ssmlByteLength(segment) ==
  FrameBytes + (Len(segment) - 1)
    + SumFunction([i \in DOMAIN segment |-> MarkFrameBytes + DigitCount(i - 1) + segment[i].bytes])

charCount(segment) == SumFunction([i \in DOMAIN segment |-> segment[i].chars]) + Len(segment) - 1

(* The first part is short, to be heard early; a part closes at its target.  *)
addSegment(plan, i, segments) ==
  LET chars  == plan.chars + charCount(segments[i])
      target == IF plan.parts = <<>> THEN FirstPartTargetChars ELSE PartTargetChars
  IN IF chars >= target \/ i = Len(segments)
     THEN [parts |-> Append(plan.parts, [firstSegment |-> plan.first, lastSegment |-> i]),
           first |-> i + 1, chars |-> 0]
     ELSE [plan EXCEPT !.chars = chars]

planParts(segments) ==
  LET plan[i \in 0 .. Len(segments)] ==
        IF i = 0 THEN [parts |-> <<>>, first |-> 1, chars |-> 0]
        ELSE addSegment(plan[i - 1], i, segments)
  IN plan[Len(segments)].parts

------------------------------------------------------------------------------
(* What the segments promise *)

\* A token that fits in no segment: the marks and the word alone are too large.
Oversized(token) == FrameBytes + bytesOf(<<token>>, 0) > MaxSsmlBytes

(* Every word is sent once and in order, in segments the provider accepts    *)
(* (a word that is too large alone excepted), and a sentence is cut only     *)
(* when it fits in no segment.                                               *)
Sound(tokens, sentences, segments) ==
  LET lastOf(seqs, k) == Len(FlattenSeq(SubSeq(seqs, 1, k)))
  IN /\ FlattenSeq(segments) = tokens /\ FlattenSeq(sentences) = tokens
     /\ \A k \in DOMAIN segments :
          /\ segments[k] # <<>>
          /\ ssmlByteLength(segments[k]) <= MaxSsmlBytes
             \/ (Len(segments[k]) = 1 /\ Oversized(segments[k][1]))
     /\ \A k \in DOMAIN segments, n \in DOMAIN sentences :
          lastOf(sentences, n - 1) < lastOf(segments, k) /\ lastOf(segments, k) < lastOf(sentences, n)
            => FrameBytes + bytesOf(sentences[n], 0) > MaxSsmlBytes

SegmentsAreSound(tokens) == Sound(tokens, splitSentences(tokens), buildSsmlSegments(tokens))

(* The parts follow each other over all the segments; every part but the     *)
(* last reaches its target, and would not without its last segment.          *)
PartsCoverSegments(segments) ==
  LET parts == planParts(segments)
      chars(first, last) == SumFunction([i \in first .. last |-> charCount(segments[i])])
      target(k) == IF k = 1 THEN FirstPartTargetChars ELSE PartTargetChars
  IN /\ segments # <<>> => parts # <<>> /\ parts[Len(parts)].lastSegment = Len(segments)
     /\ \A k \in DOMAIN parts :
          /\ parts[k].firstSegment = (IF k = 1 THEN 1 ELSE parts[k - 1].lastSegment + 1)
          /\ parts[k].firstSegment <= parts[k].lastSegment
          /\ chars(parts[k].firstSegment, parts[k].lastSegment - 1) < target(k)
          /\ k < Len(parts) => chars(parts[k].firstSegment, parts[k].lastSegment) >= target(k)
=============================================================================
