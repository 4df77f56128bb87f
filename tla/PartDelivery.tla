---------------------------- MODULE PartDelivery ----------------------------
(* What a listener receives (conversion/domain/services/part-timeline.ts,    *)
(* conversion-manifest.ts, conversion-overview.ts, infrastructure/tts):      *)
(* the audio of a part joined from its segments, the time of every word, the *)
(* manifest and the extent that can be played.                               *)
EXTENDS Integers, SequencesExt, TLC

CONSTANTS
  FrameMs,     \* duration of an MP3 frame
  Missing      \* a time or a value that is not there (null)

ASSUME DeliveryAssumption == Missing \notin Nat /\ FrameMs \in Nat \ {0}

Sum(seq) == SumFunction(seq)

(* ------------------------------------------------------------------------- *)
(* The provider's answer and its audio.  A file is a count of whole frames,  *)
(* between tags, and perhaps a last frame that was cut.                      *)

Chunk == [frames : Nat, cut : BOOLEAN]

\* A frame is counted as soon as its header is read.
mp3DurationMs(chunk) == FrameMs * (chunk.frames + IF chunk.cut THEN 1 ELSE 0)

\* The frames that are there in full, without tags.
mp3AudioFrames(chunk) == [chunk EXCEPT !.cut = FALSE]

silentMp3(durationMs) ==
  [frames |-> IF durationMs = 0 THEN 1 ELSE (durationMs + FrameMs - 1) \div FrameMs, cut |-> FALSE]

join(chunks) ==
  [audio       |-> [frames |-> Sum([i \in DOMAIN chunks |-> mp3AudioFrames(chunks[i]).frames]),
                    cut |-> FALSE],
   durationsMs |-> [i \in DOMAIN chunks |-> mp3DurationMs(mp3AudioFrames(chunks[i]))]]

\* Some mark is not before the end of the audio: the audio was cut short.
isAudioComplete(times, durationMs) ==
  durationMs > 0 /\ \A i \in DOMAIN times : times[i] # Missing => times[i] < durationMs

(* ------------------------------------------------------------------------- *)
(* The timeline of a part *)

\* Math.round of before + (after - before) / gap.
Interpolated(before, after, gap) == (2 * (before * gap + after - before) + gap) \div (2 * gap)

Later(a, b) == IF a >= b THEN a ELSE b
Earlier(a, b) == IF a <= b THEN a ELSE b

\* Fault: the times as the provider gave them.
AsPlaced(starts) == starts

\* No word before the previous one.
InOrder(starts) ==
  LET ordered[i \in DOMAIN starts] == IF i = 1 THEN starts[1] ELSE Later(starts[i], ordered[i - 1])
  IN ordered

\* A word without a mark is put between its neighbours.
wordStarts(segment) ==
  LET n == Len(segment.times)
      known(i) == segment.times[i] # Missing
      nextKnown(i) == CHOOSE j \in i .. n + 1 :
                        (j = n + 1 \/ known(j)) /\ \A k \in i .. j - 1 : ~known(k)
      placed[i \in 1 .. n] ==
        IF known(i) THEN segment.times[i]
        ELSE LET j == nextKnown(i)
             IN Interpolated(IF i = 1 THEN 0 ELSE placed[i - 1],
                             IF j = n + 1 THEN segment.durationMs ELSE segment.times[j], j - i + 1)
  IN InOrder(placed)

\* A segment, with the duration its audio has once joined.
TimelineSegment(segment, durationMs) ==
  [times |-> segment.times, pages |-> segment.pages, firstWordIndex |-> segment.firstWordIndex,
   durationMs |-> durationMs]

timedWords(s, starts, offset) ==
  LET end(i) == IF i < Len(starts) THEN starts[i + 1] ELSE s.durationMs
  IN [i \in DOMAIN starts |-> [index   |-> s.firstWordIndex + i - 1, page |-> s.pages[i],
                               startMs |-> offset + Earlier(starts[i], s.durationMs),
                               endMs   |-> offset + Earlier(end(i), s.durationMs)]]

buildPartTimeline(segments) ==
  LET offset(k) == Sum([i \in 1 .. k - 1 |-> segments[i].durationMs])
  IN FlattenSeq([k \in DOMAIN segments |-> timedWords(segments[k], wordStarts(segments[k]), offset(k))])

\* A cue lasts at least a millisecond.
buildWebVtt(words) ==
  [i \in DOMAIN words |-> [startMs |-> words[i].startMs,
                           endMs   |-> Later(words[i].endMs, words[i].startMs + 1)]]

\* The first word of every page that starts in the part.
pageStartsOf(words, previousPage) ==
  LET starts(i) == words[i].page # (IF i = 1 THEN previousPage ELSE words[i - 1].page)
  IN FoldLeftDomain(LAMBDA found, i :
       IF starts(i) THEN Append(found, [page |-> words[i].page, wordIndex |-> words[i].index]) ELSE found,
       <<>>, words)

(* ------------------------------------------------------------------------- *)
(* The manifest.  A part is [index, firstWordIndex, assembled], assembled    *)
(* being Missing or [durationMs, wordCount].                                 *)

Assembled(part) == part.assembled # Missing

buildManifest(parts) ==
  LET elapsed[k \in 1 .. Len(parts) + 1] ==      \* before the part k
        IF k = 1 THEN 0
        ELSE IF elapsed[k - 1] = Missing \/ ~Assembled(parts[k - 1]) THEN Missing
        ELSE elapsed[k - 1] + parts[k - 1].assembled.durationMs
      entry(k) ==
        IF ~Assembled(parts[k])
        THEN [status |-> "pending", firstWordIndex |-> parts[k].firstWordIndex,
              startMs |-> Missing, durationMs |-> Missing, wordCount |-> Missing]
        ELSE [status |-> "ready", firstWordIndex |-> parts[k].firstWordIndex, startMs |-> elapsed[k],
              durationMs |-> parts[k].assembled.durationMs, wordCount |-> parts[k].assembled.wordCount]
      complete == parts # <<>> /\ \A k \in DOMAIN parts : Assembled(parts[k])
  IN [complete   |-> complete,
      durationMs |-> IF complete THEN elapsed[Len(parts) + 1] ELSE Missing,
      parts      |-> [k \in DOMAIN parts |-> entry(k)]]

\* A manifest is served from the first assembled part on, with a signed URL
\* for the two files of every part that is ready.
GetManifest(parts) ==
  LET ready == {k \in DOMAIN parts : Assembled(parts[k])}
  IN IF ready = {} THEN [ok |-> FALSE]
     ELSE [ok |-> TRUE, manifest |-> buildManifest(parts), urls |-> ready \X {"audio", "vtt"}]

\* Fault: whatever is ready, holes or not.
readyExtent(parts) ==
  LET ready == SelectSeq(parts, Assembled)
  IN [partsReady |-> Len(ready), wordCount |-> Sum([k \in DOMAIN ready |-> ready[k].assembled.wordCount]),
      durationMs |-> Sum([k \in DOMAIN ready |-> ready[k].assembled.durationMs])]

\* What can be played without a hole from the start, the parts in any order:
\* their indexes are unique.
playableExtent(parts) ==
  LET part(k) == CHOOSE p \in Range(parts) : p.index = k - 1
      inPlace(k) == (\E p \in Range(parts) : p.index = k - 1) /\ Assembled(part(k))
      prefix == CHOOSE n \in 0 .. Len(parts) :
                  (\A k \in 1 .. n : inPlace(k)) /\ (n = Len(parts) \/ ~inPlace(n + 1))
  IN [partsReady |-> Cardinality({k \in DOMAIN parts : Assembled(parts[k])}),
      wordCount  |-> IF prefix = 0 THEN 0
                     ELSE part(prefix).firstWordIndex + part(prefix).assembled.wordCount,
      durationMs |-> Sum([k \in 1 .. prefix |-> part(k).assembled.durationMs])]

\* The newest conversion that has not failed, else the newest: [status, createdAt].
Newest(candidates) == CHOOSE c \in candidates : \A d \in candidates : d.createdAt <= c.createdAt
selectLibraryConversion(candidates) ==
  LET alive == {c \in candidates : c.status # "failed"}
  IN IF alive # {} THEN Newest(alive) ELSE IF candidates # {} THEN Newest(candidates) ELSE Missing

------------------------------------------------------------------------------
(* What the delivery promises *)

(* The words of a part are in order, inside the audio that is really there,  *)
(* each ends where the next of its segment starts, and a cue is never empty  *)
(* nor longer than its word, a millisecond excepted.                         *)
WordsFitAudio(words, cues, segments, chunks) ==
  LET heard(k) == mp3DurationMs(join(SubSeq(chunks, 1, k)).audio)  \* end of the segment k
      segmentOf(i) == CHOOSE k \in DOMAIN segments :
        words[i].index \in segments[k].firstWordIndex ..
                           segments[k].firstWordIndex + Len(segments[k].times) - 1
  IN /\ Len(words) = Sum([k \in DOMAIN segments |-> Len(segments[k].times)])
     /\ \A i \in DOMAIN words :
          /\ words[i].startMs <= words[i].endMs
          /\ words[i].startMs >= (IF segmentOf(i) = 1 THEN 0 ELSE heard(segmentOf(i) - 1))
          /\ words[i].endMs <= heard(segmentOf(i))
          /\ i < Len(words) => words[i].endMs <= words[i + 1].startMs
          /\ cues[i].startMs < cues[i].endMs /\ cues[i].endMs <= Later(words[i].endMs, cues[i].startMs + 1)

CuesFitAudio(words, segments, chunks) == WordsFitAudio(words, buildWebVtt(words), segments, chunks)
TimelineFitsAudio(segments, chunks) ==
  CuesFitAudio(buildPartTimeline([k \in DOMAIN segments |->
                 TimelineSegment(segments[k], join(chunks).durationsMs[k])]), segments, chunks)

(* The manifest and the overview agree: a part that is ready starts where    *)
(* the ready parts before it end, it has no start when one of them is        *)
(* missing, and what the overview calls playable ends where the first part   *)
(* that is not ready begins.                                                 *)
ManifestAgreesWithOverview(parts) ==
  LET manifest == buildManifest(parts)
      extent == playableExtent(Reverse(parts))
      hole == {k \in DOMAIN parts : ~Assembled(parts[k])}
      before(k) == Sum([i \in 1 .. k - 1 |-> parts[i].assembled.durationMs])
  IN /\ manifest.complete <=> (parts # <<>> /\ hole = {})
     /\ \A k \in DOMAIN parts : k \notin hole =>
          manifest.parts[k].startMs = (IF \E h \in hole : h < k THEN Missing ELSE before(k))
     /\ manifest.complete => manifest.durationMs = extent.durationMs
     /\ hole # {} => LET first == CHOOSE h \in hole : \A g \in hole : h <= g
                     IN /\ extent.durationMs = before(first)
                        /\ extent.wordCount = parts[first].firstWordIndex
     /\ extent.partsReady = Cardinality(DOMAIN parts \ hole)
=============================================================================
