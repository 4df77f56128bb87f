------------------------ MODULE MCConversionPipeline ------------------------
(* A text that may be corrected twice; its last revision has two segments in  *)
(* two parts, the others one segment.                                         *)
EXTENDS ConversionPipeline, TLC

MCOneRevision == {1}
MCRevisions == {1, 2, 3}

\* One character less than the segments count between them.
MCChars == [r \in {1, 2, 3} |-> 2]

MCSegments == [r \in {1, 2, 3} |-> IF r = 3 THEN [s \in 1 .. 2 |-> s] ELSE [s \in 1 .. 1 |-> 3]]
MCTwoSegments == [r \in {1} |-> [s \in 1 .. 2 |-> s]]
MCOneSegment == [r \in {1} |-> [s \in 1 .. 1 |-> 3]]
MCOnePart == [s \in 1 .. 2 |-> 1]
MCTwoParts == [s \in 1 .. 2 |-> s]

MCAttempts == [prepare |-> 2, synthesize |-> 1, assemble |-> 1]

MCSymmetry ==
  Permutations(ConversionId) \cup Permutations(Client) \cup Permutations(SynthesisWorker)

-----------------------------------------------------------------------------
(* What the run `conversion` explores: the life of one conversion of the last *)
(* revision, with two synthesis workers and a fault; and two launches of the  *)
(* revisions before it while they are corrected, without a fault.             *)

Busy(workers) == {w \in workers : run[w] # Free}

\* A launch sent again looks at the conversion only while it is queued: later
\* it changes nothing, and MCLaunches has it.
MCOneLaunch ==
  /\ document \in {3, NoDocument}
  /\ Cardinality(DOMAIN conversions \cup DOMAIN reserved) <= 1
  /\ \A id \in DOMAIN conversions : conversions[id].revision = 3
  /\ Cardinality({c \in Client : request[c] # Free}) <= 1
  /\ \A c \in Client : request[c].step \in {"findActive", "reserve"} =>
       \A id \in DOMAIN reserved : StatusOf(id) = "queued"

MCLaunches ==
  /\ document # 3 /\ faults = 0
  /\ \A id \in DOMAIN conversions : conversions[id].revision # 3
  /\ Cardinality(Busy(SynthesisWorker)) <= 1

MCBounds == MCOneLaunch \/ MCLaunches
=============================================================================
