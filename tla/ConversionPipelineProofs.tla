---------------------- MODULE ConversionPipelineProofs ----------------------
(***************************************************************************)
(* The promises of the conversion pipeline for any number of conversions,  *)
(* clients, workers and revisions, any plan of segments and parts, any     *)
(* numbers of attempts and of faults.                                      *)
(***************************************************************************)
EXTENDS ConversionPipeline, FiniteSums

-----------------------------------------------------------------------------
(* The inductive invariant.  What each job, run and handler knows is stated  *)
(* of the tables given as parameters, so that it can be carried from the     *)
(* tables before a step to those after it.                                   *)

JobStates == {"waiting", "active", "completed", "failed"}
JobRow == [state : JobStates, tries : Nat, owner : Worker \cup {"none"}]

PrepareJob == [kind : {"prepare"}, id : ConversionId]
SynthesizeJob == [kind : {"synthesize"}, id : ConversionId, segment : Segment]
AssembleJob == [kind : {"assemble"}, id : ConversionId, part : Part, key : SweepKey \cup {Once}]
Job == PrepareJob \cup SynthesizeJob \cup AssembleJob

ReadingSteps == {"mark", "before", "pages", "after"}
PrepareRun == [step : ReadingSteps \cup {"complete", "schedule", "scheduleAll", "fail"},
               job : PrepareJob, read : SUBSET Revision]
SynthesizeRun == [step : {"voice", "part", "all"}, job : SynthesizeJob, read : SUBSET Revision]
AssembleRun == [step : {"assemble", "complete", "finalize", "manifest", "ready"},
                job : AssembleJob, read : SUBSET Revision]
JobRun == PrepareRun \cup SynthesizeRun \cup AssembleRun

LaunchRequest == [step : {"findActive", "reserve"}, revision : Revision]
ScheduleRequest == [step : {"schedule"}, id : ConversionId]
Request == {Free} \cup LaunchRequest \cup ScheduleRequest

\* The segments of a row of conversions, and those without audio.
SegmentsIn(row) == {e[2] : e \in row.segments}
PendingOf(row) == SegmentsIn(row) \ row.voiced
Prepared(row) == row.status \notin Preparable
WholePart(row, p) == \A s \in PendingOf(row) : PartOf[s] # p
PlanOf(r) == {r} \X DOMAIN SegmentPlan[r]

\* A row is of a revision not newer than the text, and has the segments of that
\* revision once it is prepared, none before.
RowOK(row, text) ==
  /\ row.revision <= text
  /\ row.segments = {} \/ row.segments = PlanOf(row.revision)
  /\ ~Prepared(row) => row.segments = {} /\ row.voiced = {} /\ row.assembled = {}
  /\ row.status \in {"synthesizing", "synthesized", "ready"} => row.segments # {}
  /\ row.voiced \subseteq SegmentsIn(row)

\* What the run of a job on a conversion that is still there knows.
PrepareKnows(e, row, text) ==
  /\ e.step \in ReadingSteps => e.read \subseteq row.revision .. text
  /\ e.step = "after" => e.read # {}
  /\ e.step \in {"complete", "scheduleAll"}
       => e.read = {row.revision} /\ DOMAIN SegmentPlan[row.revision] # {}
SynthesizeKnows(e, row) == Prepared(row) /\ e.job.segment \in SegmentsIn(row)
AssembleKnows(e, row, stored, listed) ==
  /\ Prepared(row)
  /\ e.step = "complete" => <<e.job.id, e.job.part>> \in stored /\ WholePart(row, e.job.part)
  /\ e.step = "ready" => e.job.id \in listed

RunKnows(e, text, rows, stored, listed) ==
  e.job.id \in DOMAIN rows =>
    LET row == rows[e.job.id]
    IN  CASE e.job.kind = "prepare" -> PrepareKnows(e, row, text)
          [] e.job.kind = "synthesize" -> SynthesizeKnows(e, row)
          [] OTHER -> AssembleKnows(e, row, stored, listed)

RunOK(e, text, rows, charged, stored, listed) ==
  e = Free \/ (e \in JobRun /\ e.job.id \in charged /\ RunKnows(e, text, rows, stored, listed))

JobsOK == \A j \in DOMAIN jobs : j \in Job /\ j.id \in DOMAIN reserved /\ jobs[j] \in JobRow

RunsOK ==
  /\ DOMAIN run = Worker
  /\ \A w \in Worker : RunOK(run[w], document, conversions, DOMAIN reserved, files, manifests)

RequestOK(e, text, charged) ==
  /\ e \in Request
  /\ e \in LaunchRequest /\ text # NoDocument => e.revision <= text
  /\ e \in ScheduleRequest => e.id \in charged

RequestsOK ==
  /\ DOMAIN request = Client
  /\ \A c \in Client : RequestOK(request[c], document, DOMAIN reserved)

\* The conversions go with the document; a charge is of a conversion until then.
ConversionsOfDocument ==
  /\ document = NoDocument => DOMAIN conversions = {}
  /\ document # NoDocument => DOMAIN reserved \subseteq DOMAIN conversions

RowsOK == \A id \in DOMAIN conversions : RowOK(conversions[id], document)

ChargesOK ==
  /\ \A id \in DOMAIN reserved : reserved[id] \in Nat
  /\ \A id \in ConversionId \ DOMAIN reserved : refunded[id] = 0

OneActive ==
  \A a, b \in DOMAIN conversions :
    /\ conversions[a].revision = conversions[b].revision
    /\ conversions[a].status # "failed" /\ conversions[b].status # "failed"
    => a = b

IInv ==
  /\ TypeOK
  /\ JobsOK
  /\ RunsOK
  /\ RequestsOK
  /\ hooks \subseteq DOMAIN reserved
  /\ ConversionsOfDocument
  /\ RowsOK
  /\ ChargesOK
  /\ OneActive
  /\ FailedIsRefunded
  /\ DeliveredIsComplete

-----------------------------------------------------------------------------
(* What a step does to the tables and the storage.                           *)

Quiet == UNCHANGED <<tables, storage>>

TextCorrected ==
  /\ document # NoDocument
  /\ document' = document + 1 /\ document' \in Revision
  /\ UNCHANGED <<conversions, reserved, refunded, storage>>

TextDeleted ==
  /\ document' = NoDocument
  /\ DOMAIN conversions' = {}
  /\ UNCHANGED <<reserved, refunded, storage>>

NewRow(r) == [revision |-> r, status |-> "queued", segments |-> {}, voiced |-> {}, assembled |-> {}]

Launched ==
  \E id \in ConversionId \ DOMAIN reserved, r \in Revision :
    /\ document # NoDocument /\ r <= document
    /\ Active(r) = {}
    /\ DOMAIN reserved' = DOMAIN reserved \cup {id}
    /\ reserved'[id] \in Nat
    /\ \A k \in DOMAIN reserved : reserved'[k] = reserved[k]
    /\ DOMAIN conversions' = DOMAIN conversions \cup {id}
    /\ conversions'[id] = NewRow(r)
    /\ \A k \in DOMAIN conversions : conversions'[k] = conversions[k]
    /\ UNCHANGED <<document, refunded, storage>>

\* A row with another status, and the rows the other updates leave.
Moved(old, new, to) ==
  /\ new.status = to
  /\ new.revision = old.revision /\ new.segments = old.segments
  /\ new.voiced = old.voiced /\ new.assembled = old.assembled

Marked(old, new) == old.status \in Preparable /\ Moved(old, new, "preparing")
Filled(old, new) ==
  /\ old.status = "preparing" /\ new.status = "synthesizing"
  /\ new.segments = PlanOf(old.revision) /\ new.segments # {}
  /\ new.revision = old.revision /\ new.voiced = old.voiced /\ new.assembled = old.assembled
VoicedMore(old, new) ==
  /\ Prepared(old)
  /\ \E s \in SegmentsIn(old) : new.voiced = old.voiced \cup {s}
  /\ new.revision = old.revision /\ new.status = old.status
  /\ new.segments = old.segments /\ new.assembled = old.assembled
Synthesized(old, new) ==
  old.status = "synthesizing" /\ PendingOf(old) = {} /\ Moved(old, new, "synthesized")
AssembledMore(id, old, new) ==
  /\ Prepared(old)
  /\ \E p \in Part : /\ new.assembled = old.assembled \cup {p}
                     /\ <<id, p>> \in files /\ WholePart(old, p)
  /\ new.revision = old.revision /\ new.status = old.status
  /\ new.segments = old.segments /\ new.voiced = old.voiced
MadeReady(id, old, new) ==
  /\ old.status = "synthesized" /\ Moved(old, new, "ready")
  /\ {PartOf[s] : s \in SegmentsIn(old)} \subseteq old.assembled
  /\ id \in manifests
Failing(id, old, new) ==
  /\ old.status \in InProgress /\ Moved(old, new, "failed")
  /\ refunded' = [refunded EXCEPT ![id] = Beyond(reserved[id], CharsVoiced(id))]

RowChanged ==
  \E id \in DOMAIN conversions, new \in ConversionRow :
    LET old == conversions[id]
    IN  /\ conversions' = [conversions EXCEPT ![id] = new]
        /\ UNCHANGED <<document, reserved, storage>>
        /\ \/ /\ \/ Marked(old, new) \/ Filled(old, new) \/ VoicedMore(old, new)
                 \/ Synthesized(old, new) \/ AssembledMore(id, old, new) \/ MadeReady(id, old, new)
              /\ UNCHANGED refunded
           \/ Failing(id, old, new)

Stored == files \subseteq files' /\ manifests \subseteq manifests' /\ UNCHANGED tables

TablesStep == Quiet \/ TextCorrected \/ TextDeleted \/ Launched \/ RowChanged \/ Stored

-----------------------------------------------------------------------------
(* Each action has one of these effects.                                     *)

\* A run in progress has the type of its job and knows what its steps saw.
LEMMA RunAt ==
  ASSUME IInv, NEW w \in Worker, run[w] # Free
  PROVE  /\ run[w] \in JobRun
         /\ run[w].job.id \in DOMAIN reserved
         /\ RunKnows(run[w], document, conversions, files, manifests)
         /\ run[w].job.kind = "prepare" => run[w] \in PrepareRun
         /\ run[w].job.kind = "synthesize" => run[w] \in SynthesizeRun
         /\ run[w].job.kind = "assemble" => run[w] \in AssembleRun
<1>1. /\ run[w] \in JobRun /\ run[w].job.id \in DOMAIN reserved
      /\ RunKnows(run[w], document, conversions, files, manifests)
  BY DEF IInv, RunsOK, RunOK
<1>2. /\ run[w] \in PrepareRun => run[w].job.kind = "prepare"
      /\ run[w] \in SynthesizeRun => run[w].job.kind = "synthesize"
      /\ run[w] \in AssembleRun => run[w].job.kind = "assemble"
  BY DEF PrepareRun, SynthesizeRun, AssembleRun, PrepareJob, SynthesizeJob, AssembleJob
<1> QED
  BY <1>1, <1>2 DEF JobRun

LEMMA NotFree ==
  ASSUME NEW w, NEW kind, NEW step, At(w, kind, step), step # "free"
  PROVE  run[w] # Free /\ run[w].step = step /\ run[w].job.kind = kind
BY DEF At, Free

LEMMA StatusKnown ==
  ASSUME TypeOK, NEW id, StatusOf(id) # "absent"
  PROVE  /\ id \in DOMAIN conversions /\ conversions[id] \in ConversionRow
         /\ StatusOf(id) = conversions[id].status
BY DEF StatusOf, TypeOK

\* UPDATE conversions SET status: the row moves, or nothing does.
LEMMA MoveEffect ==
  ASSUME TypeOK, NEW id, NEW from, NEW to \in Statuses, "absent" \notin from, Move(id, from, to)
  PROVE  \/ UNCHANGED conversions
         \/ /\ id \in DOMAIN conversions /\ conversions[id].status \in from
            /\ \E new \in ConversionRow : /\ conversions' = [conversions EXCEPT ![id] = new]
                                          /\ Moved(conversions[id], new, to)
<1>1. CASE StatusOf(id) \notin from
  BY <1>1 DEF Move, Update
<1>2. CASE StatusOf(id) \in from
  <2> DEFINE old == conversions[id]
             new == [old EXCEPT !.status = to]
  <2>1. StatusOf(id) # "absent"
    BY <1>2
  <2>2. id \in DOMAIN conversions /\ old \in ConversionRow /\ old.status \in from
    BY <1>2, <2>1, StatusKnown
  <2>3. conversions' = [conversions EXCEPT ![id] = new]
    BY <1>2 DEF Move, Update
  <2>4. new \in ConversionRow /\ Moved(old, new, to)
    BY <2>2 DEF ConversionRow, Moved
  <2> HIDE DEF new
  <2> QED
    BY <2>2, <2>3, <2>4
<1> QED
  BY <1>1, <1>2

\* FailConversionUseCase fails and refunds a conversion in progress, or nothing.
LEMMA FailEffect ==
  ASSUME TypeOK, NEW id, FailConversion(id), UNCHANGED storage
  PROVE  Quiet \/ RowChanged
<1>1. Move(id, InProgress, "failed") /\ UNCHANGED <<document, reserved>>
  BY DEF FailConversion
<1>2. CASE StatusOf(id) \notin InProgress
  BY <1>1, <1>2 DEF FailConversion, Move, Update, Quiet, tables, storage
<1>3. CASE StatusOf(id) \in InProgress
  <2> DEFINE old == conversions[id]
             new == [old EXCEPT !.status = "failed"]
  <2>1. StatusOf(id) # "absent"
    BY <1>3 DEF InProgress
  <2>2. id \in DOMAIN conversions /\ old \in ConversionRow /\ old.status \in InProgress
    BY <1>3, <2>1, StatusKnown
  <2>3. conversions' = [conversions EXCEPT ![id] = new]
    BY <1>1, <1>3 DEF Move, Update
  <2>4. new \in ConversionRow /\ Moved(old, new, "failed")
    BY <2>2 DEF ConversionRow, Moved, Statuses
  <2>5. refunded' = [refunded EXCEPT ![id] = Beyond(reserved[id], CharsVoiced(id))]
    BY <1>3 DEF FailConversion
  <2> HIDE DEF new
  <2> QED
    BY <1>1, <2>2, <2>3, <2>4, <2>5 DEF RowChanged, Failing
<1> QED
  BY <1>2, <1>3

LEMMA LaunchEffect ==
  ASSUME IInv, NEW c \in Client, NEW id \in ConversionId, ReserveAndInsert(c, id)
  PROVE  Quiet \/ Launched
<1> DEFINE r == request[c].revision
<1>1. r \in Revision /\ (document # NoDocument => r <= document)
  <2>1. request[c].step = "reserve" /\ RequestOK(request[c], document, DOMAIN reserved)
    BY DEF ReserveAndInsert, Serving, IInv, RequestsOK
  <2>2. request[c] \in LaunchRequest
    BY <2>1 DEF RequestOK, Request, Free, ScheduleRequest
  <2> QED
    BY <2>1, <2>2 DEF RequestOK, LaunchRequest
<1>2. CASE ~ (~Conflicts(r) /\ document # NoDocument)
  BY <1>2 DEF ReserveAndInsert, Quiet, tables, storage
<1>3. CASE ~Conflicts(r) /\ document # NoDocument
  <2>1. /\ id \notin DOMAIN reserved
        /\ reserved' = [k \in DOMAIN reserved \cup {id} |-> IF k = id THEN Chars[r] ELSE reserved[k]]
        /\ conversions' = [k \in DOMAIN conversions \cup {id} |->
                             IF k = id THEN NewRow(r) ELSE conversions[k]]
        /\ UNCHANGED <<document, refunded, storage>>
    BY <1>3 DEF ReserveAndInsert, NewRow
  <2>2. id \notin DOMAIN conversions
    BY <2>1 DEF IInv, TypeOK
  <2>3. Chars[r] \in Nat
    BY <1>1, PipelineAssumption
  <2>4. Active(r) = {}
    BY <1>3 DEF Conflicts
  <2> HIDE DEF r
  <2>5. /\ DOMAIN reserved' = DOMAIN reserved \cup {id} /\ reserved'[id] \in Nat
        /\ \A k \in DOMAIN reserved : reserved'[k] = reserved[k]
        /\ DOMAIN conversions' = DOMAIN conversions \cup {id}
        /\ conversions'[id] = NewRow(r)
        /\ \A k \in DOMAIN conversions : conversions'[k] = conversions[k]
    BY <2>1, <2>2, <2>3
  <2> QED
    BY <1>1, <1>3, <2>1, <2>4, <2>5 DEF Launched
<1> QED
  BY <1>2, <1>3

LEMMA MarkEffect ==
  ASSUME IInv, NEW w \in Worker, MarkPreparing(w)
  PROVE  Quiet \/ RowChanged
<1> DEFINE id == Id(w)
<1>1. Move(id, Preparable, "preparing") /\ UNCHANGED <<document, reserved, refunded, storage>>
  BY DEF MarkPreparing
<1>2. TypeOK /\ "absent" \notin Preparable /\ "preparing" \in Statuses
  BY DEF IInv, Preparable, Statuses
<1> HIDE DEF id
<1>3. \/ UNCHANGED conversions
      \/ /\ id \in DOMAIN conversions /\ conversions[id].status \in Preparable
         /\ \E new \in ConversionRow : /\ conversions' = [conversions EXCEPT ![id] = new]
                                       /\ Moved(conversions[id], new, "preparing")
  BY <1>1, <1>2, MoveEffect
<1> QED
  BY <1>1, <1>3 DEF Quiet, tables, storage, RowChanged, Marked

\* The plan of a revision, as the segments of a row and as those of the plan.
LEMMA PlanType ==
  ASSUME NEW r \in Revision
  PROVE  /\ PlanOf(r) \subseteq Revision \X Segment
         /\ DOMAIN SegmentPlan[r] \subseteq Segment
         /\ {e[2] : e \in PlanOf(r)} = DOMAIN SegmentPlan[r]
         /\ DOMAIN SegmentPlan[r] # {} => PlanOf(r) # {}
<1> DEFINE D == DOMAIN SegmentPlan[r]
<1>1. D \subseteq Segment
  BY DEF Segment
<1>2. PlanOf(r) = {r} \X D
  BY DEF PlanOf
<1> HIDE DEF D
<1>3. {r} \X D \subseteq Revision \X Segment
  BY <1>1
<1>4. {e[2] : e \in {r} \X D} = D
  <2>1. \A s \in D : <<r, s>> \in {r} \X D /\ <<r, s>>[2] = s
    OBVIOUS
  <2>2. \A e \in {r} \X D : e[2] \in D
    OBVIOUS
  <2> QED
    BY <2>1, <2>2, Zenon
<1>5. D # {} => {r} \X D # {}
  BY <1>4
<1> QED
  BY <1>1, <1>2, <1>3, <1>4, <1>5 DEF D

LEMMA CompletePreparationEffect ==
  ASSUME IInv, NEW w \in Worker, CompletePreparation(w)
  PROVE  Quiet \/ RowChanged
<1> DEFINE id == run[w].job.id
           old == conversions[id]
           segments == UNION {PlanOf(r) : r \in run[w].read}
           new == [[old EXCEPT !.status = "synthesizing"] EXCEPT !.segments = segments]
<1>1. UNCHANGED <<document, reserved, refunded, storage>>
  BY DEF CompletePreparation
<1>2. CASE StatusOf(id) # "preparing"
  BY <1>1, <1>2 DEF CompletePreparation, Update, Id, Quiet, tables, storage
<1>3. CASE StatusOf(id) = "preparing"
  <2>1. /\ id \in DOMAIN conversions /\ old \in ConversionRow
        /\ old.status = "preparing"
    BY <1>3, StatusKnown DEF IInv
  <2>2. conversions' = [conversions EXCEPT ![id] = new]
    BY <1>3 DEF CompletePreparation, Update, Id, PlanOf
  <2>3. /\ run[w] # Free /\ run[w].step = "complete" /\ run[w].job.kind = "prepare"
    BY NotFree DEF CompletePreparation
  <2>4. RunKnows(run[w], document, conversions, files, manifests)
    BY <2>3, RunAt
  <2>5. run[w].read = {old.revision} /\ DOMAIN SegmentPlan[old.revision] # {}
    BY <2>1, <2>3, <2>4 DEF RunKnows, PrepareKnows
  <2>6. segments = PlanOf(old.revision)
    BY <2>5
  <2>7. old.revision \in Revision
    BY <2>1 DEF ConversionRow
  <2>8. PlanOf(old.revision) # {} /\ PlanOf(old.revision) \subseteq Revision \X Segment
    BY <2>5, <2>7, PlanType
  <2> HIDE DEF segments, old
  <2>9. /\ new \in ConversionRow
        /\ new.status = "synthesizing" /\ new.segments = PlanOf(old.revision)
        /\ new.revision = old.revision /\ new.voiced = old.voiced
        /\ new.assembled = old.assembled
    BY <2>1, <2>6, <2>8 DEF ConversionRow, Statuses
  <2> HIDE DEF new
  <2>10. Filled(old, new)
    BY <2>1, <2>8, <2>9 DEF Filled
  <2> QED
    BY <1>1, <2>1, <2>2, <2>9, <2>10 DEF RowChanged, old
<1> QED
  BY <1>2, <1>3

LEMMA CompleteSegmentEffect ==
  ASSUME IInv, NEW w \in Worker, CompleteSegment(w)
  PROVE  Quiet \/ RowChanged
<1> DEFINE id == run[w].job.id
           s == run[w].job.segment
           old == conversions[id]
           new == [old EXCEPT !.voiced = @ \cup {s}]
<1>1. UNCHANGED <<document, reserved, refunded, storage>>
  BY DEF CompleteSegment
<1>2. CASE StatusOf(id) \notin Statuses
  BY <1>1, <1>2 DEF CompleteSegment, Update, Id, Quiet, tables, storage
<1>3. CASE StatusOf(id) \in Statuses
  <2>1. StatusOf(id) # "absent"
    BY <1>3 DEF Statuses
  <2>2. id \in DOMAIN conversions /\ old \in ConversionRow
    BY <2>1, StatusKnown DEF IInv
  <2>3. conversions' = [conversions EXCEPT ![id] = new]
    BY <1>3 DEF CompleteSegment, Update, Id
  <2>4. run[w] # Free /\ run[w].job.kind = "synthesize"
    BY NotFree DEF CompleteSegment
  <2>5. RunKnows(run[w], document, conversions, files, manifests) /\ run[w] \in SynthesizeRun
    BY <2>4, RunAt
  <2>6. Prepared(old) /\ s \in SegmentsIn(old)
    BY <2>2, <2>4, <2>5 DEF RunKnows, SynthesizeKnows
  <2>7. s \in Segment
    BY <2>5 DEF SynthesizeRun, SynthesizeJob
  <2> HIDE DEF s, old
  <2>8. /\ new \in ConversionRow
        /\ new.voiced = old.voiced \cup {s}
        /\ new.revision = old.revision /\ new.status = old.status
        /\ new.segments = old.segments /\ new.assembled = old.assembled
    BY <2>2, <2>7 DEF ConversionRow
  <2> HIDE DEF new
  <2>9. VoicedMore(old, new)
    BY <2>6, <2>8 DEF VoicedMore
  <2> QED
    BY <1>1, <2>2, <2>3, <2>8, <2>9 DEF RowChanged, old
<1> QED
  BY <1>2, <1>3

LEMMA CompletePartEffect ==
  ASSUME IInv, NEW w \in Worker, CompletePart(w)
  PROVE  Quiet \/ RowChanged
<1> DEFINE id == run[w].job.id
           p == run[w].job.part
           old == conversions[id]
           new == [old EXCEPT !.assembled = @ \cup {p}]
<1>1. UNCHANGED <<document, reserved, refunded, storage>>
  BY DEF CompletePart
<1>2. CASE StatusOf(id) \notin Statuses
  BY <1>1, <1>2 DEF CompletePart, Update, Id, Quiet, tables, storage
<1>3. CASE StatusOf(id) \in Statuses
  <2>1. StatusOf(id) # "absent"
    BY <1>3 DEF Statuses
  <2>2. id \in DOMAIN conversions /\ old \in ConversionRow
    BY <2>1, StatusKnown DEF IInv
  <2>3. conversions' = [conversions EXCEPT ![id] = new]
    BY <1>3 DEF CompletePart, Update, Id
  <2>4. run[w] # Free /\ run[w].step = "complete" /\ run[w].job.kind = "assemble"
    BY NotFree DEF CompletePart
  <2>5. RunKnows(run[w], document, conversions, files, manifests) /\ run[w] \in AssembleRun
    BY <2>4, RunAt
  <2>6. Prepared(old) /\ <<id, p>> \in files /\ WholePart(old, p)
    BY <2>2, <2>4, <2>5 DEF RunKnows, AssembleKnows
  <2>7. p \in Part
    BY <2>5 DEF AssembleRun, AssembleJob
  <2> HIDE DEF p, old
  <2>8. /\ new \in ConversionRow
        /\ new.assembled = old.assembled \cup {p}
        /\ new.revision = old.revision /\ new.status = old.status
        /\ new.segments = old.segments /\ new.voiced = old.voiced
    BY <2>2, <2>7 DEF ConversionRow
  <2> HIDE DEF new
  <2>9. AssembledMore(id, old, new)
    BY <2>6, <2>7, <2>8 DEF AssembledMore
  <2> QED
    BY <1>1, <2>2, <2>3, <2>8, <2>9 DEF RowChanged, old
<1> QED
  BY <1>2, <1>3

LEMMA PendingIsPendingOf ==
  ASSUME NEW id \in DOMAIN conversions
  PROVE  /\ SegmentsOf(id) = SegmentsIn(conversions[id])
         /\ Pending(id) = PendingOf(conversions[id])
         /\ PartsOf(id) = {PartOf[s] : s \in SegmentsIn(conversions[id])}
         /\ \A p : PendingIn(id, p) = {} <=> WholePart(conversions[id], p)
BY DEF Pending, PendingOf, SegmentsOf, SegmentsIn, PartsOf, PendingIn, WholePart

LEMMA SynthesizedEffect ==
  ASSUME IInv, NEW w \in Worker, CompleteIfAllSegmentsSynthesized(w)
  PROVE  Quiet \/ RowChanged
<1> DEFINE id == Id(w)
           from == IF Pending(id) = {} THEN {"synthesizing"} ELSE {}
<1>1. Move(id, from, "synthesized") /\ UNCHANGED <<document, reserved, refunded, storage>>
  BY DEF CompleteIfAllSegmentsSynthesized
<1>2. TypeOK /\ "absent" \notin from /\ "synthesized" \in Statuses
  BY DEF IInv, Statuses
<1>3. \A status : status \in from => status = "synthesizing" /\ Pending(id) = {}
  OBVIOUS
<1> HIDE DEF id, from
<1>4. \/ UNCHANGED conversions
      \/ /\ id \in DOMAIN conversions /\ conversions[id].status \in from
         /\ \E new \in ConversionRow : /\ conversions' = [conversions EXCEPT ![id] = new]
                                       /\ Moved(conversions[id], new, "synthesized")
  BY <1>1, <1>2, MoveEffect
<1> QED
  BY <1>1, <1>3, <1>4, PendingIsPendingOf
     DEF Quiet, tables, storage, RowChanged, Synthesized

LEMMA ReadyEffect ==
  ASSUME IInv, NEW w \in Worker, MarkReady(w)
  PROVE  Quiet \/ RowChanged
<1> DEFINE id == Id(w)
           from == IF StatusOf(id) # "absent" => AllAssembled(id) THEN {"synthesized"} ELSE {}
<1>1. Move(id, from, "ready") /\ UNCHANGED <<document, reserved, refunded, storage>>
  BY DEF MarkReady
<1>2. TypeOK /\ "absent" \notin from /\ "ready" \in Statuses
  BY DEF IInv, Statuses
<1>3. \A status : status \in from => status = "synthesized" /\ (StatusOf(id) # "absent" => AllAssembled(id))
  OBVIOUS
<1>4. id \in DOMAIN conversions => id \in manifests
  <2>1. run[w] # Free /\ run[w].step = "ready" /\ run[w].job.kind = "assemble"
    BY NotFree DEF MarkReady
  <2>2. RunKnows(run[w], document, conversions, files, manifests)
    BY <2>1, RunAt
  <2> QED
    BY <2>1, <2>2 DEF RunKnows, AssembleKnows, Id
<1>5. id \in DOMAIN conversions => StatusOf(id) # "absent"
  BY DEF StatusOf, IInv, TypeOK, ConversionRow, Statuses
<1> HIDE DEF id, from
<1>6. \/ UNCHANGED conversions
      \/ /\ id \in DOMAIN conversions /\ conversions[id].status \in from
         /\ \E new \in ConversionRow : /\ conversions' = [conversions EXCEPT ![id] = new]
                                       /\ Moved(conversions[id], new, "ready")
  BY <1>1, <1>2, MoveEffect
<1>7. id \in DOMAIN conversions /\ conversions[id].status \in from
        => {PartOf[s] : s \in SegmentsIn(conversions[id])} \subseteq conversions[id].assembled
  BY <1>3, <1>5, PendingIsPendingOf DEF AllAssembled
<1> QED
  BY <1>1, <1>3, <1>4, <1>6, <1>7 DEF Quiet, tables, storage, RowChanged, MadeReady

LEMMA RunStepEffect ==
  ASSUME IInv, NEW w \in Worker, RunStep(w)
  PROVE  TablesStep
<1>1. CASE \/ SourceBefore(w) \/ ReadPages(w) \/ SourceAfter(w) \/ ScheduleSynthesis(w)
           \/ AfterSegment(w) \/ Finalize(w)
  BY <1>1 DEF SourceBefore, ReadPages, SourceAfter, ScheduleSynthesis, AfterSegment, Finalize,
              TablesStep, Quiet
<1>2. CASE FailFromRun(w)
  BY <1>2, FailEffect DEF FailFromRun, IInv, TablesStep
<1>3. CASE PutPart(w) \/ PutManifest(w)
  BY <1>3 DEF PutPart, PutManifest, TablesStep, Stored, storage
<1> QED
  BY <1>1, <1>2, <1>3, MarkEffect, CompletePreparationEffect, CompleteSegmentEffect,
     CompletePartEffect, SynthesizedEffect, ReadyEffect DEF RunStep, TablesStep

LEMMA EveryTablesStep ==
  ASSUME IInv, [Next]_vars
  PROVE  TablesStep
<1>1. CASE \E c \in Client : ReadSource(c) \/ RequestStep(c)
  BY <1>1, LaunchEffect
     DEF ReadSource, RequestStep, FindActive, ReservationRefused, SchedulePreparation,
         PreparationNotScheduled, TablesStep, Quiet
<1>2. CASE \E w \in Worker : BeginRun(w) \/ AttemptFails(w)
  BY <1>2 DEF BeginRun, BeginJob, BeginPreparation, BeginSynthesis, BeginAssembly, AttemptFails,
              TablesStep, Quiet
<1>3. CASE \E w \in Worker : RunStep(w)
  BY <1>3, RunStepEffect
<1>4. CASE \E id \in ConversionId : OnFinalFailure(id)
  BY <1>4, FailEffect DEF OnFinalFailure, IInv, TablesStep
<1>5. CASE \/ \E j \in DOMAIN jobs : Redeliver(j)
           \/ \E id \in ConversionId : SweepQueued(id) \/ FinalFailureSwallowed(id)
           \/ \E id \in ConversionId : SweepId(id)
           \/ Restart \/ CleanupForDocument
  BY <1>5 DEF Redeliver, SweepQueued, FinalFailureSwallowed, SweepId, SweepStalled, Restart,
              CleanupForDocument, TablesStep, Quiet
<1>6. CASE CorrectText
  BY <1>6 DEF CorrectText, TablesStep, TextCorrected
<1>7. CASE DeleteDocument
  BY <1>7 DEF DeleteDocument, TablesStep, TextDeleted
<1>8. CASE UNCHANGED vars
  BY <1>8 DEF vars, TablesStep, Quiet
<1> QED
  BY <1>1, <1>2, <1>3, <1>4, <1>5, <1>6, <1>7, <1>8 DEF Next

-----------------------------------------------------------------------------
(* The tables after a step: the rows of the conversions.                     *)

RowRefunded(id, row, charged, back) ==
  IF row.status = "failed"
  THEN /\ back[id] <= charged[id]
       /\ back[id] + SumFunctionOnSet(SegmentPlan[row.revision], row.voiced) >= charged[id]
  ELSE back[id] = 0

RowDelivered(id, row, stored, listed) ==
  /\ \A p \in row.assembled : <<id, p>> \in stored /\ WholePart(row, p)
  /\ row.status \in {"synthesized", "ready"} => PendingOf(row) = {} /\ SegmentsIn(row) # {}
  /\ row.status = "ready" => /\ {PartOf[s] : s \in SegmentsIn(row)} \subseteq row.assembled
                             /\ id \in listed

RowPromised(id, row, text, charged, back, stored, listed) ==
  /\ row \in ConversionRow
  /\ RowOK(row, text)
  /\ RowRefunded(id, row, charged, back)
  /\ RowDelivered(id, row, stored, listed)

\* The promises about the tables, row by row, before a step and after it.
LEMMA RowWise ==
  ASSUME IInv, NEW id \in DOMAIN conversions
  PROVE  RowPromised(id, conversions[id], document, reserved, refunded, files, manifests)
<1>1. RowRefunded(id, conversions[id], reserved, refunded)
  BY DEF IInv, FailedIsRefunded, RowRefunded, StatusOf, CharsOf
<1>2. RowDelivered(id, conversions[id], files, manifests)
  BY PendingIsPendingOf DEF IInv, DeliveredIsComplete, RowDelivered, StatusOf
<1> QED
  BY <1>1, <1>2 DEF IInv, TypeOK, RowsOK, RowPromised

RowsPromised ==
  \A id \in DOMAIN conversions :
    RowPromised(id, conversions[id], document, reserved, refunded, files, manifests)

LEMMA RowWiseNext ==
  ASSUME RowsPromised'
  PROVE  /\ RowsOK' /\ FailedIsRefunded' /\ DeliveredIsComplete'
         /\ \A id \in DOMAIN conversions' : conversions'[id] \in ConversionRow
<1> DEFINE rows == conversions'
<1>1. \A id \in DOMAIN rows : RowPromised(id, rows[id], document', reserved', refunded', files', manifests')
  BY DEF RowsPromised
<1>2. RowsOK' /\ \A id \in DOMAIN rows : rows[id] \in ConversionRow
  BY <1>1 DEF RowsOK, RowPromised
<1>3. FailedIsRefunded'
  BY <1>1 DEF FailedIsRefunded, RowPromised, RowRefunded, StatusOf, CharsOf
<1>4. DeliveredIsComplete'
  <2> SUFFICES ASSUME NEW id \in DOMAIN rows
               PROVE  /\ \A p \in rows[id].assembled : <<id, p>> \in files' /\ PendingIn(id, p)' = {}
                      /\ StatusOf(id)' \in {"synthesized", "ready"}
                           => Pending(id)' = {} /\ SegmentsOf(id)' # {}
                      /\ StatusOf(id)' = "ready"
                           => PartsOf(id)' \subseteq rows[id].assembled /\ id \in manifests'
    BY DEF DeliveredIsComplete
  <2>1. /\ SegmentsOf(id)' = SegmentsIn(rows[id])
        /\ Pending(id)' = PendingOf(rows[id])
        /\ PartsOf(id)' = {PartOf[s] : s \in SegmentsIn(rows[id])}
        /\ StatusOf(id)' = rows[id].status
    BY DEF Pending, PendingOf, SegmentsOf, SegmentsIn, PartsOf, StatusOf
  <2>2. \A p : WholePart(rows[id], p) => PendingIn(id, p)' = {}
    BY <2>1 DEF WholePart, PendingIn
  <2>3. RowDelivered(id, rows[id], files', manifests')
    BY <1>1 DEF RowPromised
  <2> HIDE DEF rows
  <2> QED
    BY <2>1, <2>2, <2>3 DEF RowDelivered
<1> QED
  BY <1>2, <1>3, <1>4

\* A row keeps its promises while the text and the storage only grow.
LEMMA RowKept ==
  ASSUME NEW id, NEW row, NEW text \in Nat, NEW text2 \in Nat, text <= text2,
         NEW charged, NEW charged2, NEW back, NEW back2, charged2[id] = charged[id], back2[id] = back[id],
         NEW stored, NEW stored2, NEW listed, NEW listed2, stored \subseteq stored2, listed \subseteq listed2,
         RowPromised(id, row, text, charged, back, stored, listed)
  PROVE  RowPromised(id, row, text2, charged2, back2, stored2, listed2)
<1>1. row \in ConversionRow /\ row.revision \in Nat
  BY PipelineAssumption DEF RowPromised, ConversionRow
<1>2. RowOK(row, text2)
  BY <1>1 DEF RowPromised, RowOK
<1>3. RowRefunded(id, row, charged2, back2)
  BY DEF RowPromised, RowRefunded
<1>4. RowDelivered(id, row, stored2, listed2)
  BY DEF RowPromised, RowDelivered
<1> QED
  BY <1>1, <1>2, <1>3, <1>4 DEF RowPromised

\* What was synthesised of a conversion, in characters: a number, and one that
\* another segment of its plan does not lower.
LEMMA VoicedIsFinite ==
  ASSUME NEW row \in ConversionRow, NEW text, RowOK(row, text)
  PROVE  /\ SegmentsIn(row) \subseteq DOMAIN SegmentPlan[row.revision]
         /\ IsFiniteSet(SegmentsIn(row)) /\ IsFiniteSet(row.voiced)
         /\ SumFunctionOnSet(SegmentPlan[row.revision], row.voiced) \in Nat
<1> DEFINE r == row.revision
           D == DOMAIN SegmentPlan[r]
<1>1. r \in Revision
  BY DEF ConversionRow
<1>2. IsFiniteSet(D) /\ \A s \in D : SegmentPlan[r][s] \in Nat
  BY <1>1, PipelineAssumption
<1>3. SegmentsIn(row) \subseteq D
  BY <1>1, PlanType DEF RowOK, SegmentsIn
<1>4. row.voiced \subseteq SegmentsIn(row)
  BY DEF RowOK
<1>5. IsFiniteSet(SegmentsIn(row)) /\ IsFiniteSet(row.voiced)
  BY <1>2, <1>3, <1>4, FS_Subset
<1>6. \A s \in row.voiced : SegmentPlan[r][s] \in Nat
  BY <1>2, <1>3, <1>4
<1>7. SumFunctionOnSet(SegmentPlan[r], row.voiced) \in Nat
  BY <1>5, <1>6, SumType
<1> QED
  BY <1>3, <1>5, <1>7

LEMMA VoicedGrows ==
  ASSUME NEW row \in ConversionRow, NEW text, RowOK(row, text), NEW s \in SegmentsIn(row)
  PROVE  SumFunctionOnSet(SegmentPlan[row.revision], row.voiced)
           <= SumFunctionOnSet(SegmentPlan[row.revision], row.voiced \cup {s})
<1> DEFINE f == SegmentPlan[row.revision]
           V == row.voiced
<1>1. IsFiniteSet(V) /\ SumFunctionOnSet(f, V) \in Nat
  BY VoicedIsFinite
<1>2. \A x \in SegmentsIn(row) : f[x] \in Nat
  BY VoicedIsFinite, PipelineAssumption DEF ConversionRow
<1>3. V \subseteq SegmentsIn(row)
  BY DEF RowOK
<1> HIDE DEF f, V
<1> DEFINE before == SumFunctionOnSet(f, V)
           after == SumFunctionOnSet(f, V \cup {s})
<1>4. CASE s \in V
  <2>1. V \cup {s} = V
    BY <1>4
  <2>2. after = before
    BY <2>1, Zenon
  <2> HIDE DEF before, after
  <2>3. before \in Nat
    BY <1>1 DEF before
  <2>4. before <= after
    BY <2>2, <2>3
  <2> QED
    BY <2>4 DEF f, V, before, after
<1>5. CASE s \notin V
  <2> DEFINE T == V \cup {s}
  <2>1. IsFiniteSet(T) /\ T \ {s} = V /\ s \in T
    BY <1>1, <1>5, FS_AddElement
  <2>2. \A x \in T : f[x] \in Int
    BY <1>2, <1>3
  <2>3. f[s] \in Nat
    BY <1>2
  <2> HIDE DEF T
  <2>4. SumFunctionOnSet(f, T) = f[s] + SumFunctionOnSet(f, T \ {s})
    BY <2>1, <2>2, SumRemove
  <2>5. after = f[s] + before
    BY <2>1, <2>4 DEF T
  <2> HIDE DEF before, after
  <2>6. before \in Nat
    BY <1>1 DEF before
  <2>7. before <= after
    BY <2>3, <2>5, <2>6
  <2> QED
    BY <2>7 DEF f, V, before, after
<1> QED
  BY <1>4, <1>5

\* A refund leaves the charge covered by the audio.
LEMMA BeyondCovers ==
  ASSUME NEW a \in Nat, NEW b \in Nat
  PROVE  Beyond(a, b) \in Nat /\ Beyond(a, b) <= a /\ Beyond(a, b) + b >= a
BY DEF Beyond

\* The rows that an update leaves.
LEMMA RowChanges ==
  ASSUME IInv, NEW id \in DOMAIN conversions, NEW new \in ConversionRow,
         LET old == conversions[id]
         IN  \/ Marked(old, new) \/ Filled(old, new) \/ VoicedMore(old, new)
             \/ Synthesized(old, new) \/ AssembledMore(id, old, new) \/ MadeReady(id, old, new)
  PROVE  RowPromised(id, new, document, reserved, refunded, files, manifests)
<1> DEFINE old == conversions[id]
<1>0. /\ old \in ConversionRow /\ RowOK(old, document)
      /\ RowRefunded(id, old, reserved, refunded) /\ RowDelivered(id, old, files, manifests)
  BY RowWise DEF RowPromised
<1>a. reserved[id] \in Nat /\ refunded[id] \in Nat
  BY DEF IInv, TypeOK, ChargesOK
<1>b. \/ Marked(old, new) \/ Filled(old, new) \/ VoicedMore(old, new)
      \/ Synthesized(old, new) \/ AssembledMore(id, old, new) \/ MadeReady(id, old, new)
  OBVIOUS
<1> HIDE DEF old
<1>1. CASE Marked(old, new)
  <2>1. RowOK(new, document)
    BY <1>0, <1>1 DEF Marked, Moved, RowOK, Prepared, Preparable, SegmentsIn
  <2>2. RowRefunded(id, new, reserved, refunded)
    BY <1>0, <1>1 DEF Marked, Moved, RowRefunded, Preparable
  <2>3. RowDelivered(id, new, files, manifests)
    BY <1>0, <1>1 DEF Marked, Moved, RowDelivered, WholePart, PendingOf, SegmentsIn
  <2> QED
    BY <2>1, <2>2, <2>3 DEF RowPromised
<1>2. CASE Filled(old, new)
  <2>1. old.voiced = {} /\ old.assembled = {}
    BY <1>0, <1>2 DEF Filled, RowOK, Prepared, Preparable
  <2>2. RowOK(new, document)
    BY <1>0, <1>2, <2>1 DEF Filled, RowOK, Prepared, Preparable
  <2>3. RowRefunded(id, new, reserved, refunded)
    BY <1>0, <1>2 DEF Filled, RowRefunded
  <2>4. RowDelivered(id, new, files, manifests)
    BY <1>2, <2>1 DEF Filled, RowDelivered
  <2> QED
    BY <2>2, <2>3, <2>4 DEF RowPromised
<1>3. CASE VoicedMore(old, new)
  <2>1. PICK s \in SegmentsIn(old) : new.voiced = old.voiced \cup {s}
    BY <1>3 DEF VoicedMore
  <2>2. /\ Prepared(old) /\ new.revision = old.revision /\ new.status = old.status
        /\ new.segments = old.segments /\ new.assembled = old.assembled
    BY <1>3 DEF VoicedMore
  <2>3. SegmentsIn(new) = SegmentsIn(old) /\ PendingOf(new) = PendingOf(old) \ {s}
    BY <2>1, <2>2 DEF SegmentsIn, PendingOf
  <2>4. RowOK(new, document)
    BY <1>0, <2>1, <2>2, <2>3 DEF RowOK, Prepared
  <2>5. RowRefunded(id, new, reserved, refunded)
    <3> DEFINE before == SumFunctionOnSet(SegmentPlan[old.revision], old.voiced)
               after == SumFunctionOnSet(SegmentPlan[old.revision], old.voiced \cup {s})
    <3>1. before <= after
      BY <1>0, VoicedGrows
    <3>2. before \in Nat /\ after \in Nat
      BY <1>0, <2>1, <2>2, <2>4, VoicedIsFinite
    <3>3. /\ SumFunctionOnSet(SegmentPlan[old.revision], old.voiced) = before
          /\ SumFunctionOnSet(SegmentPlan[new.revision], new.voiced) = after
      BY <2>1, <2>2
    <3> HIDE DEF before, after
    <3>4. CASE old.status = "failed"
      <4>1. refunded[id] <= reserved[id] /\ refunded[id] + before >= reserved[id]
        BY <1>0, <3>3, <3>4 DEF RowRefunded
      <4>2. refunded[id] + after >= reserved[id]
        BY <1>a, <3>1, <3>2, <4>1
      <4> QED
        BY <2>2, <3>3, <3>4, <4>1, <4>2 DEF RowRefunded
    <3>5. CASE old.status # "failed"
      BY <1>0, <2>2, <3>5 DEF RowRefunded
    <3> QED
      BY <3>4, <3>5
  <2>6. RowDelivered(id, new, files, manifests)
    BY <1>0, <2>2, <2>3 DEF RowDelivered, WholePart
  <2> QED
    BY <2>4, <2>5, <2>6 DEF RowPromised
<1>4. CASE Synthesized(old, new)
  <2>1. /\ old.status = "synthesizing" /\ PendingOf(old) = {} /\ new.status = "synthesized"
        /\ new.revision = old.revision /\ new.segments = old.segments
        /\ new.voiced = old.voiced /\ new.assembled = old.assembled
    BY <1>4 DEF Synthesized, Moved
  <2>2. SegmentsIn(new) = SegmentsIn(old) /\ PendingOf(new) = PendingOf(old)
    BY <2>1 DEF SegmentsIn, PendingOf
  <2>3. SegmentsIn(old) # {}
    BY <1>0, <2>1 DEF RowOK, SegmentsIn
  <2>4. RowOK(new, document)
    BY <1>0, <2>1, <2>2 DEF RowOK, Prepared, Preparable
  <2>5. RowRefunded(id, new, reserved, refunded)
    BY <1>0, <2>1 DEF RowRefunded
  <2>6. RowDelivered(id, new, files, manifests)
    BY <1>0, <2>1, <2>2, <2>3 DEF RowDelivered, WholePart
  <2> QED
    BY <2>4, <2>5, <2>6 DEF RowPromised
<1>5. CASE AssembledMore(id, old, new)
  <2>1. PICK p \in Part : /\ new.assembled = old.assembled \cup {p}
                          /\ <<id, p>> \in files /\ WholePart(old, p)
    BY <1>5 DEF AssembledMore
  <2>2. /\ Prepared(old) /\ new.revision = old.revision /\ new.status = old.status
        /\ new.segments = old.segments /\ new.voiced = old.voiced
    BY <1>5 DEF AssembledMore
  <2>3. SegmentsIn(new) = SegmentsIn(old) /\ PendingOf(new) = PendingOf(old)
    BY <2>2 DEF SegmentsIn, PendingOf
  <2>4. RowOK(new, document)
    BY <1>0, <2>2, <2>3 DEF RowOK, Prepared
  <2>5. RowRefunded(id, new, reserved, refunded)
    BY <1>0, <2>2 DEF RowRefunded
  <2>6. RowDelivered(id, new, files, manifests)
    BY <1>0, <2>1, <2>2, <2>3 DEF RowDelivered, WholePart
  <2> QED
    BY <2>4, <2>5, <2>6 DEF RowPromised
<1>6. CASE MadeReady(id, old, new)
  <2>1. /\ old.status = "synthesized" /\ new.status = "ready"
        /\ new.revision = old.revision /\ new.segments = old.segments
        /\ new.voiced = old.voiced /\ new.assembled = old.assembled
        /\ {PartOf[s] : s \in SegmentsIn(old)} \subseteq old.assembled /\ id \in manifests
    BY <1>6 DEF MadeReady, Moved
  <2>2. SegmentsIn(new) = SegmentsIn(old) /\ PendingOf(new) = PendingOf(old)
    BY <2>1 DEF SegmentsIn, PendingOf
  <2>3. RowOK(new, document)
    BY <1>0, <2>1, <2>2 DEF RowOK, Prepared, Preparable
  <2>4. RowRefunded(id, new, reserved, refunded)
    BY <1>0, <2>1 DEF RowRefunded
  <2>5. RowDelivered(id, new, files, manifests)
    BY <1>0, <2>1, <2>2 DEF RowDelivered, WholePart
  <2> QED
    BY <2>3, <2>4, <2>5 DEF RowPromised
<1> QED
  BY <1>b, <1>1, <1>2, <1>3, <1>4, <1>5, <1>6

LEMMA RowFails ==
  ASSUME IInv, NEW id \in DOMAIN conversions, NEW new \in ConversionRow,
         Failing(id, conversions[id], new)
  PROVE  /\ RowPromised(id, new, document, reserved, refunded', files, manifests)
         /\ refunded' \in [ConversionId -> Nat]
         /\ \A k \in ConversionId \ {id} : refunded'[k] = refunded[k]
<1> DEFINE old == conversions[id]
           voiced == SumFunctionOnSet(SegmentPlan[old.revision], old.voiced)
           back == Beyond(reserved[id], voiced)
<1>0. /\ old \in ConversionRow /\ RowOK(old, document) /\ RowDelivered(id, old, files, manifests)
  BY RowWise DEF RowPromised
<1>a. reserved[id] \in Nat /\ refunded \in [ConversionId -> Nat] /\ id \in ConversionId
  BY DEF IInv, TypeOK, ChargesOK
<1>b. old.status \in InProgress /\ Moved(old, new, "failed")
  BY DEF Failing
<1>c. refunded' = [refunded EXCEPT ![id] = back]
  BY DEF Failing, CharsVoiced, CharsOf
<1> HIDE DEF old
<1>1. voiced \in Nat
  BY <1>0, VoicedIsFinite
<1>2. back \in Nat /\ back <= reserved[id] /\ back + voiced >= reserved[id]
  BY <1>a, <1>1, BeyondCovers
<1> HIDE DEF voiced, back
<1>3. /\ refunded' \in [ConversionId -> Nat] /\ refunded'[id] = back
      /\ \A k \in ConversionId \ {id} : refunded'[k] = refunded[k]
  BY <1>a, <1>c, <1>2
<1>4. /\ new.status = "failed" /\ new.revision = old.revision /\ new.segments = old.segments
      /\ new.voiced = old.voiced /\ new.assembled = old.assembled
  BY <1>b DEF Moved
<1>5. SegmentsIn(new) = SegmentsIn(old) /\ PendingOf(new) = PendingOf(old)
  BY <1>4 DEF SegmentsIn, PendingOf
<1>6. RowOK(new, document)
  BY <1>0, <1>4, <1>5 DEF RowOK, Prepared, Preparable
<1>7. RowRefunded(id, new, reserved, refunded')
  BY <1>2, <1>3, <1>4 DEF RowRefunded, voiced
<1>8. RowDelivered(id, new, files, manifests)
  BY <1>0, <1>4, <1>5 DEF RowDelivered, WholePart
<1> QED
  BY <1>3, <1>6, <1>7, <1>8 DEF RowPromised

-----------------------------------------------------------------------------
(* The tables after a step: what they keep of those before it.               *)

\* An update leaves of a row what its conversion was launched for, and takes
\* nothing back.
RowGrows(old, new) ==
  /\ new.revision = old.revision
  /\ old.voiced \subseteq new.voiced /\ old.assembled \subseteq new.assembled
  /\ Prepared(old) => Prepared(new) /\ new.segments = old.segments
  /\ Follows(old.status, new.status)
  /\ old.status = "failed" => new.status = "failed"

LEMMA UpdateGrows ==
  ASSUME NEW id, NEW old \in ConversionRow, NEW new \in ConversionRow,
         \/ Marked(old, new) \/ Filled(old, new) \/ VoicedMore(old, new)
         \/ Synthesized(old, new) \/ AssembledMore(id, old, new) \/ MadeReady(id, old, new)
         \/ old.status \in InProgress /\ Moved(old, new, "failed")
  PROVE  RowGrows(old, new)
<1>1. CASE Marked(old, new)
  BY <1>1 DEF RowGrows, Marked, Moved, Prepared, Preparable, Follows
<1>2. CASE Filled(old, new)
  BY <1>2 DEF RowGrows, Filled, Prepared, Preparable, Follows
<1>3. CASE VoicedMore(old, new)
  BY <1>3 DEF RowGrows, VoicedMore, Prepared, Follows
<1>4. CASE Synthesized(old, new)
  BY <1>4 DEF RowGrows, Synthesized, Moved, Prepared, Preparable, Follows
<1>5. CASE AssembledMore(id, old, new)
  BY <1>5 DEF RowGrows, AssembledMore, Prepared, Follows
<1>6. CASE MadeReady(id, old, new)
  BY <1>6 DEF RowGrows, MadeReady, Moved, Prepared, Preparable, Follows
<1>7. CASE old.status \in InProgress /\ Moved(old, new, "failed")
  BY <1>7 DEF RowGrows, InProgress, Moved, Prepared, Preparable, Follows
<1> QED
  BY <1>1, <1>2, <1>3, <1>4, <1>5, <1>6, <1>7

LEMMA RowStays ==
  ASSUME NEW row
  PROVE  RowGrows(row, row)
BY DEF RowGrows, Follows

\* What a step may do to the tables and the storage, seen by those who read
\* them before it and go on after it.
TablesGrow ==
  /\ document' \in Revision \cup {NoDocument}
  /\ DOMAIN reserved \subseteq DOMAIN reserved'
  /\ \A id \in DOMAIN conversions' :
       IF id \in DOMAIN conversions THEN RowGrows(conversions[id], conversions'[id])
                                    ELSE id \notin DOMAIN reserved /\ conversions'[id].status = "queued"
  /\ document' # NoDocument => document # NoDocument /\ document <= document'
  /\ document' = NoDocument => DOMAIN conversions' = {}
  /\ files \subseteq files' /\ manifests \subseteq manifests'

\* The tables keep their types and their promises, and only grow.
TablesKept ==
  /\ document \in Revision \cup {NoDocument}
  /\ DOMAIN conversions \subseteq DOMAIN reserved
  /\ DOMAIN reserved \subseteq ConversionId
  /\ refunded \in [ConversionId -> Nat]
  /\ RowsPromised /\ ConversionsOfDocument /\ ChargesOK /\ OneActive

LEMMA TablesBefore ==
  ASSUME IInv
  PROVE  TablesKept
BY RowWise DEF IInv, TypeOK, TablesKept, RowsPromised

LEMMA TextKnown ==
  ASSUME IInv, NEW id \in DOMAIN conversions
  PROVE  document \in Revision /\ document \in Nat /\ document # NoDocument
BY PipelineAssumption DEF IInv, TypeOK, ConversionsOfDocument, NoDocument

LEMMA QuietKeeps ==
  ASSUME IInv, UNCHANGED tables, files \subseteq files', manifests \subseteq manifests'
  PROVE  TablesKept' /\ TablesGrow
<1>1. document' = document /\ conversions' = conversions /\ reserved' = reserved /\ refunded' = refunded
  BY DEF tables
<1>2. TablesKept
  BY TablesBefore
<1>3. RowsPromised'
  <2> SUFFICES ASSUME NEW id \in DOMAIN conversions
               PROVE  RowPromised(id, conversions[id], document, reserved, refunded, files', manifests')
    BY <1>1 DEF RowsPromised
  <2> QED
    BY TextKnown, RowWise, RowKept
<1>4. TablesGrow
  BY <1>1, RowStays, PipelineAssumption DEF TablesGrow, IInv, TypeOK, ConversionsOfDocument, NoDocument
<1> QED
  BY <1>1, <1>2, <1>3, <1>4 DEF TablesKept, ConversionsOfDocument, ChargesOK, OneActive

LEMMA CorrectionKeeps ==
  ASSUME IInv, TextCorrected
  PROVE  TablesKept' /\ TablesGrow
<1>1. /\ document # NoDocument /\ document' = document + 1 /\ document' \in Revision
      /\ conversions' = conversions /\ reserved' = reserved /\ refunded' = refunded
      /\ files' = files /\ manifests' = manifests
  BY DEF TextCorrected, storage
<1>2. TablesKept
  BY TablesBefore
<1>3. document \in Nat /\ document' \in Nat /\ document <= document' /\ document' # NoDocument
  BY <1>1, PipelineAssumption DEF IInv, TypeOK, NoDocument
<1>4. RowsPromised'
  <2> SUFFICES ASSUME NEW id \in DOMAIN conversions
               PROVE  RowPromised(id, conversions[id], document', reserved, refunded, files, manifests)
    BY <1>1 DEF RowsPromised
  <2> QED
    BY <1>3, RowWise, RowKept
<1>5. TablesGrow
  BY <1>1, <1>3, RowStays DEF TablesGrow
<1> QED
  BY <1>1, <1>2, <1>3, <1>4, <1>5 DEF TablesKept, ConversionsOfDocument, ChargesOK, OneActive

LEMMA DeletionKeeps ==
  ASSUME IInv, TextDeleted
  PROVE  TablesKept' /\ TablesGrow
<1>1. /\ document' = NoDocument /\ DOMAIN conversions' = {}
      /\ reserved' = reserved /\ refunded' = refunded /\ files' = files /\ manifests' = manifests
  BY DEF TextDeleted, storage
<1>2. TablesKept
  BY TablesBefore
<1>3. RowsPromised' /\ OneActive' /\ TablesGrow
  BY <1>1 DEF RowsPromised, OneActive, TablesGrow
<1> QED
  BY <1>1, <1>2, <1>3 DEF TablesKept, ConversionsOfDocument, ChargesOK

LEMMA LaunchKeeps ==
  ASSUME IInv, Launched
  PROVE  TablesKept' /\ TablesGrow
<1>1. PICK id \in ConversionId \ DOMAIN reserved, r \in Revision :
        /\ document # NoDocument /\ r <= document
        /\ Active(r) = {}
        /\ DOMAIN reserved' = DOMAIN reserved \cup {id}
        /\ reserved'[id] \in Nat
        /\ \A k \in DOMAIN reserved : reserved'[k] = reserved[k]
        /\ DOMAIN conversions' = DOMAIN conversions \cup {id}
        /\ conversions'[id] = NewRow(r)
        /\ \A k \in DOMAIN conversions : conversions'[k] = conversions[k]
        /\ UNCHANGED <<document, refunded, storage>>
  BY DEF Launched
<1>2. TablesKept
  BY TablesBefore
<1>3. document' = document /\ refunded' = refunded /\ files' = files /\ manifests' = manifests
  BY <1>1 DEF storage
<1>4. id \notin DOMAIN conversions /\ document \in Nat
  BY <1>1, <1>2, PipelineAssumption DEF TablesKept, NoDocument
<1>5. RowsPromised'
  <2>1. ASSUME NEW k \in DOMAIN conversions
        PROVE  RowPromised(k, conversions'[k], document, reserved', refunded, files, manifests)
    <3>1. k \in DOMAIN reserved /\ conversions'[k] = conversions[k] /\ reserved'[k] = reserved[k]
      BY <1>1, <1>2 DEF TablesKept
    <3> QED
      BY <1>4, <3>1, RowWise, RowKept
  <2>2. RowPromised(id, NewRow(r), document, reserved', refunded, files, manifests)
    <3>1. refunded[id] = 0
      BY <1>1, <1>2 DEF TablesKept, ChargesOK
    <3>2. NewRow(r) \in ConversionRow
      BY <1>1 DEF NewRow, ConversionRow, Statuses
    <3>3. RowOK(NewRow(r), document)
      BY <1>1 DEF RowOK, NewRow, Prepared, Preparable
    <3>4. RowRefunded(id, NewRow(r), reserved', refunded)
      BY <3>1 DEF RowRefunded, NewRow
    <3>5. RowDelivered(id, NewRow(r), files, manifests)
      BY DEF RowDelivered, NewRow
    <3> QED
      BY <3>2, <3>3, <3>4, <3>5 DEF RowPromised
  <2> QED
    BY <1>1, <1>3, <2>1, <2>2 DEF RowsPromised
<1>6. OneActive'
  <2>1. \A k \in DOMAIN conversions : conversions[k].revision = r => conversions[k].status = "failed"
    BY <1>1 DEF Active
  <2>2. NewRow(r).revision = r
    BY DEF NewRow
  <2>3. OneActive
    BY <1>2 DEF TablesKept
  <2> QED
    BY <1>1, <2>1, <2>2, <2>3 DEF OneActive
<1>7. ConversionsOfDocument' /\ ChargesOK'
  BY <1>1, <1>2, <1>3 DEF TablesKept, ConversionsOfDocument, ChargesOK
<1>8. TablesGrow
  <2>1. NewRow(r).status = "queued"
    BY DEF NewRow
  <2> QED
    BY <1>1, <1>2, <1>3, <1>4, <2>1, RowStays DEF TablesGrow, TablesKept
<1>9. DOMAIN conversions' \subseteq DOMAIN reserved' /\ DOMAIN reserved' \subseteq ConversionId
  BY <1>1, <1>2 DEF TablesKept
<1> QED
  BY <1>2, <1>3, <1>5, <1>6, <1>7, <1>8, <1>9 DEF TablesKept

LEMMA RowChangeKeeps ==
  ASSUME IInv, RowChanged
  PROVE  TablesKept' /\ TablesGrow
<1>1. PICK id \in DOMAIN conversions, new \in ConversionRow :
        LET old == conversions[id]
        IN  /\ conversions' = [conversions EXCEPT ![id] = new]
            /\ UNCHANGED <<document, reserved, storage>>
            /\ \/ /\ \/ Marked(old, new) \/ Filled(old, new) \/ VoicedMore(old, new)
                     \/ Synthesized(old, new) \/ AssembledMore(id, old, new) \/ MadeReady(id, old, new)
                  /\ UNCHANGED refunded
               \/ Failing(id, old, new)
  BY DEF RowChanged
<1> DEFINE old == conversions[id]
<1>2. TablesKept
  BY TablesBefore
<1>3. document' = document /\ reserved' = reserved /\ files' = files /\ manifests' = manifests
  BY <1>1 DEF storage
<1>4. /\ DOMAIN conversions' = DOMAIN conversions /\ conversions'[id] = new
      /\ \A k \in DOMAIN conversions : k # id => conversions'[k] = conversions[k]
  BY <1>1
<1>5. /\ RowPromised(id, new, document, reserved, refunded', files, manifests)
      /\ refunded' \in [ConversionId -> Nat]
      /\ \A k \in ConversionId \ {id} : refunded'[k] = refunded[k]
  <2>1. CASE Failing(id, old, new)
    BY <2>1, RowFails
  <2>2. CASE /\ \/ Marked(old, new) \/ Filled(old, new) \/ VoicedMore(old, new)
                \/ Synthesized(old, new) \/ AssembledMore(id, old, new) \/ MadeReady(id, old, new)
             /\ UNCHANGED refunded
    <3>1. RowPromised(id, new, document, reserved, refunded, files, manifests)
      BY <2>2, RowChanges
    <3> QED
      BY <1>2, <2>2, <3>1 DEF TablesKept
  <2> QED
    BY <1>1, <2>1, <2>2
<1>6. RowGrows(old, new)
  <2>1. old \in ConversionRow
    BY RowWise DEF RowPromised
  <2>2. \/ Marked(old, new) \/ Filled(old, new) \/ VoicedMore(old, new)
        \/ Synthesized(old, new) \/ AssembledMore(id, old, new) \/ MadeReady(id, old, new)
        \/ old.status \in InProgress /\ Moved(old, new, "failed")
    BY <1>1 DEF Failing
  <2> HIDE DEF old
  <2> QED
    BY <2>1, <2>2, UpdateGrows
<1>7. id \in DOMAIN reserved /\ \A k \in DOMAIN conversions : k \in ConversionId
  BY <1>2 DEF TablesKept
<1>8. RowsPromised'
  <2>1. ASSUME NEW k \in DOMAIN conversions, k # id
        PROVE  RowPromised(k, conversions[k], document, reserved, refunded', files, manifests)
    <3>1. refunded'[k] = refunded[k]
      BY <1>5, <1>7, <2>1
    <3> QED
      BY <2>1, <3>1, TextKnown, RowWise, RowKept
  <2> QED
    BY <1>3, <1>4, <1>5, <2>1 DEF RowsPromised
<1>9. OneActive'
  <2>1. OneActive
    BY <1>2 DEF TablesKept
  <2>2. /\ new.revision = old.revision
        /\ new.status # "failed" => old.status # "failed"
    BY <1>6 DEF RowGrows
  <2>3. \A k \in DOMAIN conversions :
          /\ conversions'[k].revision = conversions[k].revision
          /\ conversions'[k].status # "failed" => conversions[k].status # "failed"
    BY <1>4, <2>2
  <2> QED
    BY <1>4, <2>1, <2>3 DEF OneActive
<1>10. TablesGrow
  <2>1. \A k \in DOMAIN conversions : RowGrows(conversions[k], conversions'[k])
    BY <1>4, <1>6, RowStays
  <2>2. document \in Nat /\ document' # NoDocument
    BY <1>3, TextKnown
  <2> QED
    BY <1>2, <1>3, <1>4, <2>1, <2>2 DEF TablesGrow, TablesKept
<1>11. ChargesOK'
  BY <1>2, <1>3, <1>5, <1>7 DEF TablesKept, ChargesOK
<1>12. ConversionsOfDocument'
  BY <1>2, <1>3, <1>4 DEF TablesKept, ConversionsOfDocument
<1> QED
  BY <1>2, <1>3, <1>4, <1>5, <1>8, <1>9, <1>10, <1>11, <1>12 DEF TablesKept

LEMMA EveryStepKeeps ==
  ASSUME IInv, [Next]_vars
  PROVE  TablesKept' /\ TablesGrow
<1>1. TablesStep
  BY EveryTablesStep
<1>2. CASE Quiet \/ Stored
  BY <1>2, QuietKeeps DEF Quiet, Stored, storage
<1> QED
  BY <1>1, <1>2, CorrectionKeeps, DeletionKeeps, LaunchKeeps, RowChangeKeeps DEF TablesStep

-----------------------------------------------------------------------------
(* What runs and handlers know stays true of the tables after a step.        *)

LEMMA RunKept ==
  ASSUME IInv, TablesGrow, NEW e,
         RunOK(e, document, conversions, DOMAIN reserved, files, manifests)
  PROVE  RunOK(e, document', conversions', DOMAIN reserved', files', manifests')
<1>1. CASE e = Free
  BY <1>1 DEF RunOK
<1>2. CASE e # Free
  <2> DEFINE id == e.job.id
  <2>1. e \in JobRun /\ id \in DOMAIN reserved /\ RunKnows(e, document, conversions, files, manifests)
    BY <1>2 DEF RunOK
  <2>2. id \in DOMAIN reserved'
    BY <2>1 DEF TablesGrow
  <2>3. ASSUME id \in DOMAIN conversions'
        PROVE  RunKnows(e, document', conversions', files', manifests')
    <3> DEFINE old == conversions[id]
               new == conversions'[id]
    <3>1. id \in DOMAIN conversions /\ RowGrows(old, new)
      BY <2>1, <2>3 DEF TablesGrow
    <3>2. document \in Nat /\ document' \in Nat /\ document <= document' /\ old.revision \in Nat
      <4>1. document \in Nat
        BY <3>1, TextKnown
      <4>2. document' \in Nat /\ document <= document'
        BY <2>3, PipelineAssumption DEF TablesGrow, NoDocument
      <4>3. old.revision \in Nat
        BY <3>1, RowWise, PipelineAssumption DEF RowPromised, ConversionRow
      <4> QED
        BY <4>1, <4>2, <4>3
    <3>3. /\ new.revision = old.revision /\ old.voiced \subseteq new.voiced
          /\ Prepared(old) => Prepared(new) /\ new.segments = old.segments
      BY <3>1 DEF RowGrows
    <3>4. files \subseteq files' /\ manifests \subseteq manifests'
      BY DEF TablesGrow
    <3>5. CASE e.job.kind = "prepare"
      <4>1. PrepareKnows(e, old, document)
        BY <2>1, <3>1, <3>5 DEF RunKnows
      <4> HIDE DEF old, new
      <4>2. PrepareKnows(e, new, document')
        BY <3>2, <3>3, <4>1 DEF PrepareKnows
      <4> QED
        BY <3>5, <4>2 DEF RunKnows, new
    <3>6. CASE e.job.kind = "synthesize"
      <4>1. SynthesizeKnows(e, old)
        BY <2>1, <3>1, <3>6 DEF RunKnows
      <4> HIDE DEF old, new
      <4>2. SynthesizeKnows(e, new)
        BY <3>3, <4>1 DEF SynthesizeKnows, SegmentsIn
      <4> QED
        BY <3>6, <4>2 DEF RunKnows, new
    <3>7. CASE e.job.kind \notin {"prepare", "synthesize"}
      <4>1. AssembleKnows(e, old, files, manifests)
        BY <2>1, <3>1, <3>7 DEF RunKnows
      <4> HIDE DEF old, new
      <4>2. Prepared(old)
        BY <4>1 DEF AssembleKnows
      <4>3. PendingOf(new) \subseteq PendingOf(old)
        BY <3>3, <4>2 DEF PendingOf, SegmentsIn
      <4>4. AssembleKnows(e, new, files', manifests')
        BY <3>3, <3>4, <4>1, <4>3 DEF AssembleKnows, WholePart
      <4> QED
        BY <3>7, <4>4 DEF RunKnows, new
    <3> QED
      BY <3>5, <3>6, <3>7
  <2>4. RunKnows(e, document', conversions', files', manifests')
    BY <2>3 DEF RunKnows
  <2> QED
    BY <2>1, <2>2, <2>4 DEF RunOK
<1> QED
  BY <1>1, <1>2

LEMMA RequestKept ==
  ASSUME IInv, TablesGrow, NEW e,
         RequestOK(e, document, DOMAIN reserved)
  PROVE  RequestOK(e, document', DOMAIN reserved')
<1>1. e \in ScheduleRequest => e.id \in DOMAIN reserved'
  BY DEF RequestOK, TablesGrow
<1>2. ASSUME e \in LaunchRequest, document' # NoDocument
      PROVE  e.revision <= document'
  <2>1. document # NoDocument /\ document <= document' /\ e.revision <= document
    BY <1>2 DEF TablesGrow, RequestOK
  <2>2. document \in Nat /\ document' \in Nat /\ e.revision \in Nat
    BY <1>2, PipelineAssumption DEF TablesGrow, IInv, TypeOK, NoDocument, LaunchRequest
  <2> QED
    BY <2>1, <2>2
<1> QED
  BY <1>1, <1>2 DEF RequestOK

\* A step that gives one worker, or one handler, something else to do.
LEMMA RunPut ==
  ASSUME IInv, TablesGrow, NEW w \in Worker, NEW e, run' = [run EXCEPT ![w] = e],
         RunOK(e, document', conversions', DOMAIN reserved', files', manifests')
  PROVE  RunsOK'
<1>1. DOMAIN run = Worker /\ DOMAIN run' = Worker /\ run'[w] = e
  BY DEF IInv, RunsOK
<1>2. ASSUME NEW v \in Worker, v # w
      PROVE  RunOK(run'[v], document', conversions', DOMAIN reserved', files', manifests')
  <2>1. run'[v] = run[v] /\ RunOK(run[v], document, conversions, DOMAIN reserved, files, manifests)
    BY <1>1, <1>2 DEF IInv, RunsOK
  <2> QED
    BY <2>1, RunKept
<1> QED
  BY <1>1, <1>2 DEF RunsOK

LEMMA RunsStay ==
  ASSUME IInv, TablesGrow, UNCHANGED run
  PROVE  RunsOK'
<1>1. ASSUME NEW v \in Worker
      PROVE  RunOK(run[v], document', conversions', DOMAIN reserved', files', manifests')
  BY RunKept DEF IInv, RunsOK
<1> QED
  BY <1>1 DEF IInv, RunsOK

LEMMA RequestPut ==
  ASSUME IInv, TablesGrow, NEW c \in Client, NEW e,
         Continue(c, e), RequestOK(e, document', DOMAIN reserved')
  PROVE  RequestsOK'
<1>1. DOMAIN request = Client /\ DOMAIN request' = Client /\ request'[c] = e
  BY DEF IInv, RequestsOK, Continue
<1>2. ASSUME NEW d \in Client, d # c
      PROVE  RequestOK(request'[d], document', DOMAIN reserved')
  <2>1. request'[d] = request[d] /\ RequestOK(request[d], document, DOMAIN reserved)
    BY <1>1, <1>2 DEF IInv, RequestsOK, Continue
  <2> QED
    BY <2>1, RequestKept
<1> QED
  BY <1>1, <1>2 DEF RequestsOK

LEMMA RequestsStay ==
  ASSUME IInv, TablesGrow, UNCHANGED request
  PROVE  RequestsOK'
<1>1. ASSUME NEW d \in Client
      PROVE  RequestOK(request[d], document', DOMAIN reserved')
  BY RequestKept DEF IInv, RequestsOK
<1> QED
  BY <1>1 DEF IInv, RequestsOK

-----------------------------------------------------------------------------
(* The runs after a step of a worker.                                        *)

\* A run that goes on to another step with what it has read.
LEMMA RunGoesOn ==
  ASSUME IInv, TablesGrow, NEW w \in Worker, NEW next, Proceed(w, next), run[w] # Free,
         LET e == [run[w] EXCEPT !.step = next]
         IN  e \in JobRun /\ RunKnows(e, document', conversions', files', manifests')
  PROVE  RunsOK'
<1> DEFINE e == [run[w] EXCEPT !.step = next]
<1>1. run[w] \in JobRun /\ run[w].job.id \in DOMAIN reserved
  BY RunAt
<1>2. e.job = run[w].job
  BY <1>1 DEF JobRun, PrepareRun, SynthesizeRun, AssembleRun
<1>3. run' = [run EXCEPT ![w] = e]
  BY DEF Proceed
<1>4. e.job.id \in DOMAIN reserved'
  BY <1>1, <1>2 DEF TablesGrow
<1>5. e \in JobRun /\ RunKnows(e, document', conversions', files', manifests')
  OBVIOUS
<1> HIDE DEF e
<1>6. RunOK(e, document', conversions', DOMAIN reserved', files', manifests')
  BY <1>4, <1>5 DEF RunOK
<1> QED
  BY <1>3, <1>6, RunPut

LEMMA RunDone ==
  ASSUME IInv, TablesGrow, NEW w \in Worker, run' = [run EXCEPT ![w] = Free]
  PROVE  RunsOK'
<1>1. RunOK(Free, document', conversions', DOMAIN reserved', files', manifests')
  BY DEF RunOK
<1> QED
  BY <1>1, RunPut

\* The fields of a run that goes on.
LEMMA Stepped ==
  ASSUME IInv, NEW w \in Worker, run[w] # Free, NEW next
  PROVE  LET e == [run[w] EXCEPT !.step = next]
         IN  /\ e.step = next /\ e.job = run[w].job /\ e.read = run[w].read
             /\ run[w] \in PrepareRun /\ next \in ReadingSteps \cup {"complete", "schedule", "scheduleAll", "fail"}
                  => e \in JobRun
             /\ run[w] \in SynthesizeRun /\ next \in {"voice", "part", "all"} => e \in JobRun
             /\ run[w] \in AssembleRun /\ next \in {"assemble", "complete", "finalize", "manifest", "ready"}
                  => e \in JobRun
<1>1. run[w] \in JobRun
  BY RunAt
<1>2. CASE run[w] \in PrepareRun
  BY <1>2 DEF PrepareRun, SynthesizeRun, AssembleRun, PrepareJob, SynthesizeJob, AssembleJob, JobRun
<1>3. CASE run[w] \in SynthesizeRun
  BY <1>3 DEF PrepareRun, SynthesizeRun, AssembleRun, PrepareJob, SynthesizeJob, AssembleJob, JobRun
<1>4. CASE run[w] \in AssembleRun
  BY <1>4 DEF PrepareRun, SynthesizeRun, AssembleRun, PrepareJob, SynthesizeJob, AssembleJob, JobRun
<1> QED
  BY <1>1, <1>2, <1>3, <1>4 DEF JobRun

\* A run that goes on knows enough of the tables it was in.
LEMMA RunGoesOnKnowing ==
  ASSUME IInv, TablesGrow, NEW w \in Worker, NEW next, Proceed(w, next), run[w] # Free,
         LET e == [run[w] EXCEPT !.step = next]
         IN  e \in JobRun /\ RunKnows(e, document, conversions, files, manifests)
  PROVE  RunsOK'
<1> DEFINE e == [run[w] EXCEPT !.step = next]
<1>1. run[w].job.id \in DOMAIN reserved
  BY RunAt
<1>2. e.job = run[w].job
  BY Stepped
<1>3. run' = [run EXCEPT ![w] = e]
  BY DEF Proceed
<1>4. e \in JobRun /\ RunKnows(e, document, conversions, files, manifests)
  OBVIOUS
<1> HIDE DEF e
<1>5. RunOK(e, document, conversions, DOMAIN reserved, files, manifests)
  BY <1>1, <1>2, <1>4 DEF RunOK
<1>6. RunOK(e, document', conversions', DOMAIN reserved', files', manifests')
  BY <1>5, RunKept
<1> QED
  BY <1>3, <1>6, RunPut

LEMMA PreparationGoesOn ==
  ASSUME IInv, TablesGrow, NEW w \in Worker, run[w] # Free, run[w].job.kind = "prepare",
         NEW next \in ReadingSteps \cup {"complete", "schedule", "scheduleAll", "fail"},
         Proceed(w, next),
         LET row == conversions[run[w].job.id]
         IN  run[w].job.id \in DOMAIN conversions =>
               /\ next \in ReadingSteps => run[w].read \subseteq row.revision .. document
               /\ next = "after" => run[w].read # {}
               /\ next \in {"complete", "scheduleAll"}
                    => run[w].read = {row.revision} /\ DOMAIN SegmentPlan[row.revision] # {}
  PROVE  RunsOK'
<1> DEFINE e == [run[w] EXCEPT !.step = next]
<1>1. e.step = next /\ e.job = run[w].job /\ e.read = run[w].read /\ e \in JobRun
  BY RunAt, Stepped
<1>2. RunKnows(e, document, conversions, files, manifests)
  <2> HIDE DEF e
  <2> QED
    BY <1>1 DEF RunKnows, PrepareKnows
<1> QED
  BY <1>1, <1>2, RunGoesOnKnowing

LEMMA SynthesisGoesOn ==
  ASSUME IInv, TablesGrow, NEW w \in Worker, run[w] # Free, run[w].job.kind = "synthesize",
         NEW next \in {"voice", "part", "all"}, Proceed(w, next)
  PROVE  RunsOK'
<1> DEFINE e == [run[w] EXCEPT !.step = next]
<1>1. e.step = next /\ e.job = run[w].job /\ e \in JobRun
  BY RunAt, Stepped
<1>2. RunKnows(e, document, conversions, files, manifests)
  <2>1. RunKnows(run[w], document, conversions, files, manifests)
    BY RunAt
  <2> HIDE DEF e
  <2> QED
    BY <1>1, <2>1 DEF RunKnows, SynthesizeKnows
<1> QED
  BY <1>1, <1>2, RunGoesOnKnowing

LEMMA AssemblyGoesOn ==
  ASSUME IInv, TablesGrow, NEW w \in Worker, run[w] # Free, run[w].job.kind = "assemble",
         NEW next \in {"assemble", "finalize", "manifest"}, Proceed(w, next)
  PROVE  RunsOK'
<1> DEFINE e == [run[w] EXCEPT !.step = next]
<1>1. e.step = next /\ e.job = run[w].job /\ e \in JobRun
  BY RunAt, Stepped
<1>2. RunKnows(e, document, conversions, files, manifests)
  <2>1. RunKnows(run[w], document, conversions, files, manifests)
    BY RunAt
  <2> HIDE DEF e
  <2> QED
    BY <1>1, <2>1 DEF RunKnows, AssembleKnows
<1> QED
  BY <1>1, <1>2, RunGoesOnKnowing

\* The revisions read by a run that is still reading, and those of a run that
\* has found the text to be of its conversion's revision at the end.
LEMMA ReadingKnows ==
  ASSUME IInv, NEW w \in Worker, run[w] # Free, run[w].job.kind = "prepare",
         run[w].job.id \in DOMAIN conversions
  PROVE  LET row == conversions[run[w].job.id]
         IN  /\ run[w].step \in ReadingSteps => run[w].read \subseteq row.revision .. document
             /\ run[w].step = "after" => run[w].read # {}
             /\ run[w].step \in {"complete", "scheduleAll"}
                  => run[w].read = {row.revision} /\ DOMAIN SegmentPlan[row.revision] # {}
             /\ row.revision \in Nat /\ document \in Nat /\ row.revision <= document
<1>1. RunKnows(run[w], document, conversions, files, manifests)
  BY RunAt
<1>2. PrepareKnows(run[w], conversions[run[w].job.id], document)
  BY <1>1 DEF RunKnows
<1>3. RowPromised(run[w].job.id, conversions[run[w].job.id], document, reserved, refunded, files, manifests)
  BY RowWise
<1>4. /\ conversions[run[w].job.id].revision \in Nat /\ document \in Nat
      /\ conversions[run[w].job.id].revision <= document
  BY <1>3, TextKnown, PipelineAssumption DEF RowPromised, RowOK, ConversionRow
<1> QED
  BY <1>2, <1>4 DEF PrepareKnows

LEMMA PreparationRuns ==
  ASSUME IInv, TablesGrow, NEW w \in Worker,
         MarkPreparing(w) \/ SourceBefore(w) \/ ReadPages(w) \/ SourceAfter(w) \/ CompletePreparation(w)
  PROVE  RunsOK'
<1> DEFINE id == run[w].job.id
           row == conversions[id]
           read == run[w].read
<1>0. /\ run[w] # Free /\ run[w].job.kind = "prepare"
      /\ run[w].step \in {"mark", "before", "pages", "after", "complete"}
      /\ MarkPreparing(w) => run[w].step = "mark"
      /\ SourceBefore(w) => run[w].step = "before"
      /\ ReadPages(w) => run[w].step = "pages"
      /\ SourceAfter(w) => run[w].step = "after"
      /\ CompletePreparation(w) => run[w].step = "complete"
  BY NotFree DEF MarkPreparing, SourceBefore, ReadPages, SourceAfter, CompletePreparation
<1>a. id \in DOMAIN conversions =>
        /\ run[w].step \in ReadingSteps => read \subseteq row.revision .. document
        /\ run[w].step = "after" => read # {}
        /\ run[w].step = "complete" => read = {row.revision} /\ DOMAIN SegmentPlan[row.revision] # {}
        /\ row.revision \in Nat /\ document \in Nat /\ row.revision <= document
  BY <1>0, ReadingKnows
<1>1. CASE MarkPreparing(w) \/ SourceBefore(w)
  <2>1. PICK next \in {"before", "pages", "fail", "done"} : Goto(w, next)
    BY <1>1 DEF MarkPreparing, SourceBefore
  <2>2. CASE next = "done"
    BY <2>1, <2>2, RunDone DEF Goto
  <2>3. CASE next # "done"
    <3>1. Proceed(w, next)
      BY <2>1, <2>3 DEF Goto
    <3>2. run[w].step \in ReadingSteps
      BY <1>0, <1>1 DEF ReadingSteps
    <3>3. next \in ReadingSteps \cup {"complete", "schedule", "scheduleAll", "fail"}
      BY <2>3 DEF ReadingSteps
    <3> QED
      BY <1>0, <1>a, <3>1, <3>2, <3>3, PreparationGoesOn
  <2> QED
    BY <2>2, <2>3
<1>2. CASE ReadPages(w)
  <2>1. PICK next \in {"pages", "after"} :
          run' = [run EXCEPT ![w].step = next, ![w].read = @ \cup ({document} \ {NoDocument})]
    BY <1>2 DEF ReadPages
  <2> DEFINE more == {document} \ {NoDocument}
             e == [[run[w] EXCEPT !.step = next] EXCEPT !.read = @ \cup more]
  <2>2. run' = [run EXCEPT ![w] = e]
    BY <2>1
  <2>3. run[w] \in PrepareRun /\ id \in DOMAIN reserved
    BY <1>0, RunAt
  <2>4. more \subseteq Revision
    BY DEF IInv, TypeOK
  <2>5. /\ e \in PrepareRun /\ e.step = next /\ e.job = run[w].job /\ e.read = read \cup more
    BY <2>3, <2>4 DEF PrepareRun, ReadingSteps
  <2>6. id \in DOMAIN conversions => more = {document}
    BY TextKnown
  <2>7. id \in DOMAIN conversions => read \cup more \subseteq row.revision .. document
    BY <1>0, <1>2, <1>a, <2>6 DEF ReadingSteps
  <2> HIDE DEF e
  <2>8. RunKnows(e, document, conversions, files, manifests)
    <3>1. id \in DOMAIN conversions => PrepareKnows(e, row, document)
      BY <2>1, <2>5, <2>6, <2>7 DEF PrepareKnows, ReadingSteps
    <3> QED
      BY <1>0, <2>5, <3>1 DEF RunKnows
  <2>9. RunOK(e, document, conversions, DOMAIN reserved, files, manifests)
    BY <2>3, <2>5, <2>8 DEF RunOK, JobRun
  <2>10. RunOK(e, document', conversions', DOMAIN reserved', files', manifests')
    BY <2>9, RunKept
  <2> QED
    BY <2>2, <2>10, RunPut
<1>3. CASE SourceAfter(w)
  <2>1. CASE Usable(id) /\ DOMAIN SegmentPlan[document] # {}
    <3>1. Proceed(w, "complete")
      BY <1>3, <2>1 DEF SourceAfter, Goto, Id
    <3>2. id \in DOMAIN conversions =>
            read \subseteq row.revision .. document /\ read # {} /\ document = row.revision
      BY <1>0, <1>3, <1>a, <2>1 DEF Usable, ReadingSteps
    <3>3. id \in DOMAIN conversions => read = {row.revision}
      BY <1>a, <3>2
    <3>4. "complete" \notin ReadingSteps
      BY DEF ReadingSteps
    <3> QED
      BY <1>0, <2>1, <3>1, <3>2, <3>3, <3>4, PreparationGoesOn
  <2>2. CASE ~ (Usable(id) /\ DOMAIN SegmentPlan[document] # {})
    <3>1. Proceed(w, "fail")
      BY <1>3, <2>2 DEF SourceAfter, Goto, Id
    <3> QED
      BY <1>0, <3>1, PreparationGoesOn DEF ReadingSteps
  <2> QED
    BY <2>1, <2>2
<1>4. CASE CompletePreparation(w)
  <2>1. Proceed(w, "scheduleAll")
    BY <1>4 DEF CompletePreparation
  <2>2. "scheduleAll" \notin ReadingSteps
    BY DEF ReadingSteps
  <2> QED
    BY <1>0, <1>4, <1>a, <2>1, <2>2, PreparationGoesOn
<1> QED
  BY <1>1, <1>2, <1>3, <1>4

LEMMA SynthesisRuns ==
  ASSUME IInv, TablesGrow, NEW w \in Worker,
         \/ CompleteSegment(w) \/ AfterSegment(w) \/ CompleteIfAllSegmentsSynthesized(w)
         \/ FailFromRun(w) \/ ScheduleSynthesis(w)
  PROVE  RunsOK'
<1>1. CASE CompleteSegment(w)
  BY <1>1, NotFree, SynthesisGoesOn DEF CompleteSegment
<1>2. CASE AfterSegment(w)
  BY <1>2, NotFree, SynthesisGoesOn DEF AfterSegment
<1>3. CASE \/ CompleteIfAllSegmentsSynthesized(w) \/ FailFromRun(w) \/ ScheduleSynthesis(w)
  BY <1>3, RunDone DEF CompleteIfAllSegmentsSynthesized, FailFromRun, ScheduleSynthesis, Goto
<1> QED
  BY <1>1, <1>2, <1>3

LEMMA AssemblyRuns ==
  ASSUME IInv, TablesGrow, NEW w \in Worker,
         PutPart(w) \/ CompletePart(w) \/ Finalize(w) \/ PutManifest(w) \/ MarkReady(w)
  PROVE  RunsOK'
<1> DEFINE id == run[w].job.id
           p == run[w].job.part
<1>0. run[w] # Free /\ run[w].job.kind = "assemble"
  BY NotFree DEF PutPart, CompletePart, Finalize, PutManifest, MarkReady
<1>a. run[w] \in AssembleRun /\ RunKnows(run[w], document, conversions, files, manifests)
  BY <1>0, RunAt
<1>b. id \in DOMAIN conversions => Prepared(conversions[id])
  BY <1>0, <1>a DEF RunKnows, AssembleKnows
<1>1. CASE PutPart(w)
  <2>0. UNCHANGED tables
    BY <1>1 DEF PutPart
  <2>1. CASE PendingIn(id, p) = {}
    <3> DEFINE e == [run[w] EXCEPT !.step = "complete"]
    <3>1. Proceed(w, "complete") /\ files' = files \cup {<<id, p>>}
      BY <1>1, <2>1 DEF PutPart, Goto, Id
    <3>2. e.step = "complete" /\ e.job = run[w].job /\ e \in JobRun
      BY <1>0, <1>a, Stepped
    <3>3. id \in DOMAIN conversions => WholePart(conversions[id], p)
      BY <2>1, PendingIsPendingOf
    <3>4. document' = document /\ conversions' = conversions
      BY <2>0 DEF tables
    <3> HIDE DEF e
    <3>5. id \in DOMAIN conversions => AssembleKnows(e, conversions[id], files', manifests')
      BY <1>b, <3>1, <3>2, <3>3 DEF AssembleKnows
    <3>6. RunKnows(e, document', conversions', files', manifests')
      BY <1>0, <3>2, <3>4, <3>5 DEF RunKnows
    <3> QED
      BY <1>0, <3>1, <3>2, <3>6, RunGoesOn DEF e
  <2>2. CASE PendingIn(id, p) # {}
    BY <1>1, <2>2, RunDone DEF PutPart, Goto, Id
  <2> QED
    BY <2>1, <2>2
<1>2. CASE CompletePart(w)
  BY <1>0, <1>2, AssemblyGoesOn DEF CompletePart
<1>3. CASE Finalize(w)
  <2>1. PICK next \in {"manifest", "done"} : Goto(w, next)
    BY <1>3 DEF Finalize
  <2> QED
    BY <1>0, <2>1, AssemblyGoesOn, RunDone DEF Goto
<1>4. CASE PutManifest(w)
  <2> DEFINE e == [run[w] EXCEPT !.step = "ready"]
  <2>1. Proceed(w, "ready") /\ manifests' = manifests \cup {id} /\ UNCHANGED tables
    BY <1>4 DEF PutManifest, Id
  <2>2. e.step = "ready" /\ e.job = run[w].job /\ e \in JobRun
    BY <1>0, <1>a, Stepped
  <2>3. document' = document /\ conversions' = conversions
    BY <2>1 DEF tables
  <2> HIDE DEF e
  <2>4. id \in DOMAIN conversions => AssembleKnows(e, conversions[id], files', manifests')
    BY <1>b, <2>1, <2>2 DEF AssembleKnows
  <2>5. RunKnows(e, document', conversions', files', manifests')
    BY <1>0, <2>2, <2>3, <2>4 DEF RunKnows
  <2> QED
    BY <1>0, <2>1, <2>2, <2>5, RunGoesOn DEF e
<1>5. CASE MarkReady(w)
  BY <1>5, RunDone DEF MarkReady, Goto
<1> QED
  BY <1>1, <1>2, <1>3, <1>4, <1>5

\* A worker takes a job: its run starts with nothing read.
LEMMA TakenRuns ==
  ASSUME IInv, TablesGrow, NEW w \in Worker, NEW j \in DOMAIN jobs, BeginJob(w, j)
  PROVE  RunsOK'
<1>1. j \in Job /\ j.id \in DOMAIN reserved
  BY DEF IInv, JobsOK
<1>2. /\ j \in PrepareJob => j.kind = "prepare"
      /\ j \in SynthesizeJob => j.kind = "synthesize"
      /\ j \in AssembleJob => j.kind = "assemble"
  BY DEF PrepareJob, SynthesizeJob, AssembleJob
<1>3. ASSUME NEW first, Take(w, j, first),
             first # "done" => LET e == [step |-> first, job |-> j, read |-> {}]
                               IN  e \in JobRun /\ RunKnows(e, document, conversions, files, manifests)
      PROVE  RunsOK'
  <2>1. CASE first = "done"
    BY <1>3, <2>1, RunsStay DEF Take
  <2>2. CASE first # "done"
    <3> DEFINE e == [step |-> first, job |-> j, read |-> {}]
    <3>1. run' = [run EXCEPT ![w] = e]
      BY <1>3, <2>2 DEF Take
    <3>2. e \in JobRun /\ e.job = j /\ RunKnows(e, document, conversions, files, manifests)
      BY <1>3, <2>2
    <3> HIDE DEF e
    <3>3. RunOK(e, document, conversions, DOMAIN reserved, files, manifests)
      BY <1>1, <3>2 DEF RunOK
    <3> QED
      BY <3>1, <3>3, RunKept, RunPut
  <2> QED
    BY <2>1, <2>2
<1>4. \A id \in DOMAIN conversions : StatusOf(id) = conversions[id].status
  BY DEF StatusOf
<1>5. CASE BeginPreparation(w, j)
  <2>1. PICK first \in {"done", "schedule", "mark"} : Take(w, j, first)
    BY <1>5 DEF BeginPreparation
  <2>2. j \in PrepareJob
    BY <1>1, <1>2, <1>5 DEF BeginPreparation, Job
  <2> DEFINE e == [step |-> first, job |-> j, read |-> {}]
  <2>3. e.step = first /\ e.job = j /\ e.read = {}
    OBVIOUS
  <2>4. first # "done" => e \in JobRun
    BY <2>2 DEF JobRun, PrepareRun, ReadingSteps
  <2> HIDE DEF e
  <2>5. RunKnows(e, document, conversions, files, manifests)
    BY <1>2, <2>1, <2>2, <2>3 DEF RunKnows, PrepareKnows
  <2> QED
    BY <1>3, <2>1, <2>4, <2>5 DEF e
<1>6. CASE BeginSynthesis(w, j)
  <2> DEFINE first == IF StatusOf(j.id) # "synthesizing" \/ j.segment \notin SegmentsOf(j.id) THEN "done"
                      ELSE IF j.segment \in conversions[j.id].voiced THEN "part" ELSE "voice"
  <2>0. Take(w, j, first)
    BY <1>6 DEF BeginSynthesis
  <2>1. /\ first \in {"done", "part", "voice"}
        /\ first # "done" => StatusOf(j.id) = "synthesizing" /\ j.segment \in SegmentsOf(j.id)
    OBVIOUS
  <2> HIDE DEF first
  <2>2. j \in SynthesizeJob
    BY <1>1, <1>2, <1>6 DEF BeginSynthesis, Job
  <2> DEFINE e == [step |-> first, job |-> j, read |-> {}]
  <2>3. e.step = first /\ e.job = j
    OBVIOUS
  <2>4. first # "done" => e \in JobRun
    BY <2>1, <2>2 DEF JobRun, SynthesizeRun
  <2> HIDE DEF e
  <2>5. ASSUME first # "done"
        PROVE  RunKnows(e, document, conversions, files, manifests)
    <3>1. j.id \in DOMAIN conversions
            => Prepared(conversions[j.id]) /\ j.segment \in SegmentsIn(conversions[j.id])
      BY <1>4, <2>1, <2>5, PendingIsPendingOf DEF Prepared, Preparable
    <3> QED
      BY <1>2, <2>2, <2>3, <3>1 DEF RunKnows, SynthesizeKnows
  <2> QED
    BY <1>3, <2>0, <2>4, <2>5 DEF e
<1>7. CASE BeginAssembly(w, j)
  <2> DEFINE first == IF StatusOf(j.id) \notin Assemblable \/ j.part \notin PartsOf(j.id) THEN "done"
                      ELSE IF j.part \in conversions[j.id].assembled THEN "finalize" ELSE "assemble"
  <2>0. Take(w, j, first)
    BY <1>7 DEF BeginAssembly
  <2>1. first \in {"done", "finalize", "assemble"} /\ (first # "done" => StatusOf(j.id) \in Assemblable)
    OBVIOUS
  <2> HIDE DEF first
  <2>2. j \in AssembleJob
    BY <1>1, <1>2, <1>7 DEF BeginAssembly, Job
  <2> DEFINE e == [step |-> first, job |-> j, read |-> {}]
  <2>3. e.step = first /\ e.job = j
    OBVIOUS
  <2>4. first # "done" => e \in JobRun
    BY <2>1, <2>2 DEF JobRun, AssembleRun
  <2> HIDE DEF e
  <2>5. ASSUME first # "done"
        PROVE  RunKnows(e, document, conversions, files, manifests)
    <3>1. j.id \in DOMAIN conversions => Prepared(conversions[j.id])
      BY <1>4, <2>1, <2>5 DEF Prepared, Preparable, Assemblable
    <3> QED
      BY <1>2, <2>1, <2>2, <2>3, <3>1 DEF RunKnows, AssembleKnows
  <2> QED
    BY <1>3, <2>0, <2>4, <2>5 DEF e
<1> QED
  BY <1>5, <1>6, <1>7 DEF BeginJob

LEMMA EveryRunKept ==
  ASSUME IInv, TablesGrow, [Next]_vars
  PROVE  RunsOK'
<1>1. CASE \E w \in Worker : BeginRun(w)
  BY <1>1, TakenRuns DEF BeginRun
<1>2. CASE \E w \in Worker : RunStep(w)
  BY <1>2, PreparationRuns, SynthesisRuns, AssemblyRuns DEF RunStep
<1>3. CASE \E w \in Worker : AttemptFails(w)
  BY <1>3, RunDone DEF AttemptFails
<1>4. CASE Restart
  BY <1>4 DEF Restart, RunsOK, RunOK
<1>5. CASE \E c \in Client : ReadSource(c) \/ RequestStep(c)
  BY <1>5, RunsStay DEF ReadSource, RequestStep, FindActive, ReserveAndInsert, ReservationRefused,
                        SchedulePreparation, PreparationNotScheduled
<1>6. CASE \/ \E j \in DOMAIN jobs : Redeliver(j)
           \/ \E id \in ConversionId : SweepQueued(id) \/ OnFinalFailure(id) \/ FinalFailureSwallowed(id)
           \/ \E id \in ConversionId : SweepId(id)
           \/ CorrectText \/ CleanupForDocument \/ DeleteDocument
  BY <1>6, RunsStay DEF Redeliver, SweepQueued, OnFinalFailure, FinalFailureSwallowed, SweepId,
                        SweepStalled, CorrectText, CleanupForDocument, DeleteDocument
<1>7. CASE UNCHANGED vars
  BY <1>7, RunsStay DEF vars
<1> QED
  BY <1>1, <1>2, <1>3, <1>4, <1>5, <1>6, <1>7 DEF Next

-----------------------------------------------------------------------------
(* The queues after a step.                                                  *)

JobTable(table, charged) == \A j \in DOMAIN table : j \in Job /\ j.id \in charged /\ table[j] \in JobRow
KnownJobs(charged) == {j \in Job : j.id \in charged}

LEMMA JobsBefore ==
  ASSUME IInv, TablesGrow
  PROVE  JobTable(jobs, DOMAIN reserved) /\ JobTable(jobs, DOMAIN reserved')
BY DEF IInv, JobsOK, JobTable, TablesGrow

LEMMA WaitingIsRow == Waiting \in JobRow
BY DEF Waiting, JobRow, JobStates

LEMMA WithKept ==
  ASSUME NEW table, NEW charged, JobTable(table, charged), NEW added \in SUBSET KnownJobs(charged)
  PROVE  JobTable(With(table, added), charged)
BY WaitingIsRow DEF JobTable, With, KnownJobs

LEMMA SettledKept ==
  ASSUME NEW charged, JobTable(jobs, charged), NEW w
  PROVE  JobTable(Settled(w, "completed"), charged)
<1>1. CASE ~Owns(w)
  BY <1>1 DEF Settled
<1>2. CASE Owns(w)
  <2> DEFINE j == run[w].job
             new == [jobs EXCEPT ![j].state = "completed", ![j].owner = "none"]
  <2>1. Settled(w, "completed") = new
    BY <1>2 DEF Settled
  <2>2. DOMAIN new = DOMAIN jobs /\ \A k \in DOMAIN jobs : jobs[k] \in JobRow
    BY DEF JobTable
  <2>3. \A k \in DOMAIN jobs : new[k] \in JobRow
    BY <2>2 DEF JobRow, JobStates
  <2> HIDE DEF new
  <2> QED
    BY <2>1, <2>2, <2>3 DEF JobTable
<1> QED
  BY <1>1, <1>2

LEMMA TakeKept ==
  ASSUME NEW charged, JobTable(jobs, charged), NEW w \in Worker, NEW j, NEW first, Take(w, j, first)
  PROVE  JobTable(jobs', charged)
<1>1. \A k \in DOMAIN jobs : jobs[k] \in JobRow
  BY DEF JobTable
<1>2. CASE first = "done"
  <2>1. jobs' = [jobs EXCEPT ![j].state = "completed"]
    BY <1>2 DEF Take
  <2>2. DOMAIN jobs' = DOMAIN jobs /\ \A k \in DOMAIN jobs : jobs'[k] \in JobRow
    BY <1>1, <2>1 DEF JobRow, JobStates
  <2> QED
    BY <2>2 DEF JobTable
<1>3. CASE first # "done"
  <2>1. jobs' = [jobs EXCEPT ![j].state = "active", ![j].owner = w]
    BY <1>3 DEF Take
  <2>2. DOMAIN jobs' = DOMAIN jobs /\ \A k \in DOMAIN jobs : jobs'[k] \in JobRow
    BY <1>1, <2>1 DEF JobRow, JobStates
  <2> QED
    BY <2>2 DEF JobTable
<1> QED
  BY <1>2, <1>3

LEMMA AfterFailureKept ==
  ASSUME NEW charged, JobTable(jobs, charged), NEW w, NEW attempts
  PROVE  JobTable(AfterFailure(w, attempts), charged)
<1>1. CASE ~Owns(w)
  BY <1>1 DEF AfterFailure
<1>2. CASE Owns(w)
  <2> DEFINE j == run[w].job
             row == [state |-> IF IsLastAttempt(w, attempts) THEN "failed" ELSE "waiting",
                     tries |-> jobs[j].tries + 1, owner |-> "none"]
             new == [jobs EXCEPT ![j] = row]
  <2>1. AfterFailure(w, attempts) = new
    BY <1>2 DEF AfterFailure
  <2>2. DOMAIN new = DOMAIN jobs /\ \A k \in DOMAIN jobs : jobs[k] \in JobRow
    BY DEF JobTable
  <2>3. j \in DOMAIN jobs
    BY <1>2 DEF Owns
  <2>4. jobs[j].tries + 1 \in Nat
    BY <2>2, <2>3 DEF JobRow
  <2>5. row \in JobRow
    BY <2>4 DEF JobRow, JobStates
  <2> HIDE DEF row
  <2>6. \A k \in DOMAIN jobs : new[k] \in JobRow
    BY <2>2, <2>5
  <2> HIDE DEF new
  <2> QED
    BY <2>1, <2>2, <2>6 DEF JobTable
<1> QED
  BY <1>1, <1>2

LEMMA AgainKept ==
  ASSUME NEW charged, JobTable(jobs, charged), NEW j
  PROVE  JobTable(Again(j), charged)
<1>1. \A k \in DOMAIN jobs : jobs[k] \in JobRow
  BY DEF JobTable
<1>2. DOMAIN Again(j) = DOMAIN jobs /\ \A k \in DOMAIN jobs : Again(j)[k] \in JobRow
  BY <1>1 DEF Again, JobRow, JobStates
<1> QED
  BY <1>2 DEF JobTable

LEMMA ReleasedKept ==
  ASSUME NEW charged, JobTable(jobs, charged)
  PROVE  JobTable(Released, charged)
<1>1. \A k \in DOMAIN jobs : jobs[k] \in JobRow
  BY DEF JobTable
<1>2. DOMAIN Released = DOMAIN jobs /\ \A k \in DOMAIN jobs : Released[k] \in JobRow
  BY <1>1 DEF Released, JobRow, JobStates
<1> QED
  BY <1>2 DEF JobTable

\* The jobs a run, a handler or the sweep adds are of conversions launched.
LEMMA SegmentsTyped ==
  ASSUME IInv, NEW id
  PROVE  /\ Pending(id) \subseteq Segment
         /\ id \in DOMAIN conversions => SegmentsOf(id) \subseteq Segment
         /\ AssemblableParts(id) \subseteq Part
         /\ StatusOf(id) # "absent" => id \in DOMAIN reserved /\ id \in ConversionId
<1>1. ASSUME id \in DOMAIN conversions
      PROVE  SegmentsOf(id) \subseteq Segment
  BY <1>1 DEF IInv, TypeOK, ConversionRow, SegmentsOf
<1>2. Pending(id) \subseteq Segment
  BY <1>1 DEF Pending
<1>3. AssemblableParts(id) \subseteq Part
  BY <1>1 DEF AssemblableParts, PartsOf, Part
<1>4. StatusOf(id) # "absent" => id \in DOMAIN reserved /\ id \in ConversionId
  BY DEF StatusOf, IInv, TypeOK
<1> QED
  BY <1>1, <1>2, <1>3, <1>4

LEMMA SynthesisJobsKnown ==
  ASSUME IInv, TablesGrow, NEW w \in Worker, run[w] # Free, run[w].job.kind = "prepare"
  PROVE  ToSynthesize(w) \subseteq KnownJobs(DOMAIN reserved')
<1> DEFINE id == Id(w)
           S == IF run[w].step = "scheduleAll"
                THEN UNION {DOMAIN SegmentPlan[r] : r \in run[w].read} ELSE Pending(id)
<1>1. run[w] \in PrepareRun /\ id \in DOMAIN reserved
  BY RunAt DEF Id
<1>2. id \in ConversionId /\ id \in DOMAIN reserved'
  BY <1>1 DEF IInv, TypeOK, TablesGrow
<1>3. run[w].read \subseteq Revision
  BY <1>1 DEF PrepareRun
<1>4. S \subseteq Segment
  BY <1>3, SegmentsTyped DEF Segment
<1>5. ToSynthesize(w) = {Synthesize(id, s) : s \in S}
  BY DEF ToSynthesize
<1> HIDE DEF id, S
<1>6. \A s \in S : Synthesize(id, s) \in Job /\ Synthesize(id, s).id = id
  BY <1>2, <1>4 DEF Synthesize, SynthesizeJob, Job
<1> QED
  BY <1>2, <1>5, <1>6 DEF KnownJobs

\* Jobs added to a table keep it one.
LEMMA EnqueueKeeps ==
  ASSUME NEW table, NEW charged, JobTable(table, charged), NEW added,
         added \subseteq KnownJobs(charged), Enqueue(table, added)
  PROVE  JobTable(jobs', charged)
BY WithKept DEF Enqueue

LEMMA GotoKeeps ==
  ASSUME NEW charged, JobTable(jobs, charged), NEW w, NEW next, Goto(w, next)
  PROVE  JobTable(jobs', charged)
BY SettledKept DEF Goto

LEMMA RunStepJobs ==
  ASSUME IInv, TablesGrow, NEW w \in Worker, RunStep(w)
  PROVE  JobTable(jobs', DOMAIN reserved')
<1> DEFINE charged == DOMAIN reserved'
<1>0. JobTable(jobs, charged)
  BY JobsBefore
<1> HIDE DEF charged
<1>1. CASE \/ MarkPreparing(w) \/ SourceBefore(w) \/ SourceAfter(w)
           \/ CompleteIfAllSegmentsSynthesized(w) \/ PutPart(w) \/ Finalize(w) \/ MarkReady(w)
           \/ FailFromRun(w)
  BY <1>0, <1>1, GotoKeeps
     DEF MarkPreparing, SourceBefore, SourceAfter, CompleteIfAllSegmentsSynthesized, PutPart,
         Finalize, MarkReady, FailFromRun, charged
<1>2. CASE \/ ReadPages(w) \/ CompletePreparation(w) \/ CompleteSegment(w)
           \/ CompletePart(w) \/ PutManifest(w)
  BY <1>0, <1>2 DEF ReadPages, CompletePreparation, CompleteSegment, CompletePart, PutManifest, charged
<1>3. CASE ScheduleSynthesis(w)
  <2>1. run[w] # Free /\ run[w].job.kind = "prepare"
    BY <1>3, NotFree DEF ScheduleSynthesis
  <2>2. ToSynthesize(w) \subseteq KnownJobs(charged)
    BY <2>1, SynthesisJobsKnown DEF charged
  <2>3. JobTable(Settled(w, "completed"), charged)
    BY <1>0, SettledKept
  <2> QED
    BY <1>3, <2>2, <2>3, EnqueueKeeps DEF ScheduleSynthesis, charged
<1>4. CASE AfterSegment(w)
  <2> DEFINE p == PartOf[run[w].job.segment]
             j == Assemble(Id(w), p, Once)
  <2>1. run[w] # Free /\ run[w].job.kind = "synthesize"
    BY <1>4, NotFree DEF AfterSegment
  <2>2. run[w] \in SynthesizeRun /\ Id(w) \in DOMAIN reserved
    BY <2>1, RunAt DEF Id
  <2>3. Id(w) \in ConversionId /\ Id(w) \in charged
    BY <2>2 DEF IInv, TypeOK, TablesGrow, charged
  <2>4. p \in Part
    BY <2>2 DEF SynthesizeRun, SynthesizeJob, Part
  <2>5. j \in Job /\ j.id = Id(w)
    BY <2>3, <2>4 DEF Assemble, AssembleJob, Job
  <2>6. \E added \in {{}, {j}} : Enqueue(jobs, added)
    BY <1>4 DEF AfterSegment
  <2> HIDE DEF j
  <2>7. \A added \in {{}, {j}} : added \subseteq KnownJobs(charged)
    BY <2>3, <2>5 DEF KnownJobs
  <2> QED
    BY <1>0, <2>6, <2>7, EnqueueKeeps DEF charged
<1> QED
  BY <1>1, <1>2, <1>3, <1>4 DEF RunStep

LEMMA SweepJobs ==
  ASSUME IInv, TablesGrow, NEW id \in ConversionId, SweepQueued(id) \/ SweepId(id)
  PROVE  JobTable(jobs', DOMAIN reserved')
<1> DEFINE charged == DOMAIN reserved'
<1>0. JobTable(jobs, charged)
  BY JobsBefore
<1>a. StatusOf(id) # "absent"
  BY DEF SweepQueued, SweepId, SweepStalled
<1>b. id \in charged
  BY <1>a, SegmentsTyped DEF TablesGrow
<1> HIDE DEF charged
<1>1. CASE SweepQueued(id)
  <2>1. Prepare(id) \in Job /\ Prepare(id).id = id
    BY DEF Prepare, PrepareJob, Job
  <2> QED
    BY <1>0, <1>1, <1>b, <2>1, EnqueueKeeps DEF SweepQueued, KnownJobs, charged
<1>2. CASE SweepId(id)
  <2>1. PICK key \in SweepKey : SweepStalled(id, key)
    BY <1>2 DEF SweepId
  <2> DEFINE retries == {Assemble(id, p, key) : p \in AssemblableParts(id)}
             missing == {Synthesize(id, s) : s \in Pending(id)}
             left == [j \in DOMAIN jobs \ retries |-> jobs[j]]
  <2>2. Enqueue(left, retries \cup missing)
    BY <2>1 DEF SweepStalled
  <2>3. \A p \in AssemblableParts(id) :
          Assemble(id, p, key) \in Job /\ Assemble(id, p, key).id = id
    BY SegmentsTyped DEF Assemble, AssembleJob, Job
  <2>4. \A s \in Pending(id) : Synthesize(id, s) \in Job /\ Synthesize(id, s).id = id
    BY SegmentsTyped DEF Synthesize, SynthesizeJob, Job
  <2>5. retries \cup missing \subseteq KnownJobs(charged)
    BY <1>b, <2>3, <2>4 DEF KnownJobs
  <2> HIDE DEF retries, missing
  <2>6. JobTable(left, charged)
    BY <1>0 DEF JobTable
  <2> HIDE DEF left
  <2> QED
    BY <2>2, <2>5, <2>6, EnqueueKeeps DEF charged
<1> QED
  BY <1>1, <1>2

LEMMA FailedAttemptJobs ==
  ASSUME IInv, TablesGrow, NEW w \in Worker, AttemptFails(w)
  PROVE  JobTable(jobs', DOMAIN reserved')
<1> DEFINE charged == DOMAIN reserved'
           table == AfterFailure(w, Attempts[run[w].job.kind])
           offered == IF run[w].step \in {"schedule", "scheduleAll"} THEN ToSynthesize(w) ELSE {}
<1>1. run[w] # Free
  BY DEF AttemptFails
<1>2. JobTable(table, charged)
  BY JobsBefore, AfterFailureKept
<1>3. offered \subseteq KnownJobs(charged)
  <2>1. run[w].step \in {"schedule", "scheduleAll"} => run[w].job.kind = "prepare"
    BY <1>1, RunAt DEF JobRun, PrepareRun, SynthesizeRun, AssembleRun, PrepareJob
  <2> QED
    BY <1>1, <2>1, SynthesisJobsKnown
<1>4. PICK added \in SUBSET offered : Enqueue(table, added)
  BY DEF AttemptFails
<1> HIDE DEF charged, table, offered
<1>5. added \subseteq KnownJobs(charged)
  BY <1>3, <1>4
<1> QED
  BY <1>2, <1>4, <1>5, EnqueueKeeps DEF charged

LEMMA EveryJobKept ==
  ASSUME IInv, TablesGrow, [Next]_vars
  PROVE  JobsOK'
<1> DEFINE charged == DOMAIN reserved'
<1>0. JobTable(jobs, charged)
  BY JobsBefore
<1> HIDE DEF charged
<1>1. CASE \E c \in Client : SchedulePreparation(c)
  <2>1. PICK c \in Client : SchedulePreparation(c)
    BY <1>1
  <2> DEFINE id == request[c].id
  <2>2. request[c] \in ScheduleRequest /\ id \in DOMAIN reserved
    <3>1. RequestOK(request[c], document, DOMAIN reserved) /\ request[c].step = "schedule"
      BY <2>1 DEF IInv, RequestsOK, SchedulePreparation, Serving
    <3> QED
      BY <3>1 DEF RequestOK, Request, Free, LaunchRequest
  <2>3. Prepare(id) \in Job /\ Prepare(id).id = id
    BY <2>2 DEF Prepare, PrepareJob, Job, ScheduleRequest
  <2>4. id \in charged
    BY <2>2 DEF TablesGrow, charged
  <2>5. JobTable(jobs', charged)
    BY <1>0, <2>1, <2>3, <2>4, EnqueueKeeps DEF SchedulePreparation, KnownJobs
  <2> QED
    BY <2>5 DEF JobTable, JobsOK, charged
<1>2. CASE \E w \in Worker : BeginRun(w)
  <2>1. PICK w \in Worker, j \in DOMAIN jobs : BeginJob(w, j)
    BY <1>2 DEF BeginRun
  <2>2. \E first : Take(w, j, first)
    BY <2>1 DEF BeginJob, BeginPreparation, BeginSynthesis, BeginAssembly
  <2>3. JobTable(jobs', charged)
    BY <1>0, <2>2, TakeKept
  <2> QED
    BY <2>3 DEF JobTable, JobsOK, charged
<1>3. CASE \/ \E w \in Worker : RunStep(w) \/ AttemptFails(w)
           \/ \E id \in ConversionId : SweepQueued(id) \/ SweepId(id)
  <2>1. JobTable(jobs', charged)
    BY <1>3, RunStepJobs, SweepJobs, FailedAttemptJobs DEF charged
  <2> QED
    BY <2>1 DEF JobTable, JobsOK, charged
<1>4. CASE \E j \in DOMAIN jobs : Redeliver(j)
  <2>1. JobTable(jobs', charged)
    BY <1>0, <1>4, AgainKept DEF Redeliver
  <2> QED
    BY <2>1 DEF JobTable, JobsOK, charged
<1>5. CASE Restart
  <2>1. JobTable(jobs', charged)
    BY <1>0, <1>5, ReleasedKept DEF Restart
  <2> QED
    BY <2>1 DEF JobTable, JobsOK, charged
<1>6. CASE \/ \E c \in Client : \/ ReadSource(c) \/ FindActive(c) \/ ReservationRefused(c)
                                \/ PreparationNotScheduled(c)
                                \/ \E id \in ConversionId : ReserveAndInsert(c, id)
           \/ \E id \in ConversionId : OnFinalFailure(id) \/ FinalFailureSwallowed(id)
           \/ CorrectText \/ CleanupForDocument \/ DeleteDocument
           \/ UNCHANGED vars
  <2>1. UNCHANGED jobs
    BY <1>6 DEF ReadSource, FindActive, ReservationRefused, PreparationNotScheduled, ReserveAndInsert,
                OnFinalFailure, FinalFailureSwallowed, CorrectText, CleanupForDocument, DeleteDocument, vars
  <2> QED
    BY <1>0, <2>1 DEF JobTable, JobsOK, charged
<1> QED
  BY <1>1, <1>2, <1>3, <1>4, <1>5, <1>6 DEF Next, RequestStep

-----------------------------------------------------------------------------
(* The handlers, the hooks and the counters after a step.                    *)

LEMMA EveryRequestKept ==
  ASSUME IInv, TablesGrow, [Next]_vars
  PROVE  RequestsOK'
<1>0. \A text, charged : RequestOK(Free, text, charged)
  BY DEF RequestOK, Request, Free, LaunchRequest, ScheduleRequest
<1>1. ASSUME NEW c \in Client, ReadSource(c) PROVE RequestsOK'
  <2> DEFINE e == [step |-> "findActive", revision |-> document]
  <2>1. Continue(c, e) /\ document # NoDocument
    BY <1>1 DEF ReadSource
  <2>2. document \in Revision
    BY <2>1 DEF IInv, TypeOK
  <2>3. e \in LaunchRequest /\ e.revision = document /\ e \notin ScheduleRequest
    BY <2>2 DEF LaunchRequest, ScheduleRequest
  <2>4. document \in Nat
    BY <2>2, PipelineAssumption
  <2> HIDE DEF e
  <2>5. RequestOK(e, document, DOMAIN reserved)
    BY <2>3, <2>4 DEF RequestOK, Request
  <2> QED
    BY <2>1, <2>5, RequestKept, RequestPut
<1>2. ASSUME NEW c \in Client, FindActive(c) PROVE RequestsOK'
  <2>1. request[c].step = "findActive" /\ RequestOK(request[c], document, DOMAIN reserved)
    BY <1>2 DEF FindActive, Serving, IInv, RequestsOK
  <2>2. request[c] \in LaunchRequest
    BY <2>1 DEF RequestOK, Request, Free, ScheduleRequest
  <2>3. CASE Continue(c, [request[c] EXCEPT !.step = "reserve"])
    <3> DEFINE e == [request[c] EXCEPT !.step = "reserve"]
    <3>1. e \in LaunchRequest /\ e.revision = request[c].revision /\ e \notin ScheduleRequest
      BY <2>2 DEF LaunchRequest, ScheduleRequest
    <3> HIDE DEF e
    <3>2. RequestOK(e, document, DOMAIN reserved)
      BY <2>1, <2>2, <3>1 DEF RequestOK, Request
    <3> QED
      BY <2>3, <3>2, RequestKept, RequestPut DEF e
  <2>4. ASSUME NEW id \in DOMAIN conversions, Continue(c, [step |-> "schedule", id |-> id])
        PROVE  RequestsOK'
    <3> DEFINE e == [step |-> "schedule", id |-> id]
    <3>1. id \in DOMAIN reserved /\ id \in ConversionId
      BY <2>4 DEF IInv, TypeOK
    <3>2. e \in ScheduleRequest /\ e.id = id /\ e \notin LaunchRequest
      BY <3>1 DEF ScheduleRequest, LaunchRequest
    <3> HIDE DEF e
    <3>3. RequestOK(e, document, DOMAIN reserved)
      BY <3>1, <3>2 DEF RequestOK, Request
    <3> QED
      BY <2>4, <3>3, RequestKept, RequestPut DEF e
  <2>5. CASE Continue(c, Free)
    BY <1>0, <2>5, RequestPut
  <2> QED
    BY <1>2, <2>3, <2>4, <2>5 DEF FindActive, Active
<1>3. ASSUME NEW c \in Client, NEW id \in ConversionId, ReserveAndInsert(c, id) PROVE RequestsOK'
  <2>1. CASE Continue(c, Free)
    BY <1>0, <2>1, RequestPut
  <2>2. CASE Continue(c, [step |-> "schedule", id |-> id]) /\ id \in DOMAIN reserved'
    <3> DEFINE e == [step |-> "schedule", id |-> id]
    <3>1. e \in ScheduleRequest /\ e.id = id /\ e \notin LaunchRequest
      BY DEF ScheduleRequest, LaunchRequest
    <3> HIDE DEF e
    <3>2. RequestOK(e, document', DOMAIN reserved')
      BY <2>2, <3>1 DEF RequestOK, Request
    <3> QED
      BY <2>2, <3>2, RequestPut DEF e
  <2> QED
    BY <1>3, <2>1, <2>2 DEF ReserveAndInsert
<1>4. ASSUME NEW c \in Client,
             ReservationRefused(c) \/ SchedulePreparation(c) \/ PreparationNotScheduled(c)
      PROVE RequestsOK'
  BY <1>0, <1>4, RequestPut DEF ReservationRefused, SchedulePreparation, PreparationNotScheduled
<1>5. CASE \E w \in Worker : BeginRun(w) \/ RunStep(w) \/ AttemptFails(w)
  <2>1. UNCHANGED request
    BY <1>5, ZenonT(60) DEF BeginRun, BeginJob, BeginPreparation, BeginSynthesis, BeginAssembly, AttemptFails,
                RunStep, MarkPreparing, SourceBefore, ReadPages, SourceAfter, CompletePreparation,
                ScheduleSynthesis, CompleteSegment, AfterSegment, CompleteIfAllSegmentsSynthesized,
                PutPart, CompletePart, Finalize, PutManifest, MarkReady, FailFromRun
  <2> QED
    BY <2>1, RequestsStay
<1>6. CASE \/ \E j \in DOMAIN jobs : Redeliver(j)
           \/ \E id \in ConversionId : SweepQueued(id) \/ OnFinalFailure(id) \/ FinalFailureSwallowed(id)
           \/ \E id \in ConversionId : SweepId(id)
           \/ CorrectText \/ CleanupForDocument \/ DeleteDocument \/ UNCHANGED vars
  BY <1>6, RequestsStay DEF Redeliver, SweepQueued, OnFinalFailure, FinalFailureSwallowed, SweepId,
       SweepStalled, CorrectText, CleanupForDocument, DeleteDocument, vars
<1>7. CASE Restart
  BY <1>0, <1>7 DEF Restart, RequestsOK
<1> QED
  BY <1>1, <1>2, <1>3, <1>4, <1>5, <1>6, <1>7 DEF Next, RequestStep

LEMMA EveryHookKept ==
  ASSUME IInv, TablesGrow, [Next]_vars
  PROVE  hooks' \subseteq DOMAIN reserved' /\ deletion' \in BOOLEAN /\ faults' \in 0 .. MaxFaults
<1>0. /\ hooks \subseteq DOMAIN reserved' /\ deletion \in BOOLEAN
      /\ faults \in 0 .. MaxFaults /\ (faults < MaxFaults => faults + 1 \in 0 .. MaxFaults)
  BY PipelineAssumption DEF IInv, TypeOK, TablesGrow
<1>1. CASE \E c \in Client : ReadSource(c) \/ RequestStep(c)
  BY <1>0, <1>1 DEF ReadSource, RequestStep, FindActive, ReserveAndInsert, ReservationRefused,
                    SchedulePreparation, PreparationNotScheduled
<1>2. CASE \E w \in Worker : BeginRun(w) \/ RunStep(w)
  BY <1>0, <1>2 DEF BeginRun, BeginJob, BeginPreparation, BeginSynthesis, BeginAssembly,
                RunStep, MarkPreparing, SourceBefore, ReadPages, SourceAfter, CompletePreparation,
                ScheduleSynthesis, CompleteSegment, AfterSegment, CompleteIfAllSegmentsSynthesized,
                PutPart, CompletePart, Finalize, PutManifest, MarkReady, FailFromRun
<1>3. ASSUME NEW w \in Worker, AttemptFails(w)
      PROVE  hooks' \subseteq DOMAIN reserved' /\ deletion' = deletion /\ faults' = faults + 1
  <2>1. run[w].job.id \in DOMAIN reserved'
    BY <1>3, RunAt DEF AttemptFails, TablesGrow
  <2> QED
    BY <1>0, <1>3, <2>1 DEF AttemptFails
<1>4. ASSUME NEW w \in Worker, AttemptFails(w) PROVE faults < MaxFaults
  BY <1>4 DEF AttemptFails
<1>5. CASE \/ \E j \in DOMAIN jobs : Redeliver(j)
           \/ \E id \in ConversionId : SweepQueued(id) \/ OnFinalFailure(id) \/ FinalFailureSwallowed(id)
           \/ \E id \in ConversionId : SweepId(id)
  BY <1>0, <1>5 DEF Redeliver, SweepQueued, OnFinalFailure, FinalFailureSwallowed, SweepId, SweepStalled
<1>6. CASE Restart
  BY <1>0, <1>6 DEF Restart
<1>7. CASE CorrectText \/ CleanupForDocument \/ DeleteDocument \/ UNCHANGED vars
  BY <1>0, <1>7 DEF CorrectText, CleanupForDocument, DeleteDocument, vars
<1> QED
  BY <1>0, <1>1, <1>2, <1>3, <1>4, <1>5, <1>6, <1>7 DEF Next

-----------------------------------------------------------------------------
(* The inductive invariant, and what it promises.                            *)

LEMMA InitIInv == Init => IInv
<1> SUFFICES ASSUME Init PROVE IInv
  OBVIOUS
<1>1. /\ document = 1 /\ DOMAIN conversions = {} /\ DOMAIN reserved = {} /\ DOMAIN jobs = {}
      /\ refunded = [id \in ConversionId |-> 0]
      /\ run = [w \in Worker |-> Free] /\ request = [c \in Client |-> Free]
      /\ hooks = {} /\ deletion = FALSE /\ faults = 0
  BY DEF Init
<1>2. 1 \in Revision /\ 0 \in 0 .. MaxFaults
  BY PipelineAssumption
<1>3. TypeOK
  BY <1>1, <1>2 DEF TypeOK
<1>4. JobsOK /\ RunsOK
  BY <1>1 DEF JobsOK, RunsOK, RunOK
<1>5. RequestsOK
  BY <1>1 DEF RequestsOK, RequestOK, Request, Free, LaunchRequest, ScheduleRequest
<1>6. ConversionsOfDocument /\ RowsOK /\ ChargesOK /\ OneActive /\ FailedIsRefunded /\ DeliveredIsComplete
  BY <1>1 DEF ConversionsOfDocument, RowsOK, ChargesOK, OneActive, FailedIsRefunded, DeliveredIsComplete,
              NoDocument
<1> QED
  BY <1>1, <1>3, <1>4, <1>5, <1>6 DEF IInv

LEMMA NextIInv == IInv /\ [Next]_vars => IInv'
<1> SUFFICES ASSUME IInv, [Next]_vars PROVE IInv'
  OBVIOUS
<1>1. TablesKept' /\ TablesGrow
  BY EveryStepKeeps
<1>2. RowsOK' /\ FailedIsRefunded' /\ DeliveredIsComplete'
      /\ \A id \in DOMAIN conversions' : conversions'[id] \in ConversionRow
  BY <1>1, RowWiseNext DEF TablesKept
<1>3. JobsOK' /\ RunsOK' /\ RequestsOK'
  BY <1>1, EveryJobKept, EveryRunKept, EveryRequestKept
<1>4. hooks' \subseteq DOMAIN reserved' /\ deletion' \in BOOLEAN /\ faults' \in 0 .. MaxFaults
  BY <1>1, EveryHookKept
<1>5. \A j \in DOMAIN jobs' : jobs'[j].state \in {"waiting", "active", "completed", "failed"}
  BY <1>3 DEF JobsOK, JobRow, JobStates
<1>6. TypeOK'
  BY <1>1, <1>2, <1>4, <1>5 DEF TypeOK, TablesKept
<1> QED
  BY <1>1, <1>2, <1>3, <1>4, <1>6 DEF IInv, TablesKept

LEMMA InvariantHolds == Spec => []IInv
<1>1. Init => IInv
  BY InitIInv
<1>2. IInv /\ [Next]_vars => IInv'
  BY NextIInv
<1> QED
  BY <1>1, <1>2, PTL DEF Spec

(* Type correctness: the tables, jobs, hooks and counters keep their ranges, *)
(* and a conversion always has its reservation.                              *)
THEOREM TypeOKInvariant == Spec => []TypeOK
<1>1. IInv => TypeOK
  BY DEF IInv
<1> QED
  BY <1>1, InvariantHolds, PTL

(* A failed conversion is refunded once, by what was not synthesised of it,  *)
(* and no other one is (FailConversionUseCase), however its runs race.       *)
THEOREM FailedIsRefundedInvariant == Spec => []FailedIsRefunded
<1>1. IInv => FailedIsRefunded
  BY DEF IInv
<1> QED
  BY <1>1, InvariantHolds, PTL

(* Parts are assembled from segments with audio, and a conversion is ready   *)
(* with all its parts and its manifest stored (AssemblePartUseCase).         *)
THEOREM DeliveredIsCompleteInvariant == Spec => []DeliveredIsComplete
<1>1. IInv => DeliveredIsComplete
  BY DEF IInv
<1> QED
  BY <1>1, InvariantHolds, PTL

(* Racing launches of a target leave one conversion and one reservation      *)
(* (StartConversionUseCase, ADR-0010), for any number of them.               *)
THEOREM OneChargePerTargetInvariant == Spec => []OneChargePerTarget
<1>1. ASSUME IInv, NEW r \in Revision
      PROVE  Cardinality(Active(r)) <= 1
  <2>1. \A a, b \in Active(r) : a = b
    BY <1>1 DEF IInv, OneActive, Active
  <2>2. CASE Active(r) = {}
    BY <2>2, FS_EmptySet
  <2>3. CASE Active(r) # {}
    <3>1. PICK id : id \in Active(r)
      BY <2>3
    <3>2. Active(r) = {id}
      BY <2>1, <3>1
    <3>3. Cardinality({id}) = 1
      BY FS_Singleton
    <3> QED
      BY <3>2, <3>3
  <2> QED
    BY <2>2, <2>3
<1>2. IInv => (document # NoDocument => \A id \in DOMAIN reserved : id \in DOMAIN conversions)
  BY DEF IInv, ConversionsOfDocument
<1>3. IInv => OneChargePerTarget
  BY <1>1, <1>2 DEF OneChargePerTarget
<1> QED
  BY <1>3, InvariantHolds, PTL

(* Corrections of the text while it is read never give a conversion segments *)
(* of another revision than its own (PrepareConversionUseCase).              *)
THEOREM OneRevisionReadInvariant == Spec => []OneRevisionRead
<1>1. ASSUME NEW row, NEW text, RowOK(row, text), NEW e \in row.segments
      PROVE  e[1] = row.revision
  BY <1>1 DEF RowOK, PlanOf
<1>2. IInv => OneRevisionRead
  BY <1>1 DEF IInv, RowsOK, OneRevisionRead
<1> QED
  BY <1>2, InvariantHolds, PTL

(* A conversion only goes forward, and loses neither audio nor parts, under  *)
(* redelivered jobs, restarts and sweeps.                                    *)
THEOREM OnlyForwardHolds == Spec => OnlyForward
<1>1. ASSUME IInv, [Next]_vars, NEW id \in ConversionId
      PROVE  /\ Follows(StatusOf(id), StatusOf(id)')
             /\ id \in DOMAIN conversions /\ id \in DOMAIN conversions' =>
                  /\ conversions[id].voiced \subseteq conversions'[id].voiced
                  /\ conversions[id].assembled \subseteq conversions'[id].assembled
  <2>1. TablesGrow
    BY <1>1, EveryStepKeeps
  <2>2. CASE id \notin DOMAIN conversions'
    BY <2>2 DEF StatusOf, Follows
  <2>3. CASE id \in DOMAIN conversions' /\ id \in DOMAIN conversions
    <3>1. RowGrows(conversions[id], conversions'[id])
      BY <2>1, <2>3 DEF TablesGrow
    <3> QED
      BY <2>3, <3>1 DEF RowGrows, StatusOf
  <2>4. CASE id \in DOMAIN conversions' /\ id \notin DOMAIN conversions
    BY <2>1, <2>4 DEF TablesGrow, StatusOf, Follows
  <2> QED
    BY <2>2, <2>3, <2>4
<1>2. IInv /\ [Next]_vars =>
        [ \A id \in ConversionId :
            /\ Follows(StatusOf(id), StatusOf(id)')
            /\ id \in DOMAIN conversions /\ id \in DOMAIN conversions' =>
                 /\ conversions[id].voiced \subseteq conversions'[id].voiced
                 /\ conversions[id].assembled \subseteq conversions'[id].assembled ]_vars
  BY <1>1
<1> QED
  BY <1>2, InvariantHolds, PTL DEF Spec, OnlyForward

=============================================================================
