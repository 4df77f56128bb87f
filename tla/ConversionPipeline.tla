------------------------- MODULE ConversionPipeline -------------------------
(***************************************************************************)
(* The conversion of one document with one voice: launched by clients,     *)
(* prepared, synthesised segment by segment and assembled part by part by  *)
(* queued jobs, swept when it stalls, failed and refunded.  A run of a job *)
(* is split at each statement, storage write and enqueueing.  The delays   *)
(* of the sweep are left out: it may look at a conversion of any age.      *)
(***************************************************************************)
EXTENDS JobQueue, FiniteSets, Functions

CONSTANTS
  ConversionId,    \* identifiers drawn for new conversions
  Client,          \* handlers of POST /v1/documents/:id/conversions
  Revision,        \* revisions of the text, 1 .. the last correction
  Chars,           \* document.charCount at each revision
  SegmentPlan,     \* segments of each revision, as a function to their characters
  PartOf,          \* the part of each segment
  SynthesisWorker, PrepareWorker, AssemblyWorker,   \* concurrency of each queue
  Attempts,        \* attempts of a job: [prepare, synthesize, assemble]
  SweepKey,        \* retry keys of assemblies the sweep has in the queue at a time
  MaxFaults,       \* bound on failed attempts, stalls, restarts, lost enqueueings
  HooksAreSafe     \* a final failure is always recorded (an assumption, see README)

Worker == PrepareWorker \cup SynthesisWorker \cup AssemblyWorker
Segment == UNION {DOMAIN SegmentPlan[r] : r \in Revision}
Part == {PartOf[s] : s \in Segment}

ASSUME PipelineAssumption ==
  /\ Revision \subseteq Nat \ {0} /\ 1 \in Revision
  /\ \A r \in Revision : Chars[r] \in Nat /\ \A s \in DOMAIN SegmentPlan[r] : SegmentPlan[r][s] \in Nat
  /\ \A r \in Revision : IsFiniteSet(DOMAIN SegmentPlan[r])
  /\ Segment \subseteq DOMAIN PartOf
  /\ DOMAIN Attempts = {"prepare", "synthesize", "assemble"}
  /\ \A kind \in DOMAIN Attempts : Attempts[kind] \in Nat \ {0}
  /\ MaxFaults \in Nat /\ HooksAreSafe \in BOOLEAN

VARIABLES
  document,      \* the text: its revision, or NoDocument
  conversions,   \* tables conversions, conversion_segments, conversion_parts
  reserved,      \* characters of each quota reservation
  refunded,      \* characters given back on each reservation
  files,         \* audio and captions of parts in the object storage
  manifests,     \* manifests in the object storage
  request,       \* what each client handler is doing
  hooks,         \* conversions whose job failed for good, not recorded yet
  deletion,      \* a deletion of the document found no running conversion
  faults

tables == <<document, conversions, reserved, refunded>>
storage == <<files, manifests>>

vars == <<tables, storage, jobs, run, request, hooks, deletion, faults>>

NoDocument == 0
Statuses == {"queued", "preparing", "synthesizing", "synthesized", "ready", "failed"}
NotReady == Statuses \ {"ready", "failed"}                 \* fault: synthesised may fail
InProgress == {"queued", "preparing", "synthesizing"}      \* IN_PROGRESS_STATUSES
Queued == {"queued"}                                       \* fault: a retry is not taken
Running == {"queued", "preparing", "synthesizing", "synthesized"}
Preparable == {"queued", "preparing"}                      \* what markPreparing accepts
Assemblable == {"synthesizing", "synthesized"}             \* ASSEMBLABLE_STATUSES

\* segments: those inserted; voiced: with audio; assembled: parts with files.
ConversionRow == [revision : Revision, status : Statuses, segments : SUBSET (Revision \X Segment),
                  voiced : SUBSET Segment, assembled : SUBSET Part]

Prepare(id) == [kind |-> "prepare", id |-> id]
Synthesize(id, s) == [kind |-> "synthesize", id |-> id, segment |-> s]
Assemble(id, p, key) == [kind |-> "assemble", id |-> id, part |-> p, key |-> key]
Once == "once"                \* the key of an assembly that is not a retry

Init ==
  /\ document = 1
  /\ conversions = [id \in {} |-> 0]
  /\ reserved = [id \in {} |-> 0]
  /\ refunded = [id \in ConversionId |-> 0]
  /\ files = {} /\ manifests = {}
  /\ jobs = [j \in {} |-> 0]
  /\ run = [w \in Worker |-> Free]
  /\ request = [c \in Client |-> Free]
  /\ hooks = {}
  /\ deletion = FALSE
  /\ faults = 0

-----------------------------------------------------------------------------
(* The conversion repository *)

StatusOf(id) == IF id \in DOMAIN conversions THEN conversions[id].status ELSE "absent"
SegmentsOf(id) == {e[2] : e \in conversions[id].segments}
Pending(id) == IF id \in DOMAIN conversions THEN SegmentsOf(id) \ conversions[id].voiced ELSE {}
PartsOf(id) == {PartOf[s] : s \in SegmentsOf(id)}
PendingIn(id, p) == {s \in Pending(id) : PartOf[s] = p}
AssemblableParts(id) ==
  IF id \in DOMAIN conversions
  THEN {p \in PartsOf(id) \ conversions[id].assembled : PendingIn(id, p) = {}}
  ELSE {}

\* The predicate of the partial unique index conversions_active_target_idx.
Active(r) ==
  {id \in DOMAIN conversions : conversions[id].revision = r /\ conversions[id].status # "failed"}
NeverConflicts(r) == FALSE                                 \* fault: no unique index
Conflicts(r) == Active(r) # {}

\* UPDATE ... WHERE id AND status IN from: nothing when the row is not there.
Update(id, from, Changed(_)) ==
  conversions' = IF StatusOf(id) \in from
                 THEN [conversions EXCEPT ![id] = Changed(@)]
                 ELSE conversions
Move(id, from, to) == Update(id, from, LAMBDA row : [row EXCEPT !.status = to])

CharsOf(id, segments) == SumFunctionOnSet(SegmentPlan[conversions[id].revision], segments)
CharsPlanned(id) == CharsOf(id, SegmentsOf(id))            \* fault: audio is not asked for
CharsVoiced(id) == CharsOf(id, conversions[id].voiced)

\* The reservation minus what was consumed; a refund of nothing is no refund.
Difference(a, b) == a - b                                  \* fault: a debit by a refund
Beyond(a, b) == IF a > b THEN a - b ELSE 0

\* FailConversionUseCase: markFailed and the refund in one transaction.
FailConversion(id) ==
  /\ Move(id, InProgress, "failed")
  /\ refunded' = IF StatusOf(id) \in InProgress
                 THEN [refunded EXCEPT ![id] = Beyond(reserved[id], CharsVoiced(id))]
                 ELSE refunded
  /\ UNCHANGED <<document, reserved>>

-----------------------------------------------------------------------------
(* The runs of the workers *)

At(w, kind, step) == run[w].step = step /\ run[w].job.kind = kind
Id(w) == run[w].job.id

-----------------------------------------------------------------------------
(* StartConversionUseCase *)

Serving(c, step) == request[c].step = step
Continue(c, next) == request' = [request EXCEPT ![c] = next]

ReadSource(c) ==
  /\ request[c] = Free
  /\ document # NoDocument
  /\ Continue(c, [step |-> "findActive", revision |-> document])
  /\ UNCHANGED <<tables, storage, jobs, run, hooks, deletion, faults>>

\* The same target again: its conversion is answered, and resumed when queued.
FindActive(c) ==
  /\ Serving(c, "findActive")
  /\ IF Active(request[c].revision) = {}
     THEN Continue(c, [request[c] EXCEPT !.step = "reserve"])
     ELSE \E id \in Active(request[c].revision) :
            Continue(c, IF StatusOf(id) = "queued" THEN [step |-> "schedule", id |-> id] ELSE Free)
  /\ UNCHANGED <<tables, storage, jobs, run, hooks, deletion, faults>>

\* Reservation and conversion in one transaction; a launch of the same target
\* that won the race, or a deleted document, rolls both back.
ReserveAndInsert(c, id) ==
  LET r == request[c].revision
  IN  /\ Serving(c, "reserve")
      /\ id \notin DOMAIN reserved
      /\ IF ~Conflicts(r) /\ document # NoDocument
         THEN /\ reserved' = [k \in DOMAIN reserved \cup {id} |->
                                IF k = id THEN Chars[r] ELSE reserved[k]]
              /\ conversions' = [k \in DOMAIN conversions \cup {id} |->
                   IF k = id
                   THEN [revision |-> r, status |-> "queued", segments |-> {},
                         voiced |-> {}, assembled |-> {}]
                   ELSE conversions[k]]
              /\ Continue(c, [step |-> "schedule", id |-> id])
              /\ UNCHANGED <<document, refunded>>
         ELSE Continue(c, Free) /\ UNCHANGED tables
      /\ UNCHANGED <<storage, jobs, run, hooks, deletion, faults>>

\* The balances do not cover the demand.
ReservationRefused(c) ==
  /\ Serving(c, "reserve")
  /\ Continue(c, Free)
  /\ UNCHANGED <<tables, storage, jobs, run, hooks, deletion, faults>>

SchedulePreparation(c) ==
  /\ Serving(c, "schedule")
  /\ Enqueue(jobs, {Prepare(request[c].id)})
  /\ Continue(c, Free)
  /\ UNCHANGED <<tables, storage, run, hooks, deletion, faults>>

\* The queue is unavailable, or the server stops: the conversion stays queued.
PreparationNotScheduled(c) ==
  /\ Serving(c, "schedule")
  /\ faults < MaxFaults
  /\ faults' = faults + 1
  /\ Continue(c, Free)
  /\ UNCHANGED <<tables, storage, jobs, run, hooks, deletion>>

-----------------------------------------------------------------------------
(* PrepareConversionUseCase *)

BeginPreparation(w, j) ==
  /\ w \in PrepareWorker
  /\ j.kind = "prepare"
  /\ Take(w, j, CASE StatusOf(j.id) = "absent" -> "done"
                  [] StatusOf(j.id) = "synthesizing" -> "schedule"
                  [] OTHER -> "mark")
  /\ UNCHANGED <<tables, storage, request, hooks, deletion, faults>>

MarkPreparing(w) ==
  /\ At(w, "prepare", "mark")
  /\ Move(Id(w), Preparable, "preparing")
  /\ Goto(w, IF StatusOf(Id(w)) \in Preparable THEN "before" ELSE "done")
  /\ UNCHANGED <<document, reserved, refunded, storage, request, hooks, deletion, faults>>

\* unusableReason: the document is gone, or its text was corrected.
Usable(id) == StatusOf(id) # "absent" /\ document = conversions[id].revision

SourceBefore(w) ==
  /\ At(w, "prepare", "before")
  /\ Goto(w, IF Usable(Id(w)) THEN "pages" ELSE "fail")
  /\ UNCHANGED <<tables, storage, request, hooks, deletion, faults>>

\* One batch of pages; there may be more, read later.
ReadPages(w) ==
  /\ At(w, "prepare", "pages")
  /\ \E next \in {"pages", "after"} :
       run' = [run EXCEPT ![w].step = next, ![w].read = @ \cup ({document} \ {NoDocument})]
  /\ UNCHANGED <<tables, storage, jobs, request, hooks, deletion, faults>>

SourceNotReadAgain(w) ==                                   \* fault: the pages are trusted
  /\ At(w, "prepare", "after")
  /\ Goto(w, "complete")
  /\ UNCHANGED <<tables, storage, request, hooks, deletion, faults>>

\* A text without a word fails too.
SourceAfter(w) ==
  /\ At(w, "prepare", "after")
  /\ Goto(w, IF Usable(Id(w)) /\ DOMAIN SegmentPlan[document] # {} THEN "complete" ELSE "fail")
  /\ UNCHANGED <<tables, storage, request, hooks, deletion, faults>>

\* The segments and parts are inserted with the new status; what was read from
\* several revisions would give a text that mixes them.
CompletePreparation(w) ==
  /\ At(w, "prepare", "complete")
  /\ Update(Id(w), {"preparing"}, LAMBDA row :
       [row EXCEPT !.status = "synthesizing",
                   !.segments = UNION {{r} \X DOMAIN SegmentPlan[r] : r \in run[w].read}])
  /\ Proceed(w, "scheduleAll")
  /\ UNCHANGED <<document, reserved, refunded, storage, jobs, request, hooks, deletion, faults>>

\* What scheduleSynthesis adds: every prepared segment, or those still pending
\* when the preparation of another attempt is resumed.
ToSynthesize(w) ==
  {Synthesize(Id(w), s) :
     s \in IF run[w].step = "scheduleAll"
           THEN UNION {DOMAIN SegmentPlan[r] : r \in run[w].read}
           ELSE Pending(Id(w))}

ScheduleSynthesis(w) ==
  /\ At(w, "prepare", "schedule") \/ At(w, "prepare", "scheduleAll")
  /\ Enqueue(Settled(w, "completed"), ToSynthesize(w))
  /\ run' = [run EXCEPT ![w] = Free]
  /\ UNCHANGED <<tables, storage, request, hooks, deletion, faults>>

\* A source that cannot be used; a text the engine refuses for good.
FailFromRun(w) ==
  /\ run[w].step = "fail" \/ At(w, "synthesize", "voice")
  /\ FailConversion(Id(w))
  /\ Goto(w, "done")
  /\ UNCHANGED <<storage, request, hooks, deletion, faults>>

-----------------------------------------------------------------------------
(* SynthesizeSegmentUseCase *)

BeginSynthesis(w, j) ==
  /\ w \in SynthesisWorker
  /\ j.kind = "synthesize"
  /\ Take(w, j, IF StatusOf(j.id) # "synthesizing" \/ j.segment \notin SegmentsOf(j.id) THEN "done"
                ELSE IF j.segment \in conversions[j.id].voiced THEN "part" ELSE "voice")
  /\ UNCHANGED <<tables, storage, request, hooks, deletion, faults>>

\* With the audio of the cache or of the engine.
CompleteSegment(w) ==
  /\ At(w, "synthesize", "voice")
  /\ Update(Id(w), Statuses, LAMBDA row : [row EXCEPT !.voiced = @ \cup {run[w].job.segment}])
  /\ Proceed(w, "part")
  /\ UNCHANGED <<document, reserved, refunded, storage, jobs, request, hooks, deletion, faults>>

\* afterSegment: the part of the segment is assembled as soon as it is complete,
\* and the conversion is synthesised when no segment is left.
AfterSegment(w) ==
  LET p == PartOf[run[w].job.segment]
  IN  /\ At(w, "synthesize", "part")
      /\ Enqueue(jobs, IF PendingIn(Id(w), p) = {} THEN {Assemble(Id(w), p, Once)} ELSE {})
      /\ Proceed(w, "all")
      /\ UNCHANGED <<tables, storage, request, hooks, deletion, faults>>

CompleteIfAllSegmentsSynthesized(w) ==
  /\ At(w, "synthesize", "all")
  /\ Move(Id(w), IF Pending(Id(w)) = {} THEN {"synthesizing"} ELSE {}, "synthesized")
  /\ Goto(w, "done")
  /\ UNCHANGED <<document, reserved, refunded, storage, request, hooks, deletion, faults>>

-----------------------------------------------------------------------------
(* AssemblePartUseCase *)

BeginAssembly(w, j) ==
  /\ w \in AssemblyWorker
  /\ j.kind = "assemble"
  /\ Take(w, j, IF StatusOf(j.id) \notin Assemblable \/ j.part \notin PartsOf(j.id) THEN "done"
                ELSE IF j.part \in conversions[j.id].assembled THEN "finalize" ELSE "assemble")
  /\ UNCHANGED <<tables, storage, request, hooks, deletion, faults>>

\* The files of the part, unless one of its segments has no audio yet.
PutPart(w) ==
  LET part == <<Id(w), run[w].job.part>>
      whole == PendingIn(part[1], part[2]) = {}
  IN  /\ At(w, "assemble", "assemble")
      /\ files' = IF whole THEN files \cup {part} ELSE files
      /\ Goto(w, IF whole THEN "complete" ELSE "done")
      /\ UNCHANGED <<tables, manifests, request, hooks, deletion, faults>>

CompletePart(w) ==
  /\ At(w, "assemble", "complete")
  /\ Update(Id(w), Statuses, LAMBDA row : [row EXCEPT !.assembled = @ \cup {run[w].job.part}])
  /\ Proceed(w, "finalize")
  /\ UNCHANGED <<document, reserved, refunded, storage, jobs, request, hooks, deletion, faults>>

\* finalize: only a synthesised conversion, all of whose parts are there.
SomeAssembled(id) == conversions[id].assembled # {}        \* fault: one part is enough
AllAssembled(id) == PartsOf(id) \subseteq conversions[id].assembled

Finalize(w) ==
  /\ At(w, "assemble", "finalize")
  /\ Goto(w, IF StatusOf(Id(w)) = "synthesized" /\ AllAssembled(Id(w)) THEN "manifest" ELSE "done")
  /\ UNCHANGED <<tables, storage, request, hooks, deletion, faults>>

PutManifest(w) ==
  /\ At(w, "assemble", "manifest")
  /\ manifests' = manifests \cup {Id(w)}
  /\ Proceed(w, "ready")
  /\ UNCHANGED <<tables, files, jobs, request, hooks, deletion, faults>>

MarkReady(w) ==
  /\ At(w, "assemble", "ready")
  /\ Move(Id(w), IF StatusOf(Id(w)) # "absent" => AllAssembled(Id(w)) THEN {"synthesized"} ELSE {},
          "ready")
  /\ Goto(w, "done")
  /\ UNCHANGED <<document, reserved, refunded, storage, request, hooks, deletion, faults>>

-----------------------------------------------------------------------------
(* Attempts that fail, jobs delivered again, restarts                        *)

\* An error ends the run: the job waits for its next attempt, or has failed for
\* good.  scheduleSynthesis may have added some of its jobs before.
AttemptFails(w) ==
  LET j == run[w].job
  IN  /\ run[w] # Free
      /\ faults < MaxFaults
      /\ faults' = faults + 1
      /\ \E added \in SUBSET (IF run[w].step \in {"schedule", "scheduleAll"} THEN ToSynthesize(w) ELSE {}) :
           Enqueue(AfterFailure(w, Attempts[j.kind]), added)
      /\ hooks' = IF FailsForGood(w, Attempts[j.kind]) /\ j.kind # "assemble"
                  THEN hooks \cup {j.id} ELSE hooks
      /\ run' = [run EXCEPT ![w] = Free]
      /\ UNCHANGED <<tables, storage, request, deletion>>

\* onFinalFailure of the preparation and synthesis workers.
OnFinalFailure(id) ==
  /\ id \in hooks
  /\ FailConversion(id)
  /\ hooks' = hooks \ {id}
  /\ UNCHANGED <<storage, jobs, run, request, deletion, faults>>

\* Its error is only logged, and nobody calls it again.
FinalFailureSwallowed(id) ==
  /\ id \in hooks
  /\ ~HooksAreSafe
  /\ hooks' = hooks \ {id}
  /\ UNCHANGED <<tables, storage, jobs, run, request, deletion, faults>>

\* A stalled job is given again while its first run goes on.
Redeliver(j) ==
  /\ j \in DOMAIN jobs /\ jobs[j].state = "active"
  /\ faults < MaxFaults
  /\ faults' = faults + 1
  /\ jobs' = Again(j)
  /\ UNCHANGED <<tables, storage, run, request, hooks, deletion>>

Restart ==
  /\ faults < MaxFaults
  /\ faults' = faults + 1
  /\ jobs' = Released
  /\ run' = [w \in Worker |-> Free]
  /\ request' = [c \in Client |-> Free]
  /\ hooks' = IF HooksAreSafe THEN hooks ELSE {}
  /\ deletion' = FALSE
  /\ UNCHANGED <<tables, storage>>

-----------------------------------------------------------------------------
(* RescheduleStalledConversionsUseCase *)

SweepQueued(id) ==
  /\ StatusOf(id) = "queued"
  /\ Enqueue(jobs, {Prepare(id)})
  /\ UNCHANGED <<tables, storage, run, request, hooks, deletion, faults>>

\* The retry key is new at each minute: an older assembly under it was another
\* minute's, and |SweepKey| bounds the retries of a part in the queue at a time.
\* What is found to do is added at once: a job added later is one taken later.
SweepStalled(id, key) ==
  LET retries == {Assemble(id, p, key) : p \in AssemblableParts(id)}
  IN  /\ StatusOf(id) \in {"synthesizing", "synthesized"}
      /\ Pending(id) # {} \/ retries # {}
      /\ \A j \in retries : ~InQueue(j)
      /\ Enqueue([j \in DOMAIN jobs \ retries |-> jobs[j]],
                 retries \cup {Synthesize(id, s) : s \in Pending(id)})
      /\ UNCHANGED <<tables, storage, run, request, hooks, deletion, faults>>

-----------------------------------------------------------------------------
(* The document module: a page corrected, the document deleted with its      *)
(* conversions (ON DELETE CASCADE) and without refund (ADR-0016, 4).         *)

CorrectText ==
  /\ document # NoDocument
  /\ document + 1 \in Revision
  /\ document' = document + 1
  /\ UNCHANGED <<conversions, reserved, refunded, storage, jobs, run, request, hooks, deletion, faults>>

\* DeleteDocumentUseCase, one transaction of two statements that lock nothing
\* between them: refused (409) when a conversion is running, then deleted.
CleanupForDocument ==
  /\ document # NoDocument
  /\ \A id \in DOMAIN conversions : StatusOf(id) \notin Running
  /\ deletion' = TRUE
  /\ UNCHANGED <<tables, storage, jobs, run, request, hooks, faults>>

DeleteDocument ==
  /\ deletion
  /\ deletion' = FALSE
  /\ document' = NoDocument
  /\ conversions' = [id \in {} |-> 0]
  /\ UNCHANGED <<reserved, refunded, storage, jobs, run, request, hooks, faults>>

-----------------------------------------------------------------------------

RequestStep(c) ==
  \/ FindActive(c) \/ (\E id \in ConversionId : ReserveAndInsert(c, id))
  \/ ReservationRefused(c) \/ SchedulePreparation(c) \/ PreparationNotScheduled(c)

BeginJob(w, j) == BeginPreparation(w, j) \/ BeginSynthesis(w, j) \/ BeginAssembly(w, j)

RunStep(w) ==
  \/ MarkPreparing(w) \/ SourceBefore(w) \/ ReadPages(w) \/ SourceAfter(w)
  \/ CompletePreparation(w) \/ ScheduleSynthesis(w)
  \/ CompleteSegment(w) \/ AfterSegment(w) \/ CompleteIfAllSegmentsSynthesized(w)
  \/ PutPart(w) \/ CompletePart(w) \/ Finalize(w) \/ PutManifest(w) \/ MarkReady(w)
  \/ FailFromRun(w)

BeginRun(w) == \E j \in DOMAIN jobs : BeginJob(w, j)
SweepId(id) == \E key \in SweepKey : SweepStalled(id, key)

Next ==
  \/ \E c \in Client : ReadSource(c) \/ RequestStep(c)
  \/ \E w \in Worker : BeginRun(w) \/ RunStep(w) \/ AttemptFails(w)
  \/ \E j \in DOMAIN jobs : Redeliver(j)
  \/ \E id \in ConversionId : SweepQueued(id) \/ OnFinalFailure(id) \/ FinalFailureSwallowed(id)
  \/ \E id \in ConversionId : SweepId(id)
  \/ Restart
  \/ CorrectText \/ CleanupForDocument \/ DeleteDocument

Spec == Init /\ [][Next]_vars

(* The workers run what is queued, the sweep every five minutes.  The queues *)
(* serve every job in the end: a worker takes each of them in turn.          *)
FairSpec ==
  /\ Spec
  /\ \A c \in Client : WF_vars(RequestStep(c))
  /\ \A w \in Worker : WF_vars(RunStep(w)) /\ WF_vars(BeginRun(w))
  /\ \A id \in ConversionId : /\ WF_vars(SweepQueued(id)) /\ WF_vars(OnFinalFailure(id))
                              /\ SF_vars(SweepId(id))

-----------------------------------------------------------------------------
(* Properties *)

TypeOK ==
  /\ document \in Revision \cup {NoDocument}
  /\ DOMAIN conversions \subseteq DOMAIN reserved
  /\ DOMAIN reserved \subseteq ConversionId
  /\ \A id \in DOMAIN conversions : conversions[id] \in ConversionRow
  /\ refunded \in [ConversionId -> Nat]
  /\ \A j \in DOMAIN jobs : jobs[j].state \in {"waiting", "active", "completed", "failed"}
  /\ hooks \subseteq ConversionId
  /\ deletion \in BOOLEAN
  /\ faults \in 0 .. MaxFaults

(* Only a conversion that failed gives something back, and nobody pays for   *)
(* what was not synthesised: whatever final failures, refused texts and      *)
(* redelivered jobs fail it together, what stays charged is covered by audio.*)
FailedIsRefunded ==
  \A id \in DOMAIN conversions :
    IF StatusOf(id) = "failed"
    THEN /\ refunded[id] <= reserved[id]
         /\ refunded[id] + CharsOf(id, conversions[id].voiced) >= reserved[id]
    ELSE refunded[id] = 0

(* Racing launches of one target leave one conversion and one charge: the    *)
(* loser's reservation goes with its transaction (ADR-0010).  Only a deleted *)
(* document leaves charges without conversions (ADR-0016, 4).                *)
OneChargePerTarget ==
  /\ \A r \in Revision : Cardinality(Active(r)) <= 1
  /\ document # NoDocument => \A id \in DOMAIN reserved : id \in DOMAIN conversions

(* A part is marked assembled after its files are stored, from segments that *)
(* all have their audio; a ready conversion has every part and its manifest. *)
DeliveredIsComplete ==
  \A id \in DOMAIN conversions :
    /\ \A p \in conversions[id].assembled : <<id, p>> \in files /\ PendingIn(id, p) = {}
    /\ StatusOf(id) \in {"synthesized", "ready"} => Pending(id) = {} /\ SegmentsOf(id) # {}
    /\ StatusOf(id) = "ready" => PartsOf(id) \subseteq conversions[id].assembled /\ id \in manifests

(* The segments of a conversion are all of the revision it was launched and  *)
(* charged for, whatever corrections come while it is prepared.              *)
OneRevisionRead ==
  \A id \in DOMAIN conversions :
    \A e \in conversions[id].segments : e[1] = conversions[id].revision

(* A conversion only goes forward; once its synthesis is over it never fails *)
(* (ADR-0011, 6), and neither a segment's audio nor a part is taken back.    *)
Follows(before, after) ==
  \/ before = after
  \/ after = "absent"
  \/ before = "absent" /\ after = "queued"
  \/ before = "queued" /\ after \in {"preparing", "failed"}
  \/ before = "preparing" /\ after \in {"synthesizing", "failed"}
  \/ before = "synthesizing" /\ after \in {"synthesized", "failed"}
  \/ before = "synthesized" /\ after = "ready"

OnlyForward ==
  [][ \A id \in ConversionId :
        /\ Follows(StatusOf(id), StatusOf(id)')
        /\ id \in DOMAIN conversions /\ id \in DOMAIN conversions' =>
             /\ conversions[id].voiced \subseteq conversions'[id].voiced
             /\ conversions[id].assembled \subseteq conversions'[id].assembled ]_vars

(* A launched conversion gets through its synthesis or fails with its        *)
(* refund, even when the queue was unavailable at the launch, attempts fail, *)
(* jobs are delivered twice or the server restarts.                          *)
StartedEnds ==
  \A id \in ConversionId :
    StatusOf(id) = "queued" ~> StatusOf(id) \in {"synthesized", "ready", "failed", "absent"}

(* What the code's comments say and the code does not ensure: the sweep      *)
(* brings every synthesised conversion to ready (conversion-status.vo.ts).   *)
SynthesizedIsDelivered ==
  \A id \in ConversionId : StatusOf(id) = "synthesized" ~> StatusOf(id) \in {"ready", "absent"}
=============================================================================
