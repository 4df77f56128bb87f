----------------------- MODULE DocumentLifecycleProofs -----------------------
(***************************************************************************)
(* The promises of the life of a document for any number of pages, batches *)
(* and corrections, of confirmations, workers, attempts and faults.        *)
(***************************************************************************)
EXTENDS DocumentLifecycle, FiniteSums

-----------------------------------------------------------------------------
(* The inductive invariant.  What each handler and run knows is stated of    *)
(* the document given as parameters, so that it can be carried over a step.  *)

DocRow == [status : Statuses \cup {"none", "deleted"}, method : {"none", "native", "ocr"},
           sourceDeleted : BOOLEAN, charCount : Nat, revision : Nat]

\* The document was confirmed; its extraction was begun; it is over.
Past(status) == status \in {"uploaded", "extracting", "text_ready", "extraction_failed", "deleted"}
Begun(status) == status \in {"extracting", "text_ready", "extraction_failed", "deleted"}
Over(status) == status \in {"text_ready", "extraction_failed", "deleted"}

OcrJob == [kind : {"ocr"}, from : Page, key : SweepKey \cup {Once}]
Job == {Extract} \cup OcrJob
JobStates == {"waiting", "active", "completed", "failed"}
JobRow == [state : JobStates, tries : Nat, owner : Worker \cup {"none"}]

ExtractRun == [step : {"mark", "get", "start", "complete", "schedule", "fail", "delete", "flag"},
               job : {Extract}, read : SUBSET Page]
OcrRun == [step : {"list", "get", "save", "read", "complete", "schedule", "fail", "delete", "flag"},
           job : OcrJob, read : SUBSET Page]

\* What the run of an OCR batch has listed is there while the text is extracted.
OcrKnows(e, status, recognised) ==
  /\ status = "extracting" =>
       /\ e.step \in {"get", "save"} => e.read \subseteq recognised
       /\ e.step = "read" => recognised = Page
       /\ e.step = "complete" => e.read = Page
  /\ e.step = "schedule" => e.read # Page

RunOK(e, status, recognised) ==
  e = Free \/ /\ e \in ExtractRun \cup OcrRun
              /\ Past(status)
              /\ e.step # "mark" => Begun(status)
              /\ e.step \in {"delete", "flag"} => Over(status)
              /\ e \in OcrRun => OcrKnows(e, status, recognised)

RunsOK == DOMAIN run = Worker /\ \A w \in Worker : RunOK(run[w], doc.status, ocrRows)

HookOK(step, status) ==
  /\ step \in {"none", "read", "mark", "delete", "flag"}
  /\ step # "none" => Past(status)
  /\ step \in {"delete", "flag"} => Over(status)

HooksOK == DOMAIN hook = Worker /\ \A w \in Worker : HookOK(hook[w], doc.status)

\* A confirmation has found the document; one that marks it, its PDF.
ConfirmOK(e, status, there, form) ==
  /\ e \in [step : {"free", "list", "assemble", "inspect", "discard", "mark", "schedule"}]
  /\ e.step # "free" => status # "none"
  /\ e.step = "discard" => form = "not_pdf"
  /\ e.step = "mark" => form # "not_pdf" /\ (status = "awaiting_upload" => there)
  /\ e.step = "schedule" => Past(status)

ConfirmsOK == DOMAIN confirm = Confirmer /\ \A c \in Confirmer : ConfirmOK(confirm[c], doc.status, source, file)

EditRow == [step : {"sum", "write"}, page : Page, chars : Chars, total : Nat]
Corrections == {e \in Editor : edit[e] # Free}
EditsOK ==
  /\ DOMAIN edit = Editor
  /\ \A e \in Editor : edit[e] = Free \/ (edit[e] \in EditRow /\ doc.status = "text_ready")
  /\ IsFiniteSet(Corrections)
  /\ doc.revision + Cardinality(Corrections) <= MaxRevision

JobsOK ==
  /\ \A j \in DOMAIN jobs : j \in Job /\ jobs[j] \in JobRow
  /\ DOMAIN jobs # {} => Past(doc.status)

\* A file that is purged or left to the outbox is of a document without row.
FilesOK ==
  /\ purge \in {"idle", "row", "abort", "file"}
  /\ purge \in {"abort", "file"} => doc.status = "deleted"
  /\ outbox \in {"none", "pending", "deleted"}
  /\ outbox # "none" => doc.status = "deleted"
  /\ upload \in {"none", "signed", "expired", "open", "sent", "closed"}

\* Only a PDF is extracted, and it is kept until its extraction is over.
SourceOK == doc.status \in Extractable => source /\ file # "not_pdf"

\* The pages of a text are there once it is ready, those of a scan until then.
RowsOK ==
  /\ doc \in DocRow
  /\ IF doc.status = "text_ready" THEN pages \in [Page -> Nat] /\ doc.revision > 0
                                  ELSE DOMAIN pages = {} /\ pages = <<>>
  /\ ocrRows \subseteq Page
  /\ ~Present => ocrRows = {}

IInv ==
  /\ RowsOK /\ SourceOK /\ FilesOK /\ JobsOK /\ RunsOK /\ HooksOK /\ ConfirmsOK /\ EditsOK

-----------------------------------------------------------------------------
(* What a step does to the rows of the document and to its source file.      *)

SourceLeft ==
  /\ ~source'
  /\ doc.status \notin Extractable
  /\ doc.status = "awaiting_upload" => file = "not_pdf"

FileMoved == UNCHANGED <<doc, pages, ocrRows>> /\ (source' = source \/ source' = TRUE \/ SourceLeft)

Requested == doc.status = "none" /\ doc' = NoRow("awaiting_upload") /\ UNCHANGED <<pages, ocrRows>>
Uploaded ==
  /\ doc.status = "awaiting_upload" /\ source /\ file # "not_pdf"
  /\ doc' = [doc EXCEPT !.status = "uploaded"]
  /\ UNCHANGED <<pages, ocrRows>>
Extracting ==
  /\ doc.status \in Extractable
  /\ doc' = [doc EXCEPT !.status = "extracting"]
  /\ UNCHANGED <<pages, ocrRows>>
Failed ==
  /\ Past(doc.status)
  /\ doc' = Move(Extractable, "extraction_failed")
  /\ ocrRows' = {} /\ UNCHANGED pages
OcrStarted ==
  /\ doc.status = "extracting"
  /\ doc' = [doc EXCEPT !.method = "ocr"]
  /\ UNCHANGED <<pages, ocrRows>>
Completed ==
  /\ doc.status = "extracting"
  /\ \E method \in {"native", "ocr"}, count \in Nat :
       doc' = [doc EXCEPT !.status = "text_ready", !.method = method, !.charCount = count, !.revision = 1]
  /\ pages' = [p \in Page |-> 1]
  /\ ocrRows' = {}
Recognised ==
  /\ Present
  /\ \E batch \in SUBSET Page : ocrRows' = ocrRows \cup batch
  /\ UNCHANGED <<doc, pages>>
Flagged == doc' = [doc EXCEPT !.sourceDeleted = TRUE] /\ UNCHANGED <<pages, ocrRows>>
Deleted == Present /\ DeleteRow
Corrected ==
  /\ doc.status = "text_ready"
  /\ pages' \in [Page -> Nat]
  /\ \E total \in Nat : doc' = [doc EXCEPT !.charCount = total, !.revision = @ + 1]
  /\ UNCHANGED ocrRows

Progress ==
  \/ Requested \/ Uploaded \/ Extracting \/ Failed \/ OcrStarted \/ Completed \/ Recognised
  \/ Flagged

\* All steps but those that delete the document or correct its text.
QuietStep == UNCHANGED file /\ (FileMoved \/ (Progress /\ UNCHANGED source))
DocStep == QuietStep \/ (UNCHANGED <<file, source>> /\ (Deleted \/ Corrected))

-----------------------------------------------------------------------------
(* Each action has one of these effects.                                     *)

LEMMA Bounds ==
  /\ PageCount \in Nat /\ PageCount > 0 /\ 1 \in Page /\ Page \subseteq Nat
  /\ IsFiniteSet(Page) /\ Cardinality(Page) = PageCount
  /\ Chars \subseteq Nat /\ MaxRevision \in Nat /\ MaxRevision > 0 /\ MaxFaults \in Nat
<1>1. PageCount \in Nat /\ PageCount > 0 /\ MaxRevision \in Nat /\ MaxRevision > 0
  BY DocumentAssumption
<1>2. Chars \subseteq Nat /\ MaxFaults \in Nat
  BY DocumentAssumption
<1>3. IsFiniteSet(Page) /\ Cardinality(Page) = PageCount
  <2>1. IsFiniteSet(1 .. PageCount) /\ Cardinality(1 .. PageCount) = IF 1 > PageCount THEN 0 ELSE PageCount - 1 + 1
    BY <1>1, FS_Interval
  <2> QED
    BY <1>1, <2>1 DEF Page
<1>4. 1 \in Page /\ Page \subseteq Nat
  BY <1>1 DEF Page
<1> QED
  BY <1>1, <1>2, <1>3, <1>4

\* A run in progress, and what it knows of the document.
LEMMA RunAt ==
  ASSUME IInv, NEW w \in Worker, run[w] # Free
  PROVE  /\ run[w] \in ExtractRun \cup OcrRun
         /\ Past(doc.status)
         /\ run[w].step # "mark" => Begun(doc.status)
         /\ run[w].step \in {"delete", "flag"} => Over(doc.status)
         /\ run[w].job.kind = "extract" => run[w] \in ExtractRun /\ run[w].job = Extract
         /\ run[w].job.kind = "ocr" => run[w] \in OcrRun /\ OcrKnows(run[w], doc.status, ocrRows)
<1>1. RunOK(run[w], doc.status, ocrRows)
  BY DEF IInv, RunsOK
<1>2. run[w] \in ExtractRun => run[w].job.kind = "extract" /\ run[w].job = Extract
  BY DEF ExtractRun, Extract
<1>3. run[w] \in OcrRun => run[w].job.kind = "ocr"
  BY DEF OcrRun, OcrJob
<1> QED
  BY <1>1, <1>2, <1>3 DEF RunOK

LEMMA NotFree ==
  ASSUME NEW w, NEW step, run[w].step = step, step # "free"
  PROVE  run[w] # Free
BY DEF Free

LEMMA RunStepEffect ==
  ASSUME IInv, NEW w \in Worker, RunStep(w)
  PROVE  QuietStep
<1>1. CASE \/ GetSource(w) \/ OcrRefused(w) \/ ListOcrPageNumbers(w) \/ GetScan(w) \/ ListOcrPages(w)
           \/ ScheduleOcrBatch(w)
  BY <1>1 DEF GetSource, OcrRefused, ListOcrPageNumbers, GetScan, ListOcrPages, ScheduleOcrBatch,
              QuietStep, FileMoved, rows, uploads
<1>2. CASE MarkExtracting(w)
  <2>1. UNCHANGED <<pages, ocrRows, file, source>> /\ doc' = Move(Extractable, "extracting")
    BY <1>2 DEF MarkExtracting, uploads
  <2> QED
    BY <2>1 DEF Move, QuietStep, FileMoved, Progress, Extracting
<1>3. CASE StartOcr(w)
  <2>1. /\ UNCHANGED <<pages, ocrRows, file, source>>
        /\ doc' = IF doc.status = "extracting" /\ doc.method = "none"
                  THEN [doc EXCEPT !.method = "ocr"] ELSE doc
    BY <1>3 DEF StartOcr, uploads
  <2> QED
    BY <2>1 DEF QuietStep, FileMoved, Progress, OcrStarted
<1>4. CASE CompleteNative(w)
  <2>1. CompleteExtraction(PageCount, "native") /\ UNCHANGED <<file, source>>
    BY <1>4 DEF CompleteNative, uploads
  <2>2. CASE doc.status = "extracting"
    <3>1. Completed
      BY <2>1, <2>2, Bounds DEF CompleteExtraction, Completed, Page
    <3> QED
      BY <2>1, <3>1 DEF QuietStep, Progress
  <2>3. CASE doc.status # "extracting"
    BY <2>1, <2>3 DEF CompleteExtraction, QuietStep, FileMoved, rows
  <2> QED
    BY <2>2, <2>3
<1>5. CASE SaveOcrPages(w)
  <2>1. Batch(run[w].job.from) \subseteq Page
    BY DEF Batch
  <2> QED
    BY <1>5, <2>1 DEF SaveOcrPages, QuietStep, Progress, Recognised, uploads
<1>6. CASE CompleteOcr(w)
  <2>1. CompleteExtraction(Cardinality(run[w].read), "ocr") /\ UNCHANGED <<file, source>>
    BY <1>6 DEF CompleteOcr, uploads
  <2>2. CASE doc.status = "extracting"
    <3>1. run[w] # Free /\ run[w].job.kind = "ocr" /\ run[w].step = "complete"
      BY <1>6, NotFree DEF CompleteOcr, At
    <3>2. run[w].read = Page
      BY <2>2, <3>1, RunAt DEF OcrKnows
    <3>3. CompleteExtraction(PageCount, "ocr")
      BY <2>1, <3>2, Bounds
    <3>4. Completed
      BY <2>2, <3>3, Bounds DEF CompleteExtraction, Completed, Page
    <3> QED
      BY <2>1, <3>4 DEF QuietStep, Progress
  <2>3. CASE doc.status # "extracting"
    BY <2>1, <2>3 DEF CompleteExtraction, QuietStep, FileMoved, rows
  <2> QED
    BY <2>2, <2>3
<1>7. CASE FailExtraction(w)
  <2>1. Past(doc.status)
    BY <1>7, NotFree, RunAt DEF FailExtraction
  <2> QED
    BY <1>7, <2>1 DEF FailExtraction, MarkExtractionFailed, QuietStep, Progress, Failed, uploads
<1>8. CASE DeleteSource(w)
  <2>1. Over(doc.status)
    BY <1>8, NotFree, RunAt DEF DeleteSource
  <2>2. UNCHANGED <<doc, pages, ocrRows, file>> /\ ~source'
    BY <1>8 DEF DeleteSource, rows
  <2> QED
    BY <2>1, <2>2 DEF Over, Extractable, QuietStep, FileMoved, SourceLeft
<1>9. CASE RecordSourceDeleted(w)
  BY <1>9 DEF RecordSourceDeleted, MarkSourceDeleted, QuietStep, FileMoved, Progress, Flagged, uploads
<1> QED
  BY <1>1, <1>2, <1>3, <1>4, <1>5, <1>6, <1>7, <1>8, <1>9 DEF RunStep

LEMMA ConfirmEffect ==
  ASSUME IInv, NEW c \in Confirmer, ConfirmStep(c)
  PROVE  QuietStep
<1>0. ConfirmOK(confirm[c], doc.status, source, file)
  BY DEF IInv, ConfirmsOK
<1>1. CASE \/ BeginConfirmation(c) \/ ListParts(c) \/ FileIsMissing(c) \/ InspectFile(c)
           \/ ScheduleExtraction(c) \/ ExtractionNotScheduled(c)
  BY <1>1 DEF BeginConfirmation, ListParts, FileIsMissing, InspectFile, ScheduleExtraction,
              ExtractionNotScheduled, QuietStep, FileMoved, rows, uploads
<1>2. CASE CompleteMultipartUpload(c)
  BY <1>2 DEF CompleteMultipartUpload, QuietStep, FileMoved, rows
<1>3. CASE DiscardFile(c)
  <2>1. file = "not_pdf"
    BY <1>0, <1>3 DEF DiscardFile, Confirming, ConfirmOK
  <2>2. doc.status \notin Extractable
    BY <2>1 DEF IInv, SourceOK
  <2> QED
    BY <1>3, <2>1, <2>2 DEF DiscardFile, QuietStep, FileMoved, SourceLeft, rows
<1>4. CASE MarkUploaded(c)
  <2>1. file # "not_pdf" /\ (doc.status = "awaiting_upload" => source)
    BY <1>0, <1>4 DEF MarkUploaded, Confirming, ConfirmOK
  <2>2. doc' = Move(Confirmable, "uploaded") /\ UNCHANGED <<pages, ocrRows, file, source>>
    BY <1>4 DEF MarkUploaded, uploads
  <2> QED
    BY <2>1, <2>2 DEF Move, Confirmable, QuietStep, FileMoved, Progress, Uploaded
<1> QED
  BY <1>1, <1>2, <1>3, <1>4 DEF ConfirmStep

LEMMA HookEffect ==
  ASSUME IInv, NEW w \in Worker, HookStep(w)
  PROVE  QuietStep
<1>0. HookOK(hook[w], doc.status)
  BY DEF IInv, HooksOK
<1>1. CASE OnFinalFailure(w)
  BY <1>1 DEF OnFinalFailure, QuietStep, FileMoved, rows, uploads
<1>2. CASE MarkFinalFailure(w)
  <2>1. Past(doc.status)
    BY <1>0, <1>2 DEF MarkFinalFailure, Hook, HookOK
  <2> QED
    BY <1>2, <2>1 DEF MarkFinalFailure, MarkExtractionFailed, QuietStep, Progress, Failed, uploads
<1>3. CASE DeleteFailedSource(w)
  <2>1. Over(doc.status)
    BY <1>0, <1>3 DEF DeleteFailedSource, Hook, HookOK
  <2> QED
    BY <1>3, <2>1 DEF DeleteFailedSource, Over, Extractable, QuietStep, FileMoved, SourceLeft, rows
<1>4. CASE RecordFailedSource(w)
  BY <1>4 DEF RecordFailedSource, MarkSourceDeleted, QuietStep, FileMoved, Progress, Flagged, uploads
<1> QED
  BY <1>1, <1>2, <1>3, <1>4 DEF HookStep

LEMMA PurgeEffect ==
  ASSUME IInv, PurgeStep \/ DeleteDocument \/ DeletePendingFile \/ RemovePendingRow
  PROVE  DocStep
<1>1. CASE FindAbandonedUpload \/ AbortMultipartUpload \/ PurgeFails \/ RemovePendingRow
  BY <1>1 DEF FindAbandonedUpload, AbortMultipartUpload, PurgeFails, RemovePendingRow,
              DocStep, QuietStep, FileMoved, rows, uploads
<1>2. CASE PurgeRow
  <2>1. CASE Purgeable
    BY <1>2, <2>1 DEF PurgeRow, Purgeable, Present, Statuses, DocStep, Deleted, uploads
  <2>2. CASE ~Purgeable
    BY <1>2, <2>2 DEF PurgeRow, DocStep, QuietStep, FileMoved, uploads
  <2> QED
    BY <2>1, <2>2
<1>3. CASE PurgeFile \/ DeletePendingFile
  <2>1. doc.status = "deleted"
    BY <1>3 DEF PurgeFile, DeletePendingFile, IInv, FilesOK
  <2> QED
    BY <1>3, <2>1 DEF PurgeFile, DeletePendingFile, Extractable, DocStep, QuietStep, FileMoved, SourceLeft, rows
<1>4. CASE DeleteDocument
  BY <1>4 DEF DeleteDocument, DocStep, Deleted, uploads
<1> QED
  BY <1>1, <1>2, <1>3, <1>4 DEF PurgeStep

\* The characters of the pages are summed over the pages there are.
LEMMA TotalType ==
  ASSUME NEW sizes \in [Page -> Nat]
  PROVE  Total(sizes) \in Nat
<1>1. DOMAIN sizes = Page /\ \A p \in Page : sizes[p] \in Nat
  OBVIOUS
<1>2. SumFunctionOnSet(sizes, Page) \in Nat
  BY <1>1, Bounds, SumType
<1> QED
  BY <1>1, <1>2 DEF Total

LEMMA CorrectionEffect ==
  ASSUME IInv, NEW e \in Editor, CommitCorrection(e)
  PROVE  DocStep /\ Corrected
<1>1. edit[e] \in EditRow /\ doc.status = "text_ready"
  BY DEF CommitCorrection, Editing, IInv, EditsOK, Free
<1>2. pages \in [Page -> Nat]
  BY <1>1 DEF IInv, RowsOK
<1>3. edit[e].total \in Nat /\ edit[e].chars \in Nat
  BY <1>1, Bounds DEF EditRow
<1>4. pages' \in [Page -> Nat]
  BY <1>2, <1>3 DEF CommitCorrection
<1>5. Corrected
  BY <1>1, <1>3, <1>4 DEF CommitCorrection, Corrected
<1> QED
  BY <1>5 DEF CommitCorrection, DocStep, uploads

LEMMA EveryDocStep ==
  ASSUME IInv, [Next]_vars
  PROVE  DocStep
<1>1. CASE RequestDocumentUpload
  BY <1>1 DEF RequestDocumentUpload, DocStep, QuietStep, Progress, Requested
<1>2. CASE ClientPuts \/ UrlExpires \/ ClientPutsParts
  BY <1>2 DEF ClientPuts, UrlExpires, ClientPutsParts, DocStep, QuietStep, FileMoved, rows
<1>3. CASE \E w \in Worker : BeginRun(w) \/ AttemptFails(w) \/ OcrBatchNotScheduled(w)
  BY <1>3 DEF BeginRun, BeginExtraction, BeginOcr, AttemptFails, OcrBatchNotScheduled,
              DocStep, QuietStep, FileMoved, rows, uploads
<1>4. CASE \/ \E w \in Worker : FinalFailureSwallowed(w)
           \/ \E j \in DOMAIN jobs : Redeliver(j)
           \/ SweepUploads \/ (\E key \in SweepKey : SweepOcr(key))
           \/ Restart
  BY <1>4 DEF FinalFailureSwallowed, Redeliver, SweepUploads, SweepOcr, Restart,
              DocStep, QuietStep, FileMoved, rows, uploads
<1>5. CASE \/ \E e \in Editor : SumPages(e)
           \/ \E e \in Editor, p \in Page, chars \in Chars : EditPage(e, p, chars)
  BY <1>5 DEF SumPages, EditPage, DocStep, QuietStep, FileMoved, rows, uploads
<1>6. CASE UNCHANGED vars
  BY <1>6 DEF vars, DocStep, QuietStep, FileMoved, rows, uploads
<1> QED
  BY <1>1, <1>2, <1>3, <1>4, <1>5, <1>6, ConfirmEffect, PurgeEffect, RunStepEffect, HookEffect,
     CorrectionEffect DEF Next, DocStep

-----------------------------------------------------------------------------
(* The document after a step, and what it keeps of the one before.           *)

\* A status is not taken back, and what a deleted document was is not either.
StatusGoes ==
  /\ GoesTo(doc.status, doc.status')
  /\ doc.status = "deleted" => doc.status' = "deleted"

DocGrows ==
  /\ StatusGoes
  /\ doc.status = "extracting" /\ doc.status' = "extracting" => ocrRows \subseteq ocrRows'
  /\ doc.status = "awaiting_upload" /\ doc.status' = "awaiting_upload" /\ source /\ file # "not_pdf" => source'
  /\ UNCHANGED file

LEMMA FileMovedKeeps ==
  ASSUME IInv, FileMoved, UNCHANGED file
  PROVE  RowsOK' /\ SourceOK' /\ DocGrows
<1>1. doc' = doc /\ pages' = pages /\ ocrRows' = ocrRows
  BY DEF FileMoved
<1>2. RowsOK'
  BY <1>1 DEF IInv, RowsOK, Present
<1>3. SourceOK'
  BY <1>1 DEF IInv, SourceOK, FileMoved, SourceLeft
<1>4. DocGrows
  BY <1>1 DEF DocGrows, StatusGoes, GoesTo, FileMoved, SourceLeft
<1> QED
  BY <1>2, <1>3, <1>4

LEMMA EmptyPages == \A f : [p \in {} |-> f[p]] = <<>>
<1> SUFFICES ASSUME NEW f PROVE [p \in {} |-> f[p]] = <<>>
  OBVIOUS
<1> QED
  BY SMT

LEMMA StatusMoves ==
  ASSUME IInv, Requested \/ Uploaded \/ Extracting, UNCHANGED <<file, source>>
  PROVE  RowsOK' /\ SourceOK' /\ DocGrows
<1>1. /\ doc \in DocRow /\ doc.status # "text_ready" /\ DOMAIN pages = {} /\ pages = <<>>
      /\ pages' = pages /\ ocrRows' = ocrRows /\ ocrRows \subseteq Page
  BY DEF IInv, RowsOK, Requested, Uploaded, Extracting, Extractable
<1>2. CASE Requested
  <2>1. doc' \in DocRow /\ doc'.status = "awaiting_upload" /\ doc.status = "none"
    BY <1>2 DEF Requested, NoRow, DocRow, Statuses
  <2>2. RowsOK'
    BY <1>1, <2>1 DEF IInv, RowsOK, Present, Statuses
  <2>3. SourceOK' /\ DocGrows
    BY <2>1 DEF SourceOK, Extractable, DocGrows, StatusGoes, GoesTo
  <2> QED
    BY <2>2, <2>3
<1>3. CASE Uploaded
  <2>1. doc' \in DocRow /\ doc'.status = "uploaded" /\ doc.status = "awaiting_upload"
    BY <1>1, <1>3 DEF Uploaded, DocRow, Statuses
  <2>2. RowsOK'
    BY <1>1, <2>1 DEF IInv, RowsOK, Present, Statuses
  <2>3. SourceOK' /\ DocGrows
    BY <1>3, <2>1 DEF Uploaded, SourceOK, DocGrows, StatusGoes, GoesTo
  <2> QED
    BY <2>2, <2>3
<1>4. CASE Extracting
  <2>1. doc' \in DocRow /\ doc'.status = "extracting" /\ doc.status \in Extractable
    BY <1>1, <1>4 DEF Extracting, DocRow, Statuses
  <2>2. RowsOK'
    BY <1>1, <2>1 DEF IInv, RowsOK, Present, Statuses
  <2>3. SourceOK' /\ DocGrows
    BY <1>1, <2>1 DEF IInv, SourceOK, Extractable, DocGrows, StatusGoes, GoesTo
  <2> QED
    BY <2>2, <2>3
<1> QED
  BY <1>2, <1>3, <1>4

LEMMA ExtractionMoves ==
  ASSUME IInv, Failed \/ OcrStarted \/ Completed \/ Recognised \/ Flagged, UNCHANGED <<file, source>>
  PROVE  RowsOK' /\ SourceOK' /\ DocGrows
<1>0. /\ doc \in DocRow /\ ocrRows \subseteq Page
      /\ IF doc.status = "text_ready" THEN pages \in [Page -> Nat] /\ doc.revision > 0
                                      ELSE DOMAIN pages = {} /\ pages = <<>>
      /\ ~Present => ocrRows = {}
      /\ doc.status \in Extractable => source /\ file # "not_pdf"
  BY DEF IInv, RowsOK, SourceOK
<1>1. CASE Failed
  <2>1. CASE doc.status \in Extractable
    <3>1. doc' = [doc EXCEPT !.status = "extraction_failed"] /\ pages' = pages /\ ocrRows' = {}
      BY <1>1, <2>1 DEF Failed, Move
    <3>2. doc' \in DocRow /\ doc'.status = "extraction_failed"
      BY <1>0, <3>1 DEF DocRow, Statuses
    <3>3. RowsOK'
      BY <1>0, <2>1, <3>1, <3>2 DEF RowsOK, Extractable
    <3>4. SourceOK' /\ DocGrows
      BY <2>1, <3>2 DEF SourceOK, Extractable, DocGrows, StatusGoes, GoesTo
    <3> QED
      BY <3>3, <3>4
  <2>2. CASE doc.status \notin Extractable
    <3>1. doc' = doc /\ pages' = pages /\ ocrRows' = {}
      BY <1>1, <2>2 DEF Failed, Move
    <3>2. RowsOK'
      BY <1>0, <3>1 DEF RowsOK
    <3>3. SourceOK' /\ DocGrows
      BY <2>2, <3>1 DEF SourceOK, DocGrows, StatusGoes, GoesTo, Extractable
    <3> QED
      BY <3>2, <3>3
  <2> QED
    BY <2>1, <2>2
<1>2. CASE OcrStarted
  <2>1. doc' = [doc EXCEPT !.method = "ocr"] /\ pages' = pages /\ ocrRows' = ocrRows /\ doc.status = "extracting"
    BY <1>2 DEF OcrStarted
  <2>2. doc' \in DocRow /\ doc'.status = doc.status
    BY <1>0, <2>1 DEF DocRow
  <2>3. RowsOK'
    BY <1>0, <2>1, <2>2 DEF RowsOK, Present
  <2>4. SourceOK' /\ DocGrows
    BY <1>0, <2>1, <2>2 DEF SourceOK, DocGrows, StatusGoes, GoesTo
  <2> QED
    BY <2>3, <2>4
<1>3. CASE Completed
  <2>1. PICK method \in {"native", "ocr"}, count \in Nat :
          doc' = [doc EXCEPT !.status = "text_ready", !.method = method, !.charCount = count, !.revision = 1]
    BY <1>3 DEF Completed
  <2>2. doc' \in DocRow /\ doc'.status = "text_ready" /\ doc'.revision = 1
    BY <1>0, <2>1 DEF DocRow, Statuses
  <2>3. pages' \in [Page -> Nat] /\ ocrRows' = {} /\ doc.status = "extracting"
    BY <1>3 DEF Completed
  <2>4. RowsOK'
    BY <2>2, <2>3 DEF RowsOK
  <2>5. SourceOK' /\ DocGrows
    BY <2>2, <2>3 DEF SourceOK, Extractable, DocGrows, StatusGoes, GoesTo
  <2> QED
    BY <2>4, <2>5
<1>4. CASE Recognised
  <2>1. PICK batch \in SUBSET Page : ocrRows' = ocrRows \cup batch
    BY <1>4 DEF Recognised
  <2>2. doc' = doc /\ pages' = pages /\ Present
    BY <1>4 DEF Recognised
  <2>3. RowsOK'
    BY <1>0, <2>1, <2>2 DEF RowsOK, Present
  <2>4. SourceOK' /\ DocGrows
    BY <1>0, <2>1, <2>2 DEF SourceOK, DocGrows, StatusGoes, GoesTo
  <2> QED
    BY <2>3, <2>4
<1>5. CASE Flagged
  <2>1. doc' = [doc EXCEPT !.sourceDeleted = TRUE] /\ pages' = pages /\ ocrRows' = ocrRows
    BY <1>5 DEF Flagged
  <2>2. doc' \in DocRow /\ doc'.status = doc.status /\ doc'.revision = doc.revision
    BY <1>0, <2>1 DEF DocRow
  <2>3. RowsOK'
    BY <1>0, <2>1, <2>2 DEF RowsOK, Present
  <2>4. SourceOK' /\ DocGrows
    BY <1>0, <2>1, <2>2 DEF SourceOK, DocGrows, StatusGoes, GoesTo
  <2> QED
    BY <2>3, <2>4
<1> QED
  BY <1>1, <1>2, <1>3, <1>4, <1>5

LEMMA TextMoves ==
  ASSUME IInv, Deleted \/ Corrected, UNCHANGED <<file, source>>
  PROVE  RowsOK' /\ SourceOK' /\ DocGrows
<1>1. CASE Deleted
  <2>1. doc' = NoRow("deleted") /\ ocrRows' = {} /\ pages' = [p \in {} |-> pages[p]] /\ Present
    <3>1. \A S : Cascade(S) = {}
      BY DEF Cascade
    <3> QED
      BY <1>1, <3>1 DEF Deleted, DeleteRow
  <2>2. doc' \in DocRow /\ doc'.status = "deleted"
    BY <2>1 DEF NoRow, DocRow
  <2>3. DOMAIN pages' = {} /\ pages' = <<>>
    BY <2>1, EmptyPages
  <2>4. RowsOK'
    BY <2>1, <2>2, <2>3 DEF RowsOK
  <2>5. SourceOK' /\ DocGrows
    BY <2>1, <2>2 DEF SourceOK, Extractable, DocGrows, StatusGoes, GoesTo
  <2> QED
    BY <2>4, <2>5
<1>2. CASE Corrected
  <2>1. PICK total \in Nat : doc' = [doc EXCEPT !.charCount = total, !.revision = @ + 1]
    BY <1>2 DEF Corrected
  <2>2. doc \in DocRow /\ doc.status = "text_ready" /\ pages' \in [Page -> Nat] /\ ocrRows' = ocrRows
    BY <1>2 DEF Corrected, IInv, RowsOK
  <2>3. doc' \in DocRow /\ doc'.status = "text_ready" /\ doc'.revision > 0
    <3>1. doc.revision \in Nat /\ doc.revision + 1 \in Nat /\ doc.revision + 1 > 0
      BY <2>2 DEF DocRow
    <3> DEFINE next == doc.revision + 1
    <3>2. next \in Nat /\ next > 0 /\ doc' = [doc EXCEPT !.charCount = total, !.revision = next]
      BY <2>1, <3>1
    <3> HIDE DEF next
    <3> QED
      BY <2>1, <2>2, <3>2 DEF DocRow
  <2>4. RowsOK'
    BY <2>2, <2>3 DEF IInv, RowsOK, Present, Statuses
  <2>5. SourceOK' /\ DocGrows
    BY <2>2, <2>3 DEF SourceOK, Extractable, DocGrows, StatusGoes, GoesTo
  <2> QED
    BY <2>4, <2>5
<1> QED
  BY <1>1, <1>2

LEMMA EveryStepKeeps ==
  ASSUME IInv, [Next]_vars
  PROVE  RowsOK' /\ SourceOK' /\ DocGrows
BY EveryDocStep, FileMovedKeeps, StatusMoves, ExtractionMoves, TextMoves DEF DocStep, QuietStep, Progress

\* What a status has passed it keeps.
LEMMA StatusKept ==
  ASSUME DocGrows
  PROVE  /\ Past(doc.status) => Past(doc.status')
         /\ Begun(doc.status) => Begun(doc.status')
         /\ Over(doc.status) => Over(doc.status')
         /\ Begun(doc.status) /\ doc.status' = "extracting" => doc.status = "extracting"
         /\ doc.status # "none" => doc.status' # "none"
         /\ doc.status # "none" /\ doc.status' = "awaiting_upload" => doc.status = "awaiting_upload"
BY DEF DocGrows, StatusGoes, GoesTo, Past, Begun, Over

LEMMA RunKept ==
  ASSUME DocGrows, NEW e, RunOK(e, doc.status, ocrRows), ocrRows' \subseteq Page
  PROVE  RunOK(e, doc.status', ocrRows')
<1>1. CASE e = Free
  BY <1>1 DEF RunOK
<1>2. CASE e # Free
  <2>1. /\ e \in ExtractRun \cup OcrRun /\ Past(doc.status)
        /\ e.step # "mark" => Begun(doc.status)
        /\ e.step \in {"delete", "flag"} => Over(doc.status)
        /\ e \in OcrRun => OcrKnows(e, doc.status, ocrRows) /\ e.step # "mark"
    BY <1>2 DEF RunOK, OcrRun
  <2>2. ASSUME e \in OcrRun PROVE OcrKnows(e, doc.status', ocrRows')
    <3>1. Begun(doc.status) /\ OcrKnows(e, doc.status, ocrRows)
      BY <2>1, <2>2
    <3>2. doc.status' = "extracting" => doc.status = "extracting" /\ ocrRows \subseteq ocrRows'
      BY <3>1, StatusKept DEF DocGrows
    <3> QED
      BY <3>1, <3>2 DEF OcrKnows
  <2> QED
    BY <2>1, <2>2, StatusKept DEF RunOK
<1> QED
  BY <1>1, <1>2

LEMMA HookKept ==
  ASSUME DocGrows, NEW step, HookOK(step, doc.status)
  PROVE  HookOK(step, doc.status')
BY StatusKept DEF HookOK

LEMMA ConfirmKept ==
  ASSUME DocGrows, NEW e, ConfirmOK(e, doc.status, source, file)
  PROVE  ConfirmOK(e, doc.status', source', file')
BY StatusKept DEF ConfirmOK, DocGrows

\* The purge, the outbox and the upload.
LEMMA EveryFileKept ==
  ASSUME IInv, [Next]_vars, DocGrows
  PROVE  FilesOK'
<1>0. /\ purge \in {"idle", "row", "abort", "file"}
      /\ purge \in {"abort", "file"} => doc.status = "deleted"
      /\ outbox \in {"none", "pending", "deleted"}
      /\ outbox # "none" => doc.status = "deleted"
      /\ upload \in {"none", "signed", "expired", "open", "sent", "closed"}
      /\ doc.status = "deleted" => doc.status' = "deleted"
  BY DEF IInv, FilesOK, DocGrows, StatusGoes
<1>1. CASE UNCHANGED <<purge, outbox, upload>>
  BY <1>0, <1>1 DEF FilesOK
<1>2. CASE RequestDocumentUpload \/ ClientPuts \/ UrlExpires \/ ClientPutsParts
  <2>1. upload' \in {"none", "signed", "expired", "open", "sent", "closed"} /\ UNCHANGED <<purge, outbox>>
    BY <1>0, <1>2 DEF RequestDocumentUpload, ClientPuts, UrlExpires, ClientPutsParts, requests, rows
  <2> QED
    BY <1>0, <2>1 DEF FilesOK
<1>3. ASSUME NEW c \in Confirmer, ConfirmStep(c) PROVE FilesOK'
  <2>1. upload' \in {upload, "closed"} /\ UNCHANGED <<purge, outbox>>
    BY <1>3 DEF ConfirmStep, BeginConfirmation, ListParts, CompleteMultipartUpload, FileIsMissing,
                InspectFile, DiscardFile, MarkUploaded, ScheduleExtraction, ExtractionNotScheduled,
                uploads, rows
  <2> QED
    BY <1>0, <2>1 DEF FilesOK
<1>4. CASE FindAbandonedUpload \/ AbortMultipartUpload \/ PurgeFile \/ PurgeFails
  <2>1. /\ UNCHANGED outbox /\ upload' \in {upload, "closed"}
        /\ purge' \in {"idle", "row"} \/ (purge = "abort" /\ purge' = "file")
    BY <1>4 DEF FindAbandonedUpload, AbortMultipartUpload, PurgeFile, PurgeFails, uploads, rows
  <2> QED
    BY <1>0, <2>1 DEF FilesOK
<1>5. CASE PurgeRow
  <2>1. /\ UNCHANGED <<outbox, upload>>
        /\ purge' = "idle" \/ (purge' = "abort" /\ doc' = NoRow("deleted"))
    BY <1>5 DEF PurgeRow, DeleteRow, uploads
  <2>2. NoRow("deleted").status = "deleted"
    BY DEF NoRow
  <2> QED
    BY <1>0, <2>1, <2>2 DEF FilesOK
<1>6. CASE DeleteDocument
  <2>1. outbox' \in {outbox, "pending"} /\ UNCHANGED <<purge, upload>> /\ doc' = NoRow("deleted")
    BY <1>6 DEF DeleteDocument, DeleteRow, uploads
  <2>2. NoRow("deleted").status = "deleted"
    BY DEF NoRow
  <2> QED
    BY <1>0, <2>1, <2>2 DEF FilesOK
<1>7. CASE DeletePendingFile \/ RemovePendingRow
  <2>1. outbox # "none" /\ outbox' \in {"none", "pending", "deleted"} /\ UNCHANGED <<purge, upload>>
    BY <1>7 DEF DeletePendingFile, RemovePendingRow, uploads, requests
  <2> QED
    BY <1>0, <2>1 DEF FilesOK
<1>8. CASE Restart
  <2>1. purge' = "idle" /\ UNCHANGED <<outbox, upload>>
    BY <1>8 DEF Restart, uploads, rows
  <2> QED
    BY <1>0, <2>1 DEF FilesOK
<1>9. ASSUME NEW w \in Worker, BeginRun(w) \/ AttemptFails(w) \/ OcrBatchNotScheduled(w)
      PROVE  FilesOK'
  BY <1>1, <1>9 DEF BeginRun, BeginExtraction, BeginOcr, AttemptFails, OcrBatchNotScheduled,
                    rows, uploads, others, requests
<1>10. ASSUME NEW w \in Worker, RunStep(w) PROVE FilesOK'
  BY <1>1, <1>10 DEF RunStep, MarkExtracting, GetSource, OcrRefused, StartOcr, CompleteNative,
       ListOcrPageNumbers, GetScan, SaveOcrPages, ListOcrPages, CompleteOcr, ScheduleOcrBatch,
       FailExtraction, DeleteSource, RecordSourceDeleted, CompleteExtraction, MarkExtractionFailed,
       rows, uploads, others, requests
<1>11. ASSUME NEW w \in Worker, HookStep(w) \/ FinalFailureSwallowed(w) PROVE FilesOK'
  BY <1>1, <1>11 DEF HookStep, OnFinalFailure, MarkFinalFailure, DeleteFailedSource,
       RecordFailedSource, FinalFailureSwallowed, MarkExtractionFailed, rows, uploads, requests
<1>12. CASE \/ \E j \in DOMAIN jobs : Redeliver(j)
            \/ SweepUploads \/ (\E key \in SweepKey : SweepOcr(key))
  BY <1>1, <1>12 DEF Redeliver, SweepUploads, SweepOcr, rows, uploads, requests
<1>13. CASE \/ \E e \in Editor : SumPages(e) \/ CommitCorrection(e)
            \/ \E e \in Editor, p \in Page, chars \in Chars : EditPage(e, p, chars)
  BY <1>1, <1>13 DEF SumPages, CommitCorrection, EditPage, rows, uploads
<1>14. CASE UNCHANGED vars
  BY <1>1, <1>14 DEF vars, rows, uploads, requests
<1> QED
  BY <1>2, <1>3, <1>4, <1>5, <1>6, <1>7, <1>8, <1>9, <1>10, <1>11, <1>12, <1>13, <1>14 DEF Next, PurgeStep

-----------------------------------------------------------------------------
(* The queues: only a document that was confirmed has jobs.                  *)

JobTable(table) ==
  /\ \A j \in DOMAIN table : j \in Job /\ table[j] \in JobRow
  /\ DOMAIN table # {} => Past(doc.status)

LEMMA TableIsOK ==
  ASSUME DocGrows, JobTable(jobs')
  PROVE  JobsOK'
<1>1. Past(doc.status) => Past(doc.status')
  BY StatusKept
<1> QED
  BY <1>1 DEF JobTable, JobsOK

LEMMA JobsBefore == IInv => JobTable(jobs)
BY DEF IInv, JobsOK, JobTable

LEMMA WaitingIsRow == Waiting \in JobRow
BY DEF Waiting, JobRow, JobStates

LEMMA EnqueueKeeps ==
  ASSUME NEW table, JobTable(table), NEW j \in Job, Past(doc.status), Enqueue(table, {j})
  PROVE  JobTable(jobs')
BY WaitingIsRow DEF JobTable, With, Enqueue

LEMMA SettledKept ==
  ASSUME JobTable(jobs), NEW w
  PROVE  JobTable(Settled(w, "completed"))
<1>1. CASE ~Owns(w)
  BY <1>1 DEF Settled
<1>2. CASE Owns(w)
  <2> DEFINE j == run[w].job
             new == [jobs EXCEPT ![j].state = "completed", ![j].owner = "none"]
  <2>1. Settled(w, "completed") = new
    BY <1>2 DEF Settled
  <2>2. DOMAIN new = DOMAIN jobs /\ \A k \in DOMAIN jobs : jobs[k] \in JobRow
    BY DEF JobTable
  <2>3. \A k \in DOMAIN jobs : new[k] \in JobRow
    BY <2>2 DEF JobRow, JobStates
  <2> HIDE DEF new
  <2> QED
    BY <2>1, <2>2, <2>3 DEF JobTable
<1> QED
  BY <1>1, <1>2

LEMMA GotoKeeps ==
  ASSUME JobTable(jobs), NEW w, NEW next, Goto(w, next)
  PROVE  JobTable(jobs')
BY SettledKept DEF Goto

LEMMA TakeKept ==
  ASSUME JobTable(jobs), NEW w \in Worker, NEW j, NEW first, Take(w, j, first)
  PROVE  JobTable(jobs')
<1>1. \A k \in DOMAIN jobs : jobs[k] \in JobRow
  BY DEF JobTable
<1>2. CASE first = "done"
  <2>1. jobs' = [jobs EXCEPT ![j].state = "completed"]
    BY <1>2 DEF Take
  <2>2. DOMAIN jobs' = DOMAIN jobs /\ \A k \in DOMAIN jobs : jobs'[k] \in JobRow
    BY <1>1, <2>1 DEF JobRow, JobStates
  <2> QED
    BY <2>2 DEF JobTable
<1>3. CASE first # "done"
  <2>1. jobs' = [jobs EXCEPT ![j].state = "active", ![j].owner = w]
    BY <1>3 DEF Take
  <2>2. DOMAIN jobs' = DOMAIN jobs /\ \A k \in DOMAIN jobs : jobs'[k] \in JobRow
    BY <1>1, <2>1 DEF JobRow, JobStates
  <2> QED
    BY <2>2 DEF JobTable
<1> QED
  BY <1>2, <1>3

LEMMA AfterFailureKept ==
  ASSUME JobTable(jobs), NEW w, NEW attempts
  PROVE  JobTable(AfterFailure(w, attempts))
<1>1. CASE ~Owns(w)
  BY <1>1 DEF AfterFailure
<1>2. CASE Owns(w)
  <2> DEFINE j == run[w].job
             row == [state |-> IF IsLastAttempt(w, attempts) THEN "failed" ELSE "waiting",
                     tries |-> jobs[j].tries + 1, owner |-> "none"]
             new == [jobs EXCEPT ![j] = row]
  <2>1. AfterFailure(w, attempts) = new
    BY <1>2 DEF AfterFailure
  <2>2. DOMAIN new = DOMAIN jobs /\ \A k \in DOMAIN jobs : jobs[k] \in JobRow
    BY DEF JobTable
  <2>3. j \in DOMAIN jobs
    BY <1>2 DEF Owns
  <2>4. jobs[j].tries + 1 \in Nat
    BY <2>2, <2>3 DEF JobRow
  <2>5. row \in JobRow
    BY <2>4 DEF JobRow, JobStates
  <2> HIDE DEF row
  <2>6. \A k \in DOMAIN jobs : new[k] \in JobRow
    BY <2>2, <2>5
  <2> HIDE DEF new
  <2> QED
    BY <2>1, <2>2, <2>6 DEF JobTable
<1> QED
  BY <1>1, <1>2

LEMMA GivenAgainKept ==
  ASSUME JobTable(jobs)
  PROVE  JobTable(Released) /\ \A j : JobTable(Again(j))
<1>1. \A k \in DOMAIN jobs : jobs[k] \in JobRow
  BY DEF JobTable
<1>2. DOMAIN Released = DOMAIN jobs /\ \A k \in DOMAIN jobs : Released[k] \in JobRow
  BY <1>1 DEF Released, JobRow, JobStates
<1>3. ASSUME NEW j PROVE JobTable(Again(j))
  <2>1. DOMAIN Again(j) = DOMAIN jobs /\ \A k \in DOMAIN jobs : Again(j)[k] \in JobRow
    BY <1>1 DEF Again, JobRow, JobStates
  <2> QED
    BY <2>1 DEF JobTable
<1> QED
  BY <1>2, <1>3 DEF JobTable

\* The first page that is missing is a page.
LEMMA FirstMissing ==
  ASSUME NEW done, Missing(done) # {}
  PROVE  (CHOOSE p \in Missing(done) : \A q \in Missing(done) : p <= q) \in Page
<1>1. Missing(done) \subseteq Page /\ Page \subseteq Nat
  BY Bounds DEF Missing
<1>2. \E p \in Missing(done) : \A q \in Missing(done) : p <= q
  BY <1>1, LeastNatural
<1> QED
  BY <1>1, <1>2

LEMMA BatchIsJob ==
  ASSUME NEW p \in Page, NEW key \in SweepKey \cup {Once}
  PROVE  OcrBatch(p, key) \in Job /\ Extract \in Job
BY DEF OcrBatch, OcrJob, Job

LEMMA NextBatch ==
  ASSUME IInv, NEW w \in Worker, run[w].step = "schedule"
  PROVE  FirstPage(w) \in Page
<1>1. run[w] # Free
  BY NotFree
<1>2. CASE run[w].job.kind = "extract"
  BY <1>2, Bounds DEF FirstPage
<1>3. CASE run[w].job.kind # "extract"
  <2>1. run[w].job.kind = "ocr"
    BY <1>1, <1>3, RunAt DEF ExtractRun, OcrRun, Extract, OcrJob
  <2>2. run[w].read # Page /\ run[w].read \subseteq Page
    BY <1>1, <2>1, RunAt DEF OcrKnows, OcrRun
  <2>3. Missing(run[w].read) # {}
    BY <2>2 DEF Missing
  <2> QED
    BY <1>3, <2>3, FirstMissing DEF FirstPage
<1> QED
  BY <1>2, <1>3

LEMMA RunStepJobs ==
  ASSUME IInv, NEW w \in Worker, RunStep(w)
  PROVE  JobTable(jobs')
<1>0. JobTable(jobs)
  BY JobsBefore
<1>1. CASE MarkExtracting(w) \/ GetSource(w) \/ StartOcr(w) \/ RecordSourceDeleted(w)
  <2>1. \E next : Goto(w, next)
    BY <1>1 DEF MarkExtracting, GetSource, StartOcr, RecordSourceDeleted
  <2> QED
    BY <1>0, <2>1, GotoKeeps
<1>2. CASE \/ OcrRefused(w) \/ CompleteNative(w) \/ ListOcrPageNumbers(w) \/ GetScan(w)
           \/ SaveOcrPages(w) \/ ListOcrPages(w) \/ CompleteOcr(w) \/ FailExtraction(w) \/ DeleteSource(w)
  <2>1. jobs' = jobs
    BY <1>2 DEF OcrRefused, CompleteNative, ListOcrPageNumbers, GetScan, SaveOcrPages, ListOcrPages,
                CompleteOcr, FailExtraction, DeleteSource
  <2> QED
    BY <1>0, <2>1
<1>3. CASE ScheduleOcrBatch(w)
  <2> DEFINE batch == OcrBatch(FirstPage(w), Once)
  <2>1. run[w].step = "schedule" /\ Enqueue(Settled(w, "completed"), {batch})
    BY <1>3 DEF ScheduleOcrBatch
  <2>2. Past(doc.status)
    BY <2>1, NotFree, RunAt
  <2>3. batch \in Job
    BY <2>1, NextBatch, BatchIsJob
  <2> HIDE DEF batch
  <2>4. JobTable(Settled(w, "completed"))
    BY <1>0, SettledKept
  <2> QED
    BY <2>1, <2>2, <2>3, <2>4, EnqueueKeeps
<1> QED
  BY <1>1, <1>2, <1>3 DEF RunStep

LEMMA SweepJobs ==
  ASSUME IInv, SweepUploads \/ \E key \in SweepKey : SweepOcr(key)
  PROVE  JobTable(jobs')
<1>0. JobTable(jobs)
  BY JobsBefore
<1>1. CASE SweepUploads
  <2>1. Past(doc.status) /\ Enqueue(jobs, {Extract}) /\ Extract \in Job
    BY <1>1 DEF SweepUploads, StalledUpload, Past, Job
  <2> QED
    BY <1>0, <2>1, EnqueueKeeps
<1>2. CASE \E key \in SweepKey : SweepOcr(key)
  <2>1. PICK key \in SweepKey : SweepOcr(key)
    BY <1>2
  <2> DEFINE retry == OcrBatch(SweepFrom, key)
             left == [j \in DOMAIN jobs \ {retry} |-> jobs[j]]
  <2>2. Past(doc.status) /\ Enqueue(left, {retry})
    BY <2>1 DEF SweepOcr, StalledOcr, Past
  <2>3. PageCount \in Page
    BY Bounds DEF Page
  <2>4. SweepFrom \in Page
    BY <2>3, FirstMissing DEF SweepFrom
  <2>5. retry \in Job
    BY <2>4, BatchIsJob
  <2> HIDE DEF retry
  <2>6. JobTable(left)
    BY <1>0, <2>2 DEF JobTable
  <2> HIDE DEF left
  <2> QED
    BY <2>2, <2>5, <2>6, EnqueueKeeps
<1> QED
  BY <1>1, <1>2

LEMMA EveryJobKept ==
  ASSUME IInv, [Next]_vars, DocGrows
  PROVE  JobsOK'
<1>0. JobTable(jobs)
  BY JobsBefore
<1>1. CASE UNCHANGED jobs
  BY <1>0, <1>1, TableIsOK
<1>2. CASE RequestDocumentUpload \/ ClientPuts \/ UrlExpires \/ ClientPutsParts
  BY <1>1, <1>2 DEF RequestDocumentUpload, ClientPuts, UrlExpires, ClientPutsParts
<1>3. ASSUME NEW c \in Confirmer, ConfirmStep(c) PROVE JobsOK'
  <2>1. CASE ScheduleExtraction(c)
    <3>1. Past(doc.status) /\ Enqueue(jobs, {Extract}) /\ Extract \in Job
      BY <2>1 DEF ScheduleExtraction, Confirming, IInv, ConfirmsOK, ConfirmOK, Job
    <3> QED
      BY <1>0, <3>1, EnqueueKeeps, TableIsOK
  <2>2. CASE ~ScheduleExtraction(c)
    BY <1>1, <1>3, <2>2 DEF ConfirmStep, BeginConfirmation, ListParts, CompleteMultipartUpload,
         FileIsMissing, InspectFile, DiscardFile, MarkUploaded, ExtractionNotScheduled
  <2> QED
    BY <2>1, <2>2
<1>4. CASE PurgeStep \/ DeleteDocument \/ DeletePendingFile \/ RemovePendingRow
  BY <1>1, <1>4 DEF PurgeStep, FindAbandonedUpload, PurgeRow, AbortMultipartUpload, PurgeFile,
       PurgeFails, DeleteDocument, DeletePendingFile, RemovePendingRow
<1>5. ASSUME NEW w \in Worker, BeginRun(w) PROVE JobsOK'
  <2>1. \E j, first : Take(w, j, first)
    BY <1>5 DEF BeginRun, BeginExtraction, BeginOcr
  <2> QED
    BY <1>0, <2>1, TakeKept, TableIsOK
<1>6. ASSUME NEW w \in Worker, RunStep(w) PROVE JobsOK'
  BY <1>6, RunStepJobs, TableIsOK
<1>7. ASSUME NEW w \in Worker, AttemptFails(w) PROVE JobsOK'
  <2>1. \E attempts : jobs' = AfterFailure(w, attempts)
    BY <1>7 DEF AttemptFails
  <2>2. JobTable(jobs')
    BY <1>0, <2>1, AfterFailureKept
  <2> QED
    BY <2>2, TableIsOK
<1>8. ASSUME NEW w \in Worker, OcrBatchNotScheduled(w) PROVE JobsOK'
  BY <1>0, <1>8, GotoKeeps, TableIsOK DEF OcrBatchNotScheduled
<1>9. CASE \E w \in Worker : HookStep(w) \/ FinalFailureSwallowed(w)
  BY <1>1, <1>9 DEF HookStep, OnFinalFailure, MarkFinalFailure, DeleteFailedSource,
       RecordFailedSource, FinalFailureSwallowed
<1>10. CASE (\E j \in DOMAIN jobs : Redeliver(j)) \/ Restart
  <2>1. JobTable(jobs')
    BY <1>0, <1>10, GivenAgainKept DEF Redeliver, Restart
  <2> QED
    BY <2>1, TableIsOK
<1>11. CASE SweepUploads \/ (\E key \in SweepKey : SweepOcr(key))
  BY <1>11, SweepJobs, TableIsOK
<1>12. CASE \/ \E e \in Editor : SumPages(e) \/ CommitCorrection(e)
            \/ \E e \in Editor, p \in Page, chars \in Chars : EditPage(e, p, chars)
  BY <1>1, <1>12 DEF SumPages, CommitCorrection, EditPage
<1>13. CASE UNCHANGED vars
  BY <1>1, <1>13 DEF vars
<1> QED
  BY <1>2, <1>3, <1>4, <1>5, <1>6, <1>7, <1>8, <1>9, <1>10, <1>11, <1>12, <1>13 DEF Next

-----------------------------------------------------------------------------
(* The runs of the two queues.                                               *)

LEMMA RunPut ==
  ASSUME IInv, DocGrows, RowsOK', NEW w \in Worker, NEW e, RunOK(e, doc.status', ocrRows'),
         run' = [run EXCEPT ![w] = e]
  PROVE  RunsOK'
<1>1. DOMAIN run = Worker /\ \A v \in Worker : RunOK(run[v], doc.status, ocrRows)
  BY DEF IInv, RunsOK
<1>2. ocrRows' \subseteq Page
  BY DEF RowsOK
<1>3. \A v \in Worker : RunOK(run[v], doc.status', ocrRows')
  BY <1>1, <1>2, RunKept
<1>4. DOMAIN run' = Worker /\ \A v \in Worker : run'[v] = IF v = w THEN e ELSE run[v]
  BY <1>1
<1>5. \A v \in Worker : RunOK(run'[v], doc.status', ocrRows')
  BY <1>3, <1>4
<1> QED
  BY <1>4, <1>5 DEF RunsOK

LEMMA RunsStay ==
  ASSUME IInv, DocGrows, RowsOK', run' = run
  PROVE  RunsOK'
<1>1. DOMAIN run = Worker /\ \A v \in Worker : RunOK(run[v], doc.status, ocrRows)
  BY DEF IInv, RunsOK
<1>2. ocrRows' \subseteq Page
  BY DEF RowsOK
<1>3. \A v \in Worker : RunOK(run[v], doc.status', ocrRows')
  BY <1>1, <1>2, RunKept
<1> QED
  BY <1>1, <1>3 DEF RunsOK

LEMMA RunEnds ==
  ASSUME IInv, DocGrows, RowsOK', NEW w \in Worker, run' = [run EXCEPT ![w] = Free]
  PROVE  RunsOK'
<1>1. RunOK(Free, doc.status', ocrRows')
  BY DEF RunOK
<1> QED
  BY <1>1, RunPut

ExtractSteps == {"mark", "get", "start", "complete", "schedule", "fail", "delete", "flag"}
OcrSteps == {"list", "get", "save", "read", "complete", "schedule", "fail", "delete", "flag"}

LEMMA ExtractStepped ==
  ASSUME NEW e \in ExtractRun, NEW next \in ExtractSteps
  PROVE  [e EXCEPT !.step = next] \in ExtractRun /\ [e EXCEPT !.step = next].step = next
BY DEF ExtractRun, ExtractSteps

LEMMA OcrStepped ==
  ASSUME NEW e \in OcrRun, NEW next \in OcrSteps, NEW listed \in SUBSET Page
  PROVE  /\ [e EXCEPT !.read = listed, !.step = next] \in OcrRun
         /\ [e EXCEPT !.read = listed, !.step = next].step = next
         /\ [e EXCEPT !.read = listed, !.step = next].read = listed
         /\ [e EXCEPT !.step = next] = [e EXCEPT !.read = e.read, !.step = next]
<1>1. e.read \in SUBSET Page
  BY DEF OcrRun
<1> DEFINE r == [e EXCEPT !.read = listed, !.step = next]
<1>2. r \in OcrRun /\ r.step = next /\ r.read = listed
  BY DEF OcrRun, OcrSteps
<1>3. [e EXCEPT !.step = next] = [e EXCEPT !.read = e.read, !.step = next]
  BY <1>1 DEF OcrRun
<1> QED
  BY <1>2, <1>3

\* A run of an extraction goes on, with a document that is far enough.
LEMMA ExtractGoesOn ==
  ASSUME IInv, DocGrows, RowsOK', NEW w \in Worker, run[w] # Free, run[w].job.kind = "extract",
         NEW next \in ExtractSteps, Proceed(w, next),
         next # "mark", Begun(doc.status'),
         next \in {"delete", "flag"} => Over(doc.status')
  PROVE  RunsOK'
<1> DEFINE e == [run[w] EXCEPT !.step = next]
<1>1. run[w] \in ExtractRun
  BY RunAt
<1>2. e \in ExtractRun /\ e.step = next
  BY <1>1, ExtractStepped
<1>3. run' = [run EXCEPT ![w] = e]
  BY DEF Proceed
<1>4. e \notin OcrRun
  BY <1>2 DEF ExtractRun, OcrRun, Extract, OcrJob
<1> HIDE DEF e
<1>5. Past(doc.status')
  BY DEF Past, Begun
<1>6. RunOK(e, doc.status', ocrRows')
  BY <1>2, <1>4, <1>5 DEF RunOK
<1> QED
  BY <1>3, <1>6, RunPut

\* A run of an OCR batch goes on, with what it has listed now.
LEMMA OcrGoesOn ==
  ASSUME IInv, DocGrows, RowsOK', NEW w \in Worker, run[w] # Free, run[w].job.kind = "ocr",
         NEW next \in OcrSteps, NEW listed \in SUBSET Page,
         run' = [run EXCEPT ![w].read = listed, ![w].step = next],
         next \in {"delete", "flag"} => Over(doc.status'),
         doc.status' = "extracting" =>
           /\ next \in {"get", "save"} => listed \subseteq ocrRows'
           /\ next = "read" => ocrRows' = Page
           /\ next = "complete" => listed = Page,
         next = "schedule" => listed # Page
  PROVE  RunsOK'
<1> DEFINE e == [run[w] EXCEPT !.read = listed, !.step = next]
<1>1. run[w] \in OcrRun /\ run[w].step # "mark"
  BY RunAt DEF OcrRun
<1>2. e \in OcrRun /\ e.step = next /\ e.read = listed
  <2>1. run[w] \in OcrRun
    BY <1>1
  <2> QED
    BY <2>1 DEF OcrRun, OcrSteps
<1>3. run' = [run EXCEPT ![w] = e]
  <2>1. w \in DOMAIN run
    BY DEF IInv, RunsOK
  <2> QED
    BY <2>1
<1> HIDE DEF e
<1>4. Past(doc.status') /\ Begun(doc.status')
  BY <1>1, RunAt, StatusKept DEF Past, Begun
<1>5. OcrKnows(e, doc.status', ocrRows')
  BY <1>2 DEF OcrKnows
<1>6. RunOK(e, doc.status', ocrRows')
  BY <1>2, <1>4, <1>5 DEF RunOK
<1> QED
  BY <1>3, <1>6, RunPut

\* The same when it goes on with what it had listed.
LEMMA OcrProceeds ==
  ASSUME IInv, DocGrows, RowsOK', NEW w \in Worker, run[w] # Free, run[w].job.kind = "ocr",
         NEW next \in OcrSteps, Proceed(w, next),
         next \in {"delete", "flag"} => Over(doc.status'),
         next \in {"fail", "delete", "flag"} \/ (next = "save" /\ run[w].step = "get")
  PROVE  RunsOK'
<1> DEFINE listed == run[w].read
<1>1. run[w] \in OcrRun /\ OcrKnows(run[w], doc.status, ocrRows) /\ Begun(doc.status)
  BY RunAt DEF OcrRun
<1>2. listed \in SUBSET Page
  BY <1>1 DEF OcrRun
<1>3. run' = [run EXCEPT ![w] = [run[w] EXCEPT !.step = next]]
  BY DEF Proceed
<1>4. [run[w] EXCEPT !.step = next] = [run[w] EXCEPT !.read = listed, !.step = next]
  BY <1>1, <1>2, OcrStepped
<1>5. run' = [run EXCEPT ![w].read = listed, ![w].step = next]
  <2>1. w \in DOMAIN run
    BY DEF IInv, RunsOK
  <2> DEFINE e == [run[w] EXCEPT !.read = listed, !.step = next]
  <2>2. run' = [run EXCEPT ![w] = e]
    BY <1>3, <1>4
  <2> QED
    BY <2>1, <2>2
<1>6. doc.status' = "extracting" => (next \in {"get", "save"} => listed \subseteq ocrRows')
  BY <1>1, StatusKept DEF OcrKnows, DocGrows
<1> HIDE DEF listed
<1> QED
  BY <1>2, <1>5, <1>6, OcrGoesOn

\* What either kind of run does.
LEMMA RunProceeds ==
  ASSUME IInv, DocGrows, RowsOK', NEW w \in Worker, run[w] # Free,
         NEW next \in {"fail", "delete", "flag"}, Proceed(w, next),
         Begun(doc.status'),
         next \in {"delete", "flag"} => Over(doc.status')
  PROVE  RunsOK'
<1>1. next \in ExtractSteps /\ next \in OcrSteps
  BY DEF ExtractSteps, OcrSteps
<1>2. run[w].job.kind = "extract" \/ run[w].job.kind = "ocr"
  BY RunAt DEF ExtractRun, OcrRun, Extract, OcrJob
<1>3. CASE run[w].job.kind = "extract"
  BY <1>1, <1>3, ExtractGoesOn
<1>4. CASE run[w].job.kind = "ocr"
  BY <1>1, <1>4, OcrProceeds
<1> QED
  BY <1>2, <1>3, <1>4

\* An extraction that is failed, or completed, is over.
LEMMA FailingEnds ==
  ASSUME IInv, Past(doc.status), doc' = Move(Extractable, "extraction_failed")
  PROVE  Over(doc.status')
<1>1. doc \in DocRow
  BY DEF IInv, RowsOK
<1>2. CASE doc.status \in Extractable
  <2>1. doc'.status = "extraction_failed"
    BY <1>1, <1>2 DEF Move, DocRow
  <2> QED
    BY <2>1 DEF Over
<1>3. CASE doc.status \notin Extractable
  BY <1>3 DEF Move, Over, Past, Extractable
<1> QED
  BY <1>2, <1>3

LEMMA CompletingEnds ==
  ASSUME IInv, Begun(doc.status), NEW count, NEW method, CompleteExtraction(count, method)
  PROVE  Over(doc.status')
<1>1. doc \in DocRow
  BY DEF IInv, RowsOK
<1>2. CASE doc.status = "extracting"
  <2>1. doc'.status = "text_ready"
    BY <1>1, <1>2 DEF CompleteExtraction, DocRow
  <2> QED
    BY <2>1 DEF Over
<1>3. CASE doc.status # "extracting"
  BY <1>3 DEF CompleteExtraction, rows, Over, Begun
<1> QED
  BY <1>2, <1>3

LEMMA ExtractRuns ==
  ASSUME IInv, DocGrows, RowsOK', NEW w \in Worker,
         \/ MarkExtracting(w) \/ GetSource(w) \/ OcrRefused(w) \/ StartOcr(w) \/ CompleteNative(w)
  PROVE  RunsOK'
<1>0. /\ run[w].job.kind = "extract" /\ run[w].step \in {"mark", "get", "start", "complete"}
      /\ run[w].step = "mark" <=> MarkExtracting(w)
  BY DEF MarkExtracting, GetSource, OcrRefused, StartOcr, CompleteNative, At
<1>1. run[w] # Free
  BY <1>0, NotFree
<1>2. {"get", "start", "complete", "schedule", "fail", "delete"} \subseteq ExtractSteps
  BY DEF ExtractSteps
<1>3. CASE MarkExtracting(w)
  <2>1. CASE doc.status \in Extractable
    <3>1. doc \in DocRow /\ doc' = [doc EXCEPT !.status = "extracting"]
      BY <1>3, <2>1 DEF MarkExtracting, Move, IInv, RowsOK
    <3>2. Begun(doc.status')
      BY <3>1 DEF DocRow, Begun
    <3>3. Proceed(w, "get")
      BY <1>3, <2>1 DEF MarkExtracting, Goto
    <3> QED
      BY <1>0, <1>1, <1>2, <3>2, <3>3, ExtractGoesOn
  <2>2. CASE doc.status \notin Extractable
    <3>1. run' = [run EXCEPT ![w] = Free]
      BY <1>3, <2>2 DEF MarkExtracting, Goto
    <3> QED
      BY <3>1, RunEnds
  <2> QED
    BY <2>1, <2>2
<1>4. ASSUME run[w].step # "mark"
      PROVE  Begun(doc.status) /\ Begun(doc.status')
  BY <1>1, <1>4, RunAt, StatusKept
<1>5. CASE GetSource(w)
  <2>1. \E next \in {"fail", "start", "complete"} : Goto(w, next)
    BY <1>5 DEF GetSource
  <2>2. PICK next \in {"fail", "start", "complete"} : Goto(w, next)
    BY <2>1
  <2>3. Proceed(w, next)
    BY <2>2 DEF Goto
  <2>4. run[w].step # "mark"
    BY <1>5 DEF GetSource, At
  <2> QED
    BY <1>0, <1>1, <1>2, <1>4, <2>3, <2>4, ExtractGoesOn
<1>6. CASE OcrRefused(w)
  <2>1. Proceed(w, "fail") /\ run[w].step # "mark"
    BY <1>6 DEF OcrRefused, At
  <2> QED
    BY <1>0, <1>1, <1>2, <1>4, <2>1, ExtractGoesOn
<1>7. CASE StartOcr(w)
  <2>1. run[w].step # "mark" /\ (Proceed(w, "schedule") \/ run' = [run EXCEPT ![w] = Free])
    BY <1>7 DEF StartOcr, At, Goto
  <2> QED
    BY <1>0, <1>1, <1>2, <1>4, <2>1, ExtractGoesOn, RunEnds
<1>8. CASE CompleteNative(w)
  <2>1. Proceed(w, "delete") /\ run[w].step # "mark" /\ CompleteExtraction(PageCount, "native")
    BY <1>8 DEF CompleteNative, At
  <2>2. Over(doc.status')
    BY <1>4, <2>1, CompletingEnds
  <2> QED
    BY <1>0, <1>1, <1>2, <1>4, <2>1, <2>2, ExtractGoesOn
<1> QED
  BY <1>3, <1>5, <1>6, <1>7, <1>8

LEMMA OcrRuns ==
  ASSUME IInv, DocGrows, RowsOK', NEW w \in Worker,
         \/ ListOcrPageNumbers(w) \/ GetScan(w) \/ SaveOcrPages(w) \/ ListOcrPages(w) \/ CompleteOcr(w)
  PROVE  RunsOK'
<1>0. run[w].job.kind = "ocr" /\ run[w].step \in {"list", "get", "save", "read", "complete"}
  BY DEF ListOcrPageNumbers, GetScan, SaveOcrPages, ListOcrPages, CompleteOcr, At
<1>1. run[w] # Free
  BY <1>0, NotFree
<1>2. run[w] \in OcrRun /\ OcrKnows(run[w], doc.status, ocrRows) /\ Begun(doc.status) /\ Begun(doc.status')
  BY <1>0, <1>1, RunAt, StatusKept
<1>3. ocrRows \subseteq Page /\ run[w].read \subseteq Page
  BY <1>2 DEF IInv, RowsOK, OcrRun
<1>4. {"get", "save", "read", "complete", "schedule", "fail", "delete"} \subseteq OcrSteps
  BY DEF OcrSteps
<1> DEFINE batch == Batch(run[w].job.from)
<1>5. batch \subseteq Page
  BY DEF Batch
<1>6. CASE ListOcrPageNumbers(w)
  <2> DEFINE next == IF batch \subseteq ocrRows THEN AfterBatch(ocrRows) ELSE "get"
  <2>1. run' = [run EXCEPT ![w].read = ocrRows, ![w].step = next] /\ ocrRows' = ocrRows
    BY <1>6 DEF ListOcrPageNumbers, rows
  <2>2. /\ next \in {"get", "read", "schedule"}
        /\ next = "read" => ocrRows = Page
        /\ next = "schedule" => ocrRows # Page
    BY <1>3 DEF AfterBatch, Missing
  <2> HIDE DEF next
  <2> QED
    BY <1>0, <1>1, <1>3, <1>4, <2>1, <2>2, OcrGoesOn
<1>7. CASE GetScan(w)
  <2>1. run[w].step = "get" /\ (Proceed(w, "save") \/ Proceed(w, "fail"))
    BY <1>7 DEF GetScan, At
  <2> QED
    BY <1>0, <1>1, <1>4, <2>1, OcrProceeds
<1>8. CASE SaveOcrPages(w)
  <2> DEFINE done == run[w].read \cup batch
             next == AfterBatch(done)
  <2>1. /\ run' = [run EXCEPT ![w].read = done, ![w].step = next]
        /\ ocrRows' = ocrRows \cup batch /\ run[w].step = "save" /\ doc' = doc
    BY <1>8 DEF SaveOcrPages, At
  <2>2. done \subseteq Page
    BY <1>3, <1>5
  <2>3. /\ next \in {"read", "schedule"}
        /\ next = "read" => done = Page
        /\ next = "schedule" => done # Page
    BY <2>2 DEF AfterBatch, Missing
  <2>4. doc.status = "extracting" => run[w].read \subseteq ocrRows
    BY <1>2, <2>1 DEF OcrKnows
  <2>5. doc.status = "extracting" /\ next = "read" => ocrRows' = Page
    BY <1>3, <1>5, <2>1, <2>3, <2>4
  <2> HIDE DEF done, next
  <2> QED
    BY <1>0, <1>1, <1>4, <2>1, <2>2, <2>3, <2>5, OcrGoesOn
<1>9. CASE ListOcrPages(w)
  <2>1. PICK next \in {"fail", "complete"} : run' = [run EXCEPT ![w].read = ocrRows, ![w].step = next]
    BY <1>9 DEF ListOcrPages, Listed
  <2>2. run[w].step = "read" /\ doc' = doc
    BY <1>9 DEF ListOcrPages, At, rows
  <2>3. doc.status = "extracting" => ocrRows = Page
    BY <1>2, <2>2 DEF OcrKnows
  <2> QED
    BY <1>0, <1>1, <1>3, <1>4, <2>1, <2>2, <2>3, OcrGoesOn
<1>10. CASE CompleteOcr(w)
  <2>1. Proceed(w, "delete") /\ CompleteExtraction(Cardinality(run[w].read), "ocr")
    BY <1>10 DEF CompleteOcr
  <2>2. Over(doc.status')
    BY <1>2, <2>1, CompletingEnds
  <2> QED
    BY <1>1, <1>2, <2>1, <2>2, RunProceeds
<1> QED
  BY <1>6, <1>7, <1>8, <1>9, <1>10

LEMMA EndingRuns ==
  ASSUME IInv, DocGrows, RowsOK', NEW w \in Worker,
         \/ ScheduleOcrBatch(w) \/ FailExtraction(w) \/ DeleteSource(w) \/ RecordSourceDeleted(w)
         \/ AttemptFails(w) \/ OcrBatchNotScheduled(w)
  PROVE  RunsOK'
<1>1. CASE ScheduleOcrBatch(w) \/ RecordSourceDeleted(w) \/ AttemptFails(w) \/ OcrBatchNotScheduled(w)
  <2>1. run' = [run EXCEPT ![w] = Free]
    <3>1. \A next : next = "done" /\ Goto(w, next) => run' = [run EXCEPT ![w] = Free]
      BY DEF Goto
    <3> QED
      BY <1>1, <3>1 DEF ScheduleOcrBatch, RecordSourceDeleted, AttemptFails, OcrBatchNotScheduled
  <2> QED
    BY <2>1, RunEnds
<1>2. CASE FailExtraction(w)
  <2>1. run[w] # Free /\ Past(doc.status)
    BY <1>2, NotFree, RunAt DEF FailExtraction
  <2>2. Proceed(w, "delete") /\ doc' = Move(Extractable, "extraction_failed")
    BY <1>2 DEF FailExtraction, MarkExtractionFailed
  <2>3. Over(doc.status') /\ Begun(doc.status')
    BY <2>1, <2>2, FailingEnds DEF Over, Begun
  <2> QED
    BY <2>1, <2>2, <2>3, RunProceeds
<1>3. CASE DeleteSource(w)
  <2>1. run[w] # Free /\ Over(doc.status) /\ Proceed(w, "flag")
    BY <1>3, NotFree, RunAt DEF DeleteSource
  <2>2. Over(doc.status') /\ Begun(doc.status')
    BY <2>1, StatusKept DEF Over, Begun
  <2> QED
    BY <2>1, <2>2, RunProceeds
<1> QED
  BY <1>1, <1>2, <1>3

\* A run begins with a document that its job was given for.
LEMMA BegunRuns ==
  ASSUME IInv, DocGrows, RowsOK', NEW w \in Worker, BeginRun(w)
  PROVE  RunsOK'
<1>1. PICK j \in DOMAIN jobs : BeginExtraction(w, j) \/ BeginOcr(w, j)
  BY DEF BeginRun
<1>2. j \in Job /\ Past(doc.status) /\ doc' = doc
  BY <1>1 DEF IInv, JobsOK, BeginExtraction, BeginOcr, rows
<1>3. \A next : Take(w, j, next) => IF next = "done" THEN run' = run
                                    ELSE run' = [run EXCEPT ![w] = [step |-> next, job |-> j, read |-> {}]]
  BY DEF Take
<1>4. CASE BeginExtraction(w, j)
  <2> DEFINE next == IF ~Present \/ doc.status = "awaiting_upload" THEN "done"
                     ELSE IF IsExtractionSettled(doc.status) THEN FinishSettled
                     ELSE IF doc.method = "ocr" THEN "done" ELSE "mark"
             e == [step |-> next, job |-> j, read |-> {}]
  <2>1. Take(w, j, next) /\ j = Extract
    BY <1>2, <1>4 DEF BeginExtraction, Job, OcrJob
  <2>2. next \in {"done", "mark", "delete"} /\ (next = "delete" => Over(doc.status))
    BY DEF FinishSettled, IsExtractionSettled, Over
  <2> HIDE DEF next
  <2>3. CASE next = "done"
    BY <1>3, <2>1, <2>3, RunsStay
  <2>4. CASE next # "done"
    <3>1. e \in ExtractRun /\ e.step = next
      BY <2>1, <2>2, <2>4 DEF ExtractRun
    <3>2. e \notin OcrRun
      BY <2>1 DEF OcrRun, OcrJob, Extract
    <3>3. run' = [run EXCEPT ![w] = e]
      BY <1>3, <2>1, <2>4
    <3> HIDE DEF e
    <3>4. RunOK(e, doc.status', ocrRows')
      BY <1>2, <2>2, <2>4, <3>1, <3>2 DEF RunOK, Begun, Over
    <3> QED
      BY <3>3, <3>4, RunPut
  <2> QED
    BY <2>3, <2>4
<1>5. CASE BeginOcr(w, j)
  <2> DEFINE next == IF ~Present THEN "done"
                     ELSE IF IsExtractionSettled(doc.status) THEN FinishSettled
                     ELSE IF doc.status = "extracting" /\ doc.method = "ocr" THEN "list" ELSE "done"
             e == [step |-> next, job |-> j, read |-> {}]
  <2>1. Take(w, j, next) /\ j \in OcrJob
    BY <1>2, <1>5 DEF BeginOcr, Job, Extract
  <2>2. /\ next \in {"done", "list", "delete"}
        /\ next = "delete" => Over(doc.status)
        /\ next = "list" => Begun(doc.status)
    BY DEF FinishSettled, IsExtractionSettled, Over, Begun
  <2> HIDE DEF next
  <2>3. CASE next = "done"
    BY <1>3, <2>1, <2>3, RunsStay
  <2>4. CASE next # "done"
    <3>1. e \in OcrRun /\ e.step = next
      BY <2>1, <2>2, <2>4 DEF OcrRun
    <3>3. run' = [run EXCEPT ![w] = e]
      BY <1>3, <2>1, <2>4
    <3> HIDE DEF e
    <3>4. RunOK(e, doc.status', ocrRows')
      BY <1>2, <2>2, <2>4, <3>1 DEF RunOK, OcrKnows, Begun, Over
    <3> QED
      BY <3>3, <3>4, RunPut
  <2> QED
    BY <2>3, <2>4
<1> QED
  BY <1>1, <1>4, <1>5

LEMMA EveryRunKept ==
  ASSUME IInv, [Next]_vars, DocGrows, RowsOK'
  PROVE  RunsOK'
<1>1. CASE UNCHANGED run
  BY <1>1, RunsStay
<1>2. CASE \/ RequestDocumentUpload \/ ClientPuts \/ UrlExpires \/ ClientPutsParts
           \/ PurgeStep \/ DeleteDocument \/ DeletePendingFile \/ RemovePendingRow
  BY <1>1, <1>2 DEF RequestDocumentUpload, ClientPuts, UrlExpires, ClientPutsParts, PurgeStep,
       FindAbandonedUpload, PurgeRow, AbortMultipartUpload, PurgeFile, PurgeFails, DeleteDocument,
       DeletePendingFile, RemovePendingRow
<1>3. CASE \E c \in Confirmer : ConfirmStep(c)
  BY <1>1, <1>3 DEF ConfirmStep, BeginConfirmation, ListParts, CompleteMultipartUpload,
       FileIsMissing, InspectFile, DiscardFile, MarkUploaded, ScheduleExtraction, ExtractionNotScheduled
<1>4. CASE \E w \in Worker : BeginRun(w) \/ RunStep(w) \/ AttemptFails(w) \/ OcrBatchNotScheduled(w)
  BY <1>4, BegunRuns, ExtractRuns, OcrRuns, EndingRuns DEF RunStep
<1>5. CASE \/ \E w \in Worker : HookStep(w) \/ FinalFailureSwallowed(w)
           \/ \E j \in DOMAIN jobs : Redeliver(j)
           \/ SweepUploads \/ (\E key \in SweepKey : SweepOcr(key))
  BY <1>1, <1>5 DEF HookStep, OnFinalFailure, MarkFinalFailure, DeleteFailedSource,
       RecordFailedSource, FinalFailureSwallowed, Redeliver, SweepUploads, SweepOcr
<1>6. CASE \/ \E e \in Editor : SumPages(e) \/ CommitCorrection(e)
           \/ \E e \in Editor, p \in Page, chars \in Chars : EditPage(e, p, chars)
  BY <1>1, <1>6 DEF SumPages, CommitCorrection, EditPage
<1>7. CASE Restart
  <2>1. \A w \in Worker : RunOK(Free, doc.status', ocrRows')
    BY DEF RunOK
  <2>2. run' = [w \in Worker |-> Free]
    BY <1>7 DEF Restart
  <2> QED
    BY <2>1, <2>2 DEF RunsOK
<1>8. CASE UNCHANGED vars
  BY <1>1, <1>8 DEF vars
<1> QED
  BY <1>2, <1>3, <1>4, <1>5, <1>6, <1>7, <1>8 DEF Next

-----------------------------------------------------------------------------
(* The final failures and the confirmations.                                 *)

LEMMA HookPut ==
  ASSUME IInv, DocGrows, NEW w \in Worker, NEW step, HookOK(step, doc.status'),
         hook' = [hook EXCEPT ![w] = step]
  PROVE  HooksOK'
<1>1. DOMAIN hook = Worker /\ \A v \in Worker : HookOK(hook[v], doc.status')
  BY HookKept DEF IInv, HooksOK
<1>2. DOMAIN hook' = Worker /\ \A v \in Worker : hook'[v] = IF v = w THEN step ELSE hook[v]
  BY <1>1
<1>3. \A v \in Worker : HookOK(hook'[v], doc.status')
  BY <1>1, <1>2
<1> QED
  BY <1>2, <1>3 DEF HooksOK

LEMMA HooksStay ==
  ASSUME IInv, DocGrows, UNCHANGED hook
  PROVE  HooksOK'
<1>1. DOMAIN hook = Worker /\ \A v \in Worker : HookOK(hook[v], doc.status')
  BY HookKept DEF IInv, HooksOK
<1> QED
  BY <1>1 DEF HooksOK

LEMMA EveryHookKept ==
  ASSUME IInv, [Next]_vars, DocGrows
  PROVE  HooksOK'
<1>1. CASE UNCHANGED hook
  BY <1>1, HooksStay
<1>2. CASE \/ RequestDocumentUpload \/ ClientPuts \/ UrlExpires \/ ClientPutsParts
           \/ PurgeStep \/ DeleteDocument \/ DeletePendingFile \/ RemovePendingRow
  BY <1>1, <1>2 DEF RequestDocumentUpload, ClientPuts, UrlExpires, ClientPutsParts, PurgeStep,
       FindAbandonedUpload, PurgeRow, AbortMultipartUpload, PurgeFile, PurgeFails, DeleteDocument,
       DeletePendingFile, RemovePendingRow
<1>3. CASE \E c \in Confirmer : ConfirmStep(c)
  BY <1>1, <1>3 DEF ConfirmStep, BeginConfirmation, ListParts, CompleteMultipartUpload,
       FileIsMissing, InspectFile, DiscardFile, MarkUploaded, ScheduleExtraction, ExtractionNotScheduled
<1>4. CASE \E w \in Worker : BeginRun(w) \/ RunStep(w) \/ OcrBatchNotScheduled(w)
  BY <1>1, <1>4 DEF BeginRun, BeginExtraction, BeginOcr, OcrBatchNotScheduled, RunStep,
       MarkExtracting, GetSource, OcrRefused, StartOcr, CompleteNative, ListOcrPageNumbers, GetScan,
       SaveOcrPages, ListOcrPages, CompleteOcr, ScheduleOcrBatch, FailExtraction, DeleteSource,
       RecordSourceDeleted, others
<1>5. ASSUME NEW w \in Worker, AttemptFails(w) PROVE HooksOK'
  <2>1. UNCHANGED hook \/ hook' = [hook EXCEPT ![w] = "read"]
    BY <1>5 DEF AttemptFails
  <2>2. Past(doc.status')
    BY <1>5, RunAt, StatusKept DEF AttemptFails
  <2>3. HookOK("read", doc.status')
    BY <2>2 DEF HookOK
  <2> QED
    BY <1>1, <2>1, <2>3, HookPut
<1>6. ASSUME NEW w \in Worker, HookStep(w) \/ FinalFailureSwallowed(w) PROVE HooksOK'
  <2>1. HookOK(hook[w], doc.status)
    BY DEF IInv, HooksOK
  <2>2. HookOK("none", doc.status')
    BY DEF HookOK
  <2>3. CASE FinalFailureSwallowed(w) \/ RecordFailedSource(w)
    BY <2>2, <2>3, HookPut DEF FinalFailureSwallowed, RecordFailedSource, Hook
  <2>4. CASE OnFinalFailure(w)
    <3>1. Past(doc.status')
      BY <2>1, <2>4, StatusKept DEF OnFinalFailure, Hook, HookOK
    <3>2. HookOK("mark", doc.status')
      BY <3>1 DEF HookOK
    <3>3. \E step \in {"mark", "none"} : hook' = [hook EXCEPT ![w] = step]
      BY <2>4 DEF OnFinalFailure, Hook
    <3> QED
      BY <2>2, <3>2, <3>3, HookPut
  <2>5. CASE MarkFinalFailure(w)
    <3>1. Past(doc.status) /\ doc' = Move(Extractable, "extraction_failed")
      BY <2>1, <2>5 DEF MarkFinalFailure, MarkExtractionFailed, Hook, HookOK
    <3>2. Over(doc.status') /\ Past(doc.status')
      BY <3>1, FailingEnds, StatusKept
    <3>3. HookOK("delete", doc.status')
      BY <3>2 DEF HookOK
    <3> QED
      BY <2>5, <3>3, HookPut DEF MarkFinalFailure, Hook
  <2>6. CASE DeleteFailedSource(w)
    <3>1. Over(doc.status') /\ Past(doc.status')
      BY <2>1, <2>6, StatusKept DEF DeleteFailedSource, Hook, HookOK
    <3>2. HookOK("flag", doc.status')
      BY <3>1 DEF HookOK
    <3> QED
      BY <2>6, <3>2, HookPut DEF DeleteFailedSource, Hook
  <2> QED
    BY <1>6, <2>3, <2>4, <2>5, <2>6 DEF HookStep
<1>7. CASE \/ \E j \in DOMAIN jobs : Redeliver(j)
           \/ SweepUploads \/ (\E key \in SweepKey : SweepOcr(key))
  BY <1>1, <1>7 DEF Redeliver, SweepUploads, SweepOcr
<1>8. CASE \/ \E e \in Editor : SumPages(e) \/ CommitCorrection(e)
           \/ \E e \in Editor, p \in Page, chars \in Chars : EditPage(e, p, chars)
  BY <1>1, <1>8 DEF SumPages, CommitCorrection, EditPage
<1>9. CASE Restart
  <2>1. UNCHANGED hook \/ hook' = [w \in Worker |-> "none"]
    BY <1>9 DEF Restart
  <2>2. CASE hook' = [w \in Worker |-> "none"]
    <3>1. HookOK("none", doc.status')
      BY DEF HookOK
    <3> QED
      BY <2>2, <3>1 DEF HooksOK
  <2> QED
    BY <1>1, <2>1, <2>2
<1>10. CASE UNCHANGED vars
  BY <1>1, <1>10 DEF vars
<1> QED
  BY <1>2, <1>3, <1>4, <1>5, <1>6, <1>7, <1>8, <1>9, <1>10 DEF Next

LEMMA ConfirmsStay ==
  ASSUME IInv, DocGrows, UNCHANGED confirm
  PROVE  ConfirmsOK'
<1>1. DOMAIN confirm = Confirmer /\ \A c \in Confirmer : ConfirmOK(confirm[c], doc.status', source', file')
  BY ConfirmKept DEF IInv, ConfirmsOK
<1> QED
  BY <1>1 DEF ConfirmsOK

\* What a confirmation must know to go on to its next step.
LEMMA ConfirmPut ==
  ASSUME IInv, DocGrows, NEW c \in Confirmer,
         NEW next \in {"free", "list", "assemble", "inspect", "discard", "mark", "schedule"},
         Confirm(c, next),
         next # "free" => doc.status' # "none",
         next = "discard" => file' = "not_pdf",
         next = "mark" => file' # "not_pdf" /\ (doc.status' = "awaiting_upload" => source'),
         next = "schedule" => Past(doc.status')
  PROVE  ConfirmsOK'
<1> DEFINE e == [confirm[c] EXCEPT !.step = next]
<1>1. /\ DOMAIN confirm = Confirmer
      /\ \A v \in Confirmer : ConfirmOK(confirm[v], doc.status', source', file')
  BY ConfirmKept DEF IInv, ConfirmsOK
<1>2. confirm[c] \in [step : {"free", "list", "assemble", "inspect", "discard", "mark", "schedule"}]
  BY <1>1 DEF ConfirmOK
<1>3. e \in [step : {"free", "list", "assemble", "inspect", "discard", "mark", "schedule"}] /\ e.step = next
  BY <1>2
<1>4. DOMAIN confirm' = Confirmer /\ \A v \in Confirmer : confirm'[v] = IF v = c THEN e ELSE confirm[v]
  BY <1>1 DEF Confirm
<1> HIDE DEF e
<1>5. ConfirmOK(e, doc.status', source', file')
  BY <1>3 DEF ConfirmOK
<1>6. \A v \in Confirmer : ConfirmOK(confirm'[v], doc.status', source', file')
  BY <1>1, <1>4, <1>5
<1> QED
  BY <1>4, <1>6 DEF ConfirmsOK

LEMMA ConfirmSteps ==
  ASSUME IInv, DocGrows, NEW c \in Confirmer, ConfirmStep(c)
  PROVE  ConfirmsOK'
<1>0. ConfirmOK(confirm[c], doc.status, source, file) /\ doc \in DocRow
  BY DEF IInv, ConfirmsOK, RowsOK
<1>1. confirm[c].step # "free" => doc.status' # "none"
  BY <1>0, StatusKept DEF ConfirmOK
<1>2. CASE BeginConfirmation(c)
  <2>1. PICK next \in {"inspect", "list"} : Confirm(c, next)
    BY <1>2 DEF BeginConfirmation
  <2>2. doc.status # "none"
    BY <1>2 DEF BeginConfirmation, Present, Statuses
  <2> QED
    BY <2>1, <2>2, StatusKept, ConfirmPut
<1>3. CASE ListParts(c)
  <2>1. \E next \in {"free", "assemble", "inspect"} : Confirm(c, next)
    BY <1>3 DEF ListParts
  <2>2. PICK next \in {"free", "assemble", "inspect"} : Confirm(c, next)
    BY <2>1
  <2>3. confirm[c].step # "free"
    BY <1>3 DEF ListParts, Confirming
  <2> QED
    BY <1>1, <2>2, <2>3, ConfirmPut
<1>4. CASE CompleteMultipartUpload(c)
  <2>1. confirm[c].step # "free" /\ (Confirm(c, "inspect") \/ Confirm(c, "free"))
    BY <1>4 DEF CompleteMultipartUpload, Confirming, Answer
  <2> QED
    BY <1>1, <2>1, ConfirmPut
<1>5. CASE FileIsMissing(c) \/ DiscardFile(c) \/ ScheduleExtraction(c) \/ ExtractionNotScheduled(c)
  <2>1. Confirm(c, "free")
    BY <1>5 DEF FileIsMissing, DiscardFile, ScheduleExtraction, ExtractionNotScheduled, Answer
  <2> QED
    BY <2>1, ConfirmPut
<1>6. CASE InspectFile(c)
  <2>1. PICK next \in {"discard", "mark"} : Confirm(c, next) /\ (next = "discard" <=> file = "not_pdf")
    BY <1>6 DEF InspectFile
  <2>2. confirm[c].step # "free" /\ source' /\ file' = file
    BY <1>6 DEF InspectFile, Confirming, uploads
  <2> QED
    BY <1>1, <2>1, <2>2, ConfirmPut
<1>7. CASE MarkUploaded(c)
  <2>1. Confirm(c, "schedule") /\ doc' = Move(Confirmable, "uploaded") /\ confirm[c].step = "mark"
    BY <1>7 DEF MarkUploaded, Confirming
  <2>2. doc.status # "none"
    BY <1>0, <2>1 DEF ConfirmOK
  <2>3. Past(doc.status')
    <3>1. CASE doc.status = "awaiting_upload"
      <4>1. doc'.status = "uploaded"
        BY <1>0, <2>1, <3>1 DEF Move, Confirmable, DocRow
      <4> QED
        BY <4>1 DEF Past
    <3>2. CASE doc.status # "awaiting_upload"
      <4>1. doc.status \in Statuses \cup {"none", "deleted"}
        BY <1>0 DEF DocRow
      <4> QED
        BY <2>1, <2>2, <3>2, <4>1 DEF Move, Confirmable, Past, Statuses
    <3> QED
      BY <3>1, <3>2
  <2> QED
    BY <1>1, <2>1, <2>3, ConfirmPut
<1> QED
  BY <1>2, <1>3, <1>4, <1>5, <1>6, <1>7 DEF ConfirmStep

LEMMA EveryConfirmationKept ==
  ASSUME IInv, [Next]_vars, DocGrows
  PROVE  ConfirmsOK'
<1>1. CASE UNCHANGED confirm
  BY <1>1, ConfirmsStay
<1>2. CASE \/ RequestDocumentUpload \/ ClientPuts \/ UrlExpires \/ ClientPutsParts
           \/ PurgeStep \/ DeleteDocument \/ DeletePendingFile \/ RemovePendingRow
  BY <1>1, <1>2 DEF RequestDocumentUpload, ClientPuts, UrlExpires, ClientPutsParts, PurgeStep,
       FindAbandonedUpload, PurgeRow, AbortMultipartUpload, PurgeFile, PurgeFails, DeleteDocument,
       DeletePendingFile, RemovePendingRow, requests
<1>3. CASE \E c \in Confirmer : ConfirmStep(c)
  BY <1>3, ConfirmSteps
<1>4. CASE \E w \in Worker : BeginRun(w) \/ RunStep(w) \/ AttemptFails(w) \/ OcrBatchNotScheduled(w)
  BY <1>1, <1>4 DEF BeginRun, BeginExtraction, BeginOcr, OcrBatchNotScheduled, AttemptFails, RunStep,
       MarkExtracting, GetSource, OcrRefused, StartOcr, CompleteNative, ListOcrPageNumbers, GetScan,
       SaveOcrPages, ListOcrPages, CompleteOcr, ScheduleOcrBatch, FailExtraction, DeleteSource,
       RecordSourceDeleted, others, requests
<1>5. CASE \/ \E w \in Worker : HookStep(w) \/ FinalFailureSwallowed(w)
           \/ \E j \in DOMAIN jobs : Redeliver(j)
           \/ SweepUploads \/ (\E key \in SweepKey : SweepOcr(key))
  BY <1>1, <1>5 DEF HookStep, OnFinalFailure, MarkFinalFailure, DeleteFailedSource,
       RecordFailedSource, FinalFailureSwallowed, Redeliver, SweepUploads, SweepOcr, requests
<1>6. CASE \/ \E e \in Editor : SumPages(e) \/ CommitCorrection(e)
           \/ \E e \in Editor, p \in Page, chars \in Chars : EditPage(e, p, chars)
  BY <1>1, <1>6 DEF SumPages, CommitCorrection, EditPage
<1>7. CASE Restart
  <2>1. ConfirmOK(Free, doc.status', source', file')
    BY DEF ConfirmOK, Free
  <2>2. confirm' = [c \in Confirmer |-> Free]
    BY <1>7 DEF Restart
  <2> QED
    BY <2>1, <2>2 DEF ConfirmsOK
<1>8. CASE UNCHANGED vars
  BY <1>1, <1>8 DEF vars, requests
<1> QED
  BY <1>2, <1>3, <1>4, <1>5, <1>6, <1>7, <1>8 DEF Next

-----------------------------------------------------------------------------
(* The corrections: they hold a text that is ready, within the bound.        *)

\* Only its owner, the purge and the corrections do more than go on.
LEMMA StepsApart ==
  ASSUME IInv, [Next]_vars
  PROVE  \/ QuietStep /\ UNCHANGED edit
         \/ QuietStep /\ Restart
         \/ QuietStep /\ UNCHANGED <<doc, pages>>
              /\ \E e \in Editor : SumPages(e) \/ \E p \in Page, chars \in Chars : EditPage(e, p, chars)
         \/ PurgeRow /\ Purgeable
         \/ DeleteDocument
         \/ \E e \in Editor : CommitCorrection(e)
<1>1. CASE RequestDocumentUpload
  BY <1>1 DEF RequestDocumentUpload, QuietStep, Progress, Requested, requests
<1>2. CASE ClientPuts \/ UrlExpires \/ ClientPutsParts
  BY <1>2 DEF ClientPuts, UrlExpires, ClientPutsParts, QuietStep, FileMoved, rows, requests
<1>3. CASE \E c \in Confirmer : ConfirmStep(c)
  <2>1. UNCHANGED edit
    BY <1>3 DEF ConfirmStep, BeginConfirmation, ListParts, CompleteMultipartUpload,
       FileIsMissing, InspectFile, DiscardFile, MarkUploaded, ScheduleExtraction, ExtractionNotScheduled
  <2> QED
    BY <1>3, <2>1, ConfirmEffect
<1>4. CASE \E w \in Worker : RunStep(w)
  <2>1. UNCHANGED edit
    BY <1>4 DEF RunStep, MarkExtracting, GetSource, OcrRefused, StartOcr, CompleteNative,
       ListOcrPageNumbers, GetScan, SaveOcrPages, ListOcrPages, CompleteOcr, ScheduleOcrBatch,
       FailExtraction, DeleteSource, RecordSourceDeleted, others, requests
  <2> QED
    BY <1>4, <2>1, RunStepEffect
<1>5. CASE \E w \in Worker : HookStep(w)
  <2>1. UNCHANGED edit
    BY <1>5 DEF HookStep, OnFinalFailure, MarkFinalFailure, DeleteFailedSource, RecordFailedSource, requests
  <2> QED
    BY <1>5, <2>1, HookEffect
<1>6. CASE \E w \in Worker : \/ BeginRun(w) \/ AttemptFails(w) \/ OcrBatchNotScheduled(w)
                             \/ FinalFailureSwallowed(w)
  BY <1>6 DEF BeginRun, BeginExtraction, BeginOcr, AttemptFails, OcrBatchNotScheduled,
       FinalFailureSwallowed, QuietStep, FileMoved, rows, uploads, others, requests
<1>7. CASE \/ \E j \in DOMAIN jobs : Redeliver(j)
           \/ SweepUploads \/ (\E key \in SweepKey : SweepOcr(key))
  BY <1>7 DEF Redeliver, SweepUploads, SweepOcr, QuietStep, FileMoved, rows, uploads, requests
<1>8. CASE FindAbandonedUpload \/ AbortMultipartUpload \/ PurgeFails \/ RemovePendingRow
  BY <1>8 DEF FindAbandonedUpload, AbortMultipartUpload, PurgeFails, RemovePendingRow,
       QuietStep, FileMoved, rows, uploads, requests
<1>9. CASE PurgeFile \/ DeletePendingFile
  <2>1. doc.status = "deleted"
    BY <1>9 DEF PurgeFile, DeletePendingFile, IInv, FilesOK
  <2> QED
    BY <1>9, <2>1 DEF PurgeFile, DeletePendingFile, Extractable, QuietStep, FileMoved, SourceLeft, rows,
         requests
<1>10. CASE PurgeRow
  BY <1>10 DEF PurgeRow, QuietStep, FileMoved, uploads
<1>11. CASE Restart
  BY <1>11 DEF Restart, QuietStep, FileMoved, rows, uploads
<1>12. CASE \/ \E e \in Editor : SumPages(e)
            \/ \E e \in Editor, p \in Page, chars \in Chars : EditPage(e, p, chars)
  BY <1>12 DEF SumPages, EditPage, QuietStep, FileMoved, rows, uploads
<1>13. CASE UNCHANGED vars
  BY <1>13 DEF vars, QuietStep, FileMoved, rows, uploads, requests
<1> QED
  BY <1>1, <1>2, <1>3, <1>4, <1>5, <1>6, <1>7, <1>8, <1>9, <1>10, <1>11, <1>12, <1>13 DEF Next, PurgeStep

\* A step that only goes on leaves a text that is ready as it is.
LEMMA QuietKeepsText ==
  ASSUME IInv, QuietStep
  PROVE  /\ doc.status = "text_ready" =>
              doc'.status = "text_ready" /\ doc'.revision = doc.revision /\ pages' = pages
         /\ doc'.revision \in {doc.revision, 0, 1}
         /\ Present => Present'
<1>0. doc \in DocRow
  BY DEF IInv, RowsOK
<1>1. CASE FileMoved
  BY <1>1 DEF FileMoved, Present
<1>2. CASE Requested
  <2>1. doc'.status = "awaiting_upload" /\ doc'.revision = 0 /\ doc.status = "none"
    BY <1>2 DEF Requested, NoRow
  <2> QED
    BY <2>1 DEF Present, Statuses
<1>3. CASE Uploaded
  <2>1. doc'.status = "uploaded" /\ doc'.revision = doc.revision /\ doc.status = "awaiting_upload"
    BY <1>0, <1>3 DEF Uploaded, DocRow
  <2> QED
    BY <2>1 DEF Present, Statuses
<1>4. CASE Extracting
  <2>1. doc'.status = "extracting" /\ doc'.revision = doc.revision /\ doc.status \in Extractable
    BY <1>0, <1>4 DEF Extracting, DocRow
  <2> QED
    BY <2>1 DEF Present, Statuses, Extractable
<1>5. CASE Failed
  <2>1. CASE doc.status \in Extractable
    <3>1. doc'.status = "extraction_failed" /\ doc'.revision = doc.revision
      BY <1>0, <1>5, <2>1 DEF Failed, Move, DocRow
    <3> QED
      BY <2>1, <3>1 DEF Present, Statuses, Extractable
  <2>2. CASE doc.status \notin Extractable
    <3>1. doc' = doc /\ pages' = pages
      BY <1>5, <2>2 DEF Failed, Move
    <3> QED
      BY <3>1 DEF Present
  <2> QED
    BY <2>1, <2>2
<1>6. CASE OcrStarted \/ Flagged
  <2>1. doc'.status = doc.status /\ doc'.revision = doc.revision /\ pages' = pages
    BY <1>0, <1>6 DEF OcrStarted, Flagged, DocRow
  <2> QED
    BY <2>1 DEF Present
<1>7. CASE Completed
  <2>1. doc.status = "extracting" /\ doc'.status = "text_ready" /\ doc'.revision = 1
    BY <1>0, <1>7 DEF Completed, DocRow
  <2> QED
    BY <2>1 DEF Present, Statuses
<1>8. CASE Recognised
  BY <1>8 DEF Recognised, Present
<1> QED
  BY <1>1, <1>2, <1>3, <1>4, <1>5, <1>6, <1>7, <1>8 DEF QuietStep, Progress

LEMMA BoundsOfCorrections ==
  ASSUME IInv
  PROVE  /\ doc.revision \in Nat /\ IsFiniteSet(Corrections) /\ Cardinality(Corrections) \in Nat
         /\ doc.revision + Cardinality(Corrections) <= MaxRevision
         /\ DOMAIN edit = Editor
         /\ \A e \in Editor : edit[e] = Free \/ (edit[e] \in EditRow /\ doc.status = "text_ready")
         /\ doc.status # "text_ready" => Corrections = {} /\ Cardinality(Corrections) = 0
<1>1. doc.revision \in Nat
  BY DEF IInv, RowsOK, DocRow
<1>2. IsFiniteSet(Corrections) /\ Cardinality(Corrections) \in Nat
  BY FS_CardinalityType DEF IInv, EditsOK
<1>3. doc.status # "text_ready" => Corrections = {} /\ Cardinality(Corrections) = 0
  BY FS_EmptySet DEF IInv, EditsOK, Corrections
<1> QED
  BY <1>1, <1>2, <1>3 DEF IInv, EditsOK

LEMMA EditsStay ==
  ASSUME IInv, QuietStep, UNCHANGED edit
  PROVE  EditsOK'
<1>1. Corrections' = Corrections
  BY DEF Corrections
<1>2. CASE doc.status = "text_ready"
  <2>1. doc'.status = "text_ready" /\ doc'.revision = doc.revision
    BY <1>2, QuietKeepsText
  <2> QED
    BY <1>1, <2>1, BoundsOfCorrections DEF EditsOK
<1>3. CASE doc.status # "text_ready"
  <2>1. doc'.revision \in {doc.revision, 0, 1} /\ Cardinality(Corrections) = 0
    BY <1>3, QuietKeepsText, BoundsOfCorrections
  <2>2. doc'.revision + Cardinality(Corrections) <= MaxRevision
    BY <2>1, Bounds, BoundsOfCorrections
  <2>3. \A e \in Editor : edit[e] = Free
    BY <1>3, BoundsOfCorrections
  <2> QED
    BY <1>1, <2>2, <2>3, BoundsOfCorrections DEF EditsOK
<1> QED
  BY <1>2, <1>3

LEMMA EditsFreed ==
  ASSUME DOMAIN edit' = Editor, \A e \in Editor : edit'[e] = Free, doc'.revision \in Nat, doc'.revision <= MaxRevision
  PROVE  EditsOK'
<1>1. Corrections' = {}
  BY DEF Corrections
<1>2. IsFiniteSet(Corrections') /\ Cardinality(Corrections') = 0
  BY <1>1, FS_EmptySet
<1> QED
  BY <1>2, Bounds DEF EditsOK

LEMMA RowIsNotFree == \A r \in EditRow : r # Free
BY DEF EditRow, Free

LEMMA CorrectionSteps ==
  ASSUME IInv, NEW e \in Editor,
         SumPages(e) \/ CommitCorrection(e) \/ \E p \in Page, chars \in Chars : EditPage(e, p, chars)
  PROVE  EditsOK'
<1> DEFINE C == Corrections
<1>0. /\ doc.revision \in Nat /\ IsFiniteSet(C) /\ Cardinality(C) \in Nat /\ MaxRevision \in Nat
      /\ doc.revision + Cardinality(C) <= MaxRevision
      /\ DOMAIN edit = Editor
      /\ \A f \in Editor : edit[f] = Free \/ (edit[f] \in EditRow /\ doc.status = "text_ready")
  BY BoundsOfCorrections, Bounds
<1>1. CASE SumPages(e)
  <2> DEFINE sizes == [pages EXCEPT ![edit[e].page] = edit[e].chars]
             r == [edit[e] EXCEPT !.step = "write", !.total = Total(sizes)]
  <2>1. edit[e] \in EditRow /\ doc.status = "text_ready"
    BY <1>0, <1>1 DEF SumPages, Editing, Free
  <2>2. edit[e].chars \in Nat /\ pages \in [Page -> Nat]
    BY <2>1, Bounds DEF EditRow, IInv, RowsOK
  <2>3. sizes \in [Page -> Nat]
    BY <2>2
  <2>4. Total(sizes) \in Nat
    BY <2>3, TotalType
  <2>5. edit' = [edit EXCEPT ![e] = r] /\ doc' = doc
    BY <1>0, <1>1 DEF SumPages, rows
  <2> HIDE DEF sizes
  <2>6. r \in EditRow
    BY <2>1, <2>4 DEF EditRow
  <2> HIDE DEF r
  <2>7. DOMAIN edit' = Editor /\ \A f \in Editor : edit'[f] = IF f = e THEN r ELSE edit[f]
    BY <1>0, <2>5
  <2>8. Corrections' = C
    BY <2>1, <2>6, <2>7, RowIsNotFree DEF Corrections
  <2> QED
    BY <1>0, <2>1, <2>5, <2>6, <2>7, <2>8 DEF EditsOK
<1>2. CASE CommitCorrection(e)
  <2>1. edit[e] \in EditRow /\ doc.status = "text_ready" /\ doc \in DocRow
    BY <1>0, <1>2 DEF CommitCorrection, Editing, Free, IInv, RowsOK
  <2>2. doc'.revision = doc.revision + 1 /\ doc'.status = doc.status
    <3> DEFINE next == doc.revision + 1
               total == edit[e].total
    <3>1. doc' = [doc EXCEPT !.charCount = total, !.revision = next]
      BY <1>2 DEF CommitCorrection
    <3>2. doc'.revision = next /\ doc'.status = doc.status
      <4> HIDE DEF next, total
      <4> QED
        BY <2>1, <3>1 DEF DocRow
    <3> QED
      BY <3>2
  <2>3. DOMAIN edit' = Editor /\ \A f \in Editor : edit'[f] = IF f = e THEN Free ELSE edit[f]
    BY <1>0, <1>2 DEF CommitCorrection
  <2>4. Corrections' = C \ {e} /\ e \in C
    BY <2>1, <2>3, RowIsNotFree DEF Corrections
  <2> HIDE DEF C
  <2>5. IsFiniteSet(C \ {e}) /\ Cardinality(C \ {e}) = Cardinality(C) - 1
    BY <1>0, <2>4, FS_RemoveElement
  <2>6. doc'.revision + Cardinality(C \ {e}) <= MaxRevision
    BY <1>0, <2>2, <2>5
  <2> QED
    BY <1>0, <2>2, <2>3, <2>4, <2>5, <2>6 DEF EditsOK
<1>3. ASSUME NEW p \in Page, NEW chars \in Chars, EditPage(e, p, chars)
      PROVE  EditsOK'
  <2> DEFINE r == [step |-> "sum", page |-> p, chars |-> chars, total |-> 0]
  <2>1. /\ edit' = [edit EXCEPT ![e] = r] /\ edit[e] = Free /\ doc.status = "text_ready" /\ doc' = doc
        /\ doc.revision + Cardinality(C) < MaxRevision
    BY <1>3 DEF EditPage, rows, Corrections
  <2>2. r \in EditRow
    BY DEF EditRow
  <2> HIDE DEF r
  <2>3. DOMAIN edit' = Editor /\ \A f \in Editor : edit'[f] = IF f = e THEN r ELSE edit[f]
    BY <1>0, <2>1
  <2>4. Corrections' = C \cup {e} /\ e \notin C
    BY <2>1, <2>2, <2>3, RowIsNotFree DEF Corrections
  <2> HIDE DEF C
  <2>5. IsFiniteSet(C \cup {e}) /\ Cardinality(C \cup {e}) = Cardinality(C) + 1
    BY <1>0, <2>4, FS_AddElement
  <2>6. doc'.revision + Cardinality(C \cup {e}) <= MaxRevision
    BY <1>0, <2>1, <2>5
  <2> QED
    BY <1>0, <2>1, <2>2, <2>3, <2>4, <2>5, <2>6 DEF EditsOK
<1> QED
  BY <1>1, <1>2, <1>3

LEMMA EveryEditKept ==
  ASSUME IInv, [Next]_vars
  PROVE  EditsOK'
<1>1. CASE QuietStep /\ UNCHANGED edit
  BY <1>1, EditsStay
<1>2. CASE QuietStep /\ Restart
  <2>1. edit' = [e \in Editor |-> Free] /\ doc' = doc
    BY <1>2 DEF Restart, rows
  <2>2. doc'.revision \in Nat /\ doc'.revision <= MaxRevision
    BY <2>1, BoundsOfCorrections, Bounds
  <2> QED
    BY <2>1, <2>2, EditsFreed
<1>3. CASE PurgeRow /\ Purgeable
  <2>1. UNCHANGED edit /\ doc.status = "awaiting_upload" /\ doc' = NoRow("deleted")
    BY <1>3 DEF PurgeRow, Purgeable, DeleteRow
  <2>2. doc'.revision = 0 /\ DOMAIN edit' = Editor /\ \A e \in Editor : edit'[e] = Free
    BY <2>1, BoundsOfCorrections DEF NoRow
  <2> QED
    BY <2>2, Bounds, EditsFreed
<1>4. CASE DeleteDocument
  <2>1. edit' = [e \in Editor |-> Free] /\ doc' = NoRow("deleted")
    BY <1>4 DEF DeleteDocument, DeleteRow
  <2>2. doc'.revision = 0
    BY <2>1 DEF NoRow
  <2> QED
    BY <2>1, <2>2, Bounds, EditsFreed
<1> QED
  BY <1>1, <1>2, <1>3, <1>4, StepsApart, CorrectionSteps

-----------------------------------------------------------------------------
(* The invariant holds, and with it the promises.                            *)

LEMMA InitIInv == Init => IInv
<1> SUFFICES ASSUME Init PROVE IInv
  OBVIOUS
<1>1. doc \in DocRow /\ doc.status = "none" /\ doc.revision = 0
  BY DEF Init, NoRow, DocRow
<1>2. DOMAIN pages = {} /\ pages = <<>> /\ ocrRows = {}
  BY SMT DEF Init
<1>3. RowsOK
  BY <1>1, <1>2 DEF RowsOK
<1>4. SourceOK
  BY <1>1 DEF SourceOK, Extractable
<1>5. FilesOK
  BY DEF Init, FilesOK
<1>6. JobsOK
  BY DEF Init, JobsOK
<1>7. RunsOK
  BY DEF Init, RunsOK, RunOK
<1>8. HooksOK
  BY DEF Init, HooksOK, HookOK
<1>9. ConfirmsOK
  BY DEF Init, ConfirmsOK, ConfirmOK, Free
<1>10. EditsOK
  <2>1. Corrections = {} /\ DOMAIN edit = Editor /\ \A e \in Editor : edit[e] = Free
    BY DEF Init, Corrections
  <2>2. IsFiniteSet(Corrections) /\ Cardinality(Corrections) = 0
    BY <2>1, FS_EmptySet
  <2> QED
    BY <1>1, <2>1, <2>2, Bounds DEF EditsOK
<1> QED
  BY <1>3, <1>4, <1>5, <1>6, <1>7, <1>8, <1>9, <1>10 DEF IInv

LEMMA NextIInv == IInv /\ [Next]_vars => IInv'
<1> SUFFICES ASSUME IInv, [Next]_vars PROVE IInv'
  OBVIOUS
<1>1. RowsOK' /\ SourceOK' /\ DocGrows
  BY EveryStepKeeps
<1>2. FilesOK' /\ JobsOK' /\ RunsOK'
  BY <1>1, EveryFileKept, EveryJobKept, EveryRunKept
<1>3. HooksOK' /\ ConfirmsOK' /\ EditsOK'
  BY <1>1, EveryHookKept, EveryConfirmationKept, EveryEditKept
<1> QED
  BY <1>1, <1>2, <1>3 DEF IInv

LEMMA InvariantHolds == Spec => []IInv
BY InitIInv, NextIInv, PTL DEF Spec

(* Every variable keeps its type, the rows of a document go with it, and its *)
(* revisions stay within the bound of the corrections.                       *)
THEOREM TypeOKInvariant == Spec => []TypeOK
<1>1. ASSUME IInv PROVE TypeOK
  <2>1. /\ doc.status \in Statuses \cup {"none", "deleted"} /\ doc.method \in {"none", "native", "ocr"}
        /\ doc.sourceDeleted \in BOOLEAN
    BY <1>1 DEF IInv, RowsOK, DocRow
  <2>2. doc.revision \in 0 .. MaxRevision
    BY <1>1, BoundsOfCorrections, Bounds
  <2>3. DOMAIN pages \subseteq Page /\ ocrRows \subseteq Page
    BY <1>1 DEF IInv, RowsOK
  <2>4. ~Present => pages = <<>> /\ ocrRows = {}
    BY <1>1 DEF IInv, RowsOK, Present, Statuses
  <2>5. /\ outbox \in {"none", "pending", "deleted"}
        /\ upload \in {"none", "signed", "expired", "open", "sent", "closed"}
    BY <1>1 DEF IInv, FilesOK
  <2>6. \A w \in Worker : hook[w] \in {"none", "read", "mark", "delete", "flag"}
    BY <1>1 DEF IInv, HooksOK, HookOK
  <2>7. \A j \in DOMAIN jobs : jobs[j].state \in {"waiting", "active", "completed", "failed"}
    BY <1>1 DEF IInv, JobsOK, JobRow, JobStates
  <2> QED
    BY <2>1, <2>2, <2>3, <2>4, <2>5, <2>6, <2>7 DEF TypeOK
<1> QED
  BY <1>1, InvariantHolds, PTL

(* From its confirmation to the end of its extraction a document has its     *)
(* PDF (ConfirmDocumentUploadUseCase, ExtractionSettler), whatever is        *)
(* repeated, delivered twice or purged meanwhile.                            *)
THEOREM SourceIsKeptInvariant == Spec => []SourceIsKept
<1>1. IInv => SourceIsKept
  BY DEF IInv, SourceOK, SourceIsKept
<1> QED
  BY <1>1, InvariantHolds, PTL

(* A text that is ready has every page of the PDF (RecognizeOcrPagesUseCase, *)
(* ExtractDocumentTextUseCase), for any number of pages and size of batches. *)
THEOREM TextIsWholeInvariant == Spec => []TextIsWhole
<1>1. IInv => TextIsWhole
  BY DEF IInv, RowsOK, TextIsWhole
<1> QED
  BY <1>1, InvariantHolds, PTL

(* A document goes forward, its text is extracted once and has a new         *)
(* revision at each correction (document.drizzle-repository.ts).             *)
THEOREM ExtractedOnceHolds == Spec => ExtractedOnce
<1>1. ASSUME IInv, [Next]_vars
      PROVE  /\ GoesTo(doc.status, doc.status')
             /\ doc.status = "text_ready" /\ Present' => (pages' # pages => doc'.revision = doc.revision + 1)
  <2>1. GoesTo(doc.status, doc.status')
    BY <1>1, EveryStepKeeps DEF DocGrows, StatusGoes
  <2>2. ASSUME doc.status = "text_ready", Present', pages' # pages
        PROVE  doc'.revision = doc.revision + 1
    <3>1. ~QuietStep
      BY <1>1, <2>2, QuietKeepsText
    <3>2. ~(PurgeRow /\ Purgeable)
      BY <2>2 DEF Purgeable
    <3>3. ~DeleteDocument
      BY <2>2 DEF DeleteDocument, DeleteRow, NoRow, Present, Statuses
    <3>4. PICK e \in Editor : CommitCorrection(e)
      BY <1>1, <3>1, <3>2, <3>3, StepsApart
    <3> DEFINE next == doc.revision + 1
               total == edit[e].total
    <3>5. doc' = [doc EXCEPT !.charCount = total, !.revision = next] /\ doc \in DocRow
      BY <1>1, <3>4 DEF CommitCorrection, IInv, RowsOK
    <3>6. doc'.revision = next
      <4> HIDE DEF next, total
      <4> QED
        BY <3>5 DEF DocRow
    <3> QED
      BY <3>6
  <2> QED
    BY <2>1, <2>2
<1> QED
  BY <1>1, InvariantHolds, PTL DEF Spec, ExtractedOnce

(* A document that was confirmed leaves at its owner's demand only, with the *)
(* deletion of its PDF recorded unless that was done                         *)
(* (PurgeAbandonedUploadsUseCase, DeleteDocumentUseCase).                    *)
THEOREM ConfirmedIsNotPurgedHolds == Spec => ConfirmedIsNotPurged
<1>1. ASSUME IInv, [Next]_vars
      PROVE  Present /\ doc.status # "awaiting_upload" /\ ~Present' => doc.sourceDeleted \/ outbox' = "pending"
  <2> SUFFICES ASSUME Present, doc.status # "awaiting_upload", ~Present'
               PROVE  doc.sourceDeleted \/ outbox' = "pending"
    OBVIOUS
  <2>1. ~QuietStep
    BY <1>1, QuietKeepsText
  <2>2. ~(PurgeRow /\ Purgeable)
    BY DEF Purgeable
  <2>3. \A e \in Editor : ~CommitCorrection(e)
    <3>1. ASSUME NEW e \in Editor, CommitCorrection(e) PROVE FALSE
      <4>1. RowsOK' /\ DocGrows /\ doc.status = "text_ready" /\ pages' \in [Page -> Nat]
        BY <1>1, <3>1, EveryStepKeeps, CorrectionEffect DEF Corrected
      <4>2. 1 \in DOMAIN pages'
        BY <4>1, Bounds
      <4>3. doc'.status = "text_ready"
        BY <4>1, <4>2 DEF RowsOK
      <4> QED
        BY <4>3 DEF Present, Statuses
    <3> QED
      BY <3>1
  <2>4. DeleteDocument
    BY <1>1, <2>1, <2>2, <2>3, StepsApart
  <2> QED
    BY <2>4 DEF DeleteDocument
<1> QED
  BY <1>1, InvariantHolds, PTL DEF Spec, ConfirmedIsNotPurged

=============================================================================
