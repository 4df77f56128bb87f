------------------------- MODULE DocumentLifecycle -------------------------
(***************************************************************************)
(* One document: its upload by the client straight to the object storage,  *)
(* the confirmation of it, the extraction of its text by queued jobs (from *)
(* the PDF, or page by page by OCR when it is a scan), the corrections of  *)
(* its pages and its deletion.  A handler is split at each statement of    *)
(* the database, call to the storage and enqueueing.  The delays of the    *)
(* sweeps are left out: they may look at a document of any age.            *)
(***************************************************************************)
EXTENDS JobQueue, FiniteSets, Functions

CONSTANTS
  File,          \* what the client's file may be: "not_pdf", "useless", "text", "scan"
  PageCount,     \* pages of the PDF
  BatchPages,    \* OCR_BATCH_PAGES
  Chars,         \* characters a corrected page may have
  Confirmer,     \* handlers of POST /v1/documents/:id/upload-confirmation
  Editor,        \* handlers of PUT /v1/documents/:id/pages/:pageNumber
  Extractor, Recognizer,   \* workers of the two queues
  Attempts,      \* attempts of a job: [extract, ocr]
  SweepKey,      \* retry keys of OCR batches the sweep has in the queue at a time
  MaxRevision,   \* bound on the corrections
  MaxFaults,     \* bound on failed attempts, stalls, restarts, lost enqueueings
  HooksAreSafe   \* a final failure is always recorded (an assumption, see README)

Worker == Extractor \cup Recognizer
Page == 1 .. PageCount

ASSUME DocumentAssumption ==
  /\ File \subseteq {"not_pdf", "useless", "text", "scan"}
  /\ {PageCount, BatchPages, MaxRevision} \subseteq Nat \ {0}
  /\ Chars \subseteq Nat /\ MaxFaults \in Nat
  /\ DOMAIN Attempts = {"extract", "ocr"}
  /\ \A kind \in DOMAIN Attempts : Attempts[kind] \in Nat \ {0}
  /\ HooksAreSafe \in BOOLEAN

VARIABLES
  file,        \* the file on the client's phone
  doc,         \* the row of the document
  pages,       \* document_pages: the characters of each page
  ocrRows,     \* document_ocr_pages: the pages recognised
  outbox,      \* pending_file_deletions: the row of the source file
  source,      \* the source PDF is in the object storage
  upload,      \* its signed URL or its multipart upload
  confirm,     \* what each confirmation is doing
  edit,        \* what each correction is doing
  purge,       \* what the purge of abandoned uploads is doing
  hook,        \* what the final failure of each worker is doing
  faults

rows == <<doc, pages, ocrRows, outbox>>
uploads == <<file, source, upload>>
requests == <<confirm, edit, purge>>

vars == <<rows, uploads, requests, jobs, run, hook, faults>>

Statuses == {"awaiting_upload", "uploaded", "extracting", "text_ready", "extraction_failed"}
AnyStatus == Statuses                                      \* fault: no compare-and-set
Confirmable == {"awaiting_upload"}
Extractable == {"uploaded", "extracting"}                  \* EXTRACTABLE_STATUSES

NotAwaiting(status) == status # "awaiting_upload"          \* fault: an extraction in course
IsExtractionSettled(status) == status \in {"text_ready", "extraction_failed"}

\* Before it is requested and after it is deleted, the document has no row.
NoRow(status) == [status |-> status, method |-> "none", sourceDeleted |-> FALSE,
                  charCount |-> 0, revision |-> 0]
Present == doc.status \in Statuses

Extract == [kind |-> "extract"]
OcrBatch(from, key) == [kind |-> "ocr", from |-> from, key |-> key]
Once == "once"                \* the key of a batch that is not a retry

Init ==
  /\ file \in File
  /\ doc = NoRow("none")
  /\ pages = [p \in {} |-> 0] /\ ocrRows = {} /\ outbox = "none"
  /\ source = FALSE /\ upload = "none"
  /\ confirm = [c \in Confirmer |-> Free]
  /\ edit = [e \in Editor |-> Free]
  /\ purge = "idle"
  /\ jobs = [j \in {} |-> 0]
  /\ run = [w \in Worker |-> Free]
  /\ hook = [w \in Worker |-> "none"]
  /\ faults = 0

-----------------------------------------------------------------------------
(* The document repository *)

\* UPDATE ... SET status WHERE status IN from.
Move(from, to) == IF doc.status \in from THEN [doc EXCEPT !.status = to] ELSE doc

\* Pages, OCR pages and the rest of a document go with its row (ON DELETE CASCADE).
RowsStay(rowsOf) == rowsOf                                 \* fault: no cascade
Cascade(rowsOf) == {p \in rowsOf : FALSE}
DeleteRow ==
  /\ doc' = NoRow("deleted")
  /\ pages' = [p \in Cascade(DOMAIN pages) |-> pages[p]]
  /\ ocrRows' = Cascade(ocrRows)

\* markExtractionFailed: the OCR pages go whatever the status is.
MarkExtractionFailed ==
  /\ doc' = Move(Extractable, "extraction_failed")
  /\ ocrRows' = {}
  /\ UNCHANGED <<pages, outbox>>

CompleteExtraction(count, method) ==
  IF doc.status = "extracting"
  THEN /\ doc' = [doc EXCEPT !.status = "text_ready", !.method = method,
                             !.charCount = count, !.revision = 1]
       /\ pages' = [p \in 1 .. count |-> 1]
       /\ ocrRows' = {}
       /\ UNCHANGED outbox
  ELSE UNCHANGED rows

MarkSourceDeleted == doc' = IF Present THEN [doc EXCEPT !.sourceDeleted = TRUE] ELSE doc

-----------------------------------------------------------------------------
(* The upload: one signed URL, which expires, or a multipart upload.  The    *)
(* client sends its one file to a document that is awaiting it.              *)

RequestDocumentUpload ==
  /\ doc.status = "none"
  /\ doc' = NoRow("awaiting_upload")
  /\ upload' \in {"signed", "open"}
  /\ UNCHANGED <<pages, ocrRows, outbox, file, source, requests, jobs, run, hook, faults>>

\* External: the file reaches the storage.
ClientPuts ==
  /\ doc.status = "awaiting_upload"
  /\ upload = "signed"
  /\ source' = TRUE
  /\ UNCHANGED <<rows, file, upload, requests, jobs, run, hook, faults>>

UrlExpires ==
  /\ doc.status = "awaiting_upload"
  /\ upload = "signed"
  /\ upload' = "expired"
  /\ UNCHANGED <<rows, file, source, requests, jobs, run, hook, faults>>

\* All the parts have reached the storage, with the URLs PrepareUploadParts
\* signs as often as the client asks for them.
ClientPutsParts ==
  /\ doc.status = "awaiting_upload"
  /\ upload = "open"
  /\ upload' = "sent"
  /\ UNCHANGED <<rows, file, source, requests, jobs, run, hook, faults>>

-----------------------------------------------------------------------------
(* ConfirmDocumentUploadUseCase *)

Confirming(c, step) == confirm[c].step = step
Confirm(c, next) == confirm' = [confirm EXCEPT ![c].step = next]
Answer(c) == Confirm(c, "free")

\* An uploaded document is answered as it is; any other goes on.
BeginConfirmation(c) ==
  /\ Confirming(c, "free")
  /\ Present /\ doc.status # "uploaded"
  /\ Confirm(c, IF upload \in {"signed", "expired"} THEN "inspect" ELSE "list")
  /\ UNCHANGED <<rows, uploads, edit, purge, jobs, run, hook, faults>>

\* assembleParts: an upload that is not found any more was assembled already,
\* and a document deleted meanwhile may have no upload identifier to read.
ListParts(c) ==
  /\ Confirming(c, "list")
  /\ \/ Confirm(c, CASE upload = "open" -> "free"
                     [] upload = "sent" -> "assemble"
                     [] OTHER -> "inspect")
     \/ ~Present /\ Confirm(c, "inspect")
  /\ UNCHANGED <<rows, uploads, edit, purge, jobs, run, hook, faults>>

\* Assembled or aborted in between, the upload is refused (503).
CompleteMultipartUpload(c) ==
  /\ Confirming(c, "assemble")
  /\ IF upload = "sent"
     THEN source' = TRUE /\ upload' = "closed" /\ Confirm(c, "inspect")
     ELSE Answer(c) /\ UNCHANGED <<source, upload>>
  /\ UNCHANGED <<rows, file, edit, purge, jobs, run, hook, faults>>

\* head, then the first bytes; its size is signed in the URL.
FileIsMissing(c) ==
  /\ Confirming(c, "inspect")
  /\ ~source
  /\ Answer(c)
  /\ UNCHANGED <<rows, uploads, edit, purge, jobs, run, hook, faults>>

InspectFile(c) ==
  /\ Confirming(c, "inspect")
  /\ source
  /\ Confirm(c, IF file = "not_pdf" THEN "discard" ELSE "mark")
  /\ UNCHANGED <<rows, uploads, edit, purge, jobs, run, hook, faults>>

DiscardFile(c) ==
  /\ Confirming(c, "discard")
  /\ source' = FALSE
  /\ Answer(c)
  /\ UNCHANGED <<rows, file, upload, edit, purge, jobs, run, hook, faults>>

MarkUploaded(c) ==
  /\ Confirming(c, "mark")
  /\ doc' = Move(Confirmable, "uploaded")
  /\ Confirm(c, "schedule")
  /\ UNCHANGED <<pages, ocrRows, outbox, uploads, edit, purge, jobs, run, hook, faults>>

ScheduleExtraction(c) ==
  /\ Confirming(c, "schedule")
  /\ Enqueue(jobs, {Extract})
  /\ Answer(c)
  /\ UNCHANGED <<rows, uploads, edit, purge, run, hook, faults>>

\* The queue is unavailable: only logged.
ExtractionNotScheduled(c) ==
  /\ Confirming(c, "schedule")
  /\ faults < MaxFaults
  /\ faults' = faults + 1
  /\ Answer(c)
  /\ UNCHANGED <<rows, uploads, edit, purge, jobs, run, hook>>

-----------------------------------------------------------------------------
(* PurgeAbandonedUploadsUseCase: the row, if it still awaits, then the file. *)
(* It looks at rows a day old: their signed URL has expired.                 *)

FindAbandonedUpload ==
  /\ purge = "idle"
  /\ doc.status = "awaiting_upload" /\ upload # "signed"
  /\ purge' = "row"
  /\ UNCHANGED <<rows, uploads, confirm, edit, jobs, run, hook, faults>>

PurgeableAsListed == Present                               \* fault: not asked again
Purgeable == doc.status = "awaiting_upload"

PurgeRow ==
  /\ purge = "row"
  /\ IF Purgeable
     THEN DeleteRow /\ purge' = "abort"
     ELSE purge' = "idle" /\ UNCHANGED <<doc, pages, ocrRows>>
  /\ UNCHANGED <<outbox, uploads, confirm, edit, jobs, run, hook, faults>>

AbortMultipartUpload ==
  /\ purge = "abort"
  /\ upload' = IF upload = "expired" THEN upload ELSE "closed"
  /\ purge' = "file"
  /\ UNCHANGED <<rows, file, source, confirm, edit, jobs, run, hook, faults>>

PurgeFile ==
  /\ purge = "file"
  /\ source' = FALSE
  /\ purge' = "idle"
  /\ UNCHANGED <<rows, file, upload, confirm, edit, jobs, run, hook, faults>>

\* A failure of the storage is reported in the log, for somebody to resume.
PurgeFails ==
  /\ purge \in {"abort", "file"}
  /\ faults < MaxFaults
  /\ faults' = faults + 1
  /\ purge' = "idle"
  /\ UNCHANGED <<rows, uploads, confirm, edit, jobs, run, hook>>

-----------------------------------------------------------------------------
(* ExtractDocumentTextUseCase *)

At(w, kind, step) == run[w].step = step /\ run[w].job.kind = kind
others == <<requests, hook, faults>>

\* ExtractionSettler.deleteSourceIfPresent of a document that was settled.
NothingLeft == "done"                                      \* fault: the file is forgotten
FinishSettled == IF doc.sourceDeleted THEN "done" ELSE "delete"

BeginExtraction(w, j) ==
  /\ w \in Extractor
  /\ j.kind = "extract"
  /\ Take(w, j, IF ~Present \/ doc.status = "awaiting_upload" THEN "done"
                ELSE IF IsExtractionSettled(doc.status) THEN FinishSettled
                ELSE IF doc.method = "ocr" THEN "done" ELSE "mark")
  /\ UNCHANGED <<rows, uploads, others>>

MarkExtracting(w) ==
  /\ At(w, "extract", "mark")
  /\ doc' = Move(Extractable, "extracting")
  /\ Goto(w, IF doc.status \in Extractable THEN "get" ELSE "done")
  /\ UNCHANGED <<pages, ocrRows, outbox, uploads, others>>

GetSource(w) ==
  /\ At(w, "extract", "get")
  /\ Goto(w, CASE ~source \/ file = "useless" -> "fail"
                [] source /\ file = "scan" -> "start"
                [] OTHER -> "complete")
  /\ UNCHANGED <<rows, uploads, others>>

\* checkOcrAllowance, which depends on the other documents of the owner.
OcrRefused(w) ==
  /\ At(w, "extract", "start")
  /\ Proceed(w, "fail")
  /\ UNCHANGED <<rows, uploads, jobs, others>>

StartOcr(w) ==
  LET starts == doc.status = "extracting" /\ doc.method = "none"
  IN  /\ At(w, "extract", "start")
      /\ doc' = IF starts THEN [doc EXCEPT !.method = "ocr"] ELSE doc
      /\ Goto(w, IF starts THEN "schedule" ELSE "done")
      /\ UNCHANGED <<pages, ocrRows, outbox, uploads, others>>

CompleteNative(w) ==
  /\ At(w, "extract", "complete")
  /\ CompleteExtraction(PageCount, "native")
  /\ Proceed(w, "delete")
  /\ UNCHANGED <<uploads, jobs, others>>

-----------------------------------------------------------------------------
(* RecognizeOcrPagesUseCase; run[w].read is `done`, then the pages listed.   *)

Batch(from) == {p \in Page : from <= p /\ p < from + BatchPages}    \* ocrBatchEnd
Missing(done) == Page \ done

\* The next batch starts at the first missing page of the whole document.
AfterBatch(done) == IF Missing(done) = {} THEN "read" ELSE "schedule"

BeginOcr(w, j) ==
  /\ w \in Recognizer
  /\ j.kind = "ocr"
  /\ Take(w, j, IF ~Present THEN "done"
                ELSE IF IsExtractionSettled(doc.status) THEN FinishSettled
                ELSE IF doc.status = "extracting" /\ doc.method = "ocr" THEN "list" ELSE "done")
  /\ UNCHANGED <<rows, uploads, others>>

ListOcrPageNumbers(w) ==
  /\ At(w, "ocr", "list")
  /\ run' = [run EXCEPT ![w].read = ocrRows,
                        ![w].step = IF Batch(run[w].job.from) \subseteq ocrRows
                                    THEN AfterBatch(ocrRows) ELSE "get"]
  /\ UNCHANGED <<rows, uploads, jobs, others>>

\* The pages of the batch are recognised, if the PDF can be read.
GetScan(w) ==
  /\ At(w, "ocr", "get")
  /\ \/ source /\ Proceed(w, "save")
     \/ Proceed(w, "fail")
  /\ UNCHANGED <<rows, uploads, jobs, others>>

SaveOcrPages(w) ==
  LET done == run[w].read \cup Batch(run[w].job.from)
  IN  /\ At(w, "ocr", "save")
      /\ Present
      /\ ocrRows' = ocrRows \cup Batch(run[w].job.from)
      /\ run' = [run EXCEPT ![w].read = done, ![w].step = AfterBatch(done)]
      /\ UNCHANGED <<doc, pages, outbox, uploads, jobs, others>>

ListedOfBatch(w) == ocrRows \cap Batch(run[w].job.from)   \* fault: the last batch alone
Listed(w) == ocrRows

\* listOcrPages; a scan without a word has no text.
ListOcrPages(w) ==
  /\ At(w, "ocr", "read")
  /\ \E next \in {"fail"} \cup (IF Listed(w) = {} THEN {} ELSE {"complete"}) :
       run' = [run EXCEPT ![w].read = Listed(w), ![w].step = next]
  /\ UNCHANGED <<rows, uploads, jobs, others>>

CompleteOcr(w) ==
  /\ At(w, "ocr", "complete")
  /\ CompleteExtraction(Cardinality(run[w].read), "ocr")
  /\ Proceed(w, "delete")
  /\ UNCHANGED <<uploads, jobs, others>>

\* The first batch of a scan, or the next one, in the queue or lost.
FirstPage(w) ==
  IF run[w].job.kind = "extract" THEN 1
  ELSE CHOOSE p \in Missing(run[w].read) : \A q \in Missing(run[w].read) : p <= q

ScheduleOcrBatch(w) ==
  /\ run[w].step = "schedule"
  /\ Enqueue(Settled(w, "completed"), {OcrBatch(FirstPage(w), Once)})
  /\ run' = [run EXCEPT ![w] = Free]
  /\ UNCHANGED <<rows, uploads, others>>

OcrBatchNotScheduled(w) ==
  /\ run[w].step = "schedule"
  /\ faults < MaxFaults
  /\ faults' = faults + 1
  /\ Goto(w, "done")
  /\ UNCHANGED <<rows, uploads, requests, hook>>

-----------------------------------------------------------------------------
(* ExtractionSettler, and the final failure of a job                         *)

FailExtraction(w) ==
  /\ run[w].step = "fail"
  /\ MarkExtractionFailed
  /\ Proceed(w, "delete")
  /\ UNCHANGED <<uploads, jobs, others>>

DeleteSource(w) ==
  /\ run[w].step = "delete"
  /\ source' = FALSE
  /\ Proceed(w, "flag")
  /\ UNCHANGED <<rows, file, upload, jobs, others>>

RecordSourceDeleted(w) ==
  /\ run[w].step = "flag"
  /\ MarkSourceDeleted
  /\ Goto(w, "done")
  /\ UNCHANGED <<pages, ocrRows, outbox, uploads, others>>

\* An error ends the run: the job waits for its next attempt, or has failed for
\* good (one final failure of a worker at a time).  The pages of a document
\* that was deleted cannot be saved.
AttemptFails(w) ==
  LET attempts == Attempts[run[w].job.kind]
  IN  /\ run[w] # Free
      /\ IF run[w].step = "save" /\ ~Present
         THEN UNCHANGED faults
         ELSE faults < MaxFaults /\ faults' = faults + 1
      /\ IF FailsForGood(w, attempts)
         THEN hook[w] = "none" /\ hook' = [hook EXCEPT ![w] = "read"]
         ELSE UNCHANGED hook
      /\ jobs' = AfterFailure(w, attempts)
      /\ run' = [run EXCEPT ![w] = Free]
      /\ UNCHANGED <<rows, uploads, requests>>

\* FailDocumentExtractionUseCase: what is settled is left as it is.
Hook(w, step, next) == hook[w] = step /\ hook' = [hook EXCEPT ![w] = next]

OnFinalFailure(w) ==
  /\ Hook(w, "read", IF Present /\ ~IsExtractionSettled(doc.status) THEN "mark" ELSE "none")
  /\ UNCHANGED <<rows, uploads, requests, jobs, run, faults>>

MarkFinalFailure(w) ==
  /\ Hook(w, "mark", "delete")
  /\ MarkExtractionFailed
  /\ UNCHANGED <<uploads, requests, jobs, run, faults>>

DeleteFailedSource(w) ==
  /\ Hook(w, "delete", "flag")
  /\ source' = FALSE
  /\ UNCHANGED <<rows, file, upload, requests, jobs, run, faults>>

RecordFailedSource(w) ==
  /\ Hook(w, "flag", "none")
  /\ MarkSourceDeleted
  /\ UNCHANGED <<pages, ocrRows, outbox, uploads, requests, jobs, run, faults>>

\* An error of it is only logged, and nobody calls it again.
FinalFailureSwallowed(w) ==
  /\ ~HooksAreSafe
  /\ hook[w] # "none"
  /\ hook' = [hook EXCEPT ![w] = "none"]
  /\ UNCHANGED <<rows, uploads, requests, jobs, run, faults>>

Redeliver(j) ==
  /\ jobs[j].state = "active"
  /\ faults < MaxFaults
  /\ faults' = faults + 1
  /\ jobs' = Again(j)
  /\ UNCHANGED <<rows, uploads, requests, run, hook>>

Restart ==
  /\ faults < MaxFaults
  /\ faults' = faults + 1
  /\ jobs' = Released
  /\ run' = [w \in Worker |-> Free]
  /\ confirm' = [c \in Confirmer |-> Free]
  /\ edit' = [e \in Editor |-> Free]
  /\ purge' = "idle"
  /\ hook' = IF HooksAreSafe THEN hook ELSE [w \in Worker |-> "none"]
  /\ UNCHANGED <<rows, uploads>>

-----------------------------------------------------------------------------
(* The sweeps of stalled extractions and of stalled OCR                      *)

NoneStalled == FALSE                                       \* fault: no sweep
StalledUpload == doc.status = "uploaded"
StalledOcr == doc.status = "extracting" /\ doc.method = "ocr"

SweepUploads ==
  /\ StalledUpload
  /\ Enqueue(jobs, {Extract})
  /\ UNCHANGED <<rows, uploads, requests, run, hook, faults>>

\* The first missing page, or the last when only the text was not assembled.
\* The retry key is new at each minute: an older batch under it was another
\* minute's, and |SweepKey| bounds the retries in the queue at a time.
SweepFrom ==
  IF Missing(ocrRows) = {} THEN PageCount
  ELSE CHOOSE p \in Missing(ocrRows) : \A q \in Missing(ocrRows) : p <= q

SweepOcr(key) ==
  LET retry == OcrBatch(SweepFrom, key)
  IN  /\ StalledOcr
      /\ ~InQueue(retry)
      /\ Enqueue([j \in DOMAIN jobs \ {retry} |-> jobs[j]], {retry})
      /\ UNCHANGED <<rows, uploads, requests, run, hook, faults>>

-----------------------------------------------------------------------------
(* UpdateDocumentPageUseCase: the page, which stays locked, then the total   *)
(* of the document; READ COMMITTED shows each statement what was committed   *)
(* before it.  The second statement waits for the row of the document with   *)
(* the total it has read.                                                    *)

Editing(e, step) == edit[e].step = step
Locked(p) == \E e \in Editor : edit[e] # Free /\ edit[e].page = p

EditPage(e, p, chars) ==
  /\ edit[e] = Free
  /\ doc.status = "text_ready"
  /\ p \in DOMAIN pages /\ ~Locked(p)
  /\ doc.revision + Cardinality({f \in Editor : edit[f] # Free}) < MaxRevision
  /\ edit' = [edit EXCEPT ![e] = [step |-> "sum", page |-> p, chars |-> chars, total |-> 0]]
  /\ UNCHANGED <<rows, uploads, confirm, purge, jobs, run, hook, faults>>

Total(sizes) == SumFunctionOnSet(sizes, DOMAIN sizes)

SumPages(e) ==
  /\ Editing(e, "sum")
  /\ edit' = [edit EXCEPT ![e].step = "write",
                          ![e].total = Total([pages EXCEPT ![edit[e].page] = edit[e].chars])]
  /\ UNCHANGED <<rows, uploads, confirm, purge, jobs, run, hook, faults>>

CommitCorrection(e) ==
  /\ Editing(e, "write")
  /\ pages' = [pages EXCEPT ![edit[e].page] = edit[e].chars]
  /\ doc' = [doc EXCEPT !.charCount = edit[e].total, !.revision = @ + 1]
  /\ edit' = [edit EXCEPT ![e] = Free]
  /\ UNCHANGED <<ocrRows, outbox, uploads, confirm, purge, jobs, run, hook, faults>>

-----------------------------------------------------------------------------
(* The library: the document deleted by its owner, and the outbox            *)

\* The correction of a page and the cascade lock the page and the document in
\* opposite orders: the database aborts one of them, here the corrections.
DeleteDocument ==
  /\ Present
  /\ DeleteRow
  /\ outbox' = IF doc.sourceDeleted THEN outbox ELSE "pending"
  /\ edit' = [e \in Editor |-> Free]
  /\ UNCHANGED <<uploads, confirm, purge, jobs, run, hook, faults>>

\* Interrupted in between, the sweep deletes the file once more.
DeletePendingFile ==
  /\ outbox = "pending"
  /\ source' = FALSE
  /\ outbox' = "deleted"
  /\ UNCHANGED <<doc, pages, ocrRows, file, upload, requests, jobs, run, hook, faults>>

RemovePendingRow ==
  /\ outbox = "deleted"
  /\ outbox' \in {"none", "pending"}
  /\ UNCHANGED <<doc, pages, ocrRows, uploads, requests, jobs, run, hook, faults>>

-----------------------------------------------------------------------------

ConfirmStep(c) ==
  \/ BeginConfirmation(c) \/ ListParts(c) \/ CompleteMultipartUpload(c) \/ FileIsMissing(c)
  \/ InspectFile(c) \/ DiscardFile(c) \/ MarkUploaded(c) \/ ScheduleExtraction(c)
  \/ ExtractionNotScheduled(c)

PurgeStep ==
  FindAbandonedUpload \/ PurgeRow \/ AbortMultipartUpload \/ PurgeFile \/ PurgeFails

BeginRun(w) == \E j \in DOMAIN jobs : BeginExtraction(w, j) \/ BeginOcr(w, j)

RunStep(w) ==
  \/ MarkExtracting(w) \/ GetSource(w) \/ OcrRefused(w) \/ StartOcr(w) \/ CompleteNative(w)
  \/ ListOcrPageNumbers(w) \/ GetScan(w) \/ SaveOcrPages(w) \/ ListOcrPages(w) \/ CompleteOcr(w)
  \/ ScheduleOcrBatch(w) \/ FailExtraction(w) \/ DeleteSource(w) \/ RecordSourceDeleted(w)

HookStep(w) ==
  OnFinalFailure(w) \/ MarkFinalFailure(w) \/ DeleteFailedSource(w) \/ RecordFailedSource(w)

Next ==
  \/ RequestDocumentUpload \/ ClientPuts \/ UrlExpires \/ ClientPutsParts
  \/ \E c \in Confirmer : ConfirmStep(c)
  \/ PurgeStep
  \/ \E w \in Worker : BeginRun(w) \/ RunStep(w) \/ AttemptFails(w) \/ OcrBatchNotScheduled(w)
  \/ \E w \in Worker : HookStep(w) \/ FinalFailureSwallowed(w)
  \/ \E j \in DOMAIN jobs : Redeliver(j)
  \/ SweepUploads \/ (\E key \in SweepKey : SweepOcr(key))
  \/ \E e \in Editor : SumPages(e) \/ CommitCorrection(e)
  \/ \E e \in Editor, p \in Page, chars \in Chars : EditPage(e, p, chars)
  \/ DeleteDocument \/ DeletePendingFile \/ RemovePendingRow
  \/ Restart

Spec == Init /\ [][Next]_vars

(* The workers run what is queued and the sweeps come back every five        *)
(* minutes, those of deleted files every minute.  Nobody must confirm.       *)
FairSpec ==
  /\ Spec
  /\ \A w \in Worker : WF_vars(BeginRun(w)) /\ WF_vars(RunStep(w)) /\ WF_vars(HookStep(w))
  /\ WF_vars(SweepUploads) /\ SF_vars(\E key \in SweepKey : SweepOcr(key))
  /\ WF_vars(DeletePendingFile) /\ SF_vars(RemovePendingRow /\ outbox' = "none")

-----------------------------------------------------------------------------
(* Properties *)

TypeOK ==
  /\ doc.status \in Statuses \cup {"none", "deleted"}
  /\ doc.method \in {"none", "native", "ocr"}
  /\ doc.sourceDeleted \in BOOLEAN
  /\ doc.revision \in 0 .. MaxRevision
  /\ DOMAIN pages \subseteq Page /\ ocrRows \subseteq Page
  /\ ~Present => pages = <<>> /\ ocrRows = {}
  /\ outbox \in {"none", "pending", "deleted"}
  /\ upload \in {"none", "signed", "expired", "open", "sent", "closed"}
  /\ \A w \in Worker : hook[w] \in {"none", "read", "mark", "delete", "flag"}
  /\ \A j \in DOMAIN jobs : jobs[j].state \in {"waiting", "active", "completed", "failed"}

(* From its confirmation to the end of its extraction a document has its     *)
(* PDF, whatever confirmations are repeated, jobs delivered twice, final     *)
(* failures and purges run with it: nothing could extract its text again.    *)
SourceIsKept == doc.status \in Extractable => source

(* A text that is ready has every page of the PDF, a scan's as well although *)
(* its batches are lost, repeated or taken up again from any page; before    *)
(* that and after a failure there is no text at all.                         *)
TextIsWhole ==
  IF doc.status = "text_ready" THEN DOMAIN pages = Page /\ doc.revision > 0 ELSE pages = <<>>

(* A document goes forward; its text is extracted once, then only corrected, *)
(* with a new revision each time.                                            *)
GoesTo(before, after) ==
  \/ before = after \/ after = "deleted"
  \/ before = "none" /\ after = "awaiting_upload"
  \/ before = "awaiting_upload" /\ after = "uploaded"
  \/ before = "uploaded" /\ after \in {"extracting", "extraction_failed"}
  \/ before = "extracting" /\ after \in {"text_ready", "extraction_failed"}

ExtractedOnce ==
  [][ /\ GoesTo(doc.status, doc.status')
      /\ doc.status = "text_ready" /\ Present' =>
           (pages' # pages => doc'.revision = doc.revision + 1) ]_vars

(* A document that was confirmed leaves at its owner's demand only, with the *)
(* deletion of its PDF recorded unless that was done: the purge of abandoned *)
(* uploads loses against a confirmation.                                     *)
ConfirmedIsNotPurged ==
  [][ Present /\ doc.status # "awaiting_upload" /\ ~Present' =>
        doc.sourceDeleted \/ outbox' = "pending" ]_vars

(* An upload that was confirmed is extracted, or has failed, in the end: the *)
(* queue may be unavailable, jobs be lost to a restart or delivered twice.   *)
ExtractionEnds ==
  doc.status = "uploaded" ~> ~Present \/ IsExtractionSettled(doc.status)

(* Once its extraction is over the PDF is deleted, even when the server      *)
(* stops in between or the owner deletes the document, unless a job has      *)
(* failed for good: its last attempt may have been that deletion.            *)
SourceIsDeleted ==
  IsExtractionSettled(doc.status) ~>
    ~source \/ \E j \in DOMAIN jobs : jobs[j].state = "failed"

(* What the code says and does not ensure: the characters of a document, on  *)
(* which its conversions are charged, are those of its pages, also after     *)
(* corrections of two pages at the same time.                                *)
CharCountIsSum == doc.status = "text_ready" => doc.charCount = Total(pages)
=============================================================================
