# VoxKivre backend: verification project

VoxKivre turns a user's PDF into audio. The backend is one NestJS process: HTTP
handlers, BullMQ workers and scheduled jobs share one PostgreSQL database, one
Redis and one object storage. The modules below are TLA+ specifications of its
core and of the algorithms around it, translated from `src/src/modules` and
`src/src/shared`, with TLC configurations and TLAPS proofs.

    tlc -workers 2 -config UnitsLedger.cfg MCUnitsLedger     # model-check a run
    tlapm UnitsLedgerProofs.tla                              # check the proofs

## 1. Inventory

| component | state it keeps | operations | interacts with |
|---|---|---|---|
| `billing` | `quota_usage`, `passes`, `wallets`, `credit_entries`, `quota_reservations`, `purchases` | reserve, refund, grant an offer; read balances | called by conversion (reserve, refund) and payment (grant) inside their transactions |
| `payment` | `payments`; the provider keeps its own transaction | initiate, replay, notification (webhook), reconciliation sweep | Campay over HTTP; billing |
| `conversion` | `conversions`, `conversion_segments`, `conversion_parts`, files and manifests, queues | launch, prepare, synthesise, assemble, fail, sweep | document (text), billing (quota), Polly, BullMQ |
| `document` | `documents`, `document_pages`, `document_ocr_pages`, source PDFs | request and confirm an upload (in one piece or several), extract, OCR, correct a page, review, purge | library (deletion), conversion (text), BullMQ |
| `document`, services | none: pure functions | tables, columns, margins, footnotes, page text, bookmarks and titles | the extractors (pdf.js, Tesseract), the pages of a document |
| `conversion`, services | the cache of voices | pronunciation, SSML segments, parts, joined MP3, timelines, cues, manifest | Polly, the storage, the pipeline |
| `library` | reading positions, bookmarks, outbox of file deletions | save a position, put or remove a bookmark, list, delete a document, purge the outbox | document, conversion |
| `identity` | users and sessions (better-auth) | sign in by OTP, sign out, delete the account, as its owner or as an operator | every module, by cascade |
| `notification` | log of OTP dispatches, the token of the SMS provider | send an OTP within limits, purge the log | identity, Orange, SES |
| `shared` | none of its own | configuration and factories, queue, unit of work, storage, cursors, error statuses | all |
| `health`, `bootstrap`, deployment | none | probes, wiring, infrastructure | all |

What is hard in each, and what makes it correct:

- **billing**. Several requests of one user at a time; refunds months after the
  debit; a payment confirmed several times. Every unit must be explained by a
  purchase, a reservation or a refund, no balance overdrawn, no pass overlapping
  another, no transaction waiting on another for ever.
- **payment**. A client that repeats its request, a provider whose answers are
  lost, notifications and sweeps that decide on a payment read before a network
  call. One demand on the phone per idempotency key, one offer per payment, a
  verdict that is the provider's, an end for every payment.
- **conversion**. A pipeline of queued jobs, retried, redelivered, cut by
  restarts, while the text is corrected or deleted. One charge per target, what is
  charged has been voiced, what is delivered is complete, and it ends.
- **document**. Uploads that are confirmed late or twice, a purge running beside
  them, extractions delivered twice, corrections of two pages at the same time.
- **texts**. What the algorithms make of a page no one has seen, of a word too
  long for a segment, of marks the voice did not send. No word is lost, repeated
  or moved before another, what is billed is what is read, a time is in its audio.
- **library**. Devices with their own clocks, requests that overlap or come late,
  rows that come and go between two pages of a listing. The last change wins, a
  position points to something that was delivered, a walk sees each row once.
- **identity, notification**. Codes asked for at once, counted before they are
  recorded; an account deleted while its contact signs up again.
- **boundaries**. An answer that is cut or not understood is neither success nor
  refusal, an environment that cannot serve does not start.

`PROJECT.json` lists each hazard at its line with the properties that cover it.

## 2. Modules

| module | what it models |
|---|---|
| `UnitAllocation` | the order of debit and refund over free units, pass and credits (`allocation.ts`, `units.vo.ts`) |
| `UnitsLedger` | billing: one action per committed transaction, the abstract specification |
| `UnitsLedgerLocks` | the statements and row locks of the same transactions, which implement `UnitsLedger` |
| `Payments` | the handlers of payment requests, notifications and sweeps, statement by statement, and the provider |
| `JobQueue` | jobs, attempts and redelivery as BullMQ does them; extended by the two modules below |
| `ConversionPipeline` | launches, the three kinds of jobs, the sweep, corrections and deletion of the document |
| `DocumentLifecycle` | one document: upload, confirmation, purge, extraction and OCR jobs, corrections, deletion and the outbox of its PDF |
| `Pronunciation`, `SsmlSegments` | what the voice says for each displayed word; sentences, segments within the size of the provider, listening parts |
| `PartDelivery` | the joined audio of a part, its timeline, cues, manifest and the extent that can be played |
| `PageLayout`, `TextCleaning`, `DocumentText` | tables and columns of a page; what is put aside and why; lines, page text and outline (each extends the one before) |
| `BookmarkStore`, `Bookmarks` | what the library promises of bookmarks, and the requests that implement it |
| `BookmarkAnchors` | the place a bookmark points to in a text that was corrected |
| `Library` | reading positions, the status of a book, listings read by a signed cursor |
| `SignIn` | codes behind their limits, sessions, deletion of accounts |
| `Uploads` | the parts of an upload, their assembly and confirmations sent again |
| `Configuration` | validation of the environment, the adapters the factories build of it, the status of each error |
| `Providers` | what is made of the answers of Mobile Money, the voices and their cache, OCR and the storage |
| `UnitsLedgerProofs`, `UnitsLedgerLocksProofs`, `PaymentsProofs`, `ConversionPipelineProofs`, `DocumentLifecycleProofs` | theorems about the core; the first one begins with `UnitAllocation` |
| `ComponentsProofs` | theorems about bookmarks, uploads, sign-in and accounts, positions and listings of the library |
| `ContractsProofs` | the contracts of algorithms for any input: anchors, segments and parts, times of words, manifest, answers of the services, environment |
| `FiniteSums` | lemmas on sums over finite sets, on finite orders, and on what is computed from one index to the next |
| `MC...` | finite values for TLC; `MCComponents` is the sum of section 3 |

An operator after a comment `Fault:` is a mistake one could make in the definition
that follows. No specification uses it: put in the place of that definition it
breaks the property `PROJECT.json` names, which shows that the property has force.

### UnitsLedger and UnitsLedgerLocks

`Reserve`, `Refund`, `Grant` are the three use cases that write
(`reserve-quota`, `refund-quota`, `grant-offer`), `DeleteAccount` what the
cascade of the schema does to their tables: purchases stay, without a user.
Instants are naturals and `PeriodOf` gives their month. A refund goes to the
period and the pass of the reservation, wherever the clock is. `at` is the
instant a handler read the clock, which may be earlier than the instant its
transaction commits.

`UnitsLedgerLocks` runs transactions `Tx` on several connections. `Lock` waits
while another transaction holds one of the rows, and a row stays locked to the
commit. `ImplementsLedger` is the refinement: with the identity mapping on the
tables every step of the locking specification is a step of `UnitsLedger` or a
stutter, so the atomic actions are justified. `NeverAllWaiting` says that the
order of locks admits no deadlock. Nested units of work join the ambient
transaction (`drizzle-unit-of-work.ts`), which is why a refund commits with the
failure of its conversion, and a grant with the success of its payment.

### Payments

`request[c]` is where a handler of `POST /v1/payments` is, `task[w]` where a
notification or sweep is, with the snapshot `snap` of the payment it decides on
and the transaction `read` at the provider. `Conclude` and `Succeed` write only
if the status is still the one decided on (`UPDATE ... WHERE status`). `Collect`
may lose its answer; `RequestDies` and `TaskDies` end a handler between two
steps. The clock counts windows of minutes to hours as small naturals that keep
their order. External: the provider's `transaction` and `ProviderConcludes`.

A `reference` is the payment whose demand a transaction of the provider is, that is
the external reference the transaction carries. A notification names a transaction and
a payment, any two of them, because its signature binds neither: `Designated` looks for
the holder of the reference first, as the handler does, and `Decision` compares what
was read with the payment before anything is concluded or attached (`settlement.ts:38`).
`owed` holds the conclusions the provider still has to notify: it stops once a handler
that read the conclusion has answered 200, whatever came of it.

### JobQueue

`run[w]` is where a worker is in its job, `jobs` what Redis knows. A job whose
identifier is known is not added again, even when it has failed for good, as
`bullmq-job-queue.adapter.ts` keeps failed jobs. A stalled job is given again
while its first run goes on (`Again`); a restart loses every handler and releases
the jobs (`Released`).

### ConversionPipeline

The text has revisions; `SegmentPlan` gives the segments of
each, so what the SSML segmenter computes is a constant. Voices and targets: one
document and one voice, so that a target is a revision.

Left out: delays of the sweep (it may look at a conversion of any age, which only
adds behaviours), audio bytes, timelines, the TTS cache (a hit and a call to the
engine end in the same step `CompleteSegment`).

### DocumentLifecycle

`doc` is the row of the document (without a row its status is `none`, or
`deleted`), `pages` its text, `ocrRows` the pages recognised so far, `source`
whether the PDF is in the object storage, `upload` the signed URL or the multipart
upload, `outbox` the row of `pending_file_deletions`. `confirm`, `edit` and `purge` say
where each handler is, `hook` where the final failure of a worker is, `run` and
`jobs` come from `JobQueue`. Every statement, call to the storage and enqueueing
of the use cases is a step. What a handler read before and uses after is in its
record: `run[w].read` is the set `done` of `recognize-ocr-pages.use-case.ts:83`,
`edit[e].total` the total its statement has taken before it waits for the row.

`file` is what the client sends: not a PDF, a PDF without use, with text, or a
scan. Assumed of the client: it sends one file, while the document awaits it. The
multipart plan is abstracted to "every part has arrived" (`sent`). Delays are left
out, except that a signed URL has expired when the purge, which looks at rows a
day old, finds the document. The pages a job extracts are all the pages of the PDF.
Failures of the storage and the database are failed attempts (`AttemptFails`).

### Texts: Pronunciation, SsmlSegments, PageLayout, TextCleaning, DocumentText

Pure functions, one operator per function of the source, with its contract at the
end of the module. A word, a line or a fragment is a record of what the rules tell
apart; what a regular expression says of it is one of its attributes (`stem`, `look`,
`print`, `keyword`). Words carry their place, so "nothing lost, nothing twice, in
order" is an equation. Ratios of the source are percentages, sizes and positions
integers. `RulesKeepWords`, `SegmentsAreSound`, `PartsCoverSegments`,
`LayoutKeepsWords`, `CleaningKeepsText`, `TitlesAreReadOnce`, `AcceptedTextIsRead`,
`AssemblyKeepsLetters`, `LinesKeepFragments`, `OutlineIsSound`, `TimelineFitsAudio`,
`ManifestAgreesWithOverview` and `AnchorIsFound` are those contracts; `TextIsKept`
is all of them.

In `BookmarkAnchors` a word longer than an excerpt has in `cut` what is left of its beginning:
that is what is kept with the bookmark, and what is looked for later.

### Bookmarks and BookmarkStore

`requests[d]` is where the handler of the device `d` is: the row is looked for, the
anchor and the number of bookmarks are checked, the row is inserted (`ON CONFLICT DO
NOTHING`) or changed by one conditional `UPDATE`. Between two of these steps another
device, a correction or the deletion of the document may come. `BookmarkStore`
knows only `shown`, the change a bookmark shows, and `received`, those that reached it
since its creation. `ImplementsStore` says that with `shown` read off the row
(`ShownChange`) every step of `Bookmarks` is a step of the store or a stutter. A
deletion that arrives before its creation reaches no row and is lost: the store says
so too (`Receive` needs an edit to create).

### Library

`ReadingNext` delivers the parts of the conversions of a book while players save
positions. The extent that was playable is read in one step, the position written
in another. The audio position of a player is any time of `AudioTime`, whatever the word it
sends. `delivered(k)` in `ReadingIsTrue` counts the parts by themselves, so the
extent of the code is compared with something else. A listing is a set of rows put in the order
of its query, of which a page is the first ones behind the cursor. `WalkNext` reads a listing page after page while rows
are created, imported with an older date and deleted; `WalkSeesEachOnce` says that a row
that was there from the start to the end, past the cursor the walk started from, is seen
exactly once. A signed cursor does not say which listing gave it. The listings by date read
its key with `new Date()`, so they take the cursor of any other one, and even of the pages of
a text when `new Date()` makes a date of the page number (`DateOfPage`: "3" is a day of 2001,
"13" is none); such a walk starts from that date. Refused are cursors that were altered, have
another version or no date in them, and for the pages those of another document or without a
page number.

### SignIn, Uploads

`SignIn` counts the dispatches of a destination (and of the day for SMS), then records
one: handlers in between exceed a limit by at most the requests handled at once, which
is what `DispatchIsBounded` states, not the limit itself. The token of the provider is
asked for once and dropped on a 401. `AccountsAreOwned` relates sessions to accounts
across a deletion and a new sign-up with the same contact. In `Uploads` a part may be
sent twice, also during the assembly, whose answer may be lost; `UploadIsWhole` says
that a file that is `uploaded` is the file that was declared.

### Configuration, Providers

An environment gives each variable a value among `set`, `blank`, `short`, `absent` or
those the rules name. `StartsComplete` compares `validateEnv` with what the factories
do with the environment: one that passes builds every adapter, and in production none
of the simulated ones. `Providers` reads each answer (cut, status, body, error) as the
client does and says what must follow: a demand that may have been taken is not called
refused, a notification without a valid signature is not believed, an audio from the
cache is whole, a page of OCR is not read before it is written, a file is missing only
when the storage says so.

## 3. Runs

| run | module, cfg | expected | shows |
|---|---|---|---|
| `units_ledger` | `MCUnitsLedger`, `UnitsLedger.cfg` | pass | Two users, two conversions and two purchases over two months: every unit of every balance is explained by a purchase, a reservation or a refund, and a purchase gives its offer in the step that records it and nothing later. Properties: `TypeOK`, `BalancesMatchHistory`, `JournalExplainsBalance`, `NeverOverdrawn`, `PassesNeverOverlap`, `AllOrNothing`, `RefundKeepsEarliestSources`, `GrantedForever`, `RefundedOnce`. |
| `units_ledger_locks` | `MCUnitsLedgerLocks`, `UnitsLedgerLocks.cfg` | pass | Two connections run reserve, refund and grant statement by statement on one account: the row locks make each transaction an atomic action of UnitsLedger, without deadlock. Properties: `ReadsStayCurrent`, `NeverAllWaiting`, `ImplementsLedger`. |
| `payments` | `MCPayments`, `Payments.cfg` | pass | A request sent twice at the same time and a refused one, a notification, a sweep, the provider and one crash, interleaved at each statement. Properties: `TypeOK`, `OfferGrantedOnce`, `VerdictIsProviders`, `OneDemandPerKey`, `Lifecycle`, `ExpiryIsPatient`. |
| `payments_liveness` | `MCPayments`, `PaymentsLiveness.cfg` | pass | With a provider that notifies until it gets a 200 and no longer, no payment stays pending, and a debited customer is served, unless the sweep gives the payment up while its notification is being handled. Properties: `PendingEnds`, `ServedUnlessOvertaken`. |
| `payments_overtaken` | `MCPayments`, `PaymentsOvertaken.cfg` | violation | The sweep gives a payment up while its notification is being handled: the notification ends as raced, is answered 200, and the debited customer is never served. Properties: `DebitedIsServed`. |
| `conversion` | `MCConversionPipeline`, `ConversionPipeline.cfg` | pass | The life of a conversion of two segments in two parts with two synthesis workers and one fault anywhere: what is charged is voiced, what is delivered is complete. And two clients that launch a text while it is corrected or deleted: one charge per target, segments of one revision. Properties: `TypeOK`, `FailedIsRefunded`, `DeliveredIsComplete`, `OneChargePerTarget`, `OneRevisionRead`, `OnlyForward`. |
| `conversion_liveness` | `MCConversionPipeline`, `ConversionLiveness.cfg` | pass | With two faults and final failures that are recorded, every launched conversion gets through its synthesis or fails. Properties: `StartedEnds`. |
| `conversion_stuck` | `MCConversionPipeline`, `ConversionStuck.cfg` | violation | The last part is assembled between the scheduling of its assembly and the end of the synthesis: nobody writes the manifest any more. Properties: `SynthesizedIsDelivered`. |
| `document` | `MCDocumentLifecycle`, `DocumentLifecycle.cfg` | pass | An upload of one piece or of several, confirmed again and again beside the purge, then extracted natively or by two batches of OCR, corrected and deleted, with one fault anywhere and final failures that may be swallowed. Properties: `TypeOK`, `SourceIsKept`, `TextIsWhole`, `ExtractedOnce`, `ConfirmedIsNotPurged`. |
| `document_liveness` | `MCDocumentLifecycle`, `DocumentLiveness.cfg` | pass | With one fault and final failures that are recorded, what was confirmed is extracted or fails, and the PDF is deleted. Properties: `ExtractionEnds`, `SourceIsDeleted`. |
| `components` | `MCComponents`, `Components.cfg` | pass | The components around the core, each on its own in a sum of their states: the algorithms from a PDF to text and from text to timed audio on bounded inputs, the boundaries with the environment and the providers, the library written from several devices and read by cursors, sign-in codes and accounts, uploads by parts; bookmarks implement their abstract store. Properties: `TextIsKept`, `BoundariesHold`, `LibraryIsTrue`, `SignInIsGuarded`, `UploadIsWhole`, `ImplementsStore`. |
| `document_corrections` | `MCDocumentLifecycle`, `DocumentCorrections.cfg` | violation | Two pages corrected at the same time: neither total counts the other correction. Properties: `CharCountIsSum`. |


The run `components` is a sum. `kind`, fixed by the initial state, says which component
moves, and the others keep their initial values: the states of the components add up
instead of multiplying, and one run checks components that share no state. For a kind
of text or answer the variable `of` is a sequence that grows by one element of an
alphabet (`TextAlphabet`, `AnswerAlphabet`) up to a length, and the contract is checked on each
sequence: it is a check on every input up to that length. The alphabets hold one element
per case of the code, and the lengths are enough for the rules to meet: three words for a rule that
looks at its two neighbours, five lines for two columns with a title, four pages for a
series that stops, a table of two rows with three columns (the constants of the source
are scaled down with them: see `Components.cfg` and the comments of the constants). An environment
is a complete one (production) or a bare one (development) with up to three variables changed,
enough to reach each rule, and each factory, from one of the two.

Bounds, and why they are enough. Two users show that nothing leaks from one to
the other; two reservations and two purchases give every pair of concurrent
operations; two months with two instants each put a refund in a later month and
a pass across months. Two connections give every pair of transactions, and a
third adds no lock. In `Payments` two payments reach
the limits of attempts, a batch of one makes the sweep leave payments to the next, and
`MaxFaults` of one lets a crash or an unreachable provider fall anywhere. In the
pipeline two segments in two parts are the least for which parts finish in
either order, two workers of synthesis the least for a race on the last segment;
one attempt of a synthesis makes its failure final, two of a preparation give a
retry; a text is corrected at most twice. The run `conversion` answers two questions
and `MCBounds`, a state constraint, keeps them from multiplying: one launch of the last
revision, with its two segments, two parts, two synthesis workers and a fault anywhere;
and two launches of the one-segment revisions before it, which race with each other and
with a correction or a deletion, with one synthesis worker busy and without a fault. A launch repeated
in the first part looks at the conversion only while it is queued. In `document` two pages in two batches
are the least for which a batch is lost between others; each queue has one worker, as
in the code (`EXTRACTION_CONCURRENCY`, `OCR_CONCURRENCY`), so a repeated job follows
its first run; one confirmation is in course at a time and is repeated at will; one
attempt of OCR makes its failure final, two of an extraction give a retry. The liveness
run has one page, because the second one multiplies its states and adds only another
lost batch. In `Bookmarks` two devices with two requests each give an edit, a deletion and a
late request on one row; two documents give the conflict of an identifier. In `Library` two conversions of
two parts are the least for which the newest is not the most complete; four rows and pages of two give a
page that is exactly full; the pages 3, 13 and 32 stand for those whose number is an old date, no date and
a later date than any row. Among the words of a bookmark one is longer than the excerpt, and one longer word
keeps of itself what is another word. In `SignIn` two handlers give the race of a count, five hours pass the longest of
its delays. In `Uploads` six bytes in parts of two give a first, a middle and a last part. The bounds are
`MaxTime`, `LastRequest`, `MaxFaults`, `SweepKey`, `MaxRevision`, `MaxRequests`, `MaxHour`, `MaxCodes`,
`MaxAccounts`, `MaxFileSize`, `MCBounds` and the finite sets.

Fairness. `Payments`: the clock advances (`SF(Tick)`), handlers that started go
on, the sweep runs on its schedule; `NotificationFairness` is the provider
repeating a notification until it gets a 200, and no longer. It is what
`ServedUnlessOvertaken` rests on, since an expired payment is read again by nothing else,
and it is not enough for `DebitedIsServed` (section 4). `ConversionPipeline`: workers run and take what
is queued, the sweep passes over each conversion again and again.
`DocumentLifecycle`: the workers run, the two sweeps come back every five minutes and
the outbox every minute; nobody must confirm, edit or delete. A retry of a batch
needs strong fairness, as it can only be added while none is queued.
`conversion_liveness` and `document_liveness` assume `HooksAreSafe`: a final failure
is always recorded.
The code only logs an error of that hook (`job-worker.factory.ts:67`), so this is
an assumption on the database, not something the code ensures; without it a
conversion in `preparing`, or a native extraction in `extracting`, can stay there.
`SourceIsDeleted` excepts a document one of whose jobs has failed for good: if what
failed was the deletion of the PDF, nothing deletes it later.

`CHECK_DEADLOCK FALSE` is said where the bounds make the system stop: all
identifiers used, the clock at its end. `units_ledger_locks` checks deadlock.

## 4. Where code and documents differ

- `conversion_stuck`. The assembly of the last part may run between
  `scheduleAssembly` and `completeIfAllSegmentsSynthesized`
  (`synthesize-segment.use-case.ts:119-122`). It completes its part, finds the
  conversion not yet `synthesized` and leaves; nothing calls `finalize` again and
  the sweep skips a conversion without pending segments or parts (line 56). The
  conversion stays `synthesized`, charged and never `ready`. The same happens
  when writing the manifest fails at every attempt.
- `document_corrections`. `updatePageText` takes the total of the document in a
  subselect. Two corrections of two pages take theirs before either commits, and
  the total, on which conversions are charged, misses one of them.

- `payments_overtaken`. The sweep read the transaction as pending and gives the payment up while a
  notification, which read it as successful, is about to write. The notification is `raced`
  (`payment-settler.service.ts:171`), answered 200 and not repeated: the customer was debited, and nothing
  reads an expired payment again. `ServedUnlessOvertaken` says that there is no other way to lose an offer
  as long as the provider notifies until it gets a 200.

Seen while modelling, without a run of their own:

- a launch can commit between the two statements of a deletion
  (`delete-document.use-case.ts:47`, `DeleteDocument` of `ConversionPipeline`): the conversion
  disappears while it runs and is not refunded, although ADR-0016:39 refuses such a deletion;
- two payment requests with two keys can both be in flight, the OCR pages of a month
  and the bookmarks of a document can pass their limit: each is counted, then written;
- a wrong amount confirmed for an expired payment takes it to `amount_mismatch`
  (`settlement.ts:56-60`); ADR-0021, 5 (lines 103-105) and `payment-status.vo.ts:5-6` name
  `expired -> succeeded` as the only exception. Nothing is granted, the documents lack a case,
  which `Follows` of `Payments` has;
- the sweep takes its delay from the payment it listed, and its `UPDATE` looks at the status only
  (`reconcile-pending-payments.use-case.ts:73`): a reference attached in between does not win the
  payment the 24 hours of ADR-0021, 9 (lines 131-133). `ExpiryIsPatient` has 24 hours in every other case;
- the excerpt of a word of more than 120 characters is its beginning (`bookmark-anchor.ts:24`), which
  is compared with whole words: in a page nobody corrected such a bookmark is not found and is
  to be looked at again, against ADR-0028, 4. `AnchorIsFound` excepts no other;
- a payment given up by the sweep whose notification is lost for good is never read again;
- a cursor of one listing is taken by the others that are ordered by date;
- a confirmation repeated after the extraction is answered 422 although its handler
  is called idempotent;
- a deletion of a bookmark that arrives before its creation is lost;
- the excerpt of a bookmark made of punctuation only matches past the end of a page;
- `lineOf` (`layout.ts:181`) drops `vertical` from the part of a line it makes;
- an S3 endpoint without keys passes the validation of the environment;
- a grouped number can be larger than any segment: it is said as one word;
- `progressPercent` (`library-status.ts:25`) multiplies a quotient of floating-point numbers:
  `Math.floor((29 / 100) * 100)` is 28, so a progress can be shown one percent too low. The model
  divides exactly; there as in the code, the progress of a long book is 0 after its first words.

## 5. Proofs

TLC finds out whether a formula holds on a small instance; the theorems say it for any users,
documents, clients, workers, connections, delays, limits and faults. Each state invariant is
proved from an inductive one (`Init => IInv`, `IInv /\ [Next]_vars => IInv'`), which TLC has
checked first. The proofs are laid out alike: what a step may do to the tables is stated once
(`ReserveEffect`, `LedgerMoves`, `TablesGrow`, `DocGrows`, ...), each action is shown to do one of
these things, and each part of the invariant is preserved by each of them.

### Assumptions

Each is named, stands in the module that declares the constants, and TLC evaluates it in a run
(those of `SsmlSegments`, `PartDelivery`, `Bookmarks`, `BookmarkAnchors`, `Library`, `SignIn` and
`Uploads` in `components`).

- `LedgerAssumption`: limits and instants are naturals, offers have units and passes a length,
  `NoPass` and `Detached` are not names of the tables. `LocksAssumption`: a demand tried is within
  the limit, which is checked before any transaction.
- `PaymentsAssumption`: limits and delays are naturals, a batch of the sweep is not empty, a worker
  is of one kind, and `NoReference` is no reference.
- `PipelineAssumption`: the first text has revision 1, each revision has a finite number of
  segments, and each segment a part. `DocumentAssumption`: a document has a page and a batch too,
  a job an attempt.
- `BookmarksAssumption`: an absent row is neither a row nor a change. `UploadsAssumption`: a part
  has more than one byte.
- `SignInAssumption`: at least one code is allowed, records are kept longer than the window they
  are counted in (`RetentionLength`), and finitely many requests are handled at once for finitely
  many phones (which the sums need).

- `LibraryAssumption`: finitely many conversions and listed rows, which have numbers; parts, words
  and pages are not empty; what stands for "no row", "not found" or another document is none of
  the rows, overviews or cursors; a page number is read as an instant or as no date (`DateOfPage`).
- `SegmentAssumption`: sizes are naturals, targets of parts are positive, numbers have a base of
  two or more. That the frame or a word fits in a segment is not assumed: `Oversized` names the words
  that do not. `AnchorAssumption`: an excerpt has a word. `DeliveryAssumption`: a missing time is no
  number, and a frame lasts a whole, positive number of milliseconds (24 at the 24 kHz the adapter asks for:
  `mp3DurationMs` rounds nothing then, and the durations of the segments add up to that of the part).

### Inductive invariants, and why they are needed

- `UnitAllocation`. No state: `TakenFits`, `CoversWhenEnough`, `SplitRefundFits` and the like say
  what `allocate` and `splitRefund` do for every quantity.
- `UnitsLedger`. `IInv == TypeOK /\ NeverOverdrawn /\ PassesNeverOverlap /\ AllOrNothing /\
  RefundBounded`. `RefundKeepsEarliestSources` needs `AllOrNothing` (what was taken is the price)
  and `RefundBounded` (what was refunded is at most what was reserved), and then follows from the
  lemmas on `SplitRefund`. For the sums, `History` adds that the tables are finite, that passes
  have a purchase, and that reservations keep their pass: a step changes the sum of a balance by
  what it changes in one row (`FiniteSums!SumMoved`, `SumAdded`).
- `UnitsLedgerLocks`. `LocksIInv == TypeOK /\ History /\ users = User /\ LocksOK`. `LocksOK` says
  for each statement which rows the connection holds and that what it has read of them is what
  they hold, and that no row is held twice. `LedgerMoves(rows)` is what a commit may do: change
  the rows it holds, and add a pass only while holding the wallet of its user. A pass is found by
  its dates, which nobody changes, and a new pass starts after the running one, so `ActivePass` is
  found again. The refinement follows: at its commit a transaction decides on the balances
  `UnitsLedger` has. For deadlock, `HeldInOrder` gives rows a rank (reservation, usage, pass,
  wallet) and statements a stage: rows held are below the stage. A connection that cannot go on
  waits for one of a greater stage, so that one of the greatest stage goes on. `CanGoOn` is what
  `ENABLED Step(t)` amounts to, written out because the prover does not reason about `ENABLED`.
- `Payments`. Handlers decide on a snapshot read earlier. `TasksKnow` says what stays true of it
  (the creation of the payment, a conclusion of the provider), `RequestsKnow` and
  `DemandsAreRecorded` that a demand at the provider belongs to a recorded payment,
  `VerdictsAreFinal` ties the status to the transaction of the provider, `KeysAreUnique` is the
  unique index. A conclusion a task has read is final, of whichever transaction
  (`TasksKnow`); `Decision` makes it an anomaly unless the transaction is the payment's own.
  `OfferGrantedOnce` is in the invariant: each writer checks the status it decided on again in
  its `UPDATE`, and the grant commits with it.
- `ConversionPipeline`. `RowsOK` and `ChargesOK` relate a conversion, its segments and parts, its
  reservation and what was refunded; `JobsOK` and `RunsOK` say what a queued or running job may
  rely on; `OneActive` is the partial unique index. `OnlyForward` needs no invariant but types and
  these rows: a late job finds its guard false.
- `DocumentLifecycle`. What a run knows depends on its step (`OcrKnows`: the batch it listed is
  still recognised), a confirmation that is about to mark a document has seen its PDF
  (`ConfirmOK`), the purge holds a row that is gone (`FilesOK`); `SourceOK` and `RowsOK` are then
  the promise.
- `Bookmarks`. `ShowsLatest` says that a row shows a latest one, by its time, of the changes it
  received, `received` being its history: with the mapping `ShownChange` each statement is a step
  of `BookmarkStore` or a stutter.
- `Uploads`. `BeforeRequest` and `AfterRequest` relate the ticket, the parts the provider holds
  and the object: an object assembled of received parts has the planned sizes, and those add up to
  the declared size.
- `SignIn`. Counts and records are separate steps. `Recorded` says that what the provider took,
  with what is being sent, was recorded; `HourBounded` and `DayBounded` bound the messages taken
  and the requests admitted but not sent yet by the limit less one, plus the requests in course.
  None of them is inductive without the count of those in between: the limit is passed exactly by
  the requests that counted before the others recorded. `AccountsIInv` does it for sessions.

- `Library`. A position is checked against an overview that may be old when it is written.
  `ReadingIInv` therefore says of saved and pending positions that they lie in the prefix that is
  delivered: the prefix grows, or all conversions leave with the document. What a listing shows
  (`ShownOK`) was read before: a conversion seen "ready" had all its words, and one seen "failed" means
  that every conversion up to it has failed (`FailedUpTo`), or that all are deleted. For the walk,
  `Begun` in `WalkIInv` says that rows seen are behind the cursor or deleted, and that rows owed are
  seen or ahead of it; `Own` is a cursor the listing accepts, whoever gave it. The cursor moves
  strictly in the order of the listing, which is total because rows of one instant are told apart by their identifier.

Operators without state are proved by what they have computed so far, as loops are:

- `SegmentsAreSound`. `Filling(s, said, ends)` is the invariant of the loop of `buildSsmlSegments`:
  the closed segments and the open one are the words read so far, the count of bytes is the
  size of the open one, each is accepted or a single word too large, and each ends in `MayEnd`, the
  places outside of the sentences that fit in a segment. `AddSentencePreserves` excludes that `fit`
  closes a segment inside of such a sentence. `Splitting` does the same for the sentences, `Planning` for
  the parts.
- `AnchorIsFound`, `ManifestAgreesWithOverview`. What a `CHOOSE` finds exists (a nearest place, a
  longest prefix without a hole) and is the only one.
- `WordsFitTheirSegment`. The times of a segment are put in order by a running maximum, so each is at
  least the one before; those past the end of the audio are brought back to it.
- `TimelineFitsAudio`. `InPlace(words, segments, chunks, k)` is the invariant of the joining: the words
  of the first k segments are all there, each in the audio of one of these segments, none before the
  one that precedes it, and none after what is heard of the k segments, so that the next segment can
  follow. The numbers of the words of two segments are apart (`NumbersApart`), so the segment of a word
  is the one it is spoken in.
- `SpeechIsWhole`. `KeptOf(kept, lines, i, W)` is the invariant of the loop that reads the marks: those
  kept are marks of words, and every mark of a word among the first i lines is kept. `StoredTimes` looks
  at each place where the writing of the cache may stop.
- `StartsComplete`. By the rule that refuses each environment that would not do.

Sums are folds of the community modules. `FiniteSums` proves of them what is needed (an element
added, removed or changed, a sum over a larger set, of smaller terms), by looking at a smallest
counterexample: `LeastNatural` comes from the well-founded order on the naturals, as the induction
theorems of the library take a predicate, which the prover cannot instantiate.
In the same way `RecursionExists` and `IterationExists` show that a function computed from each index
to the next exists, `BoundReached` that an invariant of it holds up to its bound, and `SortExists` that
a finite set can be listed in a total order.

The proofs have corrected the models: `CASE` arms that overlap are a free choice in TLA+ but were
an order in the code, and are `IF ... ELSE` now (`BeginSynthesis`, `BeginAssembly`,
`BeginExtraction`, `BeginOcr`, `deriveLibraryStatus`); assumptions that were missing have been
stated (`Revision`, `RetentionLength`); the progress of a book is 0 to 100, not 1 to
100. Some operators are written in another way with the same values, because the prover sees
nothing in `SortSeq`, in folds of a `LAMBDA`, in `@@` and in `^`: an order is chosen (`CHOOSE`), a sum is
`SumFunction`, a loop a recursive function.

### Theorems

| theorem | establishes |
|---|---|
| `UnitsLedgerProofs!TakenFits` | allocate takes from each source no more than it holds and no more than is asked. |
| `UnitsLedgerProofs!TakenInOrder` | A later source is debited only once the earlier ones are empty. |
| `UnitsLedgerProofs!CoversWhenEnough` | A demand is covered exactly when the usable units together reach it, and then exactly it is taken. |
| `UnitsLedgerProofs!SplitRefundFits` | splitRefund gives back to each source at most what was taken from it, and in total the refund or all that was taken. |
| `UnitsLedgerProofs!RefundLeavesFirstSources` | What stays charged after a refund lies in the earliest sources. |
| `UnitsLedgerProofs!TypeOKInvariant` | Type correctness of the ledger, for any users, offers, limits and calendar. |
| `UnitsLedgerProofs!NeverOverdrawnInvariant` | No source ever holds less than nothing, nor gives more than it has. |
| `UnitsLedgerProofs!PassesNeverOverlapInvariant` | The passes of a user follow one another without overlap. |
| `UnitsLedgerProofs!AllOrNothingInvariant` | A reservation takes exactly its cost, never of free units for a natural voice. |
| `UnitsLedgerProofs!RefundKeepsEarliestSourcesInvariant` | After a refund, what stays charged lies in the earliest sources. |
| `UnitsLedgerProofs!RefundedOnceHolds` | A reservation is refunded at most once and never rewritten otherwise. |
| `UnitsLedgerProofs!GrantedForeverHolds` | A recorded purchase stays, its account deleted or not, and gives nothing again: a step adds to the wallet, its entries and the passes of a user at most what a refund returns and what a purchase recorded in that very step grants. |
| `UnitsLedgerProofs!BalancesMatchHistoryInvariant` | Every balance is what was granted, less what was reserved, plus what was refunded: the sums over all reservations and purchases agree with the rows. |
| `UnitsLedgerProofs!JournalExplainsBalanceInvariant` | The journal of a wallet adds up to its balance, and none of its prefixes is negative. |
| `UnitsLedgerLocksProofs!ReadsStayCurrentInvariant` | What a transaction has read under its locks is what the tables hold when it writes, for any number of connections. |
| `UnitsLedgerLocksProofs!SomeoneGoesOnInvariant` | No deadlock among any number of connections: while one is in a transaction, the next statement of a busy one finds its rows free. |
| `UnitsLedgerLocksProofs!ImplementsLedgerHolds` | The transactions run statement by statement implement the atomic ledger: every step is a step of UnitsLedger or a stutter. |
| `PaymentsProofs!TypeOKInvariant` | Type correctness of the payments, for any requests, workers and offers. |
| `PaymentsProofs!OfferGrantedOnceInvariant` | A payment is succeeded exactly when its offer was granted, and then once, whatever notifications, sweeps and crashes interleave on stale snapshots. |
| `PaymentsProofs!VerdictIsProvidersInvariant` | A payment is concluded as its own transaction at the provider says, whatever transaction a notification names: no offer without the exact amount, no failure of a customer who was debited, no reference of another payment. |
| `PaymentsProofs!OneDemandPerKeyInvariant` | One idempotency key puts at most one demand on a phone, however often and concurrently it is sent. |
| `PaymentsProofs!LifecycleHolds` | A conclusion is never reopened, but that of a payment the sweep gave up, which the provider may still conclude, for the right amount or not: the code has one transition more than ADR-0021, 5. |
| `PaymentsProofs!ExpiryIsPatientHolds` | A pending payment is given up only after 24 hours, however old the snapshot, or after 15 minutes by a sweep that read it without a reference. |
| `ConversionPipelineProofs!TypeOKInvariant` | Type correctness of the pipeline, for any texts, segments, workers and retries. |
| `ConversionPipelineProofs!FailedIsRefundedInvariant` | Only a failed conversion gives something back, never more than was charged, and what stays charged is covered by audio. |
| `ConversionPipelineProofs!DeliveredIsCompleteInvariant` | A part that is delivered has all of its segments, a conversion that is ready all of its parts. |
| `ConversionPipelineProofs!OneChargePerTargetInvariant` | Racing launches of one target leave one active conversion; every reservation has its conversion while the document is there. |
| `ConversionPipelineProofs!OneRevisionReadInvariant` | The segments of a conversion come from one revision of the text, whatever is corrected meanwhile. |
| `ConversionPipelineProofs!OnlyForwardHolds` | A conversion, its voiced segments and its assembled parts only go forward, whatever job is repeated or comes late. |
| `DocumentLifecycleProofs!TypeOKInvariant` | Type correctness of a document, its jobs and its file. |
| `DocumentLifecycleProofs!SourceIsKeptInvariant` | From its confirmation to the end of its extraction a document has its PDF, beside purges, repeated confirmations and redelivered jobs. |
| `DocumentLifecycleProofs!TextIsWholeInvariant` | A text that is ready has every page of the PDF; before that and after a failure there is none. |
| `DocumentLifecycleProofs!ExtractedOnceHolds` | A document only goes forward: its text is extracted once, then only corrected, with a new revision each time. |
| `DocumentLifecycleProofs!ConfirmedIsNotPurgedHolds` | A confirmed document leaves only with the deletion of its PDF done or recorded: the purge loses against a confirmation. |
| `ComponentsProofs!ImplementsStoreHolds` | The requests on bookmarks implement the abstract store for any number of devices: the latest change that reached a row is the one it shows. |
| `ComponentsProofs!UploadIsWholeInvariant` | An uploaded file is a PDF of the declared size, assembled from all its parts, whatever confirmations overlap. |
| `ComponentsProofs!SignInIsGuardedInvariant` | Codes pass their limits by at most the other requests handled at once, for any number of requests, destinations and limits; sessions open existing accounts and accounts are deleted by their owners. |
| `ComponentsProofs!LibraryIsTrueInvariant` | Whatever is delivered, deleted or saved between two reads, a saved position can be played and a book is shown as what it is; a client that reads a listing, from its start or from a cursor it held of any listing, sees once each row past that cursor that stays, for any number of conversions, parts, devices and rows. |
| `ContractsProofs!SegmentsAreSoundHolds` | Every word of any text is sent once and in order, in segments that are not empty and that the provider accepts (a word too large alone excepted); a sentence is cut only when it fits in no segment. |
| `ContractsProofs!PartsCoverSegmentsHolds` | The listening parts of any text follow each other over all its segments, and each but the last closes as soon as it reaches its target. |
| `ContractsProofs!WordsFitTheirSegment` | The words of any segment are timed in order inside its audio, each ending where the next begins, whatever marks the provider left out. |
| `ContractsProofs!TimelineFitsAudioHolds` | For any number of segments, marks and frames, the words of a joined part are all there, in order, each in the audio of its own segment as it is really joined, and no cue is empty. |
| `ContractsProofs!ManifestAgreesWithOverviewHolds` | For any parts, the manifest and the overview agree on what is ready, where each part starts and where what can be played ends. |
| `ContractsProofs!AnchorIsFoundHolds` | A bookmark of a page that changes goes to the occurrence of its kept words nearest to where it was, and is said lost only when the page no longer has them; a page that did not change shows it where it was put, unless its first word was too long to be kept whole: for every two pages. |
| `ContractsProofs!SpeechIsWholeHolds` | For any stream of marks, answers and cached files: a conversion fails for good only on a refusal of the provider; what is kept, or read wherever its writing stopped, has its audio and ends after its last mark, and every marked word has a time. |
| `ContractsProofs!FakeIsWholeHolds` | The audio of the fake engine lasts beyond its last mark, for any number of words, pace and frame. |
| `ContractsProofs!PagesAreWholeHolds` | A batch of a scan is given whole and in order or done again, whatever was rendered or killed. |
| `ContractsProofs!NotificationsAreSignedHolds` | A payment notification that is taken was signed with our key, as announced, and in its time. |
| `ContractsProofs!DemandsAreUnderstoodHolds` | A demand that was taken is never declared refused, one declared taken was, and a verdict is the provider's. |
| `ContractsProofs!StartsCompleteHolds` | Any environment the validation accepts gives a server that can serve, without anything simulated in production. |

### Only model-checked

- All liveness (`PendingEnds`, `ServedUnlessOvertaken`, `StartedEnds`, `ExtractionEnds`,
  `SourceIsDeleted`): it needs fairness and `ENABLED`, which are out of the prover's reach.
- `NeverAllWaiting` is stated with `ENABLED`; `SomeoneGoesOn` is proved in its place, for any
  number of connections.
- The rest of `TextIsKept`. Proved for any input: its contracts of tokens (`SegmentsAreSound`,
  `PartsCoverSegments`), of timed segments (`TimelineFitsAudio`), of manifests and of anchors. Left to
  TLC: the contracts of pages, lines and pronunciation (`RulesKeepWords`, `LayoutKeepsWords`,
  `CleaningKeepsText`, ...), which are folds with a `LAMBDA` and `SelectSeq`.
- The rest of `BoundariesHold`. `StartsComplete`, `SpeechIsWhole`, `FakeIsWhole`, `PagesAreWhole`,
  `NotificationsAreSigned` and `DemandsAreUnderstood` are proved; the status of each error is a finite
  table, which TLC has seen in full, `MissingIsSure` follows from what the storage means by its
  errors, and the memory of the fake provider (`FakeRemembers`) is a fold of `@@`.
- The three runs that expect a violation.

## 6. Not modelled, and the plan

Modelled so far: billing, payment, conversion, the lifecycle of a document (first
stage); the texts, the library, sign-in, uploads and the boundaries (second stage).

Not modelled:

- `health`: probes without state;
- in `shared`, the rate limiter (a library with its counters in Redis), the redaction
  of logs and the traces: no state the rest reads;
- `bootstrap`, deployment, site: wiring and infrastructure;
- the check of a code and the storage of sessions by better-auth: external code, of
  which `SignIn` has only the result;
- the refusal to delete an account while conversions or payments run, composed with
  those: their states multiply, and the cascade itself is in `UnitsLedger`;
- the quota of OCR, a free choice of `OcrRefused`, and the review of the title and date of a
  document, which nothing else reads;
- wording, HTTP mapping, DTOs and the modules of NestJS.

Next, the proofs that are left: the contracts of `Pronunciation`, `PageLayout`, `TextCleaning` and
`DocumentText`, once their folds are recursive functions like those of `SsmlSegments`.
