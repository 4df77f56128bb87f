------------------------------- MODULE Library -------------------------------
(* The rest of the library module: reading positions saved from several      *)
(* devices while the audio is delivered, the status of a book, and listings  *)
(* read page after page by a signed cursor while their rows come and go      *)
(* (library/, document/ and billing/ use cases, shared/kernel/pagination.ts).*)
EXTENDS Bookmarks, PartDelivery

CONSTANTS
  Player,              \* devices that save positions
  Conversion,          \* conversions of a book, numbered in the order of their creation
  Parts,               \* parts of a conversion
  WordsPerPart,
  AudioTime,           \* times of the audio at which devices save a position
  AudioEndTolerance,   \* AUDIO_END_TOLERANCE_MS
  FinishedPercent,     \* FINISHED_REMAINING_RATIO
  ListedId,            \* identifiers of the listed rows, numbers
  PageLimit,           \* default and largest number of rows of a page
  DateOfPage,          \* what new Date() reads in the number of a page, Missing for no date
  OtherDocument        \* the document of a cursor that was not given by this listing

\* Rows of the listings and of the books, what is shown of a conversion, a token.
ListedRow == [createdAt : Nat, imported : BOOLEAN]
PartRow == [index : Nat, firstWordIndex : Nat,
            assembled : {Missing} \cup [durationMs : Nat, wordCount : Nat]]
ConversionRow == [status : {"processing", "ready", "failed"}, parts : [1 .. Parts -> PartRow]]
PositionRow == [word : Nat, audio : Nat, at : Nat]
CandidateRow == [id : Nat, createdAt : Nat, status : {"processing", "ready", "failed"}]
OverviewRow == [id : Nat, state : {"processing", "ready", "failed"},
                playableWordCount : Nat, playableDurationMs : Nat]
CursorToken(ids) == [signed : BOOLEAN, version : Nat, sort : [type : {"date", "number"}, value : Nat],
                     id : ids]

ASSUME LibraryAssumption ==
  /\ IsFiniteSet(Conversion) /\ Conversion \subseteq Nat
  /\ IsFiniteSet(ListedId) /\ ListedId \subseteq Nat \ {0}
  /\ Parts \in Nat \ {0} /\ WordsPerPart \in Nat \ {0} /\ PageLimit \in Nat \ {0}
  /\ AudioTime \subseteq Nat /\ AudioEndTolerance \in Nat /\ FinishedPercent \in 0 .. 100
  /\ \A n \in DOMAIN DateOfPage : n \in Nat \ {0} /\ DateOfPage[n] \in Nat \cup {Missing}
  /\ OtherDocument # "this" /\ NoRow # Missing
  /\ NoRow \notin ListedRow \cup ConversionRow \cup PositionRow
  /\ Missing \notin ListedRow \cup ConversionRow \cup CandidateRow \cup OverviewRow
  /\ Missing \notin CursorToken(Nat) \cup CursorToken({"this"})
  /\ Missing \notin [durationMs : Nat, wordCount : Nat]

VARIABLES
  conversions,   \* conversions[c]: [status, parts], NoRow before, Missing once deleted
  position,      \* position[c]: [word, audio, at], or NoRow
  saves,         \* saves[device]: the position being saved, [step |-> "none"] otherwise
  listing,       \* the item of the book being listed, [step |-> "none"] before
  rows,          \* rows[id]: [createdAt, imported], NoRow before, Missing after
  walk           \* a client reading a listing page after page

readingVars == <<conversions, position, saves, listing>>
walkVars == <<rows, walk>>

(* ------------------------------------------------------------------------- *)
(* Reading positions and the status of a book *)

Known == {c \in Conversion : conversions[c] \notin {NoRow, Missing}}

\* Parts of equal length, a millisecond each.
Planned(k) == [index |-> k - 1, firstWordIndex |-> (k - 1) * WordsPerPart, assembled |-> Missing]
PlannedParts == [k \in 1 .. Parts |-> Planned(k)]
Whole(c) == \A k \in 1 .. Parts : Assembled(conversions[c].parts[k])

toOverview(c) ==
  LET playable == playableExtent(conversions[c].parts)
  IN [id |-> c, state |-> conversions[c].status,
      playableWordCount |-> playable.wordCount, playableDurationMs |-> playable.durationMs]

\* The conversion shown for the book, Missing when it has none.
overviewByDocument ==
  LET candidates == {[id |-> c, createdAt |-> c, status |-> conversions[c].status] : c \in Known}
      chosen == selectLibraryConversion(candidates)
  IN IF chosen = Missing THEN Missing ELSE toOverview(chosen.id)

validateReadingPosition(input, bounds) ==
  /\ input.word < bounds.playableWordCount
  /\ input.audio <= bounds.playableDurationMs + AudioEndTolerance
  /\ ~InFuture(input.at)

progressPercent(pos, conversion) ==
  IF pos = NoRow \/ conversion = Missing THEN Missing
  ELSE IF conversion.state # "ready" \/ conversion.playableWordCount = 0 THEN Missing
  ELSE (Earlier(pos.word + 1, conversion.playableWordCount) * 100) \div conversion.playableWordCount

\* Fault: of what is delivered so far.
isFinishedSoFar(pos, conversion) ==
  conversion.playableWordCount # 0 /\ pos.word + 1 >= conversion.playableWordCount

isFinished(pos, conversion) ==
  /\ conversion.state = "ready" /\ conversion.playableWordCount # 0
  /\ (conversion.playableWordCount - (pos.word + 1)) * 100
       < FinishedPercent * conversion.playableWordCount

\* Of a book whose text is ready; an extraction that runs or failed comes first.
deriveLibraryStatus(documentState, conversion, pos) ==
  CASE documentState = "processing" -> "processing"
    [] documentState = "failed"     -> "failed"
    [] OTHER ->
         IF conversion = Missing THEN "not_converted"
         ELSE IF pos # NoRow
              THEN IF isFinished(pos, conversion) THEN "finished" ELSE "in_progress"
              ELSE IF conversion.state \in {"failed", "ready"} THEN conversion.state ELSE "processing"

ReadingInit ==
  /\ conversions = [c \in Conversion |-> NoRow]
  /\ position = [c \in Conversion |-> NoRow]
  /\ saves = [d \in Player |-> None]
  /\ listing = None

\* The conversions go on while devices play (their life is ConversionPipeline's).
Launch(c) ==
  /\ conversions[c] = NoRow
  /\ \A b \in Conversion : b < c => b \in Known
  /\ conversions' = [conversions EXCEPT ![c] = [status |-> "processing", parts |-> PlannedParts]]
  /\ UNCHANGED <<position, saves, listing>>
Deliver(c) ==
  /\ c \in Known /\ conversions[c].status = "processing"
  /\ \E k \in 1 .. Parts :
       conversions' = [conversions EXCEPT ![c].parts[k].assembled =
                         [durationMs |-> 1, wordCount |-> WordsPerPart]]
  /\ UNCHANGED <<position, saves, listing>>
Conclude(c) ==
  /\ c \in Known /\ conversions[c].status = "processing"
  /\ conversions' = [conversions EXCEPT ![c].status =
       IF Whole(c) THEN "ready" ELSE "failed"]
  /\ UNCHANGED <<position, saves, listing>>

\* The document is deleted: its conversions and positions go with it.
DropConversions ==
  /\ Known # {} /\ \A c \in Known : conversions[c].status # "processing"
  /\ conversions' = [c \in Conversion |-> Missing]
  /\ position' = [c \in Conversion |-> NoRow]
  /\ UNCHANGED <<saves, listing>>

\* The handler reads what is playable and validates the position.
CheckPosition(d) ==
  /\ saves[d] = None
  /\ \E c \in Known :
       LET bounds == toOverview(c)
       IN /\ bounds.playableWordCount # 0
          /\ \E word \in 0 .. Parts * WordsPerPart, audio \in AudioTime,
                at \in 1 .. MaxTime :
               LET input == [step |-> "save", c |-> c, word |-> word, audio |-> audio, at |-> at]
               IN /\ validateReadingPosition(input, bounds)
                  /\ saves' = [saves EXCEPT ![d] = input]
  /\ UNCHANGED <<conversions, position, listing>>

\* One upsert, of a position that is newer than the one known.
saveIfNewer(d) ==
  /\ saves[d] # None
  /\ LET s == saves[d]
     IN position' = IF s.c \notin Known THEN position
                    ELSE IF position[s.c] # NoRow /\ position[s.c].at >= s.at THEN position
                    ELSE [position EXCEPT ![s.c] = [word |-> s.word, audio |-> s.audio, at |-> s.at]]
  /\ saves' = [saves EXCEPT ![d] = None]
  /\ UNCHANGED <<conversions, listing>>

\* The library reads the conversions first, the positions after.
ReadOverview ==
  /\ listing.step # "overview"
  /\ listing' = [step |-> "overview", conversion |-> overviewByDocument]
  /\ UNCHANGED <<conversions, position, saves>>
ReadPosition ==
  /\ listing.step = "overview"
  /\ LET conversion == listing.conversion
         pos == IF conversion = Missing THEN NoRow ELSE position[conversion.id]
     IN listing' = [step |-> "item", conversion |-> conversion,
                    status |-> deriveLibraryStatus("text_ready", conversion, pos),
                    progress |-> progressPercent(pos, conversion)]
  /\ UNCHANGED <<conversions, position, saves>>

ReadingNext ==
  \/ \E c \in Conversion : Launch(c) \/ Deliver(c) \/ Conclude(c)
  \/ DropConversions
  \/ \E d \in Player : CheckPosition(d) \/ saveIfNewer(d)
  \/ ReadOverview \/ ReadPosition

(* A saved position can be played: it lies in the parts delivered without a  *)
(* hole, whatever was delivered, deleted or saved since it was checked.  A   *)
(* book is listed as finished, or with a progress, only when the whole of    *)
(* its conversion was delivered, and as failed only when nothing else of it  *)
(* can be played, though conversions and positions are read one after the    *)
(* other.                                                                    *)
ReadingIsTrue ==
  /\ \A c \in Conversion : position[c] # NoRow =>
       LET delivered(k) == \A j \in 1 .. k : Assembled(conversions[c].parts[j])
       IN \A k \in 1 .. Parts :
            (k - 1) * WordsPerPart <= position[c].word \/ k - 1 + AudioEndTolerance < position[c].audio
              => delivered(k)
  /\ listing.step = "item" =>
       /\ listing.status = "finished" \/ listing.progress # Missing =>
            listing.conversion.playableWordCount = Parts * WordsPerPart
       /\ listing.progress # Missing => listing.progress \in 0 .. 100
       /\ listing.status = "finished" => listing.progress + FinishedPercent >= 100
       /\ listing.status = "failed" =>
            \A c \in Known : c <= listing.conversion.id => conversions[c].status # "ready"

(* ------------------------------------------------------------------------- *)
(* Listings by cursor.  "documents": the imported documents, the newest      *)
(* first; "wallet": entries that are never deleted; "pages": the pages of a  *)
(* document, in order.  A token does not say of which listing it is.         *)

\* createHmac and JSON: what a token says, and whether it was signed here.
encode(sort, id) == [signed |-> TRUE, version |-> 1, sort |-> sort, id |-> id]
Date(value) == [type |-> "date", value |-> value]
PageNumber(value) == [type |-> "number", value |-> value]

\* new Date(sort), of the date or the page number a token was given for.
dateOf(sort) == IF sort.type = "date" THEN sort.value ELSE DateOfPage[sort.value]

decode(token) == token.signed /\ token.version = 1
DecodedDate(token) == decode(token) /\ dateOf(token.sort) # Missing
DecodedPage(token, doc) ==
  decode(token) /\ token.id = doc /\ token.sort.type = "number" /\ token.sort.value >= 1

clampLimit(limit) == IF limit = Missing THEN PageLimit ELSE Earlier(Later(limit, 1), PageLimit)

\* The rows in the order of a listing, those after a token only.
Newer(a, b) ==
  rows[a].createdAt > rows[b].createdAt \/ (rows[a].createdAt = rows[b].createdAt /\ a > b)
\* Fault: rows of the same time as the last one are skipped.
PastByDate(token, id) == rows[id].createdAt < dateOf(token.sort)

Past(token, id) ==
  \/ rows[id].createdAt < dateOf(token.sort)
  \/ rows[id].createdAt = dateOf(token.sort) /\ id < token.id
Present(id) == rows[id] \notin {NoRow, Missing}   \* Missing once deleted
listImportedByOwner(token) ==
  {id \in ListedId : Present(id) /\ rows[id].imported /\ (token = Missing \/ Past(token, id))}
listEntries(token) == {id \in ListedId : Present(id) /\ (token = Missing \/ Past(token, id))}
listPages(afterPage) == {id \in ListedId : id > afterPage}

RowsAfter(list, token) ==
  CASE list = "documents" -> listImportedByOwner(token)
    [] list = "wallet"    -> listEntries(token)
    [] list = "pages"     -> listPages(IF token = Missing THEN 0 ELSE token.sort.value)

\* ORDER BY
InListOrder(list, ids) ==
  CHOOSE seq \in [1 .. Cardinality(ids) -> ids] :
    /\ Range(seq) = ids
    /\ \A i, j \in DOMAIN seq : i < j => IF list = "pages" THEN seq[i] < seq[j] ELSE Newer(seq[i], seq[j])

keyOf(list, id) ==
  IF list = "pages" THEN encode(PageNumber(id), "this") ELSE encode(Date(rows[id].createdAt), id)

\* Of limit + 1 rows, the one too many tells that there is a next page.
buildPage(list, found, limit) ==
  LET items == SubSeq(found, 1, Earlier(limit, Len(found)))
  IN [items |-> items,
      nextCursor |-> IF Len(found) <= limit \/ items = <<>> THEN Missing ELSE keyOf(list, Last(items))]

PageOf(list, token, limit) ==
  LET found == InListOrder(list, RowsAfter(list, token))
  IN buildPage(list, SubSeq(found, 1, Earlier(limit + 1, Len(found))), limit)

\* Cursors a client may hold before it reads: altered, of another version, of
\* another listing or of an earlier reading of this one.
Held(list) ==
  IF list = "pages"
  THEN {encode(PageNumber(1), OtherDocument), encode(Date(1), "this"), encode(PageNumber(2), "this")}
  ELSE {[encode(Date(1), 1) EXCEPT !.signed = FALSE], [encode(Date(1), 1) EXCEPT !.version = 2],
        encode(Date(1), 2)}
       \cup {encode(PageNumber(n), 1) : n \in DOMAIN DateOfPage}

Accepted(list, token) ==
  token # Missing => IF list = "pages" THEN DecodedPage(token, "this") ELSE DecodedDate(token)

Readable(list) == {id \in ListedId : list = "pages" \/ (Present(id) /\ rows[id].imported)}
Beyond(list, token, id) ==
  token = Missing \/ IF list = "pages" THEN id > token.sort.value ELSE Past(token, id)

WalkInit ==
  /\ rows = [id \in ListedId |-> NoRow]
  /\ \E list \in {"documents", "wallet", "pages"} :
       \E token \in Held(list) \cup {Missing} :
         walk = [list |-> list, cursor |-> token, seen |-> <<>>, owed |-> {}, step |-> "before"]

\* A document is requested, then uploaded; an entry is there at once.
AddRow(id) ==
  /\ walk.list # "pages" /\ rows[id] = NoRow
  /\ rows' = [rows EXCEPT ![id] = [createdAt |-> clock, imported |-> walk.list = "wallet"]]
  /\ UNCHANGED walk
ImportRow(id) ==
  /\ Present(id) /\ ~rows[id].imported
  /\ rows' = [rows EXCEPT ![id].imported = TRUE]
  /\ UNCHANGED walk
DropRow(id) ==
  /\ walk.list = "documents" /\ Present(id)
  /\ rows' = [rows EXCEPT ![id] = Missing]
  /\ walk' = [walk EXCEPT !.owed = @ \ {id}]

\* A cursor that is altered or has no place in this listing is refused; the
\* client starts again.
RefuseCursor ==
  /\ ~Accepted(walk.list, walk.cursor)
  /\ walk' = [walk EXCEPT !.cursor = Missing]
  /\ UNCHANGED rows

\* One page.  The rows readable when the walk starts are owed to the client,
\* those past the cursor it starts from.
ReadPage(limit) ==
  /\ walk.step # "over" /\ Accepted(walk.list, walk.cursor)
  /\ LET page == PageOf(walk.list, walk.cursor, clampLimit(limit))
     IN walk' = [walk EXCEPT
          !.owed = IF walk.step = "before"
                   THEN {id \in Readable(walk.list) : Beyond(walk.list, walk.cursor, id)} ELSE @,
          !.seen = @ \o page.items,
          !.cursor = page.nextCursor,
          !.step = IF page.nextCursor = Missing THEN "over" ELSE "reading"]
  /\ UNCHANGED rows

WalkNext ==
  \/ \E id \in ListedId : AddRow(id) \/ ImportRow(id) \/ DropRow(id)
  \/ RefuseCursor
  \/ \E limit \in {Missing, 0, 1, PageLimit + 1} : ReadPage(limit)

(* A client that reads a listing to its end sees no row twice, and every row *)
(* that was there from the start of its reading and was not deleted, though  *)
(* rows are added, imported and deleted between two pages; from a cursor it  *)
(* held before, even of another listing, every such row past that cursor.    *)
WalkSeesEachOnce ==
  /\ \A i, j \in DOMAIN walk.seen : walk.seen[i] = walk.seen[j] => i = j
  /\ walk.step = "over" => walk.owed \subseteq {walk.seen[i] : i \in DOMAIN walk.seen}

(* Positions, statuses and listings of the library agree with what is there. *)
LibraryIsTrue == ReadingIsTrue /\ WalkSeesEachOnce
=============================================================================
