--------------------------- MODULE ComponentsProofs ---------------------------
(***************************************************************************)
(* The components around the core, each on its own, for any number of      *)
(* devices, files, destinations and requests handled at once: bookmarks    *)
(* written from several devices show their latest change, an upload by     *)
(* parts is whole, codes go within their limits and accounts are their     *)
(* owners', what a library shows is what there is to hear.                 *)
(***************************************************************************)
EXTENDS Bookmarks, Uploads, SignIn, Library, FiniteSums

-----------------------------------------------------------------------------
(* Bookmarks: the rows, and the changes they have received.                  *)

BookmarksSpec == BookmarksInit /\ [][BookmarksNext]_bookmarkVars

\* A request after its first reads, by the statement it is about to execute.
RequestRow == [step : {"put", "create", "insert", "edit", "delete"}, id : BookmarkId,
               doc : Document, at : 1 .. MaxTime, word : Nat]

\* A row shows one of the changes it has received, the latest.
ShowsLatest(id) ==
  LET change == ShownChange(bookmarks[id])
  IN  /\ change \in received[id]
      /\ \A other \in received[id] : other.at <= change.at

BookmarksIInv ==
  /\ DOMAIN bookmarks = BookmarkId /\ DOMAIN received = BookmarkId /\ DOMAIN requests = Device
  /\ \A d \in Device : requests[d] = None \/ requests[d] \in RequestRow
  /\ \A id \in BookmarkId : bookmarks[id] = NoRow \/ bookmarks[id] \in BookmarkRow
  /\ \A id \in BookmarkId : received[id] \subseteq Change
  /\ \A id \in BookmarkId : IF Exists(id) THEN ShowsLatest(id) ELSE received[id] = {}

LEMMA BookmarksBegin == BookmarksInit => BookmarksIInv /\ Store!Init
<1> SUFFICES ASSUME BookmarksInit PROVE BookmarksIInv /\ Store!Init
  OBVIOUS
<1>1. BookmarksIInv
  BY DEF BookmarksInit, BookmarksIInv, Exists, None
<1>2. Store!Init
  BY DEF BookmarksInit, Store!Init, ShownChange
<1> QED
  BY <1>1, <1>2

\* A change that reaches no row leaves what is shown.
LEMMA NothingShown ==
  ASSUME BookmarksIInv, UNCHANGED <<bookmarks, received>>, DOMAIN requests' = Device,
         \A d \in Device : requests'[d] = None \/ requests'[d] \in RequestRow
  PROVE  BookmarksIInv' /\ [Store!Next]_(Store!vars)
<1>1. BookmarksIInv'
  BY DEF BookmarksIInv, Exists, ShowsLatest, ShownChange
<1>2. UNCHANGED Store!vars
  BY DEF Store!vars
<1> QED
  BY <1>1, <1>2

\* One request moves on, or is answered.
LEMMA RequestMoves ==
  ASSUME BookmarksIInv, NEW d \in Device, UNCHANGED <<bookmarks, received>>,
         NEW request, request = None \/ request \in RequestRow,
         requests' = [requests EXCEPT ![d] = request]
  PROVE  BookmarksIInv' /\ [Store!Next]_(Store!vars)
BY NothingShown DEF BookmarksIInv

LEMMA StepsOfRequest ==
  ASSUME NEW request \in RequestRow, NEW step \in {"create", "insert", "edit"}
  PROVE  [request EXCEPT !.step = step] \in RequestRow
BY DEF RequestRow

\* What is not a request under way has no statement to execute.
LEMMA RequestOf ==
  ASSUME BookmarksIInv, NEW d \in Device,
         requests[d].step \in {"put", "create", "insert", "edit", "delete"}
  PROVE  requests[d] \in RequestRow
BY DEF BookmarksIInv, None

LEMMA SendShows ==
  ASSUME BookmarksIInv, NEW d \in Device, Send(d)
  PROVE  BookmarksIInv' /\ [Store!Next]_(Store!vars)
<1> PICK id \in BookmarkId, doc \in Document, at \in 1 .. MaxTime, word \in 0 .. MaxWords - 1,
        op \in {"put", "delete"} :
       /\ op = "delete" => word = 0
       /\ requests' = [requests EXCEPT ![d] =
            IF pageWords[doc] = NoRow \/ InFuture(at) THEN None
            ELSE [step |-> op, id |-> id, doc |-> doc, at |-> at, word |-> word]]
  BY DEF Send
<1> DEFINE request == IF pageWords[doc] = NoRow \/ InFuture(at) THEN None
                      ELSE [step |-> op, id |-> id, doc |-> doc, at |-> at, word |-> word]
<1>1. request = None \/ request \in RequestRow
  <2>1. word \in Nat
    BY BookmarksAssumption
  <2>2. [step |-> op, id |-> id, doc |-> doc, at |-> at, word |-> word] \in RequestRow
    BY <2>1 DEF RequestRow
  <2> QED
    BY <2>2
<1>2. requests' = [requests EXCEPT ![d] = request]
  OBVIOUS
<1> HIDE DEF request
<1> QED
  BY <1>1, <1>2, RequestMoves DEF Send

LEMMA ReadsShow ==
  ASSUME BookmarksIInv, NEW d \in Device, FindBookmark(d) \/ CheckCreation(d) \/ LoseRequest(d)
  PROVE  BookmarksIInv' /\ [Store!Next]_(Store!vars)
<1>1. UNCHANGED <<bookmarks, received>>
  BY DEF FindBookmark, CheckCreation, LoseRequest
<1>2. CASE Answer(d)
  BY <1>1, <1>2, RequestMoves DEF Answer
<1>3. CASE \E step \in {"create", "insert", "edit"} : MoveTo(d, step) /\ requests[d] \in RequestRow
  <2> PICK step \in {"create", "insert", "edit"} : MoveTo(d, step)
    BY <1>3
  <2> DEFINE request == [requests[d] EXCEPT !.step = step]
  <2>1. requests' = [requests EXCEPT ![d] = request]
    BY DEF MoveTo
  <2>2. request \in RequestRow
    BY <1>3, StepsOfRequest
  <2> HIDE DEF request
  <2> QED
    BY <1>1, <2>1, <2>2, RequestMoves
<1> QED
  BY <1>2, <1>3, RequestOf DEF FindBookmark, CheckCreation, LoseRequest

\* A change is received when what is shown is the latest of the two.
LEMMA Received ==
  ASSUME NEW id \in BookmarkId, NEW change,
         change.kind = "edit" \/ ShownChange(bookmarks[id]) # NoRow,
         received' = [received EXCEPT ![id] = @ \cup {change}],
         \A i \in BookmarkId \ {id} : bookmarks'[i] = bookmarks[i],
         ShownChange(bookmarks'[id])
           = IF ShownChange(bookmarks[id]) \in Store!Latest(received'[id])
             THEN ShownChange(bookmarks[id]) ELSE change
  PROVE  Store!Receive(id, change)
<1> DEFINE shown == [i \in BookmarkId |-> ShownChange(bookmarks[i])]
           shownNext == [i \in BookmarkId |-> ShownChange(bookmarks'[i])]
           new == IF shown[id] \in Store!Latest(received'[id]) THEN shown[id] ELSE change
<1>1. shown[id] = ShownChange(bookmarks[id])
  OBVIOUS
<1>2. shownNext[id] = new /\ \A i \in BookmarkId \ {id} : shownNext[i] = shown[i]
  BY <1>1
<1>3. shownNext = [shown EXCEPT ![id] = new]
  <2> HIDE DEF new
  <2> QED
    BY <1>2
<1>4. change.kind = "edit" \/ shown[id] # NoRow
  BY <1>1
<1>5. [i \in BookmarkId |-> ShownChange(bookmarks[i])]' = shownNext
  BY DEF ShownChange
<1> QED
  BY <1>3, <1>4, <1>5, Zenon DEF Store!Receive

\* A row is written, the request that wrote it is answered.
LEMMA RowPut ==
  ASSUME BookmarksIInv, NEW d \in Device, NEW id \in BookmarkId, NEW row \in BookmarkRow,
         NEW changes \in SUBSET Change,
         bookmarks' = [bookmarks EXCEPT ![id] = row], received' = [received EXCEPT ![id] = changes],
         Answer(d),
         ShownChange(row) \in changes, \A other \in changes : other.at <= ShownChange(row).at
  PROVE  BookmarksIInv'
<1>1. /\ DOMAIN bookmarks' = BookmarkId /\ DOMAIN received' = BookmarkId /\ DOMAIN requests' = Device
      /\ bookmarks'[id] = row /\ received'[id] = changes
      /\ \A i \in BookmarkId \ {id} : bookmarks'[i] = bookmarks[i] /\ received'[i] = received[i]
  BY DEF BookmarksIInv, Answer
<1>2. \A o \in Device : requests'[o] = None \/ requests'[o] \in RequestRow
  BY DEF BookmarksIInv, Answer
<1>3. /\ \A i \in BookmarkId : bookmarks'[i] = NoRow \/ bookmarks'[i] \in BookmarkRow
      /\ \A i \in BookmarkId : received'[i] \subseteq Change
  BY <1>1 DEF BookmarksIInv
<1>4. ASSUME NEW i \in BookmarkId
      PROVE  IF Exists(i)' THEN ShowsLatest(i)' ELSE received'[i] = {}
  <2>1. CASE i = id
    <3>1. ShowsLatest(i)'
      BY <1>1, <2>1 DEF ShowsLatest, ShownChange
    <3> QED
      BY <1>1, <2>1, <3>1, BookmarksAssumption DEF Exists
  <2>2. CASE i # id
    BY <1>1, <2>2 DEF BookmarksIInv, Exists, ShowsLatest, ShownChange
  <2> QED
    BY <2>1, <2>2
<1> QED
  BY <1>1, <1>2, <1>3, <1>4 DEF BookmarksIInv

\* What a row of the table shows.
LEMMA ShownOfRow ==
  ASSUME NEW row \in BookmarkRow
  PROVE  /\ ShownChange(row) \in Change /\ ShownChange(row) # NoRow
         /\ ShownChange(row).at = row.updatedAt
         /\ ShownChange(row) = IF row.deleted
                               THEN [kind |-> "delete", note |-> NoNote, at |-> row.updatedAt]
                               ELSE [kind |-> "edit", note |-> row.note, at |-> row.updatedAt]
<1>1. row # NoRow
  BY BookmarksAssumption
<1>2. CASE row.deleted
  <2>1. ShownChange(row) = [kind |-> "delete", note |-> NoNote, at |-> row.updatedAt]
    BY <1>1, <1>2 DEF ShownChange
  <2>2. ShownChange(row) \in Change
    BY <2>1 DEF Change, BookmarkRow
  <2> QED
    BY <1>2, <2>1, <2>2, BookmarksAssumption
<1>3. CASE ~row.deleted
  <2>1. ShownChange(row) = [kind |-> "edit", note |-> row.note, at |-> row.updatedAt]
    BY <1>1, <1>3 DEF ShownChange
  <2>2. ShownChange(row) \in Change
    BY <2>1 DEF Change, BookmarkRow
  <2> QED
    BY <1>3, <2>1, <2>2, BookmarksAssumption
<1> QED
  BY <1>2, <1>3

LEMMA InsertBookmarkShows ==
  ASSUME BookmarksIInv, NEW d \in Device, InsertBookmark(d)
  PROVE  BookmarksIInv' /\ [Store!Next]_(Store!vars)
<1> DEFINE r == requests[d]
           id == r.id
           row == [doc |-> r.doc, word |-> r.word, note |-> d, updatedAt |-> r.at,
                   deleted |-> FALSE, deletedAt |-> NoRow]
           change == [kind |-> "edit", note |-> d, at |-> r.at]
<1>1. r \in RequestRow
  BY RequestOf DEF InsertBookmark
<1>2. id \in BookmarkId /\ row \in BookmarkRow /\ change \in Change
  BY <1>1 DEF RequestRow, BookmarkRow, Change
<1>3. ShownChange(row) = change /\ change.kind = "edit"
  BY <1>2, ShownOfRow
<1>4. CASE Exists(id) /\ MoveTo(d, "edit") /\ UNCHANGED <<bookmarks, received>>
  <2> DEFINE request == [r EXCEPT !.step = "edit"]
  <2>1. requests' = [requests EXCEPT ![d] = request]
    BY <1>4 DEF MoveTo
  <2>2. request \in RequestRow
    BY <1>1, StepsOfRequest
  <2> HIDE DEF request
  <2> QED
    BY <1>4, <2>1, <2>2, RequestMoves
<1>5. CASE Answer(d) /\ UNCHANGED <<bookmarks, received>>
  BY <1>5, RequestMoves DEF Answer
<1>6. CASE /\ ~Exists(id) /\ Answer(d)
           /\ bookmarks' = [bookmarks EXCEPT ![id] = row]
           /\ received' = [received EXCEPT ![id] = @ \cup {change}]
  <2> HIDE DEF row, change
  <2>1. bookmarks[id] = NoRow /\ received[id] = {} /\ ShownChange(bookmarks[id]) = NoRow
    BY <1>2, <1>6 DEF BookmarksIInv, Exists, ShownChange
  <2>2. bookmarks'[id] = row /\ received'[id] = {change}
    BY <1>2, <1>6, <2>1 DEF BookmarksIInv
  <2>3. NoRow \notin Store!Latest(received'[id])
    BY <1>2, <2>2, BookmarksAssumption DEF Store!Latest
  <2>4. \A i \in BookmarkId \ {id} : bookmarks'[i] = bookmarks[i]
    BY <1>6 DEF BookmarksIInv
  <2>5. ShownChange(bookmarks'[id])
          = IF ShownChange(bookmarks[id]) \in Store!Latest(received'[id])
            THEN ShownChange(bookmarks[id]) ELSE change
    BY <1>3, <2>1, <2>2, <2>3
  <2>6. received' = [received EXCEPT ![id] = {change}]
    BY <1>2, <1>6, <2>1
  <2>7. Store!Receive(id, change)
    BY <1>2, <1>3, <1>6, <2>4, <2>5, Received
  <2>8. /\ {change} \in SUBSET Change /\ ShownChange(row) \in {change}
        /\ \A other \in {change} : other.at <= ShownChange(row).at
    <3>1. change.at <= change.at
      BY <1>2, BookmarksAssumption DEF Change
    <3> QED
      BY <1>2, <1>3, <3>1
  <2>9. BookmarksIInv'
    BY <1>2, <1>3, <1>6, <2>6, <2>8, RowPut, ZenonT(60)
  <2> QED
    BY <1>2, <2>7, <2>9 DEF Store!Next
<1> QED
  BY <1>4, <1>5, <1>6 DEF InsertBookmark

\* Only a newer change is applied, so a row shows the latest of those it receives.
LEMMA MergedShows ==
  ASSUME NEW row \in BookmarkRow, NEW change \in Change, NEW changes, changes \subseteq Change,
         ShownChange(row) \in changes, \A other \in changes : other.at <= ShownChange(row).at
  PROVE  /\ Merged(row, change) \in BookmarkRow /\ Merged(row, change).doc = row.doc
         /\ ShownChange(Merged(row, change)) \in changes \cup {change}
         /\ \A other \in changes \cup {change} : other.at <= ShownChange(Merged(row, change)).at
         /\ ShownChange(Merged(row, change))
              = IF ShownChange(row) \in Store!Latest(changes \cup {change})
                THEN ShownChange(row) ELSE change
<1>1. row.updatedAt \in Nat /\ change.at \in 1 .. MaxTime /\ change.at \in Nat
  BY BookmarksAssumption DEF BookmarkRow, Change
<1>2. \A other \in changes : other.at \in Nat
  BY BookmarksAssumption DEF Change
<1>3. CASE row.updatedAt >= change.at
  <2>1. Merged(row, change) = row
    BY <1>3 DEF Merged
  <2>2. ShownChange(row) \in Store!Latest(changes \cup {change})
    BY <1>1, <1>3, ShownOfRow DEF Store!Latest
  <2> QED
    BY <1>1, <1>3, <2>1, <2>2, ShownOfRow
<1>4. CASE row.updatedAt < change.at
  <2> DEFINE new == Merged(row, change)
  <2>1. new \in BookmarkRow /\ new.doc = row.doc /\ new.updatedAt = change.at
        /\ (change.kind = "edit" => ~new.deleted /\ new.note = change.note)
        /\ (change.kind # "edit" => new.deleted)
    <3>1. CASE change.kind = "edit"
      <4>1. new = [row EXCEPT !.note = change.note, !.updatedAt = change.at,
                              !.deleted = FALSE, !.deletedAt = NoRow]
        BY <1>1, <1>4, <3>1 DEF Merged
      <4>2. change.note \in Device
        BY <3>1 DEF Change
      <4> HIDE DEF new
      <4> QED
        BY <1>1, <3>1, <4>1, <4>2 DEF BookmarkRow
    <3>2. CASE change.kind # "edit"
      <4>1. new = [row EXCEPT !.updatedAt = change.at, !.deleted = TRUE, !.deletedAt = change.at]
        BY <1>1, <1>4, <3>2 DEF Merged
      <4> HIDE DEF new
      <4> QED
        BY <1>1, <3>2, <4>1 DEF BookmarkRow
    <3> QED
      BY <3>1, <3>2
  <2> HIDE DEF new
  <2>2. ShownChange(new) = change
    <3>1. change = IF change.kind = "edit"
                   THEN [kind |-> "edit", note |-> change.note, at |-> change.at]
                   ELSE [kind |-> "delete", note |-> NoNote, at |-> change.at]
      BY DEF Change
    <3> QED
      BY <2>1, <3>1, ShownOfRow
  <2>3. ShownChange(row) \notin Store!Latest(changes \cup {change})
    BY <1>1, <1>4, ShownOfRow DEF Store!Latest
  <2>4. \A other \in changes \cup {change} : other.at <= change.at
    BY <1>1, <1>2, <1>4, ShownOfRow
  <2> QED
    BY <2>1, <2>2, <2>3, <2>4 DEF new
<1> QED
  BY <1>1, <1>3, <1>4

LEMMA ApplyChangeShows ==
  ASSUME BookmarksIInv, NEW d \in Device, ApplyChange(d)
  PROVE  BookmarksIInv' /\ [Store!Next]_(Store!vars)
<1> DEFINE r == requests[d]
           id == r.id
           row == bookmarks[id]
           change == IF r.step = "edit" THEN [kind |-> "edit", note |-> d, at |-> r.at]
                     ELSE [kind |-> "delete", note |-> NoNote, at |-> r.at]
           new == Merged(row, change)
           changes == received[id] \cup {change}
<1>1. r \in RequestRow
  BY RequestOf DEF ApplyChange
<1>2. id \in BookmarkId /\ change \in Change
  BY <1>1 DEF RequestRow, Change
<1>3. CASE UNCHANGED <<bookmarks, received>>
  BY <1>3, RequestMoves DEF ApplyChange, Answer
<1>4. CASE /\ Exists(id)
           /\ bookmarks' = [bookmarks EXCEPT ![id] = new]
           /\ received' = [received EXCEPT ![id] = changes]
  <2>1. row \in BookmarkRow /\ ShowsLatest(id) /\ received[id] \in SUBSET Change
    BY <1>2, <1>4 DEF BookmarksIInv, Exists
  <2>2. ShownChange(row) \in received[id] /\ \A other \in received[id] : other.at <= ShownChange(row).at
    BY <2>1 DEF ShowsLatest
  <2> HIDE DEF row, change
  <2>3. /\ new \in BookmarkRow
        /\ ShownChange(new) \in changes /\ \A other \in changes : other.at <= ShownChange(new).at
        /\ ShownChange(new)
             = IF ShownChange(row) \in Store!Latest(changes) THEN ShownChange(row) ELSE change
    <3>1. PICK known : known = received[id]
      OBVIOUS
    <3>2. /\ known \subseteq Change /\ ShownChange(row) \in known
          /\ \A other \in known : other.at <= ShownChange(row).at
      BY <2>1, <2>2, <3>1
    <3>3. changes = known \cup {change}
      BY <3>1
    <3> QED
      BY <1>2, <2>1, <3>2, <3>3, MergedShows
  <2>4. changes \in SUBSET Change
    BY <1>2, <2>1
  <2> HIDE DEF new
  <2>5. /\ bookmarks'[id] = new /\ received'[id] = changes
        /\ \A i \in BookmarkId \ {id} : bookmarks'[i] = bookmarks[i]
    BY <1>2, <1>4 DEF BookmarksIInv
  <2>6. ShownChange(bookmarks'[id])
          = IF ShownChange(bookmarks[id]) \in Store!Latest(received'[id])
            THEN ShownChange(bookmarks[id]) ELSE change
    BY <2>3, <2>5 DEF row
  <2>7. ShownChange(bookmarks[id]) # NoRow
    BY <2>1, ShownOfRow DEF row
  <2>8. Store!Receive(id, change)
    BY <1>2, <1>4, <2>5, <2>6, <2>7, Received
  <2>9. Answer(d)
    BY DEF ApplyChange
  <2> HIDE DEF changes
  <2>10. BookmarksIInv'
    BY <1>2, <1>4, <2>3, <2>4, <2>9, RowPut
  <2> QED
    BY <1>2, <2>8, <2>10 DEF Store!Next
<1> QED
  BY <1>3, <1>4 DEF ApplyChange

LEMMA DropDocumentShows ==
  ASSUME BookmarksIInv, NEW doc \in Document, DropDocument(doc)
  PROVE  BookmarksIInv' /\ [Store!Next]_(Store!vars)
<1> DEFINE gone == {id \in BookmarkId : Exists(id) /\ bookmarks[id].doc = doc}
<1>1. /\ bookmarks' = [id \in BookmarkId |-> IF id \in gone THEN NoRow ELSE bookmarks[id]]
      /\ received' = [id \in BookmarkId |-> IF id \in gone THEN {} ELSE received[id]]
      /\ requests' = requests
  BY DEF DropDocument
<1>2. gone \in SUBSET BookmarkId
  OBVIOUS
<1> HIDE DEF gone
<1>3. BookmarksIInv'
  <2>1. ASSUME NEW id \in BookmarkId
        PROVE  /\ bookmarks'[id] = NoRow \/ bookmarks'[id] \in BookmarkRow
               /\ received'[id] \subseteq Change
               /\ IF Exists(id)' THEN ShowsLatest(id)' ELSE received'[id] = {}
    <3>1. CASE id \in gone
      BY <1>1, <3>1 DEF Exists
    <3>2. CASE id \notin gone
      BY <1>1, <3>2 DEF BookmarksIInv, Exists, ShowsLatest, ShownChange
    <3> QED
      BY <3>1, <3>2
  <2> QED
    BY <1>1, <2>1 DEF BookmarksIInv
<1>4. Store!Forget(gone)
  <2>1. \A id \in BookmarkId : ShownChange(bookmarks'[id])
                                 = IF id \in gone THEN NoRow ELSE ShownChange(bookmarks[id])
    BY <1>1 DEF ShownChange
  <2> QED
    BY <1>1, <2>1 DEF Store!Forget
<1> QED
  BY <1>2, <1>3, <1>4 DEF Store!Next

LEMMA BookmarksStep ==
  ASSUME BookmarksIInv, [BookmarksNext]_bookmarkVars
  PROVE  BookmarksIInv' /\ [Store!Next]_(Store!vars)
<1>1. ASSUME NEW d \in Device, Send(d) \/ FindBookmark(d) \/ CheckCreation(d)
                               \/ InsertBookmark(d) \/ ApplyChange(d) \/ LoseRequest(d)
      PROVE  BookmarksIInv' /\ [Store!Next]_(Store!vars)
  BY <1>1, SendShows, ReadsShow, InsertBookmarkShows, ApplyChangeShows
<1>2. ASSUME NEW doc \in Document, DropDocument(doc)
      PROVE  BookmarksIInv' /\ [Store!Next]_(Store!vars)
  BY <1>2, DropDocumentShows
<1>3. ASSUME UNCHANGED <<bookmarks, requests, received>>
      PROVE  BookmarksIInv' /\ [Store!Next]_(Store!vars)
  BY <1>3, NothingShown DEF BookmarksIInv
<1> QED
  BY <1>1, <1>2, <1>3 DEF BookmarksNext, CorrectPage, Tick, bookmarkVars

\* Bookmarks written from several devices, with their own clocks, in requests
\* that overlap, are sent again or come late, show the latest change that
\* reached them (the conditional updates of bookmark.drizzle-repository.ts).
THEOREM ImplementsStoreHolds == BookmarksSpec => ImplementsStore
<1> QED
  BY BookmarksBegin, BookmarksStep, PTL DEF BookmarksSpec, ImplementsStore, Store!Spec

-----------------------------------------------------------------------------
(* Uploads: the parts planned, held by the provider, listed and assembled.   *)

UploadsSpec == UploadsInit /\ [][UploadsNext]_uploadVars

FileRow == [size : Nat \ {0}, pdf : BOOLEAN, multipart : BOOLEAN, uploaded : BOOLEAN]

\* The object is the PDF that was declared.
RightObject == stored # <<>> /\ file.pdf /\ SizeOf(stored) = file.size

\* What a confirmation has seen is still true when it goes on.
ConfirmationOK(c) ==
  \/ confirms[c].step = "idle"
  \/ confirms[c].step = "head"
  \/ /\ confirms[c].step = "complete" /\ file.multipart
     /\ confirms[c].parts = planUpload(file.size)
  \/ confirms[c].step = "mark" /\ RightObject

BeforeRequest == pieces = <<>> /\ stored = <<>> /\ ticket = NoTicket
                 /\ \A c \in Confirmation : confirms[c].step = "idle"

AfterRequest ==
  LET plan == planUpload(file.size)
  IN  /\ file \in FileRow
      /\ file.uploaded => RightObject
      /\ ticket = [asked |-> ticket.asked, received |-> ticket.received]
      /\ pieces # <<>> => /\ file.multipart /\ stored = <<>>
                          /\ pieces = [n \in DOMAIN plan |-> pieces[n]]
                          /\ ticket.asked \subseteq DOMAIN plan /\ ticket.received \subseteq DOMAIN plan
                          /\ \A n \in ticket.received : pieces[n] = plan[n]
      /\ stored # <<>> => stored = IF file.multipart THEN plan ELSE <<file.size>>
      /\ \A c \in Confirmation : ConfirmationOK(c)

UploadsIInv ==
  /\ DOMAIN confirms = Confirmation
  /\ IF file.size = 0 THEN BeforeRequest ELSE AfterRequest

LEMMA PlanType ==
  ASSUME NEW size \in Nat \ {0}
  PROVE  /\ planUpload(size) # <<>> /\ 1 \in DOMAIN planUpload(size)
         /\ planUpload(size) = [n \in DOMAIN planUpload(size) |-> planUpload(size)[n]]
<1> DEFINE wanted == (size + PartSize - 1) \div PartSize
           count == IF wanted = 0 THEN 1 ELSE wanted
<1>1. wanted \in Nat
  <2>1. size + PartSize - 1 \in Nat /\ PartSize \in Nat /\ PartSize > 0
    BY UploadsAssumption
  <2> QED
    BY <2>1
<1>2. count \in Nat /\ count >= 1
  BY <1>1
<1>3. planUpload(size) = [n \in 1 .. count |-> IF n = count THEN size - (n - 1) * PartSize ELSE PartSize]
  BY DEF planUpload
<1> HIDE DEF count
<1>4. DOMAIN planUpload(size) = 1 .. count /\ 1 \in 1 .. count
  BY <1>2, <1>3
<1>5. planUpload(size) # <<>>
  <2>1. DOMAIN <<>> = 1 .. Len(<<>>) /\ Len(<<>>) = 0
    OBVIOUS
  <2>2. 1 \notin DOMAIN <<>>
    BY <2>1
  <2> QED
    BY <1>4, <2>2, Zenon
<1> QED
  BY <1>3, <1>4, <1>5

LEMMA UploadsBegin == UploadsInit => UploadsIInv
BY DEF UploadsInit, UploadsIInv, BeforeRequest, NoConfirmation

LEMMA UploadsIInvHolds == UploadsIInv => UploadIsWhole
BY DEF UploadsIInv, AfterRequest, BeforeRequest, UploadIsWhole, RightObject

\* After the request, the file keeps its size and its kind.
LEMMA UploadsKeep ==
  ASSUME UploadsIInv, file.size # 0, DOMAIN confirms' = Confirmation,
         file' \in FileRow, AfterRequest'
  PROVE  UploadsIInv'
<1>1. file'.size # 0
  BY DEF FileRow
<1> QED
  BY <1>1 DEF UploadsIInv

\* One confirmation moves, and sees something of the same file and object.
LEMMA ConfirmationMoves ==
  ASSUME UploadsIInv, file.size # 0, NEW c \in Confirmation, NEW confirmation,
         confirms' = [confirms EXCEPT ![c] = confirmation],
         UNCHANGED <<file, pieces, stored, ticket>>,
         confirms'[c] = confirmation => ConfirmationOK(c)'
  PROVE  UploadsIInv'
<1>1. AfterRequest /\ DOMAIN confirms = Confirmation
  BY DEF UploadsIInv
<1>2. \A o \in Confirmation : ConfirmationOK(o)'
  <2>1. ASSUME NEW o \in Confirmation \ {c}
        PROVE  ConfirmationOK(o)'
    BY <1>1, <2>1 DEF AfterRequest, ConfirmationOK, RightObject
  <2>2. confirms'[c] = confirmation
    BY <1>1
  <2> QED
    BY <2>1, <2>2
<1>3. AfterRequest'
  BY <1>1, <1>2 DEF AfterRequest, RightObject
<1>4. DOMAIN confirms' = Confirmation /\ file' \in FileRow
  BY <1>1 DEF AfterRequest
<1> QED
  BY <1>3, <1>4, UploadsKeep

LEMMA AskUploadKeeps ==
  ASSUME UploadsIInv, AskUpload
  PROVE  UploadsIInv'
<1> PICK size \in 1 .. MaxFileSize, pdf \in BOOLEAN, requested \in BOOLEAN :
      LET multipart == usesMultipart(size, requested)
      IN /\ file' = [size |-> size, pdf |-> pdf, multipart |-> multipart, uploaded |-> FALSE]
         /\ pieces' = IF multipart THEN [n \in DOMAIN planUpload(size) |-> 0] ELSE <<>>
  BY DEF AskUpload
<1> DEFINE multipart == usesMultipart(size, requested)
           plan == planUpload(size)
<1>1. BeforeRequest /\ UNCHANGED <<stored, ticket, confirms>> /\ DOMAIN confirms = Confirmation
  BY DEF UploadsIInv, AskUpload
<1>2. size \in Nat \ {0} /\ multipart \in BOOLEAN
  BY UploadsAssumption DEF usesMultipart
<1>3. file' \in FileRow /\ file'.size = size /\ file'.multipart = multipart /\ ~file'.uploaded
  BY <1>2 DEF FileRow
<1>4. pieces' # <<>> => multipart /\ pieces' = [n \in DOMAIN plan |-> 0]
  OBVIOUS
<1>5. stored' = <<>> /\ ticket' = NoTicket /\ \A c \in Confirmation : confirms'[c].step = "idle"
  BY <1>1 DEF BeforeRequest
<1>6. pieces' # <<>> => pieces' = [n \in DOMAIN plan |-> pieces'[n]]
  BY <1>4
<1>7. /\ ticket'.asked = {} /\ ticket'.received = {}
      /\ ticket' = [asked |-> ticket'.asked, received |-> ticket'.received]
  BY <1>5 DEF NoTicket
<1> HIDE DEF multipart
<1>8. AfterRequest'
  BY <1>3, <1>4, <1>5, <1>6, <1>7 DEF AfterRequest, ConfirmationOK
<1> QED
  BY <1>1, <1>3, <1>8 DEF UploadsIInv, FileRow

LEMMA presignPutKeeps ==
  ASSUME UploadsIInv, presignPut
  PROVE  UploadsIInv'
<1>1. /\ file.size # 0 /\ ~file.multipart /\ stored' = <<file.size>>
      /\ UNCHANGED <<file, pieces, ticket, confirms>> /\ AfterRequest
  BY DEF presignPut, UploadsIInv
<1>2. pieces = <<>>
  BY <1>1 DEF AfterRequest
<1>3. RightObject => RightObject'
  <2>1. RightObject => stored' = stored
    BY <1>1 DEF AfterRequest, RightObject
  <2> QED
    BY <1>1, <2>1 DEF RightObject
<1>4. AfterRequest'
  BY <1>1, <1>2, <1>3 DEF AfterRequest, ConfirmationOK
<1> QED
  BY <1>1, <1>4 DEF UploadsIInv

LEMMA PartsKeep ==
  ASSUME UploadsIInv, PrepareUploadParts \/ PutPart
  PROVE  UploadsIInv'
<1> DEFINE plan == planUpload(file.size)
<1>1. pieces # <<>> /\ UNCHANGED <<file, stored, confirms>>
  BY DEF PrepareUploadParts, PutPart
<1>2. file.size # 0 /\ AfterRequest
  BY <1>1 DEF UploadsIInv, BeforeRequest
<1>3. /\ file.multipart /\ stored = <<>> /\ pieces = [n \in DOMAIN plan |-> pieces[n]]
      /\ ticket.asked \subseteq DOMAIN plan /\ ticket.received \subseteq DOMAIN plan
      /\ \A n \in ticket.received : pieces[n] = plan[n]
  BY <1>1, <1>2 DEF AfterRequest
<1>4. ticket = [asked |-> ticket.asked, received |-> ticket.received]
  BY <1>2 DEF AfterRequest
<1>5. SUFFICES /\ ticket' = [asked |-> ticket'.asked, received |-> ticket'.received]
               /\ pieces' = [n \in DOMAIN plan |-> pieces'[n]]
               /\ ticket'.asked \subseteq DOMAIN plan /\ ticket'.received \subseteq DOMAIN plan
               /\ \A n \in ticket'.received : pieces'[n] = plan[n]
  <2>1. \A c \in Confirmation : ConfirmationOK(c)'
    BY <1>1, <1>2 DEF AfterRequest, ConfirmationOK, RightObject
  <2>2. AfterRequest'
    BY <1>1, <1>2, <1>3, <1>5, <2>1 DEF AfterRequest, RightObject
  <2> QED
    BY <1>1, <1>2, <2>2 DEF UploadsIInv
<1> HIDE DEF plan
<1>6. CASE PrepareUploadParts
  <2>1. /\ ticket' = [asked |-> missingParts(plan, pieces), received |-> DOMAIN plan \ missingParts(plan, pieces)]
        /\ pieces' = pieces
    BY <1>6 DEF PrepareUploadParts, plan
  <2> QED
    BY <1>3, <2>1 DEF missingParts
<1>7. CASE PutPart
  <2> PICK n \in ticket.asked \cup ticket.received : \E size \in {plan[n], plan[n] - 1} \ {0} :
            /\ pieces' = [pieces EXCEPT ![n] = size]
            /\ ticket' = [ticket EXCEPT !.received = @ \ {n}]
    BY <1>7 DEF PutPart, plan
  <2> PICK size : pieces' = [pieces EXCEPT ![n] = size] /\ ticket' = [ticket EXCEPT !.received = @ \ {n}]
    OBVIOUS
  <2>1. ticket'.asked = ticket.asked /\ ticket'.received = ticket.received \ {n}
    BY <1>4
  <2>2. ticket' = [asked |-> ticket'.asked, received |-> ticket'.received]
    BY <1>4
  <2>3. pieces' = [k \in DOMAIN plan |-> pieces'[k]] /\ \A k \in DOMAIN plan \ {n} : pieces'[k] = pieces[k]
    BY <1>3
  <2> QED
    BY <1>3, <2>1, <2>2, <2>3
<1> QED
  BY <1>6, <1>7

LEMMA listUploadedPartsKeeps ==
  ASSUME UploadsIInv, NEW c \in Confirmation, listUploadedParts(c)
  PROVE  UploadsIInv'
<1> DEFINE plan == planUpload(file.size)
<1>1. file.size # 0 /\ AfterRequest /\ UNCHANGED <<file, pieces, stored, ticket>>
  BY DEF UploadsIInv, listUploadedParts
<1>2. CASE UNCHANGED confirms
  BY <1>1, <1>2, UploadsKeep DEF UploadsIInv, AfterRequest, ConfirmationOK, RightObject
<1>3. CASE ConfirmTo(c, "head")
  <2> DEFINE confirmation == [step |-> "head"]
  <2>1. confirms' = [confirms EXCEPT ![c] = confirmation]
    BY <1>3 DEF ConfirmTo
  <2>2. confirms'[c] = confirmation => ConfirmationOK(c)'
    BY DEF ConfirmationOK
  <2> HIDE DEF confirmation
  <2> QED
    BY <1>1, <2>1, <2>2, ConfirmationMoves
<1>4. CASE /\ pieces # <<>> /\ missingParts(plan, pieces) = {}
           /\ confirms' = [confirms EXCEPT ![c] = [step |-> "complete", parts |-> pieces]]
  <2> DEFINE confirmation == [step |-> "complete", parts |-> pieces]
  <2>1. pieces = [n \in DOMAIN plan |-> pieces[n]] /\ file.multipart
    BY <1>1, <1>4 DEF AfterRequest
  <2>2. plan = [n \in DOMAIN plan |-> plan[n]]
    BY <1>1, PlanType DEF AfterRequest, FileRow
  <2>3. pieces = plan
    <3> HIDE DEF plan
    <3> QED
      BY <1>4, <2>1, <2>2 DEF missingParts
  <2>4. confirms'[c] = confirmation => ConfirmationOK(c)'
    BY <1>1, <2>1, <2>3 DEF ConfirmationOK
  <2>5. confirms' = [confirms EXCEPT ![c] = confirmation]
    BY <1>4
  <2> HIDE DEF confirmation
  <2> QED
    BY <1>1, <2>4, <2>5, ConfirmationMoves
<1> QED
  BY <1>2, <1>3, <1>4 DEF listUploadedParts

\* A confirmation that fails, or has nothing more to do.
LEMMA ConfirmationEnds ==
  ASSUME UploadsIInv, file.size # 0, NEW c \in Confirmation, ConfirmTo(c, "idle"),
         UNCHANGED <<file, pieces, stored, ticket>>
  PROVE  UploadsIInv'
<1> DEFINE confirmation == [step |-> "idle"]
<1>1. confirms' = [confirms EXCEPT ![c] = confirmation]
  BY DEF ConfirmTo
<1>2. confirms'[c] = confirmation => ConfirmationOK(c)'
  BY DEF ConfirmationOK
<1> HIDE DEF confirmation
<1> QED
  BY <1>1, <1>2, ConfirmationMoves

\* A confirmation under way has a file to look at.
LEMMA UnderWay ==
  ASSUME UploadsIInv, NEW c \in Confirmation, confirms[c].step # "idle"
  PROVE  file.size # 0 /\ AfterRequest /\ ConfirmationOK(c)
BY DEF UploadsIInv, BeforeRequest, AfterRequest

LEMMA completeMultipartUploadKeeps ==
  ASSUME UploadsIInv, NEW c \in Confirmation, completeMultipartUpload(c)
  PROVE  UploadsIInv'
<1> DEFINE plan == planUpload(file.size)
<1>1. /\ file.size # 0 /\ AfterRequest /\ UNCHANGED <<file, ticket>>
      /\ file.multipart /\ confirms[c].parts = plan
  BY UnderWay DEF completeMultipartUpload, ConfirmationOK
<1>2. CASE ConfirmTo(c, "idle") /\ UNCHANGED <<pieces, stored>>
  BY <1>1, <1>2, ConfirmationEnds
<1>3. CASE /\ pieces # <<>> /\ stored' = plan /\ pieces' = <<>>
           /\ \E step \in {"head", "idle"} : ConfirmTo(c, step)
  <2>1. PICK step \in {"head", "idle"} : confirms' = [confirms EXCEPT ![c] = [step |-> step]]
    BY <1>3 DEF ConfirmTo
  <2>2. stored = <<>>
    BY <1>1, <1>3 DEF AfterRequest
  <2>3. ~RightObject
    BY <2>2 DEF RightObject
  <2>4. \A o \in Confirmation : ConfirmationOK(o)'
    <3>1. ASSUME NEW o \in Confirmation \ {c}
          PROVE  ConfirmationOK(o)'
      <4>1. confirms'[o] = confirms[o] /\ ConfirmationOK(o)
        BY <1>1, <2>1, <3>1 DEF AfterRequest, UploadsIInv
      <4> QED
        BY <1>1, <2>3, <4>1 DEF ConfirmationOK
    <3>2. confirms'[c].step = step
      BY <2>1 DEF UploadsIInv
    <3>3. ConfirmationOK(c)'
      BY <3>2 DEF ConfirmationOK
    <3> QED
      BY <3>1, <3>3
  <2>5. AfterRequest'
    BY <1>1, <1>3, <2>3, <2>4 DEF AfterRequest
  <2> QED
    BY <1>1, <2>1, <2>5, UploadsKeep DEF UploadsIInv, AfterRequest
<1> QED
  BY <1>1, <1>2, <1>3 DEF completeMultipartUpload

LEMMA InspectObjectKeeps ==
  ASSUME UploadsIInv, NEW c \in Confirmation, InspectObject(c)
  PROVE  UploadsIInv'
<1>1. file.size # 0 /\ AfterRequest /\ UNCHANGED <<file, pieces, ticket>>
  BY UnderWay DEF InspectObject
<1>2. CASE ConfirmTo(c, "idle") /\ UNCHANGED stored
  BY <1>1, <1>2, ConfirmationEnds
<1>3. CASE (SizeOf(stored) # file.size \/ ~file.pdf) /\ ConfirmTo(c, "idle") /\ stored' = <<>>
  <2>1. ~RightObject
    BY <1>3 DEF RightObject
  <2>2. \A o \in Confirmation : ConfirmationOK(o)'
    BY <1>1, <1>3, <2>1 DEF AfterRequest, ConfirmationOK, ConfirmTo, UploadsIInv
  <2>3. AfterRequest'
    BY <1>1, <1>3, <2>1, <2>2 DEF AfterRequest
  <2> QED
    BY <1>1, <1>3, <2>3, UploadsKeep DEF UploadsIInv, AfterRequest, ConfirmTo
<1>4. CASE RightObject /\ ConfirmTo(c, "mark") /\ UNCHANGED stored
  <2> DEFINE confirmation == [step |-> "mark"]
  <2>1. confirms' = [confirms EXCEPT ![c] = confirmation]
    BY <1>4 DEF ConfirmTo
  <2>2. confirms'[c] = confirmation => ConfirmationOK(c)'
    BY <1>1, <1>4 DEF ConfirmationOK, RightObject
  <2> HIDE DEF confirmation
  <2> QED
    BY <1>1, <1>4, <2>1, <2>2, ConfirmationMoves
<1> QED
  BY <1>2, <1>3, <1>4 DEF InspectObject, RightObject

LEMMA markUploadedKeeps ==
  ASSUME UploadsIInv, NEW c \in Confirmation, markUploaded(c)
  PROVE  UploadsIInv'
<1>1. /\ file.size # 0 /\ AfterRequest /\ RightObject /\ UNCHANGED <<pieces, stored, ticket>>
      /\ file' = [file EXCEPT !.uploaded = TRUE] /\ ConfirmTo(c, "idle")
  BY UnderWay DEF markUploaded, ConfirmationOK
<1>2. /\ file' \in FileRow /\ file'.size = file.size /\ file'.pdf = file.pdf
      /\ file'.multipart = file.multipart
  BY <1>1 DEF AfterRequest, FileRow
<1>3. RightObject'
  BY <1>1, <1>2 DEF RightObject
<1>4. \A o \in Confirmation : ConfirmationOK(o)'
  BY <1>1, <1>2, <1>3 DEF AfterRequest, ConfirmationOK, ConfirmTo, UploadsIInv
<1>5. AfterRequest'
  BY <1>1, <1>2, <1>3, <1>4 DEF AfterRequest
<1> QED
  BY <1>1, <1>2, <1>5, UploadsKeep DEF UploadsIInv, ConfirmTo

LEMMA UploadsStep == UploadsIInv /\ [UploadsNext]_uploadVars => UploadsIInv'
<1> SUFFICES ASSUME UploadsIInv, [UploadsNext]_uploadVars PROVE UploadsIInv'
  OBVIOUS
<1>1. ASSUME NEW c \in Confirmation, unavailable(c)
      PROVE  UploadsIInv'
  BY <1>1, UnderWay, ConfirmationEnds DEF unavailable
<1>2. CASE UNCHANGED uploadVars
  BY <1>2 DEF uploadVars, UploadsIInv, BeforeRequest, AfterRequest, ConfirmationOK, RightObject
<1> QED
  BY <1>1, <1>2, AskUploadKeeps, presignPutKeeps, PartsKeep, listUploadedPartsKeeps,
     completeMultipartUploadKeeps, InspectObjectKeeps, markUploadedKeeps DEF UploadsNext

\* Only a PDF of the declared size is taken as uploaded, an object is assembled
\* from all of its parts, each once and whole, and a part said received is whole,
\* whatever confirmations overlap, fail and are sent again (multipart.ts,
\* confirm-upload.use-case.ts).
THEOREM UploadIsWholeInvariant == UploadsSpec => []UploadIsWhole
<1> QED
  BY UploadsBegin, UploadsStep, UploadsIInvHolds, PTL DEF UploadsSpec

-----------------------------------------------------------------------------
(* Sign-in codes: the messages a window of time may see, those being sent    *)
(* and those admitted to be sent.                                            *)

SignInNext ==
  \/ DispatchNext /\ UNCHANGED <<hour, accountVars>>
  \/ AccountsNext /\ UNCHANGED <<hour, dispatchVars>>
  \/ HourPasses /\ UNCHANGED <<dispatchVars, accountVars>>

SignInSpec == SignInInit /\ [][SignInNext]_signInVars

Instants == 0 .. MaxHour
Counts == [Destination -> [Instants -> Nat]]
Sent == {"token", "post", "mail"}
Passed == Sent \cup {"record"}

DispatchRow == [step : {"count", "check", "record"} \cup Sent, dest : Destination, now : Instants,
                today : Nat, retried : BOOLEAN]

HandlerOK(x) ==
  \/ x = Idle
  \/ /\ x \in DispatchRow
     /\ hour - 1 <= x.now /\ x.now <= hour
     /\ x.step \in {"token", "post"} => x.dest \in Phone
     /\ x.step = "mail" => x.dest \notin Phone

SenderOK ==
  /\ hour \in Instants
  /\ otpLog \in Counts /\ accepted \in Counts
  /\ DOMAIN handlers = OtpHandler /\ \A h \in OtpHandler : HandlerOK(handlers[h])

\* Messages to the destinations P at the instants T.
TotalOf(counts, P, T) == SumFunctionOnSet([d \in P |-> SumFunctionOnSet(counts[d], T)], P)

\* The requests handled for them, at these steps.
InStep(x, P, T, steps) == x.step \in steps /\ x.dest \in P /\ x.now \in T
Sending(P, T) == {h \in OtpHandler : InStep(handlers[h], P, T, Sent)}
Admitted(P, T) == {h \in OtpHandler : InStep(handlers[h], P, T, Passed)}
IsCleared(x, T) ==
  \/ InStep(x, Phone, T, Passed)
  \/ InStep(x, Phone, T, {"check"}) /\ x.today < SmsDailyLimit
Cleared(T) == {h \in OtpHandler : IsCleared(handlers[h], T)}

\* Destinations counted together, and the copies of a message they may get.
Groups == {{d} : d \in Destination} \cup {Phone}
Copies(P) == IF P \subseteq Phone THEN 1 ELSE MailAttempts

Kept == {t \in Instants : t >= hour - RetentionLength}
HourFrom(from) == {t \in Instants : t >= from /\ t < from + (HourLength + 1)}
DayFrom(from) == {t \in Instants : t >= from /\ t < from + DayLength}
Day == {from \in Instants : from = startOfUtcDay(from)}

Others == Cardinality(OtpHandler)

\* Every message taken by the provider was recorded, as long as rows are kept.
Recorded ==
  \A P \in Groups : \A T \in SUBSET Kept :
    TotalOf(accepted, P, T) + Copies(P) * Cardinality(Sending(P, T)) <= Copies(P) * TotalOf(otpLog, P, T)

\* The messages of an hour, with those admitted, and the SMS of a day.
HourBounded ==
  \A d \in Destination, from \in Instants :
    TotalOf(accepted, {d}, HourFrom(from)) + Copies({d}) * Cardinality(Admitted({d}, HourFrom(from)))
      <= Copies({d}) * (MaxPerDestinationPerHour - 1 + Others)

DayBounded ==
  \A from \in Day :
    TotalOf(accepted, Phone, DayFrom(from)) + Cardinality(Cleared(DayFrom(from)))
      <= SmsDailyLimit - 1 + Others

SenderIInv == SenderOK /\ Recorded /\ HourBounded /\ DayBounded

\* Sums of messages.
LEMMA TotalType ==
  ASSUME NEW counts \in Counts, NEW P \in SUBSET Destination, IsFiniteSet(P), NEW T \in SUBSET Instants
  PROVE  /\ IsFiniteSet(T) /\ TotalOf(counts, P, T) \in Nat
         /\ \A d \in Destination : SumFunctionOnSet(counts[d], T) \in Nat
<1>1. IsFiniteSet(T)
  <2>1. IsFiniteSet(Instants)
    BY FS_Interval, SignInAssumption DEF Instants
  <2> QED
    BY <2>1, FS_Subset
<1>2. ASSUME NEW d \in Destination
      PROVE  SumFunctionOnSet(counts[d], T) \in Nat
  <2>1. \A t \in T : counts[d][t] \in Nat
    BY DEF Counts
  <2> QED
    BY <1>1, <2>1, SumType
<1>3. TotalOf(counts, P, T) \in Nat
  <2> DEFINE f == [d \in P |-> SumFunctionOnSet(counts[d], T)]
  <2>1. \A d \in P : f[d] \in Nat
    BY <1>2
  <2> HIDE DEF f
  <2>2. SumFunctionOnSet(f, P) \in Nat
    BY <2>1, SumType
  <2> QED
    BY <2>2 DEF TotalOf, f
<1> QED
  BY <1>1, <1>2, <1>3

\* One destination alone.
LEMMA TotalOfOne ==
  ASSUME NEW counts \in Counts, NEW d \in Destination, NEW T \in SUBSET Instants
  PROVE  TotalOf(counts, {d}, T) = SumFunctionOnSet(counts[d], T)
<1> DEFINE f == [e \in {d} |-> SumFunctionOnSet(counts[e], T)]
           D == {d}
<1>1. IsFiniteSet(D) /\ D \subseteq Destination /\ d \in D /\ D \ {d} = {}
  BY FS_Singleton
<1>2. f[d] = SumFunctionOnSet(counts[d], T) /\ f[d] \in Nat
  BY <1>1, TotalType
<1>3. \A x \in D : f[x] \in Int
  BY <1>2
<1> HIDE DEF f, D
<1>4. SumFunctionOnSet(f, D) = f[d] + SumFunctionOnSet(f, D \ {d})
  BY <1>1, <1>3, SumRemove
<1>5. SumFunctionOnSet(f, D) = f[d]
  BY <1>1, <1>2, <1>4, SumEmpty
<1> QED
  BY <1>2, <1>5 DEF TotalOf, f, D

\* Some more messages, at one destination and instant.
MovedBy(moved, counts, dest, t, n) ==
  /\ moved \in Counts
  /\ moved[dest][t] = counts[dest][t] + n
  /\ \A k \in Instants : k # t => moved[dest][k] = counts[dest][k]
  /\ \A d \in Destination : d # dest => moved[d] = counts[d]

LEMMA TotalMoved ==
  ASSUME NEW counts \in Counts, NEW P \in SUBSET Destination, IsFiniteSet(P), NEW T \in SUBSET Instants,
         NEW dest \in Destination, NEW t \in Instants, NEW n \in Nat,
         NEW moved, MovedBy(moved, counts, dest, t, n)
  PROVE  TotalOf(moved, P, T) = TotalOf(counts, P, T) + (IF dest \in P /\ t \in T THEN n ELSE 0)
<1> DEFINE f == [d \in P |-> SumFunctionOnSet(counts[d], T)]
           g == [d \in P |-> SumFunctionOnSet(moved[d], T)]
<1>1. moved \in Counts
  BY DEF MovedBy
<1>2. /\ moved[dest][t] = counts[dest][t] + n
      /\ \A k \in Instants : k # t => moved[dest][k] = counts[dest][k]
      /\ \A d \in Destination : d # dest => moved[d] = counts[d]
  BY DEF MovedBy
<1>3. SumFunctionOnSet(moved[dest], T) = SumFunctionOnSet(counts[dest], T) + (IF t \in T THEN n ELSE 0)
  <2>1. \A k \in T : /\ counts[dest][k] \in Int /\ moved[dest][k] \in Int
                     /\ k # t => moved[dest][k] = counts[dest][k]
    BY <1>1, <1>2 DEF Counts
  <2>2. SumFunctionOnSet(moved[dest], T)
          = SumFunctionOnSet(counts[dest], T)
            + (IF t \in T THEN moved[dest][t] - counts[dest][t] ELSE 0)
    BY <2>1, TotalType, SumMoved
  <2>3. counts[dest][t] \in Nat
    BY DEF Counts
  <2> QED
    BY <1>2, <2>2, <2>3
<1>4. \A d \in P : /\ f[d] \in Int /\ g[d] \in Int
                   /\ d # dest => g[d] = f[d]
  <2>1. \A d \in Destination : /\ SumFunctionOnSet(counts[d], T) \in Nat
                                /\ SumFunctionOnSet(moved[d], T) \in Nat
    BY <1>1, TotalType
  <2> QED
    BY <1>2, <2>1
<1>5. dest \in P => g[dest] - f[dest] = IF t \in T THEN n ELSE 0
  <2>1. SumFunctionOnSet(counts[dest], T) \in Nat
    BY TotalType
  <2>2. dest \in P => /\ g[dest] = SumFunctionOnSet(moved[dest], T)
                      /\ f[dest] = SumFunctionOnSet(counts[dest], T)
    OBVIOUS
  <2> QED
    BY <1>3, <2>1, <2>2
<1> HIDE DEF f, g
<1>6. SumFunctionOnSet(g, P) = SumFunctionOnSet(f, P) + (IF dest \in P THEN g[dest] - f[dest] ELSE 0)
  BY <1>4, SumMoved
<1>7. SumFunctionOnSet(f, P) \in Nat
  BY TotalType DEF TotalOf, f
<1> QED
  BY <1>5, <1>6, <1>7 DEF TotalOf, f, g

\* A larger window has at least as many messages.
LEMMA TotalGrows ==
  ASSUME NEW counts \in Counts, NEW P \in SUBSET Destination, IsFiniteSet(P),
         NEW U \in SUBSET Instants, NEW T \in SUBSET U
  PROVE  TotalOf(counts, P, T) <= TotalOf(counts, P, U)
<1> DEFINE f == [d \in P |-> SumFunctionOnSet(counts[d], T)]
           g == [d \in P |-> SumFunctionOnSet(counts[d], U)]
<1>1. \A d \in P : f[d] \in Nat /\ g[d] \in Nat /\ f[d] <= g[d]
  <2> SUFFICES ASSUME NEW d \in P
               PROVE  f[d] \in Nat /\ g[d] \in Nat /\ f[d] <= g[d]
    OBVIOUS
  <2>1. \A t \in U : counts[d][t] \in Nat
    BY DEF Counts
  <2>2. SumFunctionOnSet(counts[d], T) <= SumFunctionOnSet(counts[d], U)
    BY <2>1, TotalType, SumOverSuperset
  <2> QED
    BY <2>2, TotalType
<1> HIDE DEF f, g
<1>2. SumFunctionOnSet(f, P) <= SumFunctionOnSet(g, P)
  BY <1>1, SumMonotone
<1> QED
  BY <1>2 DEF TotalOf, f, g

\* The other requests stay where they are.
Bit(b) == IF b THEN 1 ELSE 0

LEMMA HandlersCounted ==
  ASSUME NEW A \in SUBSET OtpHandler, NEW B \in SUBSET OtpHandler, NEW h \in OtpHandler,
         \A o \in OtpHandler : o # h => (o \in A <=> o \in B)
  PROVE  /\ Cardinality(A) \in Nat /\ Cardinality(B) \in Nat
         /\ Cardinality(B) = Cardinality(A) + Bit(h \in B) - Bit(h \in A)
<1> DEFINE rest == A \ {h}
<1>1. IsFiniteSet(A) /\ IsFiniteSet(B) /\ IsFiniteSet(rest)
  BY FS_Subset, SignInAssumption
<1>2. /\ Cardinality(A) \in Nat /\ Cardinality(B) \in Nat /\ Cardinality(rest) \in Nat
  BY <1>1, FS_CardinalityType
<1>3. Cardinality(rest) = IF h \in A THEN Cardinality(A) - 1 ELSE Cardinality(A)
  BY <1>1, FS_RemoveElement
<1>4. rest = B \ {h}
  OBVIOUS
<1>5. Cardinality(rest) = IF h \in B THEN Cardinality(B) - 1 ELSE Cardinality(B)
  BY <1>1, <1>4, FS_RemoveElement
<1> HIDE DEF rest
<1> QED
  BY <1>2, <1>3, <1>5 DEF Bit

LEMMA HandlersFewer ==
  ASSUME NEW A \in SUBSET OtpHandler, NEW B \in SUBSET A
  PROVE  /\ Cardinality(A) \in Nat /\ Cardinality(B) \in Nat /\ Others \in Nat
         /\ Cardinality(B) <= Cardinality(A) /\ Cardinality(A) <= Others
BY FS_Subset, FS_CardinalityType, SignInAssumption DEF Others

\* One request moves on.
Moves(h, y) == handlers' = [handlers EXCEPT ![h] = y]

LEMMA SendingMoves ==
  ASSUME SenderOK, NEW h \in OtpHandler, NEW y, Moves(h, y), NEW P, NEW T
  PROVE  /\ Cardinality(Sending(P, T)) \in Nat /\ Cardinality(Sending(P, T)') \in Nat
         /\ Cardinality(Sending(P, T)')
              = Cardinality(Sending(P, T)) + Bit(InStep(y, P, T, Sent)) - Bit(InStep(handlers[h], P, T, Sent))
<1>1. /\ handlers'[h] = y
      /\ \A o \in OtpHandler : o # h => handlers'[o] = handlers[o]
  BY DEF Moves, SenderOK
<1>2. /\ Sending(P, T) \in SUBSET OtpHandler /\ Sending(P, T)' \in SUBSET OtpHandler
      /\ \A o \in OtpHandler : o # h => (o \in Sending(P, T) <=> o \in Sending(P, T)')
      /\ h \in Sending(P, T)' <=> InStep(y, P, T, Sent)
      /\ h \in Sending(P, T) <=> InStep(handlers[h], P, T, Sent)
  BY <1>1 DEF Sending
<1> QED
  BY <1>2, HandlersCounted DEF Bit

LEMMA AdmittedMoves ==
  ASSUME SenderOK, NEW h \in OtpHandler, NEW y, Moves(h, y), NEW P, NEW T
  PROVE  /\ Cardinality(Admitted(P, T)) \in Nat /\ Cardinality(Admitted(P, T)') \in Nat
         /\ Cardinality(Admitted(P, T)')
              = Cardinality(Admitted(P, T)) + Bit(InStep(y, P, T, Passed)) - Bit(InStep(handlers[h], P, T, Passed))
<1>1. /\ handlers'[h] = y
      /\ \A o \in OtpHandler : o # h => handlers'[o] = handlers[o]
  BY DEF Moves, SenderOK
<1>2. /\ Admitted(P, T) \in SUBSET OtpHandler /\ Admitted(P, T)' \in SUBSET OtpHandler
      /\ \A o \in OtpHandler : o # h => (o \in Admitted(P, T) <=> o \in Admitted(P, T)')
      /\ h \in Admitted(P, T)' <=> InStep(y, P, T, Passed)
      /\ h \in Admitted(P, T) <=> InStep(handlers[h], P, T, Passed)
  BY <1>1 DEF Admitted
<1> QED
  BY <1>2, HandlersCounted DEF Bit

LEMMA ClearedMoves ==
  ASSUME SenderOK, NEW h \in OtpHandler, NEW y, Moves(h, y), NEW T
  PROVE  /\ Cardinality(Cleared(T)) \in Nat /\ Cardinality(Cleared(T)') \in Nat
         /\ Cardinality(Cleared(T)')
              = Cardinality(Cleared(T)) + Bit(IsCleared(y, T)) - Bit(IsCleared(handlers[h], T))
<1>1. /\ handlers'[h] = y
      /\ \A o \in OtpHandler : o # h => handlers'[o] = handlers[o]
  BY DEF Moves, SenderOK
<1>2. /\ Cleared(T) \in SUBSET OtpHandler /\ Cleared(T)' \in SUBSET OtpHandler
      /\ \A o \in OtpHandler : o # h => (o \in Cleared(T) <=> o \in Cleared(T)')
      /\ h \in Cleared(T)' <=> IsCleared(y, T)
      /\ h \in Cleared(T) <=> IsCleared(handlers[h], T)
  BY <1>1 DEF Cleared
<1> QED
  BY <1>2, HandlersCounted DEF Bit

\* Groups of destinations are finite, a message to one has one or two copies.
LEMMA GroupType ==
  ASSUME NEW P \in Groups
  PROVE  /\ P \in SUBSET Destination /\ IsFiniteSet(P)
         /\ Copies(P) \in {1, 2}
<1>1. Copies(P) \in {1, 2}
  BY DEF Copies, MailAttempts
<1>2. CASE P = Phone
  BY <1>1, <1>2, SignInAssumption DEF Destination
<1>3. ASSUME NEW d \in Destination, P = {d}
      PROVE  P \in SUBSET Destination /\ IsFiniteSet(P)
  BY <1>3, FS_Singleton
<1> QED
  BY <1>1, <1>2, <1>3 DEF Groups

\* A step that sends nothing and admits nobody keeps the bounds.
LEMMA RecordedKept ==
  ASSUME SenderOK, Recorded, SenderOK', UNCHANGED <<otpLog, accepted>>, Kept' \subseteq Kept,
         \A P, T : Sending(P, T)' \subseteq Sending(P, T)
  PROVE  Recorded'
<1> SUFFICES ASSUME NEW P \in Groups, NEW T \in SUBSET Kept'
             PROVE  TotalOf(accepted, P, T) + Copies(P) * Cardinality(Sending(P, T)')
                      <= Copies(P) * TotalOf(otpLog, P, T)
  BY DEF Recorded
<1>1. TotalOf(accepted, P, T) + Copies(P) * Cardinality(Sending(P, T)) <= Copies(P) * TotalOf(otpLog, P, T)
  BY DEF Recorded
<1>2. /\ Cardinality(Sending(P, T)') \in Nat /\ Cardinality(Sending(P, T)) \in Nat
      /\ Cardinality(Sending(P, T)') <= Cardinality(Sending(P, T))
  <2>1. Sending(P, T) \in SUBSET OtpHandler /\ Sending(P, T)' \in SUBSET Sending(P, T)
    BY DEF Sending
  <2> QED
    BY <2>1, HandlersFewer
<1>3. TotalOf(accepted, P, T) \in Nat /\ TotalOf(otpLog, P, T) \in Nat
  <2>1. T \in SUBSET Instants
    BY DEF Kept
  <2> QED
    BY <2>1, GroupType, TotalType DEF SenderOK
<1>4. Copies(P) \in {1, 2}
  BY GroupType
<1> QED
  BY <1>1, <1>2, <1>3, <1>4

LEMMA HourKept ==
  ASSUME SenderOK, HourBounded, SenderOK', UNCHANGED accepted,
         \A P, T : Admitted(P, T)' \subseteq Admitted(P, T)
  PROVE  HourBounded'
<1> SUFFICES ASSUME NEW d \in Destination, NEW from \in Instants
             PROVE  TotalOf(accepted, {d}, HourFrom(from))
                      + Copies({d}) * Cardinality(Admitted({d}, HourFrom(from))')
                      <= Copies({d}) * (MaxPerDestinationPerHour - 1 + Others)
  BY DEF HourBounded
<1> DEFINE P == {d}
           T == HourFrom(from)
<1>1. TotalOf(accepted, P, T) + Copies(P) * Cardinality(Admitted(P, T))
        <= Copies(P) * (MaxPerDestinationPerHour - 1 + Others)
  BY DEF HourBounded
<1>2. P \in Groups /\ T \in SUBSET Instants
  BY DEF Groups, HourFrom
<1> HIDE DEF P, T
<1>3. /\ Cardinality(Admitted(P, T)') \in Nat /\ Cardinality(Admitted(P, T)) \in Nat /\ Others \in Nat
      /\ Cardinality(Admitted(P, T)') <= Cardinality(Admitted(P, T))
  <2>1. Admitted(P, T) \in SUBSET OtpHandler /\ Admitted(P, T)' \in SUBSET Admitted(P, T)
    BY DEF Admitted
  <2> QED
    BY <2>1, HandlersFewer
<1>4. TotalOf(accepted, P, T) \in Nat
  BY <1>2, GroupType, TotalType DEF SenderOK
<1>5. Copies(P) \in {1, 2}
  BY <1>2, GroupType
<1>6. MaxPerDestinationPerHour \in Nat
  BY SignInAssumption
<1>7. TotalOf(accepted, P, T) + Copies(P) * Cardinality(Admitted(P, T)')
        <= Copies(P) * (MaxPerDestinationPerHour - 1 + Others)
  BY <1>1, <1>3, <1>4, <1>5, <1>6
<1> QED
  BY <1>7 DEF P, T

LEMMA DayKept ==
  ASSUME SenderOK, DayBounded, SenderOK', UNCHANGED accepted, \A T : Cleared(T)' \subseteq Cleared(T)
  PROVE  DayBounded'
<1> SUFFICES ASSUME NEW from \in Day
             PROVE  TotalOf(accepted, Phone, DayFrom(from)) + Cardinality(Cleared(DayFrom(from))')
                      <= SmsDailyLimit - 1 + Others
  BY DEF DayBounded
<1> DEFINE T == DayFrom(from)
<1>1. TotalOf(accepted, Phone, T) + Cardinality(Cleared(T)) <= SmsDailyLimit - 1 + Others
  BY DEF DayBounded
<1>2. Phone \in Groups /\ T \in SUBSET Instants
  BY DEF Groups, DayFrom
<1> HIDE DEF T
<1>3. /\ Cardinality(Cleared(T)') \in Nat /\ Cardinality(Cleared(T)) \in Nat /\ Others \in Nat
      /\ Cardinality(Cleared(T)') <= Cardinality(Cleared(T))
  <2>1. Cleared(T) \in SUBSET OtpHandler /\ Cleared(T)' \in SUBSET Cleared(T)
    BY DEF Cleared
  <2> QED
    BY <2>1, HandlersFewer
<1>4. TotalOf(accepted, Phone, T) \in Nat
  BY <1>2, GroupType, TotalType DEF SenderOK
<1>5. SmsDailyLimit \in Nat
  BY SignInAssumption
<1>6. TotalOf(accepted, Phone, T) + Cardinality(Cleared(T)') <= SmsDailyLimit - 1 + Others
  BY <1>1, <1>3, <1>4, <1>5
<1> QED
  BY <1>6 DEF T

LEMMA SenderTypeMoves ==
  ASSUME SenderOK, NEW h \in OtpHandler, NEW y, Moves(h, y), hour' = hour, HandlerOK(y),
         otpLog' \in Counts, accepted' \in Counts
  PROVE  SenderOK'
<1>1. \A o \in OtpHandler : handlers'[o] = IF o = h THEN y ELSE handlers[o]
  BY DEF Moves, SenderOK
<1>2. \A o \in OtpHandler : HandlerOK(handlers'[o])
  BY <1>1 DEF SenderOK
<1>3. \A o \in OtpHandler : HandlerOK(handlers[o])'
  BY <1>2 DEF HandlerOK
<1> QED
  BY <1>3 DEF SenderOK, Moves

\* What a request of this step counts for.
ShrinksTo(y, x) ==
  /\ \A P, T : InStep(y, P, T, Sent) => InStep(x, P, T, Sent)
  /\ \A P, T : InStep(y, P, T, Passed) => InStep(x, P, T, Passed)
  /\ \A T : IsCleared(y, T) => IsCleared(x, T)

LEMMA MovesShrink ==
  ASSUME SenderOK, NEW h \in OtpHandler, NEW y, Moves(h, y), ShrinksTo(y, handlers[h])
  PROVE  /\ \A P, T : Sending(P, T)' \subseteq Sending(P, T)
         /\ \A P, T : Admitted(P, T)' \subseteq Admitted(P, T)
         /\ \A T : Cleared(T)' \subseteq Cleared(T)
<1>1. \A o \in OtpHandler : handlers'[o] = IF o = h THEN y ELSE handlers[o]
  BY DEF Moves, SenderOK
<1>2. \A o \in OtpHandler : ShrinksTo(handlers'[o], handlers[o])
  BY <1>1 DEF ShrinksTo
<1>3. ASSUME NEW P, NEW T
      PROVE  /\ Sending(P, T)' \subseteq Sending(P, T)
             /\ Admitted(P, T)' \subseteq Admitted(P, T)
             /\ Cleared(T)' \subseteq Cleared(T)
  BY <1>2 DEF ShrinksTo, Sending, Admitted, Cleared
<1> QED
  BY <1>3

LEMMA QuietMove ==
  ASSUME SenderIInv, NEW h \in OtpHandler, NEW y, Moves(h, y), UNCHANGED <<hour, otpLog, accepted>>,
         HandlerOK(y), ShrinksTo(y, handlers[h])
  PROVE  SenderIInv'
<1>1. SenderOK'
  BY SenderTypeMoves DEF SenderIInv, SenderOK
<1>2. /\ \A P, T : Sending(P, T)' \subseteq Sending(P, T)
      /\ \A P, T : Admitted(P, T)' \subseteq Admitted(P, T)
      /\ \A T : Cleared(T)' \subseteq Cleared(T)
  BY MovesShrink DEF SenderIInv
<1>3. Kept' = Kept
  BY DEF Kept
<1>4. Recorded'
  BY <1>1, <1>2, <1>3, RecordedKept DEF SenderIInv
<1>5. HourBounded'
  BY <1>1, <1>2, HourKept DEF SenderIInv
<1>6. DayBounded'
  BY <1>1, <1>2, DayKept DEF SenderIInv
<1> QED
  BY <1>1, <1>4, <1>5, <1>6 DEF SenderIInv

\* A request that ends counts for nothing.
LEMMA IdleShrinks ==
  ASSUME NEW x
  PROVE  ShrinksTo(Idle, x) /\ HandlerOK(Idle)
BY DEF ShrinksTo, InStep, IsCleared, Idle, Sent, Passed, HandlerOK

\* A request that goes to another step, about the same message.
LEMMA Stepped ==
  ASSUME NEW x \in DispatchRow, NEW s \in {"count", "check", "record"} \cup Sent, NEW y,
         y = [x EXCEPT !.step = s]
  PROVE  /\ y \in DispatchRow /\ y.step = s /\ y.dest = x.dest /\ y.now = x.now /\ y.today = x.today
BY DEF DispatchRow

LEMMA RequestCodeKeeps ==
  ASSUME SenderIInv, NEW h \in OtpHandler, RequestCode(h), UNCHANGED hour
  PROVE  SenderIInv'
<1>1. PICK dest \in Destination :
        handlers' = [handlers EXCEPT ![h] =
          [step |-> "count", dest |-> dest, now |-> hour, today |-> 0, retried |-> FALSE]]
  BY DEF RequestCode
<1> DEFINE y == [step |-> "count", dest |-> dest, now |-> hour, today |-> 0, retried |-> FALSE]
<1>2. Moves(h, y)
  BY <1>1 DEF Moves
<1>3. y \in DispatchRow /\ y.now = hour /\ y.step = "count" /\ hour \in Int
  BY DEF DispatchRow, SenderIInv, SenderOK, Instants
<1> HIDE DEF y
<1>4. HandlerOK(y)
  BY <1>3 DEF HandlerOK
<1>5. ShrinksTo(y, handlers[h])
  BY <1>3 DEF ShrinksTo, InStep, IsCleared, Sent, Passed
<1> QED
  BY <1>2, <1>4, <1>5, QuietMove DEF RequestCode

LEMMA accessTokenKeeps ==
  ASSUME SenderIInv, NEW h \in OtpHandler, accessToken(h), UNCHANGED hour
  PROVE  SenderIInv'
<1>1. PICK x : x = handlers[h]
  OBVIOUS
<1>2. x.step = "token" /\ HandlerOK(x) /\ x \in DispatchRow /\ x.dest \in Phone
  BY <1>1 DEF accessToken, SenderIInv, SenderOK, HandlerOK, Idle
<1>3. CASE Answered(h)
  BY <1>3, IdleShrinks, QuietMove DEF accessToken, Answered, Moves
<1>4. CASE Dispatch(h, "post")
  <2> DEFINE y == [x EXCEPT !.step = "post"]
  <2>1. Moves(h, y)
    BY <1>1, <1>4 DEF Dispatch, Moves
  <2>2. /\ y \in DispatchRow /\ y.step = "post" /\ y.dest = x.dest /\ y.now = x.now /\ y.today = x.today
    BY <1>2, Stepped DEF Sent, Passed
  <2> HIDE DEF y
  <2>3. HandlerOK(y)
    BY <1>2, <2>2 DEF HandlerOK, Idle
  <2>4. ShrinksTo(y, x)
    BY <1>2, <2>2 DEF ShrinksTo, InStep, IsCleared, Sent, Passed
  <2> QED
    BY <1>1, <2>1, <2>3, <2>4, QuietMove DEF accessToken
<1> QED
  BY <1>3, <1>4 DEF accessToken

LEMMA TokenRefusedKeeps ==
  ASSUME SenderIInv, NEW h \in OtpHandler, TokenRefused(h), UNCHANGED hour
  PROVE  SenderIInv'
<1>1. PICK x : x = handlers[h]
  OBVIOUS
<1>2. x.step = "post" /\ HandlerOK(x) /\ x \in DispatchRow /\ x.dest \in Phone
  BY <1>1 DEF TokenRefused, SenderIInv, SenderOK, HandlerOK, Idle
<1>3. CASE Answered(h)
  BY <1>3, IdleShrinks, QuietMove DEF TokenRefused, Answered, Moves
<1>4. CASE handlers' = [handlers EXCEPT ![h].step = "token", ![h].retried = TRUE]
  <2> DEFINE y == [x EXCEPT !.step = "token", !.retried = TRUE]
  <2>1. Moves(h, y)
    BY <1>1, <1>4 DEF Moves, SenderIInv, SenderOK
  <2>2. /\ y \in DispatchRow /\ y.step = "token" /\ y.dest = x.dest /\ y.now = x.now /\ y.today = x.today
    BY <1>2 DEF DispatchRow, Sent, Passed
  <2> HIDE DEF y
  <2>3. HandlerOK(y)
    BY <1>2, <2>2 DEF HandlerOK, Idle
  <2>4. ShrinksTo(y, x)
    BY <1>2, <2>2 DEF ShrinksTo, InStep, IsCleared, Sent, Passed
  <2> QED
    BY <1>1, <2>1, <2>3, <2>4, QuietMove DEF TokenRefused
<1> QED
  BY <1>3, <1>4 DEF TokenRefused

\* The windows of the limits: an hour ends less than an hour after each of its
\* instants, a day begins at the midnight before each of its own.
LEMMA HourWindow ==
  ASSUME SenderOK, NEW from \in Instants, NEW now \in HourFrom(from), hour - 1 <= now
  PROVE  /\ HourFrom(from) \subseteq Kept
         /\ HourFrom(from) \subseteq {t \in 0 .. MaxHour : t >= oneHourBefore(now)}
<1>1. from \in Int /\ now \in Int /\ hour \in Int /\ from <= now /\ now < from + (HourLength + 1)
  BY SignInAssumption DEF HourFrom, Instants, SenderOK
<1>2. HourLength \in Int /\ RetentionLength \in Int /\ RetentionLength >= HourLength + 1
  BY SignInAssumption
<1>3. ASSUME NEW t \in HourFrom(from)
      PROVE  t \in Instants /\ t \in 0 .. MaxHour /\ t >= hour - RetentionLength /\ t >= now - HourLength
  <2>1. t \in Instants /\ t \in Int /\ t >= from /\ MaxHour \in Nat
    BY SignInAssumption DEF HourFrom, Instants
  <2>2. from >= now - HourLength
    BY <1>1, <1>2
  <2>3. now - HourLength >= hour - RetentionLength
    BY <1>1, <1>2
  <2> QED
    BY <1>1, <1>2, <2>1, <2>2, <2>3 DEF Instants
<1> QED
  BY <1>3 DEF Kept, oneHourBefore

LEMMA Midnight ==
  ASSUME NEW D \in Nat \ {0}, NEW from \in Nat, NEW now \in Nat,
         from = from - (from % D), from <= now, now < from + D
  PROVE  now - (now % D) = from
<1> DEFINE q == now \div D
           p == from \div D
           r == now % D
<1>1. /\ now = D * q + r /\ r \in 0 .. D - 1 /\ q \in Nat
      /\ from = D * p + (from % D) /\ p \in Nat /\ from % D \in 0 .. D - 1
  OBVIOUS
<1>2. from % D = 0 /\ from = D * p
  BY <1>1
<1> HIDE DEF q, p, r
<1>3. D * (q - p) = D * q - D * p /\ D * q \in Int /\ D * p \in Int /\ D * (q - p) \in Int
  BY <1>1
<1>4. D * (q - p) + r >= 0 /\ D * (q - p) + r < D
  BY <1>1, <1>2, <1>3
<1> DEFINE j == q - p
<1>5. j \in Int
  BY <1>1
<1>6. j < 1
  <2>1. j >= 1 => D * j >= D
    BY <1>5
  <2> HIDE DEF j
  <2> QED
    BY <1>1, <1>4, <1>5, <2>1 DEF j
<1>7. j > -1
  <2>1. j <= -1 => D * j <= -D
    BY <1>5
  <2> QED
    BY <1>1, <1>4, <1>5, <2>1 DEF j
<1>8. q = p
  BY <1>1, <1>5, <1>6, <1>7
<1> QED
  BY <1>1, <1>2, <1>8 DEF r

LEMMA DayWindow ==
  ASSUME SenderOK, NEW from \in Day, NEW now \in DayFrom(from), hour - 1 <= now
  PROVE  /\ DayFrom(from) \subseteq Kept
         /\ DayFrom(from) \subseteq {t \in 0 .. MaxHour : t >= startOfUtcDay(now)}
<1>1. /\ from \in Nat /\ now \in Nat /\ hour \in Int /\ from <= now /\ now < from + DayLength
      /\ from = from - (from % DayLength)
  BY SignInAssumption DEF DayFrom, Day, startOfUtcDay, Instants, SenderOK
<1>2. DayLength \in Nat \ {0} /\ RetentionLength \in Nat /\ RetentionLength > DayLength
  BY SignInAssumption
<1>3. startOfUtcDay(now) = from
  BY <1>1, <1>2, Midnight DEF startOfUtcDay
<1>4. ASSUME NEW t \in DayFrom(from)
      PROVE  t \in Instants /\ t \in 0 .. MaxHour /\ t >= hour - RetentionLength /\ t >= from
  <2>1. t \in Instants /\ t \in Nat /\ t >= from
    BY SignInAssumption DEF DayFrom, Instants
  <2>2. from >= hour - RetentionLength
    BY <1>1, <1>2
  <2> QED
    BY <1>1, <1>2, <2>1, <2>2 DEF Instants
<1> QED
  BY <1>3, <1>4 DEF Kept

\* The SMS of the day are counted, and there are fewer than the limit.
LEMMA CountTodayKeeps ==
  ASSUME SenderIInv, NEW h \in OtpHandler, CountToday(h), UNCHANGED hour
  PROVE  SenderIInv'
<1>1. PICK x : x = handlers[h]
  OBVIOUS
<1>2. x.step = "count" /\ HandlerOK(x) /\ x \in DispatchRow
  BY <1>1 DEF CountToday, SenderIInv, SenderOK, HandlerOK, Idle
<1>3. PICK today : today = IF x.dest \in Phone THEN countForChannelSince(startOfUtcDay(x.now)) ELSE 0
  OBVIOUS
<1> DEFINE y == [x EXCEPT !.step = "check", !.today = today]
           seen == {t \in 0 .. MaxHour : t >= startOfUtcDay(x.now)}
<1>4. Moves(h, y)
  BY <1>1, <1>3 DEF CountToday, Moves, SenderIInv, SenderOK
<1>5. seen \in SUBSET Instants
  BY DEF Instants
<1>6. Phone \in Groups
  BY DEF Groups
<1>7. countForChannelSince(startOfUtcDay(x.now)) = TotalOf(otpLog, Phone, seen)
  BY DEF countForChannelSince, Since, TotalOf
<1> HIDE DEF seen
<1>8. TotalOf(otpLog, Phone, seen) \in Nat
  BY <1>5, <1>6, GroupType, TotalType DEF SenderIInv, SenderOK
<1>9. today \in Nat
  BY <1>3, <1>7, <1>8
<1>10. y \in DispatchRow /\ y.step = "check" /\ y.dest = x.dest /\ y.now = x.now /\ y.today = today
  BY <1>2, <1>9 DEF DispatchRow
<1> HIDE DEF y
<1>11. HandlerOK(y)
  BY <1>2, <1>10 DEF HandlerOK, Idle
<1>12. SenderOK'
  BY <1>4, <1>11, SenderTypeMoves DEF CountToday, SenderIInv, SenderOK
<1>13. UNCHANGED <<otpLog, accepted>> /\ Kept' = Kept
  BY DEF CountToday, Kept
<1>14. /\ \A P, T : Sending(P, T)' \subseteq Sending(P, T)
       /\ \A P, T : Admitted(P, T)' \subseteq Admitted(P, T)
  <2>1. \A o \in OtpHandler : handlers'[o] = IF o = h THEN y ELSE handlers[o]
    BY <1>4 DEF Moves, SenderIInv, SenderOK
  <2>2. \A P, T : ~InStep(y, P, T, Sent) /\ ~InStep(y, P, T, Passed)
    BY <1>10 DEF InStep, Sent, Passed
  <2> QED
    BY <2>1, <2>2 DEF Sending, Admitted
<1>15. Recorded'
  BY <1>12, <1>13, <1>14, RecordedKept DEF SenderIInv
<1>16. HourBounded'
  BY <1>12, <1>13, <1>14, HourKept DEF SenderIInv
<1>17. ASSUME NEW from \in Day
       PROVE  TotalOf(accepted, Phone, DayFrom(from)) + Cardinality(Cleared(DayFrom(from))')
                <= SmsDailyLimit - 1 + Others
  <2> DEFINE T == DayFrom(from)
  <2>1. T \in SUBSET Instants
    BY DEF DayFrom
  <2>2. TotalOf(accepted, Phone, T) + Cardinality(Cleared(T)) <= SmsDailyLimit - 1 + Others
    BY DEF SenderIInv, DayBounded
  <2>3. x.now \in T => T \subseteq Kept /\ T \subseteq seen
    BY <1>2, DayWindow DEF HandlerOK, Idle, SenderIInv, seen
  <2> HIDE DEF T
  <2>4. TotalOf(accepted, Phone, T) \in Nat /\ TotalOf(otpLog, Phone, T) \in Nat
    BY <1>6, <2>1, GroupType, TotalType DEF SenderIInv, SenderOK
  <2>5. /\ Cardinality(Cleared(T)) \in Nat /\ Cardinality(Cleared(T)') \in Nat /\ Others \in Nat
        /\ Cardinality(Cleared(T)') = Cardinality(Cleared(T)) + Bit(IsCleared(y, T)) - Bit(IsCleared(x, T))
        /\ Cardinality(Cleared(T)') <= Others
    <3>1. Cleared(T)' \in SUBSET OtpHandler
      BY DEF Cleared
    <3>2. Cardinality(Cleared(T)') <= Others /\ Others \in Nat
      BY <3>1, HandlersFewer
    <3> QED
      BY <1>1, <1>4, <3>2, ClearedMoves DEF SenderIInv
  <2>6. SmsDailyLimit \in Nat
    BY SignInAssumption
  <2>7. CASE ~IsCleared(y, T)
    BY <2>2, <2>4, <2>5, <2>6, <2>7 DEF Bit, T
  <2>8. CASE IsCleared(y, T)
    <3>1. x.dest \in Phone /\ x.now \in T /\ today < SmsDailyLimit
      BY <1>10, <2>8 DEF IsCleared, InStep, Sent, Passed
    <3>2. TotalOf(otpLog, Phone, T) <= today
      BY <1>3, <1>5, <1>6, <1>7, <2>3, <3>1, GroupType, TotalGrows DEF SenderIInv, SenderOK
    <3>3. TotalOf(accepted, Phone, T) + Copies(Phone) * Cardinality(Sending(Phone, T))
            <= Copies(Phone) * TotalOf(otpLog, Phone, T)
      BY <1>6, <2>3, <3>1 DEF SenderIInv, Recorded
    <3>4. Cardinality(Sending(Phone, T)) \in Nat /\ Copies(Phone) = 1
      BY <1>4, SendingMoves DEF SenderIInv, Copies
    <3>5. TotalOf(accepted, Phone, T) <= today
      BY <2>4, <3>2, <3>3, <3>4, <1>9
    <3> QED
      BY <1>9, <2>4, <2>5, <2>6, <3>1, <3>5 DEF T
  <2> QED
    BY <2>7, <2>8 DEF T
<1>18. DayBounded'
  BY <1>13, <1>17 DEF DayBounded
<1> QED
  BY <1>12, <1>15, <1>16, <1>18 DEF SenderIInv

\* A request goes on when its destination has had fewer messages than the limit.
LEMMA CheckLimitsKeeps ==
  ASSUME SenderIInv, NEW h \in OtpHandler, CheckLimits(h), UNCHANGED hour
  PROVE  SenderIInv'
<1>1. PICK x : x = handlers[h]
  OBVIOUS
<1>2. x.step = "check" /\ HandlerOK(x) /\ x \in DispatchRow
  BY <1>1 DEF CheckLimits, SenderIInv, SenderOK, HandlerOK, Idle
<1>3. CASE Answered(h)
  BY <1>3, IdleShrinks, QuietMove DEF CheckLimits, Answered, Moves
<1>4. CASE /\ ~refusalFor(x.dest, countForDestinationSince(x.dest, oneHourBefore(x.now)), x.today)
           /\ Dispatch(h, "record")
  <2> DEFINE y == [x EXCEPT !.step = "record"]
             seen == {t \in 0 .. MaxHour : t >= oneHourBefore(x.now)}
  <2>1. Moves(h, y)
    BY <1>1, <1>4 DEF Dispatch, Moves
  <2>2. /\ y \in DispatchRow /\ y.step = "record" /\ y.dest = x.dest /\ y.now = x.now /\ y.today = x.today
    BY <1>2, Stepped
  <2>3. seen \in SUBSET Instants /\ x.dest \in Destination
    BY <1>2 DEF Instants, DispatchRow
  <2>4. countForDestinationSince(x.dest, oneHourBefore(x.now)) = TotalOf(otpLog, {x.dest}, seen)
    BY <2>3, TotalOfOne DEF countForDestinationSince, Since, SenderIInv, SenderOK
  <2> HIDE DEF y, seen
  <2>5. {x.dest} \in Groups /\ TotalOf(otpLog, {x.dest}, seen) \in Nat
    <3>1. {x.dest} \in Groups
      BY <2>3 DEF Groups
    <3> QED
      BY <2>3, <3>1, GroupType, TotalType DEF SenderIInv, SenderOK
  <2>6. MaxPerDestinationPerHour \in Nat /\ SmsDailyLimit \in Nat /\ x.today \in Nat
    BY <1>2, SignInAssumption DEF DispatchRow
  <2>7. /\ TotalOf(otpLog, {x.dest}, seen) <= MaxPerDestinationPerHour - 1
        /\ x.dest \in Phone => x.today < SmsDailyLimit
    BY <1>4, <2>4, <2>5, <2>6 DEF refusalFor
  <2>8. HandlerOK(y)
    BY <1>2, <2>2 DEF HandlerOK, Idle
  <2>9. SenderOK'
    BY <2>1, <2>8, SenderTypeMoves DEF CheckLimits, SenderIInv, SenderOK
  <2>10. UNCHANGED <<otpLog, accepted>> /\ Kept' = Kept
    BY DEF CheckLimits, Kept
  <2>11. /\ \A P, T : Sending(P, T)' \subseteq Sending(P, T)
         /\ \A T : Cleared(T)' \subseteq Cleared(T)
    <3>1. \A o \in OtpHandler : handlers'[o] = IF o = h THEN y ELSE handlers[o]
      BY <2>1 DEF Moves, SenderIInv, SenderOK
    <3>2. \A P, T : ~InStep(y, P, T, Sent)
      BY <2>2 DEF InStep, Sent, Passed
    <3>3. \A T : IsCleared(y, T) => IsCleared(x, T)
      BY <1>2, <2>2, <2>7 DEF IsCleared, InStep, Sent, Passed
    <3> QED
      BY <1>1, <3>1, <3>2, <3>3 DEF Sending, Cleared
  <2>12. Recorded'
    BY <2>9, <2>10, <2>11, RecordedKept DEF SenderIInv
  <2>13. DayBounded'
    BY <2>9, <2>10, <2>11, DayKept DEF SenderIInv
  <2>14. ASSUME NEW P, NEW T
         PROVE  /\ Cardinality(Admitted(P, T)) \in Nat /\ Cardinality(Admitted(P, T)') \in Nat /\ Others \in Nat
                /\ Cardinality(Admitted(P, T)')
                     = Cardinality(Admitted(P, T)) + Bit(InStep(y, P, T, Passed))
                         - Bit(InStep(x, P, T, Passed))
                /\ Cardinality(Admitted(P, T)') <= Others
                /\ Cardinality(Sending(P, T)) \in Nat
    <3>1. Admitted(P, T)' \in SUBSET OtpHandler
      BY DEF Admitted
    <3>2. Cardinality(Admitted(P, T)') <= Others /\ Others \in Nat
      BY <3>1, HandlersFewer
    <3>3. SenderOK
      BY DEF SenderIInv
    <3>4. /\ Cardinality(Admitted(P, T)) \in Nat /\ Cardinality(Admitted(P, T)') \in Nat
          /\ Cardinality(Admitted(P, T)')
               = Cardinality(Admitted(P, T)) + Bit(InStep(y, P, T, Passed))
                   - Bit(InStep(handlers[h], P, T, Passed))
      BY <2>1, <3>3, AdmittedMoves
    <3>5. Cardinality(Sending(P, T)) \in Nat
      BY <2>1, <3>3, SendingMoves
    <3> QED
      BY <1>1, <3>2, <3>4, <3>5
  <2>15. ASSUME NEW d \in Destination, NEW from \in Instants
         PROVE  TotalOf(accepted, {d}, HourFrom(from))
                  + Copies({d}) * Cardinality(Admitted({d}, HourFrom(from))')
                  <= Copies({d}) * (MaxPerDestinationPerHour - 1 + Others)
    <3> DEFINE P == {d}
               T == HourFrom(from)
    <3>1. TotalOf(accepted, P, T) + Copies(P) * Cardinality(Admitted(P, T))
            <= Copies(P) * (MaxPerDestinationPerHour - 1 + Others)
      BY DEF SenderIInv, HourBounded
    <3>2. P \in Groups /\ T \in SUBSET Instants
      BY DEF Groups, HourFrom
    <3>3. x.now \in T => T \subseteq Kept /\ T \subseteq seen
      BY <1>2, HourWindow DEF HandlerOK, Idle, SenderIInv, seen
    <3>4. x.dest \in P => P = {x.dest}
      OBVIOUS
    <3> HIDE DEF P, T
    <3>5. TotalOf(accepted, P, T) \in Nat /\ TotalOf(otpLog, P, T) \in Nat
      BY <3>2, GroupType, TotalType DEF SenderIInv, SenderOK
    <3>6. Copies(P) \in {1, 2}
      BY <3>2, GroupType
    <3>7. /\ Cardinality(Admitted(P, T)) \in Nat /\ Cardinality(Admitted(P, T)') \in Nat /\ Others \in Nat
          /\ Cardinality(Admitted(P, T)')
               = Cardinality(Admitted(P, T)) + Bit(InStep(y, P, T, Passed))
                   - Bit(InStep(x, P, T, Passed))
          /\ Cardinality(Admitted(P, T)') <= Others
          /\ Cardinality(Sending(P, T)) \in Nat
      BY <2>14
    <3>8. CASE ~InStep(y, P, T, Passed)
      <4>1. Cardinality(Admitted(P, T)') <= Cardinality(Admitted(P, T))
        BY <3>7, <3>8 DEF Bit
      <4> QED
        BY <2>6, <3>1, <3>5, <3>6, <3>7, <4>1 DEF P, T
    <3>9. CASE InStep(y, P, T, Passed)
      <4>1. x.dest \in P /\ x.now \in T
        BY <2>2, <3>9 DEF InStep
      <4>2. TotalOf(otpLog, P, T) <= MaxPerDestinationPerHour - 1
        <5>1. TotalOf(otpLog, P, T) <= TotalOf(otpLog, P, seen)
          BY <2>3, <3>2, <3>3, <4>1, GroupType, TotalGrows DEF SenderIInv, SenderOK
        <5> QED
          BY <2>5, <2>6, <2>7, <3>4, <3>5, <4>1, <5>1
      <4>3. TotalOf(accepted, P, T) + Copies(P) * Cardinality(Sending(P, T))
              <= Copies(P) * TotalOf(otpLog, P, T)
        BY <3>2, <3>3, <4>1 DEF SenderIInv, Recorded
      <4>4. Cardinality(Sending(P, T)) \in Nat
        BY <3>7
      <4>5. TotalOf(accepted, P, T) <= Copies(P) * (MaxPerDestinationPerHour - 1)
        BY <2>6, <3>5, <3>6, <4>2, <4>3, <4>4
      <4> QED
        BY <2>6, <3>5, <3>6, <3>7, <4>5 DEF P, T
    <3> QED
      BY <3>8, <3>9 DEF P, T
  <2>16. HourBounded'
    BY <2>10, <2>15 DEF HourBounded
  <2> QED
    BY <2>9, <2>12, <2>13, <2>16 DEF SenderIInv
<1> QED
  BY <1>1, <1>3, <1>4 DEF CheckLimits

\* A dispatch is recorded before its message is sent.
LEMMA RecordDispatchKeeps ==
  ASSUME SenderIInv, NEW h \in OtpHandler, RecordDispatch(h), UNCHANGED hour
  PROVE  SenderIInv'
<1>1. PICK x : x = handlers[h]
  OBVIOUS
<1>2. x.step = "record" /\ HandlerOK(x) /\ x \in DispatchRow
  BY <1>1 DEF RecordDispatch, SenderIInv, SenderOK, HandlerOK, Idle
<1>3. PICK s : s = IF x.dest \in Phone THEN "token" ELSE "mail"
  OBVIOUS
<1> DEFINE y == [x EXCEPT !.step = s]
<1>4. Moves(h, y)
  BY <1>1, <1>3 DEF RecordDispatch, Dispatch, Moves
<1>5. s \in Sent
  BY <1>3 DEF Sent
<1>6. /\ y \in DispatchRow /\ y.step = s /\ y.dest = x.dest /\ y.now = x.now /\ y.today = x.today
  BY <1>2, <1>5, Stepped
<1> HIDE DEF y
<1>7. HandlerOK(y)
  BY <1>2, <1>3, <1>6 DEF HandlerOK, Idle
<1>8. x.dest \in Destination /\ x.now \in Instants /\ otpLog \in Counts
  BY <1>2 DEF DispatchRow, SenderIInv, SenderOK
<1>9. otpLog' = [otpLog EXCEPT ![x.dest][x.now] = @ + 1]
  BY <1>1 DEF RecordDispatch
<1>10. MovedBy(otpLog', otpLog, x.dest, x.now, 1) /\ otpLog' \in Counts
  BY <1>8, <1>9 DEF Counts, MovedBy
<1>11. SenderOK'
  BY <1>4, <1>7, <1>10, SenderTypeMoves DEF RecordDispatch, SenderIInv, SenderOK
<1>12. accepted' = accepted /\ Kept' = Kept
  BY DEF RecordDispatch, Kept
<1>13. /\ \A P, T : Admitted(P, T)' \subseteq Admitted(P, T)
       /\ \A T : Cleared(T)' \subseteq Cleared(T)
  <2>1. \A o \in OtpHandler : handlers'[o] = IF o = h THEN y ELSE handlers[o]
    BY <1>4 DEF Moves, SenderIInv, SenderOK
  <2>2. \A P, T : InStep(x, P, T, Passed) = InStep(y, P, T, Passed)
    BY <1>2, <1>5, <1>6 DEF InStep, Sent, Passed
  <2>3. \A T : IsCleared(y, T) => IsCleared(x, T)
    BY <1>2, <1>5, <1>6 DEF IsCleared, InStep, Sent, Passed
  <2> QED
    BY <1>1, <2>1, <2>2, <2>3 DEF Admitted, Cleared
<1>14. HourBounded'
  BY <1>11, <1>12, <1>13, HourKept DEF SenderIInv
<1>15. DayBounded'
  BY <1>11, <1>12, <1>13, DayKept DEF SenderIInv
<1>16. ASSUME NEW P \in Groups, NEW T \in SUBSET Kept
       PROVE  TotalOf(accepted, P, T) + Copies(P) * Cardinality(Sending(P, T)')
                <= Copies(P) * TotalOf(otpLog', P, T)
  <2>1. T \in SUBSET Instants /\ P \in SUBSET Destination /\ IsFiniteSet(P) /\ Copies(P) \in {1, 2}
    BY GroupType DEF Kept
  <2>2. PICK b \in {0, 1} : b = IF x.dest \in P /\ x.now \in T THEN 1 ELSE 0
    OBVIOUS
  <2>3. TotalOf(otpLog', P, T) = TotalOf(otpLog, P, T) + b
    <3>1. TotalOf(otpLog', P, T) = TotalOf(otpLog, P, T) + (IF x.dest \in P /\ x.now \in T THEN 1 ELSE 0)
      <4>1. PICK counts \in Counts : counts = otpLog
        BY <1>8
      <4>2. PICK moved : moved = otpLog'
        OBVIOUS
      <4>3. PICK dest \in Destination, t \in Instants : dest = x.dest /\ t = x.now
        BY <1>8
      <4>4. MovedBy(moved, counts, dest, t, 1)
        BY <1>10, <4>1, <4>2, <4>3
      <4>5. TotalOf(moved, P, T) = TotalOf(counts, P, T) + (IF dest \in P /\ t \in T THEN 1 ELSE 0)
        BY <2>1, <4>4, TotalMoved
      <4> QED
        BY <4>1, <4>2, <4>3, <4>5
    <3> QED
      BY <2>2, <3>1
  <2>4. Bit(InStep(y, P, T, Sent)) = b /\ Bit(InStep(x, P, T, Sent)) = 0
    BY <1>2, <1>5, <1>6, <2>2 DEF Bit, InStep, Sent
  <2>5. /\ Cardinality(Sending(P, T)) \in Nat /\ Cardinality(Sending(P, T)') \in Nat
        /\ Cardinality(Sending(P, T)')
             = Cardinality(Sending(P, T)) + Bit(InStep(y, P, T, Sent)) - Bit(InStep(handlers[h], P, T, Sent))
    BY <1>4, SendingMoves DEF SenderIInv
  <2>6. Cardinality(Sending(P, T)') = Cardinality(Sending(P, T)) + b
    BY <1>1, <2>4, <2>5
  <2>7. TotalOf(accepted, P, T) + Copies(P) * Cardinality(Sending(P, T)) <= Copies(P) * TotalOf(otpLog, P, T)
    BY DEF SenderIInv, Recorded
  <2>8. TotalOf(accepted, P, T) \in Nat /\ TotalOf(otpLog, P, T) \in Nat
    BY <2>1, TotalType DEF SenderIInv, SenderOK
  <2> QED
    BY <2>1, <2>3, <2>5, <2>6, <2>7, <2>8
<1>17. Recorded'
  BY <1>12, <1>16 DEF Recorded
<1> QED
  BY <1>11, <1>14, <1>15, <1>17 DEF SenderIInv

\* A message goes, in at most as many copies as its recording stands for.
LEMMA MessageTaken ==
  ASSUME SenderIInv, UNCHANGED <<hour, otpLog>>, NEW h \in OtpHandler, Answered(h),
         NEW copies \in {0, 1, 2}, Take(handlers[h], copies),
         handlers[h].step \in {"post", "mail"}, handlers[h].step = "post" => copies \in {0, 1}
  PROVE  SenderIInv'
<1>1. PICK x : x = handlers[h]
  OBVIOUS
<1>2. /\ x.step \in {"post", "mail"} /\ HandlerOK(x) /\ x \in DispatchRow
      /\ x.step = "post" => x.dest \in Phone /\ copies \in {0, 1}
      /\ x.step = "mail" => x.dest \notin Phone
  BY <1>1 DEF SenderIInv, SenderOK, HandlerOK, Idle
<1>3. Moves(h, Idle) /\ HandlerOK(Idle) /\ ShrinksTo(Idle, x)
  BY IdleShrinks DEF Answered, Moves
<1>4. x.dest \in Destination /\ x.now \in Instants /\ accepted \in Counts
  BY <1>2 DEF DispatchRow, SenderIInv, SenderOK
<1>5. accepted' = [accepted EXCEPT ![x.dest][x.now] = @ + copies]
  BY <1>1 DEF Take
<1>6. MovedBy(accepted', accepted, x.dest, x.now, copies) /\ accepted' \in Counts
  BY <1>4, <1>5 DEF Counts, MovedBy
<1>7. SenderOK'
  BY <1>3, <1>6, SenderTypeMoves DEF SenderIInv, SenderOK
<1>8. Kept' = Kept
  BY DEF Kept
<1>9. ASSUME NEW P \in Groups, NEW T \in SUBSET Instants
      PROVE  /\ TotalOf(accepted, P, T) \in Nat /\ TotalOf(otpLog, P, T) \in Nat /\ Copies(P) \in {1, 2}
             /\ \E n \in 0 .. Copies(P) :
                  /\ TotalOf(accepted', P, T) = TotalOf(accepted, P, T) + n
                  /\ n > 0 => x.dest \in P /\ x.now \in T
  <2>1. P \in SUBSET Destination /\ IsFiniteSet(P) /\ Copies(P) \in {1, 2}
    BY GroupType
  <2>2. PICK n : n = IF x.dest \in P /\ x.now \in T THEN copies ELSE 0
    OBVIOUS
  <2>3. TotalOf(accepted', P, T) = TotalOf(accepted, P, T) + n
    <3>1. TotalOf(accepted', P, T)
            = TotalOf(accepted, P, T) + (IF x.dest \in P /\ x.now \in T THEN copies ELSE 0)
      <4>1. PICK counts \in Counts : counts = accepted
        BY <1>4
      <4>2. PICK moved : moved = accepted'
        OBVIOUS
      <4>3. PICK dest \in Destination, t \in Instants : dest = x.dest /\ t = x.now
        BY <1>4
      <4>4. MovedBy(moved, counts, dest, t, copies)
        BY <1>6, <4>1, <4>2, <4>3
      <4>5. TotalOf(moved, P, T) = TotalOf(counts, P, T) + (IF dest \in P /\ t \in T THEN copies ELSE 0)
        BY <2>1, <4>4, TotalMoved
      <4> QED
        BY <4>1, <4>2, <4>3, <4>5
    <3> QED
      BY <2>2, <3>1
  <2>4. x.dest \in P => copies \in 0 .. Copies(P)
    <3>1. P \subseteq Phone => x.step # "mail" \/ x.dest \notin P
      BY <1>2
    <3> QED
      BY <1>2, <3>1 DEF Copies, MailAttempts
  <2>5. n \in 0 .. Copies(P) /\ (n > 0 => x.dest \in P /\ x.now \in T)
    BY <2>1, <2>2, <2>4
  <2> QED
    BY <2>1, <2>3, <2>5, TotalType DEF SenderIInv, SenderOK
<1>10. ASSUME NEW P \in Groups, NEW T \in SUBSET Kept
       PROVE  TotalOf(accepted', P, T) + Copies(P) * Cardinality(Sending(P, T)')
                <= Copies(P) * TotalOf(otpLog, P, T)
  <2>1. T \in SUBSET Instants
    BY DEF Kept
  <2>2. PICK n \in 0 .. Copies(P) : /\ TotalOf(accepted', P, T) = TotalOf(accepted, P, T) + n
                                    /\ n > 0 => x.dest \in P /\ x.now \in T
    BY <1>9, <2>1
  <2>3. /\ Cardinality(Sending(P, T)) \in Nat /\ Cardinality(Sending(P, T)') \in Nat
        /\ Cardinality(Sending(P, T)')
             = Cardinality(Sending(P, T)) + Bit(InStep(Idle, P, T, Sent)) - Bit(InStep(handlers[h], P, T, Sent))
    BY <1>3, SendingMoves DEF SenderIInv
  <2>4. Bit(InStep(Idle, P, T, Sent)) = 0
    BY DEF Bit, InStep, Idle, Sent
  <2>5. Bit(InStep(x, P, T, Sent)) \in {0, 1} /\ (n > 0 => Bit(InStep(x, P, T, Sent)) = 1)
    BY <1>2, <2>2 DEF Bit, InStep, Sent
  <2>6. TotalOf(accepted, P, T) + Copies(P) * Cardinality(Sending(P, T)) <= Copies(P) * TotalOf(otpLog, P, T)
    BY DEF SenderIInv, Recorded
  <2>7. /\ Cardinality(Sending(P, T)') <= Cardinality(Sending(P, T))
        /\ n > 0 => Cardinality(Sending(P, T)') = Cardinality(Sending(P, T)) - 1
    BY <1>1, <2>3, <2>4, <2>5
  <2> QED
    BY <1>9, <2>1, <2>2, <2>3, <2>6, <2>7
<1>11. Recorded'
  BY <1>8, <1>10 DEF Recorded
<1>12. ASSUME NEW d \in Destination, NEW from \in Instants
       PROVE  TotalOf(accepted', {d}, HourFrom(from))
                + Copies({d}) * Cardinality(Admitted({d}, HourFrom(from))')
                <= Copies({d}) * (MaxPerDestinationPerHour - 1 + Others)
  <2>1. PICK P \in Groups : P = {d}
    BY DEF Groups
  <2>2. PICK T \in SUBSET Instants : T = HourFrom(from)
    BY DEF HourFrom
  <2>3. PICK n \in 0 .. Copies(P) : /\ TotalOf(accepted', P, T) = TotalOf(accepted, P, T) + n
                                    /\ n > 0 => x.dest \in P /\ x.now \in T
    BY <1>9
  <2>4. /\ Cardinality(Admitted(P, T)) \in Nat /\ Cardinality(Admitted(P, T)') \in Nat
        /\ Cardinality(Admitted(P, T)')
             = Cardinality(Admitted(P, T)) + Bit(InStep(Idle, P, T, Passed)) - Bit(InStep(handlers[h], P, T, Passed))
    BY <1>3, AdmittedMoves DEF SenderIInv
  <2>5. Bit(InStep(Idle, P, T, Passed)) = 0
    BY DEF Bit, InStep, Idle, Sent, Passed
  <2>6. Bit(InStep(x, P, T, Passed)) \in {0, 1} /\ (n > 0 => Bit(InStep(x, P, T, Passed)) = 1)
    BY <1>2, <2>3 DEF Bit, InStep, Sent, Passed
  <2>7. TotalOf(accepted, P, T) + Copies(P) * Cardinality(Admitted(P, T))
          <= Copies(P) * (MaxPerDestinationPerHour - 1 + Others)
    BY <2>1, <2>2 DEF SenderIInv, HourBounded
  <2>8. /\ Cardinality(Admitted(P, T)') <= Cardinality(Admitted(P, T))
        /\ n > 0 => Cardinality(Admitted(P, T)') = Cardinality(Admitted(P, T)) - 1
    BY <1>1, <2>4, <2>5, <2>6
  <2>9. MaxPerDestinationPerHour \in Nat /\ Others \in Nat
    BY SignInAssumption, HandlersFewer
  <2>10. TotalOf(accepted', P, T) + Copies(P) * Cardinality(Admitted(P, T)')
          <= Copies(P) * (MaxPerDestinationPerHour - 1 + Others)
    BY <1>9, <2>3, <2>4, <2>7, <2>8, <2>9
  <2> QED
    BY <2>1, <2>2, <2>10
<1>13. HourBounded'
  BY <1>12 DEF HourBounded
<1>14. ASSUME NEW from \in Day
       PROVE  TotalOf(accepted', Phone, DayFrom(from)) + Cardinality(Cleared(DayFrom(from))')
                <= SmsDailyLimit - 1 + Others
  <2>1. PICK T \in SUBSET Instants : T = DayFrom(from)
    BY DEF DayFrom
  <2>2. Phone \in Groups /\ Copies(Phone) = 1
    BY DEF Groups, Copies
  <2>3. PICK n \in 0 .. Copies(Phone) : /\ TotalOf(accepted', Phone, T) = TotalOf(accepted, Phone, T) + n
                                        /\ n > 0 => x.dest \in Phone /\ x.now \in T
    BY <1>9, <2>2
  <2>4. /\ Cardinality(Cleared(T)) \in Nat /\ Cardinality(Cleared(T)') \in Nat
        /\ Cardinality(Cleared(T)')
             = Cardinality(Cleared(T)) + Bit(IsCleared(Idle, T)) - Bit(IsCleared(handlers[h], T))
    BY <1>3, ClearedMoves DEF SenderIInv
  <2>5. Bit(IsCleared(Idle, T)) = 0
    BY DEF Bit, IsCleared, InStep, Idle, Sent, Passed
  <2>6. Bit(IsCleared(x, T)) \in {0, 1} /\ (n > 0 => Bit(IsCleared(x, T)) = 1)
    BY <1>2, <2>3 DEF Bit, IsCleared, InStep, Sent, Passed
  <2>7. TotalOf(accepted, Phone, T) + Cardinality(Cleared(T)) <= SmsDailyLimit - 1 + Others
    BY <2>1 DEF SenderIInv, DayBounded
  <2>8. /\ Cardinality(Cleared(T)') <= Cardinality(Cleared(T))
        /\ n > 0 => Cardinality(Cleared(T)') = Cardinality(Cleared(T)) - 1
    BY <1>1, <2>4, <2>5, <2>6
  <2>9. SmsDailyLimit \in Nat /\ Others \in Nat /\ TotalOf(accepted, Phone, T) \in Nat
    BY <1>9, <2>2, SignInAssumption, HandlersFewer
  <2>10. TotalOf(accepted', Phone, T) + Cardinality(Cleared(T)') <= SmsDailyLimit - 1 + Others
    BY <2>2, <2>3, <2>4, <2>7, <2>8, <2>9
  <2> QED
    BY <2>1, <2>10
<1>15. DayBounded'
  BY <1>14 DEF DayBounded
<1> QED
  BY <1>7, <1>11, <1>13, <1>15 DEF SenderIInv

\* Rows are purged only when no limit reads them any more.
LEMMA PurgeKeeps ==
  ASSUME SenderIInv, PurgeOtpDispatches, UNCHANGED hour
  PROVE  SenderIInv'
<1>1. otpLog' = [d \in Destination |-> [t \in Instants |-> IF t < hour - RetentionLength THEN 0 ELSE otpLog[d][t]]]
  BY DEF PurgeOtpDispatches, purgeBefore, Instants
<1>2. otpLog' \in Counts
  BY <1>1 DEF SenderIInv, SenderOK, Counts
<1>3. UNCHANGED <<handlers, accepted>> /\ Kept' = Kept
  BY DEF PurgeOtpDispatches, Kept
<1>4. SenderOK'
  BY <1>2, <1>3 DEF SenderIInv, SenderOK, HandlerOK
<1>5. /\ \A P, T : Sending(P, T)' = Sending(P, T) /\ Admitted(P, T)' = Admitted(P, T)
      /\ \A T : Cleared(T)' = Cleared(T)
  BY <1>3 DEF Sending, Admitted, Cleared
<1>6. HourBounded'
  BY <1>3, <1>4, <1>5, HourKept DEF SenderIInv
<1>7. DayBounded'
  BY <1>3, <1>4, <1>5, DayKept DEF SenderIInv
<1>8. ASSUME NEW P \in Groups, NEW T \in SUBSET Kept
      PROVE  TotalOf(otpLog', P, T) = TotalOf(otpLog, P, T)
  <2>1. T \in SUBSET Instants /\ P \in SUBSET Destination /\ IsFiniteSet(P)
    BY GroupType DEF Kept
  <2> DEFINE f == [d \in P |-> SumFunctionOnSet(otpLog[d], T)]
             g == [d \in P |-> SumFunctionOnSet(otpLog'[d], T)]
  <2>2. ASSUME NEW d \in P
        PROVE  SumFunctionOnSet(otpLog'[d], T) = SumFunctionOnSet(otpLog[d], T)
    <3>1. \A t \in T : otpLog'[d][t] = otpLog[d][t]
      <4> SUFFICES ASSUME NEW t \in T PROVE otpLog'[d][t] = otpLog[d][t]
        OBVIOUS
      <4>1. t \in Instants /\ t \in Int /\ t >= hour - RetentionLength /\ hour - RetentionLength \in Int
        BY SignInAssumption DEF Kept, Instants, SenderIInv, SenderOK
      <4> QED
        BY <1>1, <2>1, <4>1
    <3>2. IsFiniteSet(T)
      BY <2>1, TotalType DEF SenderIInv, SenderOK
    <3> QED
      BY <3>1, <3>2, SumCongruent
  <2>3. \A d \in P : g[d] = f[d]
    BY <2>2
  <2> HIDE DEF f, g
  <2>4. SumFunctionOnSet(g, P) = SumFunctionOnSet(f, P)
    BY <2>1, <2>3, SumCongruent
  <2> QED
    BY <2>4 DEF TotalOf, f, g
<1>9. Recorded'
  <2> SUFFICES ASSUME NEW P \in Groups, NEW T \in SUBSET Kept
               PROVE  TotalOf(accepted, P, T) + Copies(P) * Cardinality(Sending(P, T))
                        <= Copies(P) * TotalOf(otpLog', P, T)
    BY <1>3, <1>5 DEF Recorded
  <2> QED
    BY <1>8 DEF SenderIInv, Recorded
<1> QED
  BY <1>4, <1>6, <1>7, <1>9 DEF SenderIInv

\* A restart loses the requests, and what they had done stays done.
LEMMA RestartKeeps ==
  ASSUME SenderIInv, RestartSender, UNCHANGED hour
  PROVE  SenderIInv'
<1>1. UNCHANGED <<otpLog, accepted>> /\ Kept' = Kept
  BY DEF RestartSender, Kept
<1>2. \A o \in OtpHandler : handlers'[o] = Idle
  BY DEF RestartSender
<1>3. SenderOK'
  BY <1>1, <1>2 DEF RestartSender, SenderIInv, SenderOK, HandlerOK
<1>4. /\ \A P, T : Sending(P, T)' \subseteq Sending(P, T) /\ Admitted(P, T)' \subseteq Admitted(P, T)
      /\ \A T : Cleared(T)' \subseteq Cleared(T)
  BY <1>2 DEF Sending, Admitted, Cleared, IsCleared, InStep, Idle, Sent, Passed
<1> QED
  BY <1>1, <1>3, <1>4, RecordedKept, HourKept, DayKept DEF SenderIInv

LEMMA HourPassesKeeps ==
  ASSUME SenderIInv, HourPasses, UNCHANGED dispatchVars
  PROVE  SenderIInv'
<1>1. UNCHANGED <<otpLog, accepted, handlers>> /\ hour' = hour + 1 /\ hour \in Int /\ hour < MaxHour
  BY DEF HourPasses, dispatchVars, SenderIInv, SenderOK, Instants
<1>2. Kept' \subseteq Kept
  BY <1>1, SignInAssumption DEF Kept, Instants
<1>3. hour' \in Instants
  BY <1>1, SignInAssumption DEF SenderIInv, SenderOK, Instants
<1>4. ASSUME NEW h \in OtpHandler
      PROVE  HandlerOK(handlers[h])'
  <2>1. HandlerOK(handlers[h])
    BY DEF SenderIInv, SenderOK
  <2>2. handlers[h] # Idle => handlers[h].now = hour
    BY DEF HourPasses
  <2> QED
    BY <1>1, <2>1, <2>2 DEF HandlerOK
<1>5. SenderOK'
  BY <1>1, <1>3, <1>4 DEF SenderIInv, SenderOK
<1>6. /\ \A P, T : Sending(P, T)' = Sending(P, T) /\ Admitted(P, T)' = Admitted(P, T)
      /\ \A T : Cleared(T)' = Cleared(T)
  BY <1>1 DEF Sending, Admitted, Cleared
<1> QED
  BY <1>1, <1>2, <1>5, <1>6, RecordedKept, HourKept, DayKept DEF SenderIInv

LEMMA SenderStep == SenderIInv /\ [SignInNext]_signInVars => SenderIInv'
<1> SUFFICES ASSUME SenderIInv, [SignInNext]_signInVars PROVE SenderIInv'
  OBVIOUS
<1>1. CASE UNCHANGED <<hour, dispatchVars>>
  <2>1. UNCHANGED <<hour, otpLog, accepted, handlers>>
    BY <1>1 DEF dispatchVars
  <2> QED
    BY <2>1 DEF SenderIInv, SenderOK, HandlerOK, Recorded, HourBounded, DayBounded, Kept,
                Sending, Admitted, Cleared
<1>2. ASSUME NEW h \in OtpHandler, PostSms(h), UNCHANGED hour
      PROVE  SenderIInv'
  <2>1. PICK copies \in {0, 1} : Take(handlers[h], copies)
    BY <1>2 DEF PostSms
  <2>2. copies \in {0, 1, 2} /\ handlers[h].step = "post"
    BY <1>2 DEF PostSms
  <2> QED
    BY <1>2, <2>1, <2>2, MessageTaken DEF PostSms
<1>3. ASSUME NEW h \in OtpHandler, SendMail(h), UNCHANGED hour
      PROVE  SenderIInv'
  <2>1. PICK copies \in {0, 1, 2} : Take(handlers[h], copies)
    BY <1>3 DEF SendMail, MailAttempts
  <2>2. handlers[h].step = "mail" /\ handlers[h].step # "post"
    BY <1>3 DEF SendMail
  <2> QED
    BY <1>3, <2>1, <2>2, MessageTaken DEF SendMail
<1>4. CASE DispatchNext /\ UNCHANGED hour
  BY <1>2, <1>3, <1>4, RequestCodeKeeps, CountTodayKeeps, CheckLimitsKeeps, RecordDispatchKeeps,
     accessTokenKeeps, TokenRefusedKeeps, PurgeKeeps, RestartKeeps DEF DispatchNext
<1>5. CASE HourPasses /\ UNCHANGED dispatchVars
  BY <1>5, HourPassesKeeps
<1> QED
  BY <1>1, <1>4, <1>5 DEF SignInNext, signInVars, dispatchVars, accountVars

LEMMA SenderBegins == SignInInit => SenderIInv
<1> SUFFICES ASSUME SignInInit PROVE SenderIInv
  OBVIOUS
<1>1. otpLog = [d \in Destination |-> [t \in Instants |-> 0]] /\ accepted = otpLog
  BY DEF SignInInit, Instants
<1>2. hour = 0 /\ hour \in Instants /\ \A h \in OtpHandler : handlers[h] = Idle
  BY SignInAssumption DEF SignInInit, Instants
<1>3. otpLog \in Counts
  BY <1>1 DEF Counts
<1>4. SenderOK
  BY <1>1, <1>2, <1>3 DEF SignInInit, SenderOK, HandlerOK
<1>5. /\ \A P, T : Sending(P, T) = {} /\ Admitted(P, T) = {}
      /\ \A T : Cleared(T) = {}
  BY <1>2 DEF Sending, Admitted, Cleared, IsCleared, InStep, Idle, Sent, Passed
<1>6. Cardinality({}) = 0 /\ Others \in Nat
  BY FS_EmptySet, HandlersFewer
<1>7. ASSUME NEW P \in Groups, NEW T \in SUBSET Instants
      PROVE  TotalOf(accepted, P, T) = 0
  <2>1. P \in SUBSET Destination /\ IsFiniteSet(P) /\ IsFiniteSet(T)
    BY <1>3, GroupType, TotalType
  <2> DEFINE f == [d \in P |-> SumFunctionOnSet(accepted[d], T)]
  <2>2. ASSUME NEW d \in P
        PROVE  SumFunctionOnSet(accepted[d], T) = 0
    <3>1. \A t \in T : accepted[d][t] = 0
      BY <1>1, <2>1
    <3> QED
      BY <2>1, <3>1, SumOfZeros
  <2>3. \A d \in P : f[d] = 0
    BY <2>2
  <2> HIDE DEF f
  <2>4. SumFunctionOnSet(f, P) = 0
    BY <2>1, <2>3, SumOfZeros
  <2> QED
    BY <2>4 DEF TotalOf, f
<1>8. Recorded
  <2> SUFFICES ASSUME NEW P \in Groups, NEW T \in SUBSET Kept
               PROVE  TotalOf(accepted, P, T) + Copies(P) * Cardinality(Sending(P, T))
                        <= Copies(P) * TotalOf(otpLog, P, T)
    BY DEF Recorded
  <2>1. T \in SUBSET Instants
    BY DEF Kept
  <2>2. TotalOf(accepted, P, T) = 0 /\ TotalOf(otpLog, P, T) = 0 /\ Cardinality(Sending(P, T)) = 0
    BY <1>1, <1>5, <1>6, <1>7, <2>1
  <2> QED
    BY <2>2, GroupType
<1>9. HourBounded
  <2> SUFFICES ASSUME NEW d \in Destination, NEW from \in Instants
               PROVE  TotalOf(accepted, {d}, HourFrom(from))
                        + Copies({d}) * Cardinality(Admitted({d}, HourFrom(from)))
                        <= Copies({d}) * (MaxPerDestinationPerHour - 1 + Others)
    BY DEF HourBounded
  <2>1. {d} \in Groups /\ HourFrom(from) \in SUBSET Instants
    BY DEF Groups, HourFrom
  <2>2. /\ TotalOf(accepted, {d}, HourFrom(from)) = 0
        /\ Cardinality(Admitted({d}, HourFrom(from))) = 0
    BY <1>5, <1>6, <1>7, <2>1
  <2>3. MaxPerDestinationPerHour - 1 + Others \in Nat /\ Copies({d}) \in {1, 2}
    BY <1>6, <2>1, GroupType, SignInAssumption
  <2> QED
    BY <2>2, <2>3
<1>10. DayBounded
  <2> SUFFICES ASSUME NEW from \in Day
               PROVE  TotalOf(accepted, Phone, DayFrom(from)) + Cardinality(Cleared(DayFrom(from)))
                        <= SmsDailyLimit - 1 + Others
    BY DEF DayBounded
  <2>1. Phone \in Groups /\ DayFrom(from) \in SUBSET Instants
    BY DEF Groups, DayFrom
  <2>2. TotalOf(accepted, Phone, DayFrom(from)) = 0 /\ Cardinality(Cleared(DayFrom(from))) = 0
    BY <1>5, <1>6, <1>7, <2>1
  <2> QED
    BY <1>6, <2>2, SignInAssumption
<1> QED
  BY <1>4, <1>8, <1>9, <1>10 DEF SenderIInv

LEMMA SenderIsBounded == SenderIInv => DispatchIsBounded
<1> SUFFICES ASSUME SenderIInv PROVE DispatchIsBounded
  OBVIOUS
<1>1. 0 .. hour \subseteq Instants
  BY SignInAssumption DEF SenderIInv, SenderOK, Instants
<1>2. Others \in Nat /\ MaxPerDestinationPerHour \in Nat /\ SmsDailyLimit \in Nat
  BY HandlersFewer, SignInAssumption
<1>3. ASSUME NEW from \in 0 .. hour, NEW d \in Destination
      PROVE  SumFunctionOnSet(accepted[d], HourFrom(from))
               <= (IF d \in Mailbox THEN MailAttempts ELSE 1) * (MaxPerDestinationPerHour + (Others - 1))
  <2>1. PICK P \in Groups : P = {d}
    BY DEF Groups
  <2>2. PICK T \in SUBSET Instants : T = HourFrom(from)
    BY DEF HourFrom
  <2>3. TotalOf(accepted, P, T) + Copies(P) * Cardinality(Admitted(P, T))
          <= Copies(P) * (MaxPerDestinationPerHour - 1 + Others)
    BY <1>1, <2>1, <2>2 DEF SenderIInv, HourBounded
  <2>4. TotalOf(accepted, P, T) = SumFunctionOnSet(accepted[d], T)
    BY <2>1, TotalOfOne DEF SenderIInv, SenderOK
  <2>5. TotalOf(accepted, P, T) \in Nat /\ Copies(P) \in {1, 2}
    BY GroupType, TotalType DEF SenderIInv, SenderOK
  <2>6. Cardinality(Admitted(P, T)) \in Nat
    BY HandlersFewer DEF Admitted
  <2>7. d \notin Mailbox => Copies(P) = 1
    BY <2>1 DEF Copies, Destination
  <2>8. PICK c \in {1, 2} : c = IF d \in Mailbox THEN MailAttempts ELSE 1
    BY DEF MailAttempts
  <2>9. Copies(P) <= c
    BY <2>5, <2>7, <2>8 DEF MailAttempts
  <2>10. TotalOf(accepted, P, T) <= c * (MaxPerDestinationPerHour + (Others - 1))
    <3>1. TotalOf(accepted, P, T) <= Copies(P) * (MaxPerDestinationPerHour - 1 + Others)
      BY <1>2, <2>3, <2>5, <2>6
    <3>2. MaxPerDestinationPerHour - 1 + Others \in Nat
      BY <1>2, SignInAssumption
    <3> QED
      BY <1>2, <2>5, <2>9, <3>1, <3>2
  <2> QED
    BY <2>2, <2>4, <2>8, <2>10
<1>4. ASSUME NEW from \in 0 .. hour, from = startOfUtcDay(from)
      PROVE  TotalOf(accepted, Phone, DayFrom(from)) <= SmsDailyLimit + (Others - 1)
  <2>1. PICK T \in SUBSET Instants : T = DayFrom(from)
    BY DEF DayFrom
  <2>2. TotalOf(accepted, Phone, T) + Cardinality(Cleared(T)) <= SmsDailyLimit - 1 + Others
    BY <1>1, <1>4, <2>1 DEF SenderIInv, DayBounded, Day
  <2>3. TotalOf(accepted, Phone, T) \in Nat
    <3>1. Phone \in Groups
      BY DEF Groups
    <3> QED
      BY <3>1, GroupType, TotalType DEF SenderIInv, SenderOK
  <2>4. Cardinality(Cleared(T)) \in Nat
    BY HandlersFewer DEF Cleared
  <2> QED
    BY <1>2, <2>1, <2>2, <2>3, <2>4
<1> QED
  BY <1>3, <1>4 DEF DispatchIsBounded, HourFrom, DayFrom, TotalOf, Instants, Others

-----------------------------------------------------------------------------
(* Accounts: the sessions that open them, the deletions asked for. *)

SessionRow == [account : 1 .. created, createdAt : Instants]
DeletionRow == [step : {"user", "operator"}, account : 1 .. created, openedAt : Instants,
                askedWith : 1 .. created]

AccountsIInv ==
  /\ created \in Nat /\ accounts \in [Destination -> 0 .. created]
  /\ sessions \subseteq SessionRow
  /\ deletion = Idle \/ (deletion \in DeletionRow /\ deletion.account <= deletion.askedWith)
  /\ AccountsAreOwned

LEMMA VerifyCodeKeeps ==
  ASSUME AccountsIInv, hour \in Instants, NEW dest \in Destination, VerifyCode(dest), UNCHANGED hour
  PROVE  AccountsIInv'
<1>1. PICK id : id = IF accounts[dest] = 0 THEN created + 1 ELSE accounts[dest]
  OBVIOUS
<1>2. /\ created' \in Nat /\ created <= created' /\ id \in 1 .. created' /\ 0 .. created \subseteq 0 .. created'
      /\ 1 .. created \subseteq 1 .. created'
      /\ accounts' = [accounts EXCEPT ![dest] = id]
      /\ sessions' = sessions \cup {[account |-> id, createdAt |-> hour]}
      /\ UNCHANGED <<deletion, deleted>>
  BY <1>1 DEF VerifyCode, AccountsIInv
<1>3. accounts' \in [Destination -> 0 .. created']
  BY <1>2 DEF AccountsIInv
<1>4. SessionRow \subseteq SessionRow' /\ DeletionRow \subseteq DeletionRow'
  BY <1>2 DEF SessionRow, DeletionRow
<1>5. PICK new \in SessionRow' : new = [account |-> id, createdAt |-> hour] /\ new.account = id
  <2> DEFINE new == [account |-> id, createdAt |-> hour]
  <2>1. new \in [account : 1 .. created', createdAt : Instants] /\ new.account = id
    BY <1>2
  <2>2. new \in SessionRow'
    BY <2>1 DEF SessionRow
  <2> QED
    BY <2>1, <2>2
<1>6. sessions' \subseteq SessionRow'
  BY <1>2, <1>4, <1>5 DEF AccountsIInv
<1>7. ASSUME NEW s \in sessions'
      PROVE  \E d \in Destination : accounts'[d] = s.account
  <2>1. CASE s \in sessions
    <3>1. s.account # 0
      BY <2>1 DEF AccountsIInv, SessionRow
    <3>2. PICK d \in Destination : accounts[d] = s.account
      BY <2>1 DEF AccountsIInv, AccountsAreOwned
    <3>3. accounts'[d] = accounts[d]
      BY <1>1, <1>2, <3>1, <3>2 DEF AccountsIInv
    <3> QED
      BY <3>2, <3>3
  <2>2. CASE s = new
    BY <1>2, <1>5, <2>2 DEF AccountsIInv
  <2> QED
    BY <1>2, <1>5, <2>1, <2>2
<1>8. AccountsAreOwned'
  BY <1>2, <1>7 DEF AccountsIInv, AccountsAreOwned
<1> QED
  BY <1>2, <1>3, <1>4, <1>6, <1>8 DEF AccountsIInv, Idle

\* A deletion is asked for: it knows an account, and when it was asked.
LEMMA DeletionAskedKeeps ==
  ASSUME AccountsIInv, UNCHANGED <<accounts, sessions, created, deleted>>, deletion' \in DeletionRow,
         deletion'.account <= deletion'.askedWith
  PROVE  AccountsIInv'
BY DEF AccountsIInv, AccountsAreOwned, SessionRow, DeletionRow

LEMMA canActivateKeeps ==
  ASSUME AccountsIInv, canActivate
  PROVE  AccountsIInv'
<1>1. PICK s \in sessions :
        deletion' = [step |-> "user", account |-> s.account, openedAt |-> s.createdAt, askedWith |-> created]
  BY DEF canActivate
<1>2. s.account \in 1 .. created /\ s.createdAt \in Instants /\ created \in Nat
  BY DEF AccountsIInv, SessionRow
<1>3. created \in 1 .. created
  BY <1>2
<1>4. deletion' \in DeletionRow /\ deletion'.account <= deletion'.askedWith
  BY <1>1, <1>2, <1>3 DEF DeletionRow
<1> QED
  BY <1>4, DeletionAskedKeeps DEF canActivate

LEMMA findIdByContactKeeps ==
  ASSUME AccountsIInv, hour \in Instants, NEW contact \in Destination, findIdByContact(contact)
  PROVE  AccountsIInv'
<1>1. CASE deletion' = Idle
  BY <1>1 DEF findIdByContact, AccountsIInv, AccountsAreOwned, SessionRow
<1>2. CASE deletion' = [step |-> "operator", account |-> accounts[contact], openedAt |-> hour, askedWith |-> created]
  <2>1. accounts[contact] \in 1 .. created /\ created \in 1 .. created
    BY DEF findIdByContact, AccountsIInv
  <2>2. deletion' \in DeletionRow /\ deletion'.account <= deletion'.askedWith
    BY <1>2, <2>1 DEF DeletionRow
  <2> QED
    BY <2>2, DeletionAskedKeeps DEF findIdByContact
<1> QED
  BY <1>1, <1>2 DEF findIdByContact

LEMMA DeleteUserKeeps ==
  ASSUME AccountsIInv, hour \in Instants, DeleteUser, UNCHANGED hour
  PROVE  AccountsIInv'
<1>1. PICK r : r = deletion
  OBVIOUS
<1>2. r \in DeletionRow /\ r.account <= r.askedWith
  BY <1>1 DEF DeleteUser, AccountsIInv
<1>3. PICK found \in SUBSET Destination : found = {d \in Destination : accounts[d] = r.account}
  OBVIOUS
<1>4. created' = created /\ deletion' = Idle
  BY DEF DeleteUser
<1>5. CASE UNCHANGED <<accounts, sessions, deleted>>
  BY <1>4, <1>5 DEF AccountsIInv, AccountsAreOwned, SessionRow
<1>6. CASE /\ ~(r.step = "user" /\ ~isRecentLogin(r.openedAt, hour))
           /\ accounts' = [d \in Destination |-> IF d \in found THEN 0 ELSE accounts[d]]
           /\ sessions' = SessionsWithout(r.account)
           /\ deleted' = deleted \cup
                {[by |-> r.step, account |-> accounts[d], age |-> hour - r.openedAt,
                  askedWith |-> r.askedWith] : d \in found}
  <2>1. accounts' \in [Destination -> 0 .. created']
    BY <1>4, <1>6 DEF AccountsIInv
  <2>2. sessions' \subseteq sessions /\ \A s \in sessions' : s.account # r.account
    BY <1>6 DEF SessionsWithout
  <2>3. ASSUME NEW s \in sessions'
        PROVE  \E d \in Destination : accounts'[d] = s.account
    <3>1. PICK d \in Destination : accounts[d] = s.account
      BY <2>2 DEF AccountsIInv, AccountsAreOwned
    <3>2. accounts'[d] = s.account
      BY <1>3, <1>6, <2>2, <3>1
    <3> QED
      BY <3>2
  <2>4. ASSUME NEW y \in deleted'
        PROVE  y.account <= y.askedWith /\ (y.by = "user" => y.age <= RecentLoginAge)
    <3>1. CASE y \in deleted
      BY <3>1 DEF AccountsIInv, AccountsAreOwned
    <3>2. ASSUME NEW d \in found,
                 y = [by |-> r.step, account |-> accounts[d], age |-> hour - r.openedAt, askedWith |-> r.askedWith]
          PROVE  y.account <= y.askedWith /\ (y.by = "user" => y.age <= RecentLoginAge)
      <4>1. accounts[d] = r.account
        BY <1>3
      <4>2. r.step = "user" => hour - r.openedAt <= RecentLoginAge
        BY <1>6 DEF isRecentLogin
      <4> QED
        BY <1>2, <3>2, <4>1, <4>2
    <3> QED
      BY <1>6, <3>1, <3>2
  <2>5. AccountsAreOwned'
    BY <2>3, <2>4 DEF AccountsAreOwned
  <2> QED
    BY <1>4, <2>1, <2>2, <2>5 DEF AccountsIInv, SessionRow
<1> QED
  BY <1>1, <1>3, <1>5, <1>6 DEF DeleteUser

LEMMA AccountsStep == AccountsIInv /\ SenderOK /\ [SignInNext]_signInVars => AccountsIInv'
<1> SUFFICES ASSUME AccountsIInv, SenderOK, [SignInNext]_signInVars PROVE AccountsIInv'
  OBVIOUS
<1>1. hour \in Instants
  BY DEF SenderOK
<1>2. CASE UNCHANGED accountVars
  BY <1>2 DEF accountVars, AccountsIInv, AccountsAreOwned, SessionRow, DeletionRow
<1>3. CASE AccountsNext /\ UNCHANGED hour
  BY <1>1, <1>3, VerifyCodeKeeps, findIdByContactKeeps, canActivateKeeps, DeleteUserKeeps DEF AccountsNext
<1> QED
  BY <1>2, <1>3 DEF SignInNext, signInVars, accountVars

LEMMA AccountsBegin == SignInInit => AccountsIInv
BY DEF SignInInit, AccountsIInv, AccountsAreOwned

\* Codes go within their limits, whatever requests are handled at once, refused,
\* lost, retried, restarted or purged; sessions open accounts that exist, and
\* accounts are deleted by their owners (otp-dispatcher.service.ts,
\* account-deletion use cases).
THEOREM SignInIsGuardedInvariant == SignInSpec => []SignInIsGuarded
<1>1. SignInInit => SenderIInv /\ AccountsIInv
  BY SenderBegins, AccountsBegin
<1>2. SenderIInv /\ AccountsIInv /\ [SignInNext]_signInVars => (SenderIInv /\ AccountsIInv)'
  BY SenderStep, AccountsStep DEF SenderIInv
<1>3. SenderIInv /\ AccountsIInv => SignInIsGuarded
  BY SenderIsBounded DEF AccountsIInv, SignInIsGuarded
<1> QED
  BY <1>1, <1>2, <1>3, PTL DEF SignInSpec

-----------------------------------------------------------------------------
(* Reading: what is played, what is shown.                                   *)

PartsPlanned(parts) ==
  /\ parts \in [1 .. Parts -> PartRow]
  /\ \A k \in 1 .. Parts :
       /\ parts[k].index = k - 1 /\ parts[k].firstWordIndex = (k - 1) * WordsPerPart
       /\ Assembled(parts[k]) => parts[k].assembled = [durationMs |-> 1, wordCount |-> WordsPerPart]

\* What can be played is a run of assembled parts from the start, the longest.
LEMMA ExtentOfParts ==
  ASSUME NEW parts, PartsPlanned(parts)
  PROVE  \E n \in 0 .. Parts :
           /\ \A k \in 1 .. n : Assembled(parts[k])
           /\ n = Parts \/ ~Assembled(parts[n + 1])
           /\ playableExtent(parts).wordCount = n * WordsPerPart
           /\ playableExtent(parts).durationMs = n
<1> USE LibraryAssumption
<1> DEFINE part(k) == CHOOSE p \in Range(parts) : p.index = k - 1
           inPlace(k) == (\E p \in Range(parts) : p.index = k - 1) /\ Assembled(part(k))
           Prefix(n) == (\A k \in 1 .. n : inPlace(k)) /\ (n = Len(parts) \/ ~inPlace(n + 1))
           prefix == CHOOSE n \in 0 .. Len(parts) : Prefix(n)
<1>1. Len(parts) = Parts
  BY DEF PartsPlanned
<1>2. ASSUME NEW k \in 1 .. Parts
      PROVE  part(k) = parts[k] /\ (inPlace(k) <=> Assembled(parts[k]))
  <2>1. parts[k] \in Range(parts) /\ parts[k].index = k - 1
    BY DEF PartsPlanned, Range
  <2>2. \A p \in Range(parts) : p.index = k - 1 => p = parts[k]
    BY DEF PartsPlanned, Range
  <2> QED
    BY <2>1, <2>2
<1>3. \E n \in 0 .. Parts : Prefix(n)
  <2> DEFINE T == {n \in 0 .. Parts : n = Parts \/ ~inPlace(n + 1)}
  <2>1. T \subseteq Nat /\ Parts \in T
    OBVIOUS
  <2>2. PICK n \in T : \A m \in T : n <= m
    BY <2>1, LeastNatural
  <2>3. \A k \in 1 .. n : inPlace(k)
    <3> SUFFICES ASSUME NEW k \in 1 .. n PROVE inPlace(k)
      OBVIOUS
    <3>1. k - 1 \in 0 .. Parts /\ k - 1 # Parts /\ (k - 1) + 1 = k
      OBVIOUS
    <3>2. k - 1 \notin T
      BY <2>1, <2>2
    <3> HIDE DEF inPlace
    <3> QED
      BY <3>1, <3>2
  <2> QED
    BY <1>1, <2>2, <2>3
<1>4. prefix \in 0 .. Parts /\ Prefix(prefix)
  BY <1>1, <1>3
<1>5. playableExtent(parts).durationMs = SumFunction([k \in 1 .. prefix |-> part(k).assembled.durationMs])
  BY DEF playableExtent, Sum
<1>6. playableExtent(parts).wordCount =
        IF prefix = 0 THEN 0 ELSE part(prefix).firstWordIndex + part(prefix).assembled.wordCount
  BY DEF playableExtent
<1> HIDE DEF prefix
<1>7. \A k \in 1 .. prefix : k \in 1 .. Parts /\ Assembled(parts[k])
  <2> HIDE DEF inPlace, part
  <2> QED
    BY <1>2, <1>4
<1>8. prefix = Parts \/ ~Assembled(parts[prefix + 1])
  <2> HIDE DEF inPlace, part
  <2> QED
    BY <1>1, <1>2, <1>4
<1>9. playableExtent(parts).durationMs = prefix
  <2>1. \A k \in 1 .. prefix : part(k) = parts[k]
    BY <1>2, <1>7
  <2> HIDE DEF part
  <2>0. PICK f : f = [k \in 1 .. prefix |-> part(k).assembled.durationMs]
    OBVIOUS
  <2>2. DOMAIN f = 1 .. prefix /\ \A k \in 1 .. prefix : f[k] = 1
    BY <1>7, <2>0, <2>1 DEF PartsPlanned
  <2>3. SumFunction(f) = prefix
    BY <1>4, <2>2, SumOfOnes
  <2> QED
    BY <1>5, <2>0, <2>3
<1>10. playableExtent(parts).wordCount = prefix * WordsPerPart
  <2>1. CASE prefix = 0
    BY <1>6, <2>1
  <2>2. CASE prefix # 0
    <3>1. prefix \in 1 .. prefix /\ prefix \in 1 .. Parts
      BY <1>4, <2>2
    <3>2. part(prefix) = parts[prefix]
      BY <1>2, <3>1
    <3> HIDE DEF part
    <3>3. playableExtent(parts).wordCount = (prefix - 1) * WordsPerPart + WordsPerPart
      BY <1>6, <1>7, <2>2, <3>1, <3>2 DEF PartsPlanned
    <3> QED
      BY <1>4, <3>3
  <2> QED
    BY <2>1, <2>2
<1> QED
  BY <1>4, <1>7, <1>8, <1>9, <1>10

Playable(c, word, audio) ==
  \E n \in 0 .. Parts : /\ \A k \in 1 .. n : Assembled(conversions[c].parts[k])
                        /\ word < n * WordsPerPart /\ audio <= n + AudioEndTolerance

\* A conversion that is there was launched after the earlier ones; a deletion
\* takes them all, for good.
ConversionsOK ==
  /\ DOMAIN conversions = Conversion
  /\ \A c \in Known : /\ conversions[c] \in ConversionRow /\ PartsPlanned(conversions[c].parts)
                      /\ conversions[c].status = "ready" => Whole(c)
  /\ \/ \A c \in Conversion : conversions[c] = Missing
     \/ /\ \A c \in Conversion : conversions[c] # Missing
        /\ \A c \in Known, b \in Conversion : b < c => b \in Known

PositionsOK ==
  /\ DOMAIN position = Conversion
  /\ \A c \in Conversion : position[c] # NoRow =>
       /\ c \in Known /\ position[c] \in PositionRow
       /\ Playable(c, position[c].word, position[c].audio)

SaveRow == [step : {"save"}, c : Conversion, word : Nat, audio : Nat, at : Nat]
SavesOK ==
  /\ DOMAIN saves = Player
  /\ \A d \in Player : saves[d] # None =>
       /\ saves[d] \in SaveRow
       /\ \/ conversions[saves[d].c] = Missing
          \/ saves[d].c \in Known /\ Playable(saves[d].c, saves[d].word, saves[d].audio)

\* What is read of a conversion stays true once it is ready or failed.
FailedUpTo(c) ==
  \/ \A b \in Conversion : conversions[b] = Missing
  \/ \A b \in Conversion : b <= c => b \in Known /\ conversions[b].status = "failed"
ShownOK(shown) ==
  shown # Missing =>
    /\ shown \in OverviewRow /\ shown.id \in Conversion
    /\ shown.state = "ready" => shown.playableWordCount = Parts * WordsPerPart
    /\ shown.state = "failed" => FailedUpTo(shown.id)

ItemRow == [step : {"item"}, conversion : OverviewRow \cup {Missing}, progress : (0 .. 100) \cup {Missing},
            status : {"not_converted", "finished", "in_progress", "failed", "ready", "processing"}]
ItemOK(item) ==
  /\ item \in ItemRow
  /\ item.status = "finished" \/ item.progress # Missing =>
       item.conversion # Missing /\ item.conversion.state = "ready"
  /\ item.status = "finished" => item.progress \in 0 .. 100 /\ item.progress + FinishedPercent >= 100
  /\ item.status = "failed" => item.conversion # Missing /\ item.conversion.state = "failed"
ListingOK ==
  \/ listing = None
  \/ listing.step = "overview" /\ ShownOK(listing.conversion)
  \/ listing.step = "item" /\ ShownOK(listing.conversion) /\ ItemOK(listing)

ReadingIInv == ConversionsOK /\ PositionsOK /\ SavesOK /\ ListingOK

\* What a launch, a delivery or a conclusion leaves of the other conversions.
Goes(b) ==
  /\ b \in Known'
  /\ \A k \in 1 .. Parts : Assembled(conversions[b].parts[k]) => Assembled(conversions'[b].parts[k])
  /\ conversions[b].status = "failed" => conversions'[b].status = "failed"
ConversionsGo ==
  /\ \A b \in Conversion : conversions[b] = Missing => conversions'[b] = Missing
  /\ \A b \in Known : Goes(b)

LEMMA PlannedPartsPlanned == PartsPlanned(PlannedParts)
<1> USE LibraryAssumption
<1>1. ASSUME NEW k \in 1 .. Parts
      PROVE  Planned(k) \in PartRow /\ Planned(k).index = k - 1 /\ ~Assembled(Planned(k))
             /\ Planned(k).firstWordIndex = (k - 1) * WordsPerPart
  <2>1. k - 1 \in Nat /\ (k - 1) * WordsPerPart \in Nat
    OBVIOUS
  <2> QED
    BY <2>1 DEF Planned, PartRow, Assembled
<1> QED
  BY <1>1 DEF PartsPlanned, PlannedParts

\* A row of conversions is neither absent nor deleted.
LEMMA RowKnown ==
  ASSUME NEW c \in Conversion, conversions[c] \in ConversionRow
  PROVE  c \in Known
BY LibraryAssumption DEF Known

LEMMA LaunchGoes ==
  ASSUME ConversionsOK, NEW c \in Conversion, Launch(c)
  PROVE  ConversionsOK' /\ ConversionsGo
<1> USE LibraryAssumption
<1> DEFINE row == [status |-> "processing", parts |-> PlannedParts]
<1>0. DOMAIN conversions = Conversion /\ conversions[c] = NoRow
      /\ conversions' = [conversions EXCEPT ![c] = row] /\ \A b \in Conversion : b < c => b \in Known
  BY DEF ConversionsOK, Launch
<1>1. row \in ConversionRow /\ PartsPlanned(row.parts) /\ row.status = "processing"
  BY PlannedPartsPlanned DEF ConversionRow, PartsPlanned
<1> HIDE DEF row
<1>2. DOMAIN conversions' = Conversion /\ conversions'[c] = row
      /\ \A b \in Conversion : b # c => conversions'[b] = conversions[b]
  BY <1>0
<1>3. row # NoRow /\ row # Missing
  BY <1>1
<1>4. c \notin Known /\ Known' = Known \cup {c}
  BY <1>0, <1>2, <1>3 DEF Known
<1>5. \A b \in Known' : /\ conversions'[b] \in ConversionRow /\ PartsPlanned(conversions'[b].parts)
                        /\ conversions'[b].status = "ready" => Whole(b)'
  <2> SUFFICES ASSUME NEW b \in Known'
               PROVE  /\ conversions'[b] \in ConversionRow /\ PartsPlanned(conversions'[b].parts)
                      /\ conversions'[b].status = "ready" => Whole(b)'
    OBVIOUS
  <2>1. CASE b = c
    BY <1>1, <1>2, <2>1
  <2>2. CASE b # c
    <3>1. b \in Known /\ b \in Conversion /\ conversions'[b] = conversions[b]
      BY <1>2, <1>4, <2>2 DEF Known
    <3>2. Whole(b)' <=> Whole(b)
      BY <3>1 DEF Whole
    <3> QED
      BY <3>1, <3>2 DEF ConversionsOK
  <2> QED
    BY <2>1, <2>2
<1>6. /\ \A b \in Conversion : conversions'[b] # Missing
      /\ \A d \in Known', b \in Conversion : b < d => b \in Known'
  <2>1. /\ \A b \in Conversion : conversions[b] # Missing
        /\ \A d \in Known, b \in Conversion : b < d => b \in Known
    BY <1>0 DEF ConversionsOK
  <2> QED
    BY <1>0, <1>2, <1>3, <1>4, <2>1
<1>7. ConversionsOK'
  BY <1>2, <1>5, <1>6 DEF ConversionsOK
<1>8. ConversionsGo
  <2>1. \A b \in Known : b # c /\ b \in Conversion /\ conversions'[b] = conversions[b] /\ b \in Known'
    BY <1>2, <1>4 DEF Known
  <2>2. \A b \in Conversion : conversions[b] = Missing => conversions'[b] = Missing
    BY <1>0, <1>2
  <2> QED
    BY <2>1, <2>2 DEF ConversionsGo, Goes
<1> QED
  BY <1>7, <1>8

\* One row changes: its parts stay, a status is concluded.
LEMMA RowGoes ==
  ASSUME ConversionsOK, NEW c \in Known, NEW row \in ConversionRow, PartsPlanned(row.parts),
         conversions' = [conversions EXCEPT ![c] = row],
         \A k \in 1 .. Parts : Assembled(conversions[c].parts[k]) => Assembled(row.parts[k]),
         conversions[c].status # "failed",
         row.status = "ready" => \A k \in 1 .. Parts : Assembled(row.parts[k])
  PROVE  ConversionsOK' /\ ConversionsGo
<1> USE LibraryAssumption
<1>1. c \in Conversion /\ DOMAIN conversions = Conversion /\ row # NoRow /\ row # Missing
  BY DEF Known, ConversionsOK
<1>2. DOMAIN conversions' = Conversion /\ conversions'[c] = row
      /\ \A b \in Conversion : b # c => conversions'[b] = conversions[b]
  BY <1>1
<1>3. Known' = Known /\ \A b \in Conversion : conversions[b] = Missing <=> conversions'[b] = Missing
  BY <1>1, <1>2 DEF Known
<1>4. \A b \in Known : /\ conversions'[b] \in ConversionRow /\ PartsPlanned(conversions'[b].parts)
                       /\ conversions'[b].status = "ready" => Whole(b)'
  <2> SUFFICES ASSUME NEW b \in Known
               PROVE  /\ conversions'[b] \in ConversionRow /\ PartsPlanned(conversions'[b].parts)
                      /\ conversions'[b].status = "ready" => Whole(b)'
    OBVIOUS
  <2>1. CASE b = c
    BY <1>2, <2>1 DEF Whole
  <2>2. CASE b # c
    <3>1. b \in Conversion /\ conversions'[b] = conversions[b]
      BY <1>2, <2>2 DEF Known
    <3>2. Whole(b)' <=> Whole(b)
      BY <3>1 DEF Whole
    <3> QED
      BY <3>1, <3>2 DEF ConversionsOK
  <2> QED
    BY <2>1, <2>2
<1>5. ConversionsOK'
  BY <1>2, <1>3, <1>4 DEF ConversionsOK
<1>6. ConversionsGo
  <2>1. \A b \in Known : Goes(b)
    <3> SUFFICES ASSUME NEW b \in Known PROVE Goes(b)
      OBVIOUS
    <3>1. b \in Conversion /\ b \in Known'
      BY <1>3 DEF Known
    <3>2. CASE b = c
      BY <1>2, <3>1, <3>2 DEF Goes
    <3>3. CASE b # c
      BY <1>2, <3>1, <3>3 DEF Goes
    <3> QED
      BY <3>2, <3>3
  <2> QED
    BY <1>3, <2>1 DEF ConversionsGo
<1> QED
  BY <1>5, <1>6

LEMMA DeliverGoes ==
  ASSUME ConversionsOK, NEW c \in Conversion, Deliver(c)
  PROVE  ConversionsOK' /\ ConversionsGo
<1> USE LibraryAssumption
<1> DEFINE audio == [durationMs |-> 1, wordCount |-> WordsPerPart]
<1>1. c \in Known /\ conversions[c].status = "processing" /\ DOMAIN conversions = Conversion
  BY DEF Deliver, ConversionsOK
<1>2. PICK k \in 1 .. Parts : conversions' = [conversions EXCEPT ![c].parts[k].assembled = audio]
  BY DEF Deliver
<1>3. PICK old : old = conversions[c] /\ old \in ConversionRow /\ PartsPlanned(old.parts)
  BY <1>1 DEF ConversionsOK
<1>4. PICK row : row = [old EXCEPT !.parts[k].assembled = audio]
  OBVIOUS
<1>5. conversions' = [conversions EXCEPT ![c] = row]
  BY <1>1, <1>2, <1>3, <1>4
<1>6. audio # Missing /\ audio \in [durationMs : Nat, wordCount : Nat]
  <2>1. audio \in [durationMs : Nat, wordCount : Nat]
    OBVIOUS
  <2> QED
    BY <2>1
<1> HIDE DEF audio
<1>7. row.status = old.status /\ DOMAIN row.parts = 1 .. Parts
      /\ row.parts = [old.parts EXCEPT ![k].assembled = audio] /\ row = [status |-> row.status, parts |-> row.parts]
  BY <1>3, <1>4 DEF ConversionRow
<1>8. row.parts[k] = [old.parts[k] EXCEPT !.assembled = audio]
      /\ \A j \in 1 .. Parts : j # k => row.parts[j] = old.parts[j]
  BY <1>3, <1>7 DEF ConversionRow
<1>9. old.parts[k] \in PartRow
  BY <1>3 DEF PartsPlanned
<1>10. row.parts[k].assembled = audio /\ row.parts[k].index = old.parts[k].index
       /\ row.parts[k].firstWordIndex = old.parts[k].firstWordIndex /\ row.parts[k] \in PartRow
  BY <1>6, <1>8, <1>9 DEF PartRow
<1>11. PartsPlanned(row.parts) /\ row.parts \in [1 .. Parts -> PartRow]
  <2>1. \A j \in 1 .. Parts : row.parts[j] \in PartRow
    BY <1>3, <1>8, <1>10 DEF PartsPlanned
  <2>2. row.parts \in [1 .. Parts -> PartRow]
    BY <1>7, <2>1
  <2>3. \A j \in 1 .. Parts :
       /\ row.parts[j].index = j - 1 /\ row.parts[j].firstWordIndex = (j - 1) * WordsPerPart
       /\ Assembled(row.parts[j]) => row.parts[j].assembled = audio
    <3> SUFFICES ASSUME NEW j \in 1 .. Parts
                 PROVE  /\ row.parts[j].index = j - 1 /\ row.parts[j].firstWordIndex = (j - 1) * WordsPerPart
                        /\ Assembled(row.parts[j]) => row.parts[j].assembled = audio
      OBVIOUS
    <3>1. CASE j = k
      BY <1>3, <1>10, <3>1 DEF PartsPlanned
    <3>2. CASE j # k
      BY <1>3, <1>8, <3>2 DEF PartsPlanned, audio
    <3> QED
      BY <3>1, <3>2
  <2> QED
    BY <2>2, <2>3 DEF PartsPlanned, audio
<1>12. row \in ConversionRow
  BY <1>3, <1>7, <1>11 DEF ConversionRow
<1>13. \A j \in 1 .. Parts : Assembled(old.parts[j]) => Assembled(row.parts[j])
  BY <1>6, <1>8, <1>10 DEF Assembled
<1> QED
  BY <1>1, <1>3, <1>5, <1>7, <1>11, <1>12, <1>13, RowGoes

LEMMA ConcludeGoes ==
  ASSUME ConversionsOK, NEW c \in Conversion, Conclude(c)
  PROVE  ConversionsOK' /\ ConversionsGo
<1> DEFINE status == IF Whole(c) THEN "ready" ELSE "failed"
<1>1. c \in Known /\ conversions[c].status = "processing" /\ DOMAIN conversions = Conversion
      /\ conversions' = [conversions EXCEPT ![c].status = status]
  BY DEF Conclude, ConversionsOK
<1>2. status \in {"ready", "failed"} /\ (status = "ready" => Whole(c))
  OBVIOUS
<1> HIDE DEF status
<1>3. PICK old : old = conversions[c] /\ old \in ConversionRow /\ PartsPlanned(old.parts)
  BY <1>1 DEF ConversionsOK
<1>4. PICK row : row = [old EXCEPT !.status = status]
  OBVIOUS
<1>5. conversions' = [conversions EXCEPT ![c] = row]
  BY <1>1, <1>3, <1>4
<1>6. row \in ConversionRow /\ row.parts = old.parts /\ row.status = status
  BY <1>2, <1>3, <1>4 DEF ConversionRow
<1>7. row.status = "ready" => \A k \in 1 .. Parts : Assembled(row.parts[k])
  BY <1>2, <1>3, <1>6 DEF Whole
<1> QED
  BY <1>1, <1>3, <1>5, <1>6, <1>7, RowGoes

-----------------------------------------------------------------------------
\* What was playable, saved or shown stays true while the conversions go on.
LEMMA PlayableStays ==
  ASSUME ConversionsGo, NEW c \in Known, NEW word, NEW audio, Playable(c, word, audio)
  PROVE  c \in Known' /\ Playable(c, word, audio)'
<1>1. Goes(c)
  BY DEF ConversionsGo
<1>2. PICK n \in 0 .. Parts : /\ \A k \in 1 .. n : Assembled(conversions[c].parts[k])
                              /\ word < n * WordsPerPart /\ audio <= n + AudioEndTolerance
  BY DEF Playable
<1>3. \A k \in 1 .. n : Assembled(conversions'[c].parts[k])
  BY <1>1, <1>2, LibraryAssumption DEF Goes
<1> QED
  BY <1>1, <1>2, <1>3 DEF Goes, Playable

LEMMA PositionsStay ==
  ASSUME ConversionsGo, PositionsOK, UNCHANGED position
  PROVE  PositionsOK'
<1> SUFFICES ASSUME NEW c \in Conversion, position[c] # NoRow
             PROVE  c \in Known' /\ Playable(c, position[c].word, position[c].audio)'
  BY DEF PositionsOK
<1>1. PICK word, audio : word = position[c].word /\ audio = position[c].audio
  OBVIOUS
<1>2. c \in Known /\ Playable(c, word, audio)
  BY <1>1 DEF PositionsOK
<1>3. c \in Known' /\ Playable(c, word, audio)'
  BY <1>2, PlayableStays
<1> QED
  BY <1>1, <1>3 DEF Playable

LEMMA SavesStay ==
  ASSUME ConversionsGo, SavesOK, UNCHANGED saves
  PROVE  SavesOK'
<1> SUFFICES ASSUME NEW d \in Player, saves[d] # None
             PROVE  \/ conversions'[saves[d].c] = Missing
                    \/ saves[d].c \in Known' /\ Playable(saves[d].c, saves[d].word, saves[d].audio)'
  BY DEF SavesOK
<1>1. PICK c, word, audio : c = saves[d].c /\ word = saves[d].word /\ audio = saves[d].audio
  OBVIOUS
<1>2. c \in Conversion /\ (conversions[c] = Missing \/ (c \in Known /\ Playable(c, word, audio)))
  BY <1>1 DEF SavesOK, SaveRow
<1>3. conversions'[c] = Missing \/ (c \in Known' /\ Playable(c, word, audio)')
  BY <1>2, PlayableStays DEF ConversionsGo
<1> QED
  BY <1>1, <1>3 DEF Playable

LEMMA FailedStays ==
  ASSUME ConversionsGo, NEW c, FailedUpTo(c)
  PROVE  FailedUpTo(c)'
BY DEF ConversionsGo, Goes, FailedUpTo

LEMMA ListingStays ==
  ASSUME ConversionsGo, ListingOK, UNCHANGED listing
  PROVE  ListingOK'
<1>1. ASSUME NEW shown, ShownOK(shown) PROVE ShownOK(shown)'
  BY <1>1, FailedStays DEF ShownOK
<1>2. PICK shown : shown = listing.conversion
  OBVIOUS
<1>3. ShownOK(shown) => ShownOK(shown)'
  BY <1>1
<1>4. CASE listing = None
  BY <1>4 DEF ListingOK
<1>5. CASE ShownOK(listing.conversion)
  <2>1. ShownOK(shown)'
    BY <1>2, <1>3, <1>5
  <2>2. ShownOK(listing.conversion)'
    BY <1>2, <2>1 DEF ShownOK
  <2>3. ItemOK(listing) => ItemOK(listing')
    BY DEF ItemOK
  <2> QED
    BY <2>2, <2>3 DEF ListingOK
<1> QED
  BY <1>4, <1>5 DEF ListingOK

\* Once dropped, nothing of the book comes back.
LEMMA DropKeeps ==
  ASSUME ReadingIInv, DropConversions
  PROVE  ReadingIInv'
<1> USE LibraryAssumption
<1>1. /\ conversions' = [c \in Conversion |-> Missing] /\ position' = [c \in Conversion |-> NoRow]
      /\ saves' = saves /\ listing' = listing
  BY DEF DropConversions
<1>2. Known' = {} /\ \A c \in Conversion : conversions'[c] = Missing
  BY <1>1 DEF Known
<1>3. ConversionsOK'
  BY <1>1, <1>2 DEF ConversionsOK
<1>4. PositionsOK'
  BY <1>1 DEF PositionsOK
<1>5. SavesOK'
  <2>1. \A d \in Player : saves[d] # None => saves[d] \in SaveRow /\ saves[d].c \in Conversion
    BY DEF ReadingIInv, SavesOK, SaveRow
  <2> QED
    BY <1>1, <1>2, <2>1 DEF ReadingIInv, SavesOK
<1>6. ListingOK'
  <2>1. PICK shown : shown = listing.conversion
    OBVIOUS
  <2>2. ShownOK(shown) => ShownOK(shown)'
    BY <1>2 DEF ShownOK, FailedUpTo
  <2>3. ShownOK(listing.conversion) => ShownOK(listing.conversion)'
    BY <1>1, <2>1, <2>2 DEF ShownOK
  <2>4. ItemOK(listing) => ItemOK(listing')
    BY <1>1
  <2> QED
    BY <1>1, <2>3, <2>4 DEF ReadingIInv, ListingOK
<1> QED
  BY <1>3, <1>4, <1>5, <1>6 DEF ReadingIInv

\* The extent of a conversion that is there.
LEMMA OverviewExtent ==
  ASSUME ConversionsOK, NEW c \in Known
  PROVE  /\ toOverview(c).id = c /\ toOverview(c).state = conversions[c].status
         /\ toOverview(c) \in OverviewRow
         /\ \E n \in 0 .. Parts :
              /\ \A k \in 1 .. n : Assembled(conversions[c].parts[k])
              /\ n = Parts \/ ~Assembled(conversions[c].parts[n + 1])
              /\ toOverview(c).playableWordCount = n * WordsPerPart
              /\ toOverview(c).playableDurationMs = n
<1> USE LibraryAssumption
<1>1. conversions[c] \in ConversionRow /\ PartsPlanned(conversions[c].parts) /\ c \in Nat
  BY DEF ConversionsOK, Known
<1>2. PICK extent : extent = playableExtent(conversions[c].parts)
  OBVIOUS
<1>3. toOverview(c) = [id |-> c, state |-> conversions[c].status,
                       playableWordCount |-> extent.wordCount, playableDurationMs |-> extent.durationMs]
  BY <1>2 DEF toOverview
<1>4. PICK parts : parts = conversions[c].parts
  OBVIOUS
<1>5. PICK n \in 0 .. Parts : /\ \A k \in 1 .. n : Assembled(parts[k])
                              /\ n = Parts \/ ~Assembled(parts[n + 1])
                              /\ extent.wordCount = n * WordsPerPart
                              /\ extent.durationMs = n
  BY <1>1, <1>2, <1>4, ExtentOfParts
<1>6. n * WordsPerPart \in Nat /\ n \in Nat
  OBVIOUS
<1>7. conversions[c].status \in {"processing", "ready", "failed"}
  BY <1>1 DEF ConversionRow
<1>8. toOverview(c) \in OverviewRow
  BY <1>1, <1>3, <1>5, <1>6, <1>7 DEF OverviewRow
<1> QED
  BY <1>3, <1>4, <1>5, <1>8

\* A position that passes the check is playable.
LEMMA CheckKeeps ==
  ASSUME ReadingIInv, NEW d \in Player, CheckPosition(d)
  PROVE  ReadingIInv'
<1> USE LibraryAssumption, BookmarksAssumption
<1>1. UNCHANGED <<conversions, position, listing>>
  BY DEF CheckPosition
<1>2. ConversionsOK /\ PositionsOK /\ SavesOK /\ ListingOK
  BY DEF ReadingIInv
<1>3. PICK c \in Known, word \in 0 .. Parts * WordsPerPart, audio \in AudioTime, at \in 1 .. MaxTime :
        LET input == [step |-> "save", c |-> c, word |-> word, audio |-> audio, at |-> at]
        IN  validateReadingPosition(input, toOverview(c)) /\ saves' = [saves EXCEPT ![d] = input]
  BY DEF CheckPosition
<1>4. PICK input : /\ input = [step |-> "save", c |-> c, word |-> word, audio |-> audio, at |-> at]
                   /\ validateReadingPosition(input, toOverview(c)) /\ saves' = [saves EXCEPT ![d] = input]
  BY <1>3
<1>5. c \in Conversion /\ word \in Nat /\ audio \in Nat /\ at \in Nat
  <2>1. c \in Conversion
    BY DEF Known
  <2>2. Parts * WordsPerPart \in Nat
    OBVIOUS
  <2> QED
    BY <2>1, <2>2
<1>6. input \in SaveRow /\ input.c = c /\ input.word = word /\ input.audio = audio
  BY <1>4, <1>5 DEF SaveRow
<1>7. word < toOverview(c).playableWordCount /\ audio <= toOverview(c).playableDurationMs + AudioEndTolerance
  BY <1>4 DEF validateReadingPosition
<1>8. Playable(c, word, audio)
  <2>1. PICK n \in 0 .. Parts :
          /\ \A k \in 1 .. n : Assembled(conversions[c].parts[k])
          /\ toOverview(c).playableWordCount = n * WordsPerPart
          /\ toOverview(c).playableDurationMs = n
    BY <1>2, OverviewExtent
  <2> QED
    BY <1>7, <2>1 DEF Playable
<1>9. Playable(c, word, audio)' /\ Known' = Known
  BY <1>1, <1>8 DEF Playable, Known
<1>10. SavesOK'
  <2>1. DOMAIN saves' = Player /\ saves'[d] = input
        /\ \A e \in Player : e # d => saves'[e] = saves[e]
    BY <1>2, <1>4 DEF SavesOK
  <2> SUFFICES ASSUME NEW e \in Player, saves'[e] # None
               PROVE  /\ saves'[e] \in SaveRow
                      /\ \/ conversions'[saves'[e].c] = Missing
                         \/ saves'[e].c \in Known' /\ Playable(saves[e].c, saves[e].word, saves[e].audio)'
    BY <2>1 DEF SavesOK
  <2>2. CASE e = d
    BY <1>6, <1>9, <2>1, <2>2 DEF Playable
  <2>3. CASE e # d
    BY <1>1, <1>2, <1>9, <2>1, <2>3 DEF SavesOK, Playable
  <2> QED
    BY <2>2, <2>3
<1>11. ConversionsOK' /\ PositionsOK'
  BY <1>1, <1>2, <1>9 DEF ConversionsOK, PositionsOK, Playable, Whole
<1>12. ListingOK'
  BY <1>1, <1>2, <1>9 DEF ListingOK, ShownOK, FailedUpTo
<1> QED
  BY <1>10, <1>11, <1>12 DEF ReadingIInv

\* A position saved late is one of a conversion that is still there.
LEMMA SaveKeeps ==
  ASSUME ReadingIInv, NEW d \in Player, saveIfNewer(d)
  PROVE  ReadingIInv'
<1> USE LibraryAssumption
<1>1. UNCHANGED <<conversions, listing>> /\ saves' = [saves EXCEPT ![d] = None] /\ saves[d] # None
  BY DEF saveIfNewer
<1>2. ConversionsOK /\ PositionsOK /\ SavesOK /\ ListingOK
  BY DEF ReadingIInv
<1>3. Known' = Known
  BY <1>1 DEF Known
<1>4. SavesOK'
  <2>1. DOMAIN saves' = Player /\ \A e \in Player : saves'[e] = None \/ saves'[e] = saves[e]
    BY <1>1, <1>2 DEF SavesOK
  <2> QED
    BY <1>1, <1>2, <1>3, <2>1 DEF SavesOK, Playable
<1>5. PICK s : s = saves[d] /\ s \in SaveRow /\ (conversions[s.c] = Missing \/ Playable(s.c, s.word, s.audio))
  BY <1>1, <1>2 DEF SavesOK
<1>6. PositionsOK'
  <2>1. CASE position' = position
    BY <1>1, <1>2, <1>3, <2>1 DEF PositionsOK, Playable
  <2>2. CASE s.c \in Known /\ position' = [position EXCEPT ![s.c] = [word |-> s.word, audio |-> s.audio, at |-> s.at]]
    <3>1. PICK c, row : c = s.c /\ row = [word |-> s.word, audio |-> s.audio, at |-> s.at]
      OBVIOUS
    <3>2. c \in Known /\ c \in Conversion /\ row \in PositionRow /\ Playable(c, row.word, row.audio)
      BY <1>5, <2>2, <3>1 DEF SaveRow, PositionRow, Known
    <3>3. Playable(c, row.word, row.audio)'
      BY <1>1, <3>2 DEF Playable
    <3>4. DOMAIN position' = Conversion /\ position'[c] = row
          /\ \A b \in Conversion : b # c => position'[b] = position[b]
      BY <1>2, <2>2, <3>1, <3>2 DEF PositionsOK
    <3> SUFFICES ASSUME NEW b \in Conversion, position'[b] # NoRow
                 PROVE  /\ b \in Known' /\ position'[b] \in PositionRow
                        /\ Playable(b, position[b].word, position[b].audio)'
      BY <3>4 DEF PositionsOK
    <3>5. CASE b = c
      BY <1>3, <3>2, <3>3, <3>4, <3>5 DEF Playable
    <3>6. CASE b # c
      BY <1>1, <1>2, <1>3, <3>4, <3>6 DEF PositionsOK, Playable
    <3> QED
      BY <3>5, <3>6
  <2> QED
    BY <1>5, <2>1, <2>2 DEF saveIfNewer
<1>7. ConversionsOK'
  BY <1>1, <1>2, <1>3 DEF ConversionsOK, Whole
<1>8. ListingOK'
  BY <1>1, <1>2, <1>3 DEF ListingOK, ShownOK, FailedUpTo
<1> QED
  BY <1>4, <1>6, <1>7, <1>8 DEF ReadingIInv

\* The conversion shown for a book.
LEMMA NewestExists ==
  ASSUME NEW S, IsFiniteSet(S), S # {}, S \subseteq CandidateRow
  PROVE  Newest(S) \in S /\ \A d \in S : d.createdAt <= Newest(S).createdAt
<1> DEFINE f == [c \in S |-> c.createdAt]
<1>1. f \in [S -> Nat]
  BY DEF CandidateRow
<1>2. \E p \in S : \A q \in S : f[q] <= f[p]
  BY <1>1, GreatestAttained
<1>3. \E c \in S : \A d \in S : d.createdAt <= c.createdAt
  BY <1>2
<1> QED
  BY <1>3 DEF Newest

LEMMA OverviewShown ==
  ASSUME ConversionsOK
  PROVE  ShownOK(overviewByDocument)
<1> USE LibraryAssumption
<1> DEFINE candidate(c) == [id |-> c, createdAt |-> c, status |-> conversions[c].status]
           candidates == {candidate(c) : c \in Known}
           chosen == selectLibraryConversion(candidates)
<1>1. IsFiniteSet(candidates) /\ candidates \subseteq CandidateRow
  <2>1. Known \subseteq Conversion /\ IsFiniteSet(Known)
    BY FS_Subset DEF Known
  <2>2. \A c \in Known : candidate(c) \in CandidateRow
    BY <2>1 DEF ConversionsOK, ConversionRow, CandidateRow
  <2>3. PICK known, all, f : /\ known = Known /\ all = candidates
                             /\ f = [c \in Known |-> candidate(c)]
    OBVIOUS
  <2>4. f \in Surjection(known, all)
    BY <2>3 DEF Surjection
  <2>5. IsFiniteSet(all)
    BY <2>1, <2>3, <2>4, FS_Surjection
  <2> QED
    BY <2>2, <2>3, <2>5
<1>2. overviewByDocument = IF chosen = Missing THEN Missing ELSE toOverview(chosen.id)
  BY DEF overviewByDocument
<1>3. \A x \in candidates : x.id \in Known /\ x.createdAt = x.id /\ x.status = conversions[x.id].status
                            /\ x # Missing
  BY <1>1
<1>4. \A c \in Known : \E x \in candidates : x.id = c
  <2> SUFFICES ASSUME NEW c \in Known PROVE \E x \in candidates : x.id = c
    OBVIOUS
  <2>1. candidate(c) \in candidates /\ candidate(c).id = c
    OBVIOUS
  <2> QED
    BY <2>1
<1>5. PICK all : all = candidates
  OBVIOUS
<1>6. PICK alive : alive = {x \in all : x.status # "failed"}
  OBVIOUS
<1>7. PICK one : one = chosen
  OBVIOUS
<1>8. one = IF alive # {} THEN Newest(alive) ELSE IF all # {} THEN Newest(all) ELSE Missing
  BY <1>5, <1>6, <1>7 DEF selectLibraryConversion
<1> HIDE DEF candidates, chosen
<1>9. CASE one = Missing
  BY <1>2, <1>7, <1>9 DEF ShownOK
<1>10. CASE alive # {}
  <2>1. IsFiniteSet(alive) /\ alive \subseteq CandidateRow
    BY <1>1, <1>5, <1>6, FS_Subset
  <2>2. one \in alive
    BY <1>8, <1>10, <2>1, NewestExists
  <2>3. PICK c \in Known : c = one.id /\ conversions[c].status # "failed" /\ one # Missing
    BY <1>3, <1>5, <1>6, <2>2
  <2>4. PICK shown : shown = toOverview(c) /\ overviewByDocument = shown
    BY <1>2, <1>7, <2>3
  <2>5. c \in Conversion /\ shown.id = c /\ shown.state = conversions[c].status /\ shown \in OverviewRow
    BY <2>4, OverviewExtent DEF Known
  <2>6. ASSUME shown.state = "ready" PROVE shown.playableWordCount = Parts * WordsPerPart
    <3>1. Whole(c)
      BY <2>5, <2>6 DEF ConversionsOK
    <3>2. PICK n \in 0 .. Parts :
            /\ n = Parts \/ ~Assembled(conversions[c].parts[n + 1])
            /\ shown.playableWordCount = n * WordsPerPart
      BY <2>4, OverviewExtent
    <3>3. n = Parts \/ n + 1 \in 1 .. Parts
      OBVIOUS
    <3> QED
      BY <3>1, <3>2, <3>3 DEF Whole
  <2> QED
    BY <2>3, <2>4, <2>5, <2>6 DEF ShownOK
<1>11. CASE alive = {} /\ all # {}
  <2>1. one \in all /\ \A x \in all : x.createdAt <= one.createdAt
    BY <1>1, <1>5, <1>8, <1>11, NewestExists
  <2>2. PICK c \in Known : c = one.id /\ one # Missing
    BY <1>3, <1>5, <2>1
  <2>3. PICK shown : shown = toOverview(c) /\ overviewByDocument = shown
    BY <1>2, <1>7, <2>2
  <2>4. c \in Conversion /\ shown.id = c /\ shown.state = conversions[c].status /\ shown \in OverviewRow
    BY <2>3, OverviewExtent DEF Known
  <2>5. \A b \in Known : conversions[b].status = "failed"
    BY <1>3, <1>4, <1>5, <1>6, <1>11
  <2>6. FailedUpTo(c)
    <3>1. \A b \in Conversion : b < c => b \in Known
      BY <2>2, <2>4 DEF ConversionsOK, Known
    <3>2. \A b \in Conversion : b <= c => b \in Known
      BY <2>4, <3>1
    <3> QED
      BY <2>5, <3>2 DEF FailedUpTo
  <2> QED
    BY <2>3, <2>4, <2>5, <2>6 DEF ShownOK
<1> QED
  BY <1>8, <1>9, <1>10, <1>11

LEMMA OverviewKeeps ==
  ASSUME ReadingIInv, ReadOverview
  PROVE  ReadingIInv'
<1>1. UNCHANGED <<conversions, position, saves>>
      /\ listing' = [step |-> "overview", conversion |-> overviewByDocument]
  BY DEF ReadOverview
<1>2. ConversionsOK /\ PositionsOK /\ SavesOK
  BY DEF ReadingIInv
<1>3. Known' = Known
  BY <1>1 DEF Known
<1>4. ConversionsOK' /\ PositionsOK' /\ SavesOK'
  BY <1>1, <1>2, <1>3 DEF ConversionsOK, PositionsOK, SavesOK, Playable, Whole
<1>5. PICK shown : shown = overviewByDocument
  OBVIOUS
<1>6. ShownOK(shown)
  BY <1>2, <1>5, OverviewShown
<1>7. listing'.step = "overview" /\ listing'.conversion = shown
  BY <1>1, <1>5
<1>8. ShownOK(shown)'
  BY <1>1, <1>3, <1>6 DEF ShownOK, FailedUpTo
<1>9. ShownOK(listing.conversion)'
  BY <1>7, <1>8 DEF ShownOK
<1>10. ListingOK'
  BY <1>7, <1>9 DEF ListingOK
<1> QED
  BY <1>4, <1>10 DEF ReadingIInv

-----------------------------------------------------------------------------
\* A progress is a percentage, and a book that is finished shows most of it.
LEMMA PercentBounds ==
  ASSUME NEW count \in Nat, count > 0, NEW read \in Nat, read <= count
  PROVE  (read * 100) \div count \in 0 .. 100
<1>1. PICK q : q = (read * 100) \div count
  OBVIOUS
<1>2. PICK a \in Nat : a = read * 100
  OBVIOUS
<1>3. q \in Int /\ count * q <= a /\ a < count * q + count
  BY <1>1, <1>2
<1>4. q >= 0
  <2> SUFFICES ASSUME q <= -1 PROVE FALSE
    BY <1>3
  <2>1. count * q <= -count
    BY <1>3
  <2> QED
    BY <1>2, <1>3, <2>1
<1>5. q <= 100
  <2> SUFFICES ASSUME q >= 101 PROVE FALSE
    BY <1>3
  <2>1. count * q >= count * 101
    BY <1>3
  <2> QED
    BY <1>2, <1>3, <2>1
<1> QED
  BY <1>1, <1>3, <1>4, <1>5

LEMMA FinishedShowsMost ==
  ASSUME NEW count \in Nat, count > 0, NEW read \in Nat, read <= count,
         NEW left \in 0 .. 100, (count - read) * 100 < left * count
  PROVE  (read * 100) \div count + left >= 100
<1>1. PICK q : q = (read * 100) \div count
  OBVIOUS
<1>2. PICK a \in Nat : a = read * 100
  OBVIOUS
<1>3. q \in Int /\ count * q <= a /\ a < count * q + count
  BY <1>1, <1>2
<1>4. q + left >= 100
  <2> SUFFICES ASSUME q + left <= 99 PROVE FALSE
    BY <1>3
  <2>1. count * (q + left + 1) <= count * 100
    BY <1>3
  <2>2. count * (q + left + 1) = count * q + count * left + count
    BY <1>3
  <2>3. count * left = left * count /\ (count - read) * 100 = count * 100 - a
    BY <1>2
  <2> QED
    BY <1>2, <1>3, <2>1, <2>2, <2>3
<1> QED
  BY <1>1, <1>4

\* The item tells of the conversion that was read, and of a position of it.
LEMMA ItemShown ==
  ASSUME ConversionsOK, PositionsOK, NEW conversion, ShownOK(conversion), NEW pos,
         pos = IF conversion = Missing THEN NoRow ELSE position[conversion.id]
  PROVE  ItemOK([step |-> "item", conversion |-> conversion,
                 status |-> deriveLibraryStatus("text_ready", conversion, pos),
                 progress |-> progressPercent(pos, conversion)])
<1> USE LibraryAssumption
<1> DEFINE W == Parts * WordsPerPart
<1>0. W \in Nat /\ W > 0
  OBVIOUS
<1>1. PICK status, progress : /\ status = deriveLibraryStatus("text_ready", conversion, pos)
                              /\ progress = progressPercent(pos, conversion)
  OBVIOUS
<1>2. PICK item : item = [step |-> "item", conversion |-> conversion, status |-> status, progress |-> progress]
  OBVIOUS
<1> HIDE DEF W
<1>3. status = IF conversion = Missing THEN "not_converted"
               ELSE IF pos # NoRow
                    THEN IF isFinished(pos, conversion) THEN "finished" ELSE "in_progress"
                    ELSE IF conversion.state \in {"failed", "ready"} THEN conversion.state ELSE "processing"
  BY <1>1 DEF deriveLibraryStatus
<1>4. conversion \in OverviewRow \cup {Missing}
  BY DEF ShownOK
<1>5. status \in {"not_converted", "finished", "in_progress", "failed", "ready", "processing"}
  BY <1>3, <1>4
<1>6. ASSUME conversion # Missing, conversion.state = "ready", pos # NoRow
      PROVE  /\ conversion.playableWordCount = W
             /\ pos.word + 1 \in Nat /\ pos.word + 1 <= W
             /\ progress = ((pos.word + 1) * 100) \div W
  <2>1. PICK c : c = conversion.id /\ c \in Conversion
    BY <1>6 DEF ShownOK
  <2>2. pos = position[c] /\ c \in Known /\ pos \in PositionRow /\ Playable(c, pos.word, pos.audio)
    BY <1>6, <2>1 DEF PositionsOK
  <2>3. PICK n \in 0 .. Parts : pos.word < n * WordsPerPart
    BY <2>2 DEF Playable
  <2>4. n * WordsPerPart <= W /\ n * WordsPerPart \in Nat
    BY DEF W
  <2>5. pos.word \in Nat
    BY <2>2 DEF PositionRow
  <2>6. pos.word + 1 \in Nat /\ pos.word + 1 <= W
    BY <1>0, <2>3, <2>4, <2>5
  <2>7. conversion.playableWordCount = W
    BY <1>6 DEF ShownOK, W
  <2>8. progress = (Earlier(pos.word + 1, W) * 100) \div W
    BY <1>0, <1>1, <1>6, <2>7 DEF progressPercent
  <2>9. Earlier(pos.word + 1, W) = pos.word + 1
    BY <2>6 DEF Earlier
  <2> QED
    BY <2>6, <2>7, <2>8, <2>9
<1>7. ASSUME ~(conversion # Missing /\ conversion.state = "ready" /\ pos # NoRow)
      PROVE  progress = Missing
  BY <1>1, <1>7 DEF progressPercent
<1>8. progress \in (0 .. 100) \cup {Missing}
  <2>1. CASE conversion # Missing /\ conversion.state = "ready" /\ pos # NoRow
    <3>1. PICK read : read = pos.word + 1
      OBVIOUS
    <3>2. read \in Nat /\ read <= W /\ progress = (read * 100) \div W
      BY <1>6, <2>1, <3>1
    <3>3. (read * 100) \div W \in 0 .. 100
      BY <1>0, <3>2, PercentBounds
    <3> QED
      BY <3>2, <3>3
  <2> QED
    BY <1>7, <2>1
<1>9. ASSUME status = "finished"
      PROVE  /\ conversion # Missing /\ conversion.state = "ready"
             /\ progress \in 0 .. 100 /\ progress + FinishedPercent >= 100
  <2>1. conversion # Missing /\ pos # NoRow /\ isFinished(pos, conversion)
    BY <1>3, <1>9
  <2>2. conversion.state = "ready"
        /\ (conversion.playableWordCount - (pos.word + 1)) * 100 < FinishedPercent * conversion.playableWordCount
    BY <2>1 DEF isFinished
  <2>3. PICK read : read = pos.word + 1
    OBVIOUS
  <2>4. read \in Nat /\ read <= W /\ progress = (read * 100) \div W
        /\ (W - read) * 100 < FinishedPercent * W
    BY <1>6, <2>1, <2>2, <2>3
  <2> QED
    BY <1>0, <2>1, <2>2, <2>4, PercentBounds, FinishedShowsMost
<1>10. status = "failed" => conversion # Missing /\ conversion.state = "failed"
  BY <1>3
<1>11. progress # Missing => conversion # Missing /\ conversion.state = "ready"
  BY <1>7
<1>12. item \in ItemRow
  BY <1>2, <1>4, <1>5, <1>8 DEF ItemRow
<1>13. ItemOK(item)
  BY <1>2, <1>9, <1>10, <1>11, <1>12 DEF ItemOK
<1> QED
  BY <1>1, <1>2, <1>13

LEMMA ItemKeeps ==
  ASSUME ReadingIInv, ReadPosition
  PROVE  ReadingIInv'
<1>1. UNCHANGED <<conversions, position, saves>> /\ listing.step = "overview"
  BY DEF ReadPosition
<1>2. ConversionsOK /\ PositionsOK /\ SavesOK /\ ListingOK
  BY DEF ReadingIInv
<1>3. Known' = Known
  BY <1>1 DEF Known
<1>4. ConversionsOK' /\ PositionsOK' /\ SavesOK'
  BY <1>1, <1>2, <1>3 DEF ConversionsOK, PositionsOK, SavesOK, Playable, Whole
<1>5. PICK shown : shown = listing.conversion
  OBVIOUS
<1>6. PICK pos : pos = IF shown = Missing THEN NoRow ELSE position[shown.id]
  OBVIOUS
<1>7. PICK item : item = [step |-> "item", conversion |-> shown,
                          status |-> deriveLibraryStatus("text_ready", shown, pos),
                          progress |-> progressPercent(pos, shown)]
  OBVIOUS
<1>8. listing' = item
  BY <1>5, <1>6, <1>7 DEF ReadPosition
<1>9. ShownOK(shown)
  BY <1>1, <1>2, <1>5 DEF ListingOK, None
<1>10. ItemOK(item)
  BY <1>2, <1>6, <1>7, <1>9, ItemShown
<1>11. ShownOK(shown)'
  BY <1>1, <1>3, <1>9 DEF ShownOK, FailedUpTo
<1>12. ShownOK(listing.conversion)'
  BY <1>7, <1>8, <1>11 DEF ShownOK
<1>13. ListingOK'
  BY <1>7, <1>8, <1>10, <1>12 DEF ListingOK
<1> QED
  BY <1>4, <1>13 DEF ReadingIInv

-----------------------------------------------------------------------------
LEMMA ReadingBegins == ReadingInit => ReadingIInv
<1> USE LibraryAssumption
<1> SUFFICES ASSUME ReadingInit PROVE ReadingIInv
  OBVIOUS
<1>1. Known = {} /\ \A c \in Conversion : conversions[c] = NoRow
  BY DEF ReadingInit, Known
<1>2. ConversionsOK
  BY <1>1 DEF ReadingInit, ConversionsOK
<1>3. PositionsOK
  BY DEF ReadingInit, PositionsOK
<1>4. SavesOK
  BY DEF ReadingInit, SavesOK
<1>5. ListingOK
  BY DEF ReadingInit, ListingOK
<1> QED
  BY <1>2, <1>3, <1>4, <1>5 DEF ReadingIInv

LEMMA ReadingStep == ReadingIInv /\ [ReadingNext]_readingVars => ReadingIInv'
<1> SUFFICES ASSUME ReadingIInv, [ReadingNext]_readingVars PROVE ReadingIInv'
  OBVIOUS
<1>1. ASSUME ConversionsOK', ConversionsGo, UNCHANGED <<position, saves, listing>>
      PROVE  ReadingIInv'
  BY <1>1, PositionsStay, SavesStay, ListingStays DEF ReadingIInv
<1>2. ASSUME NEW c \in Conversion, Launch(c) \/ Deliver(c) \/ Conclude(c)
      PROVE  ReadingIInv'
  BY <1>1, <1>2, LaunchGoes, DeliverGoes, ConcludeGoes DEF ReadingIInv, Launch, Deliver, Conclude
<1>3. CASE DropConversions
  BY <1>3, DropKeeps
<1>4. ASSUME NEW d \in Player, CheckPosition(d) \/ saveIfNewer(d)
      PROVE  ReadingIInv'
  BY <1>4, CheckKeeps, SaveKeeps
<1>5. CASE ReadOverview \/ ReadPosition
  BY <1>5, OverviewKeeps, ItemKeeps
<1>6. CASE UNCHANGED readingVars
  BY <1>6 DEF readingVars, ReadingIInv, ConversionsOK, PositionsOK, SavesOK, ListingOK, ShownOK,
              FailedUpTo, Known, Playable, Whole
<1> QED
  BY <1>2, <1>3, <1>4, <1>5, <1>6 DEF ReadingNext

LEMMA ReadingIInvHolds == ReadingIInv => ReadingIsTrue
<1> USE LibraryAssumption
<1> SUFFICES ASSUME ReadingIInv PROVE ReadingIsTrue
  OBVIOUS
<1>1. ConversionsOK /\ PositionsOK /\ ListingOK
  BY DEF ReadingIInv
<1>2. ASSUME NEW c \in Conversion, position[c] # NoRow, NEW k \in 1 .. Parts,
             (k - 1) * WordsPerPart <= position[c].word \/ k - 1 + AudioEndTolerance < position[c].audio
      PROVE  \A j \in 1 .. k : Assembled(conversions[c].parts[j])
  <2>1. PICK word, audio : /\ word = position[c].word /\ audio = position[c].audio
                           /\ word \in Nat /\ audio \in Nat
    BY <1>1, <1>2 DEF PositionsOK, PositionRow
  <2>2. Playable(c, word, audio)
    BY <1>1, <1>2, <2>1 DEF PositionsOK
  <2>3. PICK n \in 0 .. Parts : /\ \A j \in 1 .. n : Assembled(conversions[c].parts[j])
                                /\ word < n * WordsPerPart /\ audio <= n + AudioEndTolerance
    BY <2>2 DEF Playable
  <2>4. k <= n
    <3>1. CASE k - 1 + AudioEndTolerance < audio
      BY <2>1, <2>3, <3>1
    <3>2. CASE (k - 1) * WordsPerPart <= word
      <4> SUFFICES ASSUME n <= k - 1 PROVE FALSE
        OBVIOUS
      <4>1. n * WordsPerPart <= (k - 1) * WordsPerPart
        OBVIOUS
      <4>2. n * WordsPerPart \in Nat /\ (k - 1) * WordsPerPart \in Nat
        OBVIOUS
      <4> QED
        BY <2>1, <2>3, <3>2, <4>1, <4>2
    <3> QED
      BY <1>2, <2>1, <3>1, <3>2
  <2> QED
    BY <2>3, <2>4
<1>3. ASSUME listing.step = "item"
      PROVE  /\ listing.status = "finished" \/ listing.progress # Missing =>
                  listing.conversion.playableWordCount = Parts * WordsPerPart
             /\ listing.progress # Missing => listing.progress \in 0 .. 100
             /\ listing.status = "finished" => listing.progress + FinishedPercent >= 100
             /\ listing.status = "failed" =>
                  \A c \in Known : c <= listing.conversion.id => conversions[c].status # "ready"
  <2>1. ShownOK(listing.conversion) /\ ItemOK(listing)
    BY <1>1, <1>3 DEF ListingOK, None
  <2>2. listing.status = "finished" \/ listing.progress # Missing =>
          listing.conversion.playableWordCount = Parts * WordsPerPart
    BY <2>1 DEF ShownOK, ItemOK
  <2>3. listing.status = "failed" =>
          \A c \in Known : c <= listing.conversion.id => conversions[c].status # "ready"
    <3>1. ASSUME listing.status = "failed" PROVE FailedUpTo(listing.conversion.id)
      BY <2>1, <3>1 DEF ShownOK, ItemOK
    <3> QED
      BY <3>1 DEF FailedUpTo, Known
  <2>4. listing.progress # Missing => listing.progress \in 0 .. 100
    BY <2>1 DEF ItemOK, ItemRow
  <2> QED
    BY <2>1, <2>2, <2>3, <2>4 DEF ItemOK
<1> QED
  BY <1>2, <1>3 DEF ReadingIsTrue

-----------------------------------------------------------------------------
(* Listings: an order is followed, a page is cut.                            *)

Steps == {"before", "reading", "over"}
WalkTypeOK ==
  /\ walk = [list |-> walk.list, cursor |-> walk.cursor, seen |-> walk.seen,
             owed |-> walk.owed, step |-> walk.step]
  /\ walk.list \in {"documents", "wallet", "pages"} /\ walk.step \in Steps
  /\ walk.seen \in Seq(ListedId) /\ walk.owed \subseteq ListedId

\* A cursor of this listing, or one it takes for its own, and the rows it leaves
\* to read.
Own(list, cursor) ==
  /\ Accepted(list, cursor)
  /\ IF list = "pages" THEN cursor.sort.value \in Nat
     ELSE dateOf(cursor.sort) \in Nat /\ cursor.id \in Nat
Ahead(list, cursor, id) == Beyond(list, cursor, id)
There(list, id) == list = "pages" \/ Present(id)

Seen == Range(walk.seen)

\* What was seen is behind the cursor, or deleted; what is owed was seen or is ahead.
Begun ==
  /\ Own(walk.list, walk.cursor)
  /\ \A id \in Seen : rows[id] = Missing \/ (There(walk.list, id) /\ ~Ahead(walk.list, walk.cursor, id))
  /\ \A id \in walk.owed : /\ id \in Readable(walk.list)
                           /\ id \in Seen \/ Ahead(walk.list, walk.cursor, id)

WalkIInv ==
  /\ clock \in Nat
  /\ rows \in [ListedId -> ListedRow \cup {NoRow, Missing}]
  /\ WalkTypeOK
  /\ walk.list = "pages" => \A id \in ListedId : rows[id] = NoRow
  /\ IsInjective(walk.seen)
  /\ walk.step = "before" => /\ walk.seen = <<>> /\ walk.owed = {}
                             /\ \/ walk.cursor = Missing \/ ~Accepted(walk.list, walk.cursor)
                                \/ Own(walk.list, walk.cursor)
  /\ walk.step = "reading" => Begun
  /\ walk.step = "over" => walk.owed \subseteq Seen

-----------------------------------------------------------------------------
Before(list, a, b) == IF list = "pages" THEN a < b ELSE Newer(a, b)
Dated(list, ids) == list = "pages" \/ \A id \in ids : rows[id].createdAt \in Nat

LEMMA ListingInOrder ==
  ASSUME NEW list, NEW ids \in SUBSET ListedId, Dated(list, ids)
  PROVE  \E found \in Seq(ids) :
           /\ found = InListOrder(list, ids)
           /\ \A id \in ids : \E i \in 1 .. Len(found) : found[i] = id
           /\ \A i, j \in 1 .. Len(found) : i < j => Before(list, found[i], found[j])
<1> USE LibraryAssumption
<1>1. PICK n : n = Cardinality(ids) /\ n \in Nat /\ IsFiniteSet(ids)
  BY FS_Subset, FS_CardinalityType
<1>2. PICK R : R = {p \in ids \X ids : Before(list, p[1], p[2])}
  OBVIOUS
<1>3. \A a, b \in ids : <<a, b>> \in R <=> Before(list, a, b)
  BY <1>2
<1>4. /\ \A a \in ids : ~Before(list, a, a)
      /\ \A a, b \in ids : a # b => Before(list, a, b) \/ Before(list, b, a)
      /\ \A a, b, c \in ids : Before(list, a, b) /\ Before(list, b, c) => Before(list, a, c)
  <2>1. ids \subseteq Nat
    OBVIOUS
  <2>2. CASE list = "pages"
    BY <2>1, <2>2 DEF Before
  <2>3. CASE list # "pages"
    BY <2>1, <2>3 DEF Before, Newer, Dated
  <2> QED
    BY <2>2, <2>3
<1>5. ListedBy(R, ids, n)
  BY <1>1, <1>3, <1>4, SortExists
<1>6. PICK seq \in [1 .. n -> ids] :
        /\ \A x \in ids : \E i \in 1 .. n : seq[i] = x
        /\ \A i, j \in 1 .. n : i < j => <<seq[i], seq[j]>> \in R
  BY <1>5 DEF ListedBy
<1> DEFINE Good(q) == /\ Range(q) = ids
                      /\ \A i, j \in DOMAIN q : i < j => IF list = "pages" THEN q[i] < q[j]
                                                         ELSE Newer(q[i], q[j])
<1>7. Good(seq)
  <2>1. Range(seq) = ids
    BY <1>6 DEF Range
  <2>2. \A i, j \in DOMAIN seq : i < j => Before(list, seq[i], seq[j])
    BY <1>3, <1>6, ZenonT(60)
  <2> QED
    BY <2>1, <2>2 DEF Before
<1>8. InListOrder(list, ids) = CHOOSE q \in [1 .. n -> ids] : Good(q)
  BY <1>1 DEF InListOrder
<1>9. PICK found : found = InListOrder(list, ids)
  OBVIOUS
<1>10. found \in [1 .. n -> ids] /\ Good(found)
  <2> HIDE DEF Good
  <2> QED
    BY <1>6, <1>7, <1>8, <1>9
<1>11. found \in Seq(ids) /\ Len(found) = n /\ DOMAIN found = 1 .. n
  BY <1>1, <1>10
<1>12. \A id \in ids : \E i \in 1 .. n : found[i] = id
  BY <1>10 DEF Range
<1>13. \A i, j \in 1 .. n : i < j => Before(list, found[i], found[j])
  BY <1>10 DEF Before
<1> QED
  BY <1>9, <1>11, <1>12, <1>13

\* A page is the first rows of its listing, and its cursor names the last of
\* them when rows are left.
CutFrom(list, ids, limit, found, page) ==
  /\ \A id \in ids : \E i \in 1 .. Len(found) : found[i] = id
  /\ \A i, j \in 1 .. Len(found) : i < j => Before(list, found[i], found[j])
  /\ page.items \in Seq(ids) /\ Len(page.items) = Earlier(limit, Len(found))
  /\ \A i \in 1 .. Len(page.items) : page.items[i] = found[i]
  /\ page.nextCursor = IF Len(found) <= limit THEN Missing ELSE keyOf(list, found[limit])

LEMMA PageCut ==
  ASSUME NEW list, NEW cursor, NEW limit \in Nat, limit > 0,
         NEW ids \in SUBSET ListedId, ids = RowsAfter(list, cursor), Dated(list, ids)
  PROVE  \E found \in Seq(ids) : CutFrom(list, ids, limit, found, PageOf(list, cursor, limit))
<1>1. PICK found \in Seq(ids) :
        /\ found = InListOrder(list, ids)
        /\ \A id \in ids : \E i \in 1 .. Len(found) : found[i] = id
        /\ \A i, j \in 1 .. Len(found) : i < j => Before(list, found[i], found[j])
  BY ListingInOrder
<1>2. PICK page : page = PageOf(list, cursor, limit)
  OBVIOUS
<1>3. PICK a, b : a = Earlier(limit + 1, Len(found)) /\ b = Earlier(limit, a)
  OBVIOUS
<1>4. a \in 0 .. Len(found) /\ b \in 0 .. a /\ b = Earlier(limit, Len(found))
      /\ (Len(found) <= limit <=> a <= limit) /\ (a > limit => b = limit)
  BY <1>3 DEF Earlier
<1>5. PICK first : /\ first = SubSeq(found, 1, a) /\ first \in Seq(ids) /\ Len(first) = a
                   /\ \A i \in 1 .. a : first[i] = found[i]
  <2>1. PICK first : first = SubSeq(found, 1, a)
    OBVIOUS
  <2>2. first \in Seq(ids) /\ Len(first) = a /\ \A i \in 1 .. a : first[i] = found[i]
    BY <1>4, <2>1, PrefixOf
  <2> QED
    BY <2>1, <2>2
<1>6. PICK items : /\ items = SubSeq(first, 1, b) /\ items \in Seq(ids) /\ Len(items) = b
                   /\ \A i \in 1 .. b : items[i] = first[i]
  <2>1. PICK items : items = SubSeq(first, 1, b)
    OBVIOUS
  <2>2. b \in 0 .. Len(first)
    BY <1>4, <1>5
  <2>3. items \in Seq(ids) /\ Len(items) = b /\ \A i \in 1 .. b : items[i] = first[i]
    BY <1>5, <2>1, <2>2, PrefixOf
  <2> QED
    BY <2>1, <2>3
<1>7. page = [items |-> items,
              nextCursor |-> IF a <= limit \/ items = <<>> THEN Missing ELSE keyOf(list, Last(items))]
  BY <1>1, <1>2, <1>3, <1>5, <1>6, ZenonT(60) DEF PageOf, buildPage
<1>8. \A i \in 1 .. b : items[i] = found[i]
  BY <1>4, <1>5, <1>6
<1>9. ASSUME a > limit PROVE items # <<>> /\ Last(items) = found[limit]
  <2>1. b = limit /\ limit \in 1 .. b
    BY <1>4, <1>9
  <2>2. items # <<>>
    <3>1. Len(items) # 0 /\ Len(<<>>) = 0
      BY <1>6, <2>1
    <3> QED
      BY <3>1
  <2>3. Last(items) = items[b]
    BY <1>6 DEF Last
  <2> QED
    BY <1>8, <2>1, <2>2, <2>3
<1>10. page.items = items /\ page.nextCursor = IF Len(found) <= limit THEN Missing ELSE keyOf(list, found[limit])
  BY <1>4, <1>7, <1>9
<1>11. /\ page.items \in Seq(ids) /\ Len(page.items) = Earlier(limit, Len(found))
       /\ \A i \in 1 .. Len(page.items) : page.items[i] = found[i]
  BY <1>4, <1>6, <1>8, <1>10
<1>12. CutFrom(list, ids, limit, found, page)
  BY <1>1, <1>10, <1>11 DEF CutFrom
<1> QED
  BY <1>2, <1>12

-----------------------------------------------------------------------------
\* The rows of a listing, as far as they are read.
LEMMA RowTypes ==
  ASSUME WalkIInv, NEW list, list = walk.list
  PROVE  /\ \A id \in ListedId : rows[id] # NoRow /\ rows[id] # Missing => rows[id] \in ListedRow
         /\ \A id \in ListedId : There(list, id) =>
              /\ list = "pages" \/ rows[id].createdAt \in Nat
              /\ rows[id] # Missing
BY LibraryAssumption DEF WalkIInv, There, Present, ListedRow

LEMMA AheadOfKey ==
  ASSUME WalkIInv, NEW list, list = walk.list, NEW a \in ListedId, NEW b \in ListedId,
         There(list, a), There(list, b)
  PROVE  /\ keyOf(list, a) # Missing /\ Own(list, keyOf(list, a))
         /\ Ahead(list, keyOf(list, a), b) <=> Before(list, a, b)
<1> USE LibraryAssumption
<1>1. CASE list = "pages"
  <2>1. PICK key : key = encode(PageNumber(a), "this") /\ key = keyOf(list, a)
    BY <1>1 DEF keyOf
  <2>2. key \in CursorToken({"this"}) /\ key.sort.value = a
    BY <2>1 DEF encode, PageNumber, CursorToken
  <2>3. key # Missing /\ Own(list, key)
    <3>1. DecodedPage(key, "this")
      <4>1. a \in Nat /\ a >= 1
        OBVIOUS
      <4> QED
        BY <2>1, <4>1 DEF encode, PageNumber, DecodedPage, decode
    <3> QED
      BY <1>1, <2>2, <3>1 DEF Own, Accepted
  <2>4. Ahead(list, key, b) <=> Before(list, a, b)
    BY <1>1, <2>2, <2>3 DEF Ahead, Beyond, Before
  <2> QED
    BY <2>1, <2>3, <2>4
<1>2. CASE list # "pages"
  <2>1. PICK at : at = rows[a].createdAt /\ at \in Nat
    BY <1>2, RowTypes
  <2>2. PICK key : key = encode(Date(at), a) /\ key = keyOf(list, a)
    BY <1>2, <2>1 DEF keyOf
  <2>3. key \in CursorToken(Nat) /\ dateOf(key.sort) = at /\ key.id = a /\ decode(key)
    BY <2>1, <2>2 DEF encode, Date, dateOf, decode, CursorToken
  <2>4. key # Missing /\ Own(list, key)
    BY <1>2, <2>1, <2>3, DeliveryAssumption DEF Own, Accepted, DecodedDate
  <2>5. rows[b].createdAt \in Nat
    BY <1>2, RowTypes
  <2>6. Ahead(list, key, b) <=> Before(list, a, b)
    BY <1>2, <2>1, <2>3, <2>4, <2>5 DEF Ahead, Beyond, Before, Newer, Past
  <2> QED
    BY <2>2, <2>4, <2>6
<1> QED
  BY <1>1, <1>2

\* The cursor only goes forward.
LEMMA CursorGoesOn ==
  ASSUME WalkIInv, NEW list, list = walk.list, NEW a \in ListedId, NEW b \in ListedId,
         There(list, a), There(list, b), NEW cursor, cursor = Missing \/ Own(list, cursor),
         Ahead(list, cursor, a), Before(list, a, b)
  PROVE  Ahead(list, cursor, b)
<1> USE LibraryAssumption
<1>1. CASE cursor = Missing
  BY <1>1 DEF Ahead, Beyond
<1>2. CASE cursor # Missing /\ list = "pages"
  <2>1. PICK at : at = cursor.sort.value /\ at \in Nat
    BY <1>2 DEF Own
  <2>2. a > at /\ a < b
    BY <1>2, <2>1 DEF Ahead, Beyond, Before
  <2>3. b > at
    BY <2>1, <2>2
  <2> QED
    BY <1>2, <2>1, <2>3 DEF Ahead, Beyond
<1>3. CASE cursor # Missing /\ list # "pages"
  <2>1. rows[a].createdAt \in Nat /\ rows[b].createdAt \in Nat
    BY <1>3, RowTypes
  <2>2. PICK at, id : at = dateOf(cursor.sort) /\ id = cursor.id /\ at \in Nat /\ id \in Nat
    BY <1>3 DEF Own
  <2>3. Past(cursor, a) /\ Newer(a, b)
    BY <1>3 DEF Ahead, Beyond, Before
  <2>4. rows[a].createdAt < at \/ (rows[a].createdAt = at /\ a < id)
    BY <2>2, <2>3 DEF Past
  <2>5. rows[b].createdAt < at \/ (rows[b].createdAt = at /\ b < id)
    <3>1. PICK x, y : x = rows[a].createdAt /\ y = rows[b].createdAt /\ x \in Nat /\ y \in Nat
      BY <2>1
    <3>2. x < at \/ (x = at /\ a < id)
      BY <2>4, <3>1
    <3>3. x > y \/ (x = y /\ a > b)
      BY <2>3, <3>1 DEF Newer
    <3>4. a \in Nat /\ b \in Nat
      OBVIOUS
    <3>5. y < at \/ (y = at /\ b < id)
      BY <2>2, <3>1, <3>2, <3>3, <3>4
    <3> QED
      BY <3>1, <3>5
  <2>6. Past(cursor, b)
    BY <2>2, <2>5 DEF Past
  <2> QED
    BY <1>3, <2>6 DEF Ahead, Beyond
<1> QED
  BY <1>1, <1>2, <1>3

LEMMA BeforeIsStrict ==
  ASSUME WalkIInv, NEW list, list = walk.list, NEW a \in ListedId, NEW b \in ListedId,
         There(list, a), There(list, b), Before(list, a, b)
  PROVE  ~Before(list, b, a) /\ a # b
<1>1. CASE list = "pages"
  BY <1>1, LibraryAssumption DEF Before
<1>2. CASE list # "pages"
  <2>1. rows[a].createdAt \in Nat /\ rows[b].createdAt \in Nat
    BY <1>2, RowTypes
  <2> QED
    BY <1>2, <2>1, LibraryAssumption DEF Before, Newer
<1> QED
  BY <1>1, <1>2

\* The rows asked for are those ahead that can be read, and perhaps others.
LEMMA RowsAfterCursor ==
  ASSUME WalkIInv, NEW list, list = walk.list, NEW cursor, cursor = Missing \/ Own(list, cursor),
         NEW ids, ids = RowsAfter(list, cursor)
  PROVE  /\ ids \subseteq ListedId /\ Dated(list, ids)
         /\ \A id \in ids : There(list, id) /\ Ahead(list, cursor, id)
         /\ \A id \in Readable(list) : Ahead(list, cursor, id) => id \in ids
<1> USE LibraryAssumption
<1>1. list \in {"documents", "wallet", "pages"}
  BY DEF WalkIInv, WalkTypeOK
<1>2. CASE list = "documents"
  <2>1. ids = {id \in ListedId : Present(id) /\ rows[id].imported /\ (cursor = Missing \/ Past(cursor, id))}
    BY <1>2 DEF RowsAfter, listImportedByOwner
  <2>2. \A id \in ids : id \in ListedId /\ There(list, id) /\ Ahead(list, cursor, id)
    BY <1>2, <2>1 DEF There, Ahead, Beyond
  <2>3. \A id \in Readable(list) : Ahead(list, cursor, id) => id \in ids
    BY <1>2, <2>1 DEF Readable, Ahead, Beyond
  <2> QED
    BY <2>2, <2>3, RowTypes DEF Dated
<1>3. CASE list = "wallet"
  <2>1. ids = {id \in ListedId : Present(id) /\ (cursor = Missing \/ Past(cursor, id))}
    BY <1>3 DEF RowsAfter, listEntries
  <2>2. \A id \in ids : id \in ListedId /\ There(list, id) /\ Ahead(list, cursor, id)
    BY <1>3, <2>1 DEF There, Ahead, Beyond
  <2>3. \A id \in Readable(list) : Ahead(list, cursor, id) => id \in ids
    BY <1>3, <2>1 DEF Readable, Ahead, Beyond
  <2> QED
    BY <2>2, <2>3, RowTypes DEF Dated
<1>4. CASE list = "pages"
  <2>1. PICK first : first = IF cursor = Missing THEN 0 ELSE cursor.sort.value
    OBVIOUS
  <2>2. ids = {id \in ListedId : id > first}
    BY <1>4, <2>1 DEF RowsAfter, listPages
  <2>3. \A id \in ids : id \in ListedId /\ There(list, id) /\ Ahead(list, cursor, id)
    BY <1>4, <2>1, <2>2 DEF There, Ahead, Beyond
  <2>4. \A id \in Readable(list) : Ahead(list, cursor, id) => id \in ids
    BY <1>4, <2>1, <2>2 DEF Readable, Ahead, Beyond
  <2> QED
    BY <1>4, <2>3, <2>4 DEF Dated
<1> QED
  BY <1>1, <1>2, <1>3, <1>4

-----------------------------------------------------------------------------
\* What a page adds: rows that were not seen yet, and a cursor past them.
LEMMA PageIsNew ==
  ASSUME WalkIInv, NEW list, list = walk.list, NEW ids \in SUBSET ListedId,
         \A id \in ids : There(list, id),
         NEW limit \in Nat, limit > 0, NEW found \in Seq(ids), NEW page,
         CutFrom(list, ids, limit, found, page)
  PROVE  IsInjective(page.items) /\ Range(page.items) \subseteq ids
<1>1. PICK n : n = Len(found) /\ n \in Nat /\ Len(page.items) <= n /\ Len(page.items) \in Nat
  BY SMTT(60) DEF CutFrom, Earlier
<1>2. \A i \in 1 .. n : found[i] \in ids
  BY <1>1
<1>3. PICK items : items = page.items /\ items \in Seq(ids) /\ DOMAIN items = 1 .. Len(page.items)
                   /\ \A i \in DOMAIN items : i \in 1 .. n /\ items[i] = found[i]
  <2>1. PICK items : items = page.items /\ items \in Seq(ids)
    BY DEF CutFrom
  <2>2. DOMAIN items = 1 .. Len(items) /\ \A i \in 1 .. Len(items) : i \in 1 .. n /\ items[i] = found[i]
    BY <1>1, <2>1 DEF CutFrom
  <2> QED
    BY <2>1, <2>2
<1>4. ASSUME NEW i \in DOMAIN items, NEW j \in DOMAIN items, i < j
      PROVE  items[i] # items[j]
  <2>1. Before(list, found[i], found[j])
    BY <1>1, <1>3, <1>4 DEF CutFrom
  <2>2. PICK a, b : a = found[i] /\ b = found[j] /\ a \in ids /\ b \in ids
    BY <1>2, <1>3
  <2>3. a # b
    BY <2>1, <2>2, BeforeIsStrict
  <2> QED
    BY <1>3, <2>2, <2>3
<1>5. \A i, j \in DOMAIN items : i = j \/ i < j \/ j < i
  BY <1>1, <1>3
<1>6. IsInjective(items)
  BY <1>4, <1>5 DEF IsInjective
<1>7. Range(items) \subseteq ids
  BY <1>2, <1>3 DEF Range
<1> QED
  BY <1>3, <1>6, <1>7

\* A page holds the rows of ids up to one of them, its cursor: all of them when
\* it gives none.
Splits(list, ids, page) ==
  \/ page.nextCursor = Missing /\ ids \subseteq Range(page.items)
  \/ \E m \in ids :
       /\ page.nextCursor = keyOf(list, m)
       /\ \A id \in Range(page.items) : ~Before(list, m, id)
       /\ \A id \in ids : id \in Range(page.items) \/ Before(list, m, id)

LEMMA PageSplits ==
  ASSUME WalkIInv, NEW list, list = walk.list, NEW ids \in SUBSET ListedId,
         \A id \in ids : There(list, id),
         NEW limit \in Nat, limit > 0, NEW found \in Seq(ids), NEW page,
         CutFrom(list, ids, limit, found, page)
  PROVE  Splits(list, ids, page)
<1> USE DEF Splits
<1>1. PICK n : n = Len(found) /\ n \in Nat
  OBVIOUS
<1>2. \A i \in 1 .. n : found[i] \in ids
  BY <1>1
<1>3. PICK items, k : /\ items = page.items /\ k = Earlier(limit, n) /\ k \in Nat
                      /\ items \in Seq(ids) /\ DOMAIN items = 1 .. k
                      /\ \A i \in 1 .. k : items[i] = found[i]
  BY <1>1, SMTT(60) DEF CutFrom, Earlier
<1>4. /\ \A id \in ids : \E i \in 1 .. n : found[i] = id
      /\ \A i, j \in 1 .. n : i < j => Before(list, found[i], found[j])
  <2>1. \A id \in ids : \E i \in 1 .. n : found[i] = id
    BY <1>1 DEF CutFrom
  <2>2. \A i, j \in 1 .. n : i < j => Before(list, found[i], found[j])
    BY <1>1 DEF CutFrom
  <2> QED
    BY <2>1, <2>2
<1>5. CASE n <= limit
  <2>1. page.nextCursor = Missing
    BY <1>1, <1>5 DEF CutFrom
  <2>2. k = n
    BY <1>1, <1>3, <1>5 DEF Earlier
  <2>3. ids \subseteq Range(items)
    BY <1>3, <1>4, <2>2 DEF Range
  <2> QED
    BY <1>3, <2>1, <2>3
<1>6. CASE limit < n
  <2>1. k = limit /\ limit \in 1 .. n /\ page.nextCursor = keyOf(list, found[limit])
    BY <1>1, <1>3, <1>6 DEF Earlier, CutFrom
  <2>2. PICK m : m = found[limit] /\ m \in ids
    BY <1>2, <2>1
  <2>3. ASSUME NEW i \in 1 .. k PROVE ~Before(list, m, items[i])
    <3>1. i \in 1 .. n /\ items[i] = found[i] /\ (i < limit \/ i = limit)
      BY <1>1, <1>3, <2>1
    <3>2. PICK a : a = items[i] /\ a \in ids
      BY <1>2, <3>1
    <3>3. CASE i < limit
      BY <1>4, <2>1, <2>2, <3>1, <3>2, <3>3, BeforeIsStrict
    <3>4. CASE i = limit
      <4>1. a = m
        BY <2>2, <3>1, <3>2, <3>4
      <4>2. Before(list, m, m) => m # m
        BY <2>2, BeforeIsStrict
      <4> QED
        BY <3>2, <4>1, <4>2
    <3> QED
      BY <3>1, <3>3, <3>4
  <2>4. \A id \in Range(items) : ~Before(list, m, id)
    BY <1>3, <2>3 DEF Range
  <2>5. ASSUME NEW id \in ids PROVE id \in Range(items) \/ Before(list, m, id)
    <3>1. PICK i \in 1 .. n : found[i] = id
      BY <1>4
    <3>2. CASE i <= limit
      <4>1. i \in 1 .. k /\ items[i] = id
        BY <1>3, <2>1, <3>1, <3>2
      <4> QED
        BY <1>3, <4>1 DEF Range
    <3>3. CASE limit < i
      BY <1>4, <2>1, <2>2, <3>1, <3>3
    <3> QED
      BY <2>1, <3>2, <3>3
  <2> QED
    BY <1>3, <2>1, <2>2, <2>4, <2>5
<1> QED
  BY <1>1, <1>5, <1>6

-----------------------------------------------------------------------------
LEMMA ReadKeeps ==
  ASSUME WalkIInv, NEW requested, requested \in {Missing, 0, 1, PageLimit + 1}, ReadPage(requested), clock' \in Nat
  PROVE  WalkIInv'
<1> USE LibraryAssumption
<1>1. PICK limit : limit = clampLimit(requested) /\ limit \in Nat /\ limit > 0
  BY DEF clampLimit, Earlier, Later
<1>2. PICK list, cursor, seen : list = walk.list /\ cursor = walk.cursor /\ seen = walk.seen
  OBVIOUS
<1>3. list \in {"documents", "wallet", "pages"} /\ seen \in Seq(ListedId) /\ walk.owed \subseteq ListedId
      /\ walk.step \in {"before", "reading"} /\ IsInjective(seen)
  BY <1>2 DEF WalkIInv, WalkTypeOK, Steps, ReadPage
<1>4. PICK page, owed : /\ page = PageOf(list, cursor, limit)
                        /\ owed = IF walk.step = "before"
                                  THEN {id \in Readable(list) : Ahead(list, cursor, id)}
                                  ELSE walk.owed
  OBVIOUS
<1>5. walk' = [list |-> list, cursor |-> page.nextCursor, seen |-> seen \o page.items, owed |-> owed,
               step |-> IF page.nextCursor = Missing THEN "over" ELSE "reading"]
      /\ rows' = rows /\ Accepted(list, cursor)
  <2>1. walk = [list |-> list, cursor |-> cursor, seen |-> seen, owed |-> walk.owed, step |-> walk.step]
    BY <1>2 DEF WalkIInv, WalkTypeOK
  <2> QED
    BY <1>1, <1>2, <1>4, <2>1 DEF ReadPage, Ahead
<1>6. /\ (cursor = Missing \/ Own(list, cursor)) /\ owed \subseteq ListedId
      /\ \A id \in Range(seen) : rows[id] = Missing \/ (There(list, id) /\ ~Ahead(list, cursor, id))
      /\ \A id \in owed : id \in Readable(list) /\ (id \in Range(seen) \/ Ahead(list, cursor, id))
  <2>1. CASE walk.step = "before"
    <3>1. seen = <<>> /\ (cursor = Missing \/ Own(list, cursor))
      BY <1>2, <1>5, <2>1 DEF WalkIInv
    <3>2. Range(seen) = {}
      BY <3>1 DEF Range
    <3> QED
      BY <1>4, <2>1, <3>1, <3>2 DEF Readable
  <2>2. CASE walk.step = "reading"
    <3>1. Begun /\ owed = walk.owed
      BY <1>4, <2>2 DEF WalkIInv
    <3> QED
      BY <1>2, <1>3, <3>1 DEF Begun, Seen
  <2> QED
    BY <1>3, <2>1, <2>2
<1>7. PICK ids : ids = RowsAfter(list, cursor)
  OBVIOUS
<1>8. /\ ids \subseteq ListedId /\ Dated(list, ids)
      /\ \A id \in ids : There(list, id) /\ Ahead(list, cursor, id)
      /\ \A id \in Readable(list) : Ahead(list, cursor, id) => id \in ids
  BY <1>2, <1>6, <1>7, RowsAfterCursor
<1>9. PICK found \in Seq(ids) : CutFrom(list, ids, limit, found, page)
  BY <1>1, <1>4, <1>7, <1>8, PageCut
<1>split. Splits(list, ids, page)
  <2>1. ids \in SUBSET ListedId /\ \A id \in ids : There(list, id)
    BY <1>8
  <2> QED
    BY <1>1, <1>2, <1>9, <2>1, PageSplits
<1>10. PICK items : items = page.items /\ items \in Seq(ids)
  BY <1>9 DEF CutFrom
<1>11. IsInjective(items) /\ Range(items) \subseteq ids
  BY <1>1, <1>2, <1>8, <1>9, <1>10, PageIsNew
<1>12. Range(seen) \cap Range(items) = {}
  <2> SUFFICES ASSUME NEW id \in ids, id \in Range(seen) PROVE FALSE
    BY <1>11
  <2>1. There(list, id) /\ Ahead(list, cursor, id) /\ rows[id] # Missing
    BY <1>2, <1>8, RowTypes
  <2> QED
    BY <1>6, <2>1
<1>13. PICK all : all = seen \o items
  OBVIOUS
<1>14. all \in Seq(ListedId) /\ IsInjective(all) /\ Range(all) = Range(seen) \cup Range(items)
  <2>1. items \in Seq(ListedId)
    BY <1>8, <1>10
  <2> QED
    BY <1>3, <1>11, <1>12, <1>13, <2>1, Joined
<1>15. \A id \in owed : id \in Range(seen) \/ id \in ids
  BY <1>6, <1>8
<1>16. ASSUME page.nextCursor = Missing
       PROVE  owed \subseteq Range(all)
  <2>1. ids \subseteq Range(items)
    <3>1. \A m \in ids : keyOf(list, m) # Missing
      BY <1>2, <1>8, AheadOfKey
    <3> QED
      BY <1>10, <1>16, <1>split, <3>1 DEF Splits
  <2> QED
    BY <1>14, <1>15, <2>1
<1>17. ASSUME page.nextCursor # Missing
       PROVE  /\ Own(list, page.nextCursor)
              /\ \A id \in Range(all) :
                   rows[id] = Missing \/ (There(list, id) /\ ~Ahead(list, page.nextCursor, id))
              /\ \A id \in owed : id \in Range(all) \/ Ahead(list, page.nextCursor, id)
  <2>1. PICK m \in ids : /\ page.nextCursor = keyOf(list, m)
                         /\ \A id \in Range(items) : ~Before(list, m, id)
                         /\ \A id \in ids : id \in Range(items) \/ Before(list, m, id)
    BY <1>10, <1>17, <1>split DEF Splits
  <2>2. PICK key : key = page.nextCursor /\ key = keyOf(list, m)
    BY <2>1
  <2>3. m \in ListedId /\ There(list, m) /\ Ahead(list, cursor, m)
    BY <1>8
  <2>4. Own(list, key)
    BY <1>2, <2>2, <2>3, AheadOfKey
  <2>5. \A id \in ListedId : There(list, id) => (Ahead(list, key, id) <=> Before(list, m, id))
    BY <1>2, <2>2, <2>3, AheadOfKey
  <2>6. ASSUME NEW id \in Range(all), rows[id] # Missing
        PROVE  There(list, id) /\ ~Ahead(list, key, id)
    <3>1. CASE id \in Range(items)
      BY <1>8, <1>11, <2>1, <2>5, <3>1
    <3>2. CASE id \in Range(seen)
      <4>1. There(list, id) /\ ~Ahead(list, cursor, id) /\ id \in ListedId
        BY <1>3, <1>6, <2>6, <3>2 DEF Range
      <4>2. ~Before(list, m, id)
        BY <1>2, <1>6, <2>3, <4>1, CursorGoesOn
      <4> QED
        BY <2>5, <4>1, <4>2
    <3> QED
      BY <1>14, <3>1, <3>2
  <2>7. ASSUME NEW id \in owed, id \notin Range(all) PROVE Ahead(list, key, id)
    <3>1. id \in ids /\ id \notin Range(items)
      BY <1>14, <1>15, <2>7
    <3> QED
      BY <1>8, <2>1, <2>5, <3>1
  <2> QED
    BY <2>2, <2>4, <2>6, <2>7
<1>18. \A id \in owed : id \in Readable(list)
  BY <1>6
<1>19. WalkTypeOK'
  BY <1>3, <1>5, <1>6, <1>10, <1>13, <1>14 DEF WalkTypeOK, Steps
<1>20. walk'.list = list /\ walk'.cursor = page.nextCursor /\ walk'.seen = all /\ walk'.owed = owed
       /\ walk'.step = (IF page.nextCursor = Missing THEN "over" ELSE "reading")
  BY <1>5, <1>10, <1>13
<1>21. walk'.step = "reading" => Begun'
  <2> SUFFICES ASSUME walk'.step = "reading" PROVE Begun'
    OBVIOUS
  <2>1. page.nextCursor # Missing
    BY <1>20
  <2>2. PICK next : next = page.nextCursor
    OBVIOUS
  <2>3. walk'.list = list /\ walk'.cursor = next /\ rows' = rows
    BY <1>5, <1>20, <2>2
  <2>4. Own(walk.list, walk.cursor)'
    BY <1>17, <2>1, <2>2, <2>3 DEF Own, Accepted, DecodedPage, DecodedDate, decode, dateOf
  <2>5. \A id : Ahead(walk.list, walk.cursor, id)' <=> Ahead(list, next, id)
    BY <2>3 DEF Ahead, Beyond, Past
  <2>6. \A id : There(walk.list, id)' <=> There(list, id)
    BY <2>3 DEF There, Present
  <2>7. Readable(walk.list)' = Readable(list)
    BY <2>3 DEF Readable, Present
  <2>8. Seen' = Range(all)
    BY <1>20 DEF Seen
  <2>9. \A id \in Range(all) : rows[id] = Missing \/ (There(list, id) /\ ~Ahead(list, next, id))
    BY <1>17, <2>1, <2>2
  <2>10. \A id \in owed : id \in Readable(list) /\ (id \in Range(all) \/ Ahead(list, next, id))
    BY <1>17, <1>18, <2>1, <2>2
  <2> QED
    BY <1>20, <2>3, <2>4, <2>5, <2>6, <2>7, <2>8, <2>9, <2>10 DEF Begun
<1>22. walk'.step = "over" => walk'.owed \subseteq Seen'
  BY <1>16, <1>20 DEF Seen
<1> QED
  BY <1>2, <1>5, <1>14, <1>19, <1>20, <1>21, <1>22 DEF WalkIInv

\* Rows that are added, imported or deleted while a client reads.
RowsGo(owed) ==
  \A id \in ListedId :
    /\ rows[id] = Missing => rows'[id] = Missing
    /\ Present(id) =>
         \/ rows'[id] = Missing /\ id \notin owed
         \/ /\ Present(id)' /\ rows'[id].createdAt = rows[id].createdAt
            /\ rows[id].imported => rows'[id].imported

LEMMA RowsKeep ==
  ASSUME WalkIInv, NEW owed, owed \subseteq walk.owed, walk' = [walk EXCEPT !.owed = owed],
         rows' \in [ListedId -> ListedRow \cup {NoRow, Missing}], clock' \in Nat,
         walk.list = "pages" => rows' = rows, RowsGo(owed)
  PROVE  WalkIInv'
<1> USE LibraryAssumption
<1>1. /\ walk'.list = walk.list /\ walk'.cursor = walk.cursor /\ walk'.seen = walk.seen
      /\ walk'.step = walk.step /\ walk'.owed = owed /\ WalkTypeOK'
  BY DEF WalkIInv, WalkTypeOK
<1>2. Seen' = Seen /\ Seen \subseteq ListedId
  BY <1>1 DEF Seen, Range, WalkIInv, WalkTypeOK
<1>3. PICK list, cursor : list = walk.list /\ cursor = walk.cursor
  OBVIOUS
<1>4. ASSUME Begun
      PROVE  Begun'
  <2>1. ASSUME NEW id \in ListedId, There(list, id), rows'[id] # Missing
        PROVE  There(list, id)' /\ (Ahead(list, cursor, id)' <=> Ahead(list, cursor, id))
    BY <1>3, <2>1 DEF There, RowsGo, Present, Ahead, Beyond, Past
  <2>2. \A id \in Seen : rows'[id] = Missing \/ (There(list, id) /\ ~Ahead(list, cursor, id))'
    <3> SUFFICES ASSUME NEW id \in Seen, rows'[id] # Missing
                 PROVE  (There(list, id) /\ ~Ahead(list, cursor, id))'
      OBVIOUS
    <3>1. id \in ListedId /\ rows[id] # Missing
      BY <1>2 DEF RowsGo
    <3>2. There(list, id) /\ ~Ahead(list, cursor, id)
      BY <1>3, <1>4, <3>1 DEF Begun
    <3> QED
      BY <2>1, <3>1, <3>2
  <2>3. \A id \in owed : (id \in Readable(list))' /\ (id \in Seen \/ Ahead(list, cursor, id)')
    <3> SUFFICES ASSUME NEW id \in owed
                 PROVE  (id \in Readable(list))' /\ (id \in Seen \/ Ahead(list, cursor, id)')
      OBVIOUS
    <3>1. id \in Readable(list) /\ (id \in Seen \/ Ahead(list, cursor, id))
      BY <1>3, <1>4 DEF Begun
    <3>2. id \in ListedId /\ There(list, id)
      BY <3>1 DEF Readable, There
    <3>3. rows'[id] # Missing
      <4>1. CASE list = "pages"
        BY <1>3, <3>2, <4>1 DEF WalkIInv
      <4>2. CASE list # "pages"
        BY <3>2, <4>2 DEF There, RowsGo, Present
      <4> QED
        BY <4>1, <4>2
    <3>4. (id \in Readable(list))'
      BY <3>1, <3>3 DEF Readable, RowsGo, Present
    <3> QED
      BY <2>1, <3>1, <3>2, <3>3, <3>4
  <2>4. Own(list, cursor)
    BY <1>3, <1>4 DEF Begun
  <2> QED
    <3>1. walk'.list = list /\ walk'.cursor = cursor
      BY <1>1, <1>3
    <3>2. Own(walk.list, walk.cursor)'
      BY <2>4, <3>1 DEF Own, Accepted, DecodedPage, DecodedDate, decode, dateOf
    <3>3. \A id : Ahead(walk.list, walk.cursor, id)' <=> Ahead(list, cursor, id)'
      BY <3>1 DEF Ahead, Beyond, Past
    <3>4. \A id : There(walk.list, id)' <=> There(list, id)'
      BY <3>1 DEF There, Present
    <3>5. \A id : id \in Readable(walk.list)' <=> (id \in Readable(list))'
      BY <3>1 DEF Readable, Present
    <3> QED
      BY <1>1, <1>2, <2>2, <2>3, <3>2, <3>3, <3>4, <3>5 DEF Begun
<1>5. walk'.list = "pages" => \A id \in ListedId : rows'[id] = NoRow
  BY <1>1 DEF WalkIInv
<1>6. /\ IsInjective(walk'.seen)
      /\ walk'.step = "before" => /\ walk'.seen = <<>> /\ walk'.owed = {}
                                  /\ \/ walk'.cursor = Missing \/ ~Accepted(walk'.list, walk'.cursor)
                                     \/ Own(walk'.list, walk'.cursor)
      /\ walk'.step = "over" => walk'.owed \subseteq Seen'
  BY <1>1, <1>2 DEF WalkIInv
<1>7. walk'.step = "reading" => Begun'
  BY <1>1, <1>4 DEF WalkIInv
<1> QED
  BY <1>1, <1>5, <1>6, <1>7 DEF WalkIInv

\* The clock goes on, or nothing does.
LEMMA StillKeeps ==
  ASSUME WalkIInv, UNCHANGED walkVars, clock' \in Nat
  PROVE  WalkIInv'
BY DEF walkVars, WalkIInv, WalkTypeOK, Begun, Seen, There, Present, Ahead, Beyond, Past, Readable

LEMMA AddKeeps ==
  ASSUME WalkIInv, NEW id \in ListedId, AddRow(id), UNCHANGED clock
  PROVE  WalkIInv'
<1> USE LibraryAssumption
<1>1. PICK row : row = [createdAt |-> clock, imported |-> walk.list = "wallet"]
  OBVIOUS
<1>2. row \in ListedRow /\ row # NoRow /\ row # Missing
  <2>1. clock \in Nat /\ (walk.list = "wallet") \in BOOLEAN
    BY DEF WalkIInv
  <2>2. row \in ListedRow
    BY <1>1, <2>1 DEF ListedRow
  <2> QED
    BY <2>2
<1>3. rows[id] = NoRow /\ walk.list # "pages" /\ rows' = [rows EXCEPT ![id] = row] /\ walk' = walk
  BY <1>1 DEF AddRow
<1>4. rows' \in [ListedId -> ListedRow \cup {NoRow, Missing}] /\ rows'[id] = row
      /\ \A b \in ListedId : b # id => rows'[b] = rows[b]
  BY <1>2, <1>3 DEF WalkIInv
<1>5. PICK owed : owed = walk.owed
  OBVIOUS
<1>6. RowsGo(owed)
  BY <1>3, <1>4 DEF RowsGo, Present
<1>7. walk' = [walk EXCEPT !.owed = owed] /\ clock' \in Nat
  BY <1>3, <1>5 DEF WalkIInv, WalkTypeOK
<1> QED
  BY <1>3, <1>4, <1>5, <1>6, <1>7, RowsKeep

LEMMA ImportKeeps ==
  ASSUME WalkIInv, NEW id \in ListedId, ImportRow(id), UNCHANGED clock
  PROVE  WalkIInv'
<1> USE LibraryAssumption
<1>1. PICK old, row : old = rows[id] /\ row = [old EXCEPT !.imported = TRUE]
  OBVIOUS
<1>2. old \in ListedRow /\ rows' = [rows EXCEPT ![id] = row] /\ walk' = walk
  BY <1>1 DEF ImportRow, Present, WalkIInv
<1>3. row \in ListedRow /\ row.createdAt = old.createdAt /\ row.imported
  BY <1>1, <1>2 DEF ListedRow
<1>4. row # NoRow /\ row # Missing
  BY <1>3
<1>5. rows' \in [ListedId -> ListedRow \cup {NoRow, Missing}] /\ rows'[id] = row
      /\ \A b \in ListedId : b # id => rows'[b] = rows[b]
  BY <1>2, <1>3 DEF WalkIInv
<1>6. PICK owed : owed = walk.owed
  OBVIOUS
<1>7. RowsGo(owed)
  BY <1>1, <1>2, <1>3, <1>4, <1>5 DEF RowsGo, Present
<1>8. walk' = [walk EXCEPT !.owed = owed] /\ clock' \in Nat
  BY <1>2, <1>6 DEF WalkIInv, WalkTypeOK
<1>9. walk.list # "pages"
  BY DEF ImportRow, Present, WalkIInv
<1> QED
  BY <1>5, <1>6, <1>7, <1>8, <1>9, RowsKeep

LEMMA DropKeepsWalk ==
  ASSUME WalkIInv, NEW id \in ListedId, DropRow(id), UNCHANGED clock
  PROVE  WalkIInv'
<1> USE LibraryAssumption
<1>1. walk.list = "documents" /\ rows' = [rows EXCEPT ![id] = Missing]
      /\ walk' = [walk EXCEPT !.owed = @ \ {id}]
  BY DEF DropRow
<1>2. rows' \in [ListedId -> ListedRow \cup {NoRow, Missing}] /\ rows'[id] = Missing
      /\ \A b \in ListedId : b # id => rows'[b] = rows[b]
  BY <1>1 DEF WalkIInv
<1>3. PICK owed : owed = walk.owed \ {id}
  OBVIOUS
<1>4. RowsGo(owed)
  BY <1>2, <1>3 DEF RowsGo, Present
<1>5. walk' = [walk EXCEPT !.owed = owed] /\ clock' \in Nat
  BY <1>1, <1>3 DEF WalkIInv
<1> QED
  BY <1>1, <1>2, <1>3, <1>4, <1>5, RowsKeep

\* Only the first cursor can be refused: the others were given by this listing.
LEMMA RefuseKeeps ==
  ASSUME WalkIInv, RefuseCursor, UNCHANGED clock
  PROVE  WalkIInv'
<1> USE LibraryAssumption
<1>1. walk' = [walk EXCEPT !.cursor = Missing] /\ rows' = rows /\ ~Accepted(walk.list, walk.cursor)
  BY DEF RefuseCursor
<1>2. /\ walk'.list = walk.list /\ walk'.cursor = Missing /\ walk'.seen = walk.seen
      /\ walk'.step = walk.step /\ walk'.owed = walk.owed /\ WalkTypeOK'
  BY <1>1 DEF WalkIInv, WalkTypeOK
<1>3. walk.step # "reading"
  BY <1>1 DEF WalkIInv, Begun, Own
<1>4. Seen' = Seen
  BY <1>2 DEF Seen
<1> QED
  BY <1>1, <1>2, <1>3, <1>4 DEF WalkIInv

LEMMA WalkBegins == WalkInit /\ clock \in Nat => WalkIInv
<1> USE LibraryAssumption
<1> SUFFICES ASSUME WalkInit, clock \in Nat PROVE WalkIInv
  OBVIOUS
<1> DEFINE First(list, cursor) ==
             [list |-> list, cursor |-> cursor, seen |-> <<>>, owed |-> {}, step |-> "before"]
<1>0. PICK list \in {"documents", "wallet", "pages"} :
        \E cursor \in Held(list) \cup {Missing} : walk = First(list, cursor)
  BY DEF WalkInit
<1>1. PICK cursor \in Held(list) \cup {Missing} : walk = First(list, cursor)
  BY <1>0
<1>2. rows \in [ListedId -> ListedRow \cup {NoRow, Missing}] /\ \A id \in ListedId : rows[id] = NoRow
  BY DEF WalkInit
<1>3. cursor = Missing \/ ~Accepted(list, cursor) \/ Own(list, cursor)
  <2>1. CASE list = "pages" /\ cursor \in Held(list)
    BY <2>1 DEF Held, Own, encode, Date, PageNumber, Accepted, DecodedPage, decode
  <2>2. CASE list # "pages" /\ cursor \in Held(list)
    <3>1. cursor.id \in Nat /\ (dateOf(cursor.sort) \in Nat \/ dateOf(cursor.sort) = Missing)
      BY <2>2 DEF Held, encode, Date, PageNumber, dateOf
    <3> QED
      BY <2>2, <3>1 DEF Own, Accepted, DecodedDate
  <2> QED
    BY <2>1, <2>2
<1>4. WalkTypeOK
  BY <1>1 DEF WalkTypeOK, Steps
<1>5. IsInjective(walk.seen)
  BY <1>1 DEF IsInjective
<1> QED
  BY <1>1, <1>2, <1>3, <1>4, <1>5 DEF WalkIInv

LEMMA WalkStep ==
  ASSUME WalkIInv, \/ WalkNext /\ UNCHANGED clock
                   \/ UNCHANGED walkVars /\ clock' \in Nat
  PROVE  WalkIInv'
<1>1. clock \in Nat
  BY DEF WalkIInv
<1>2. ASSUME NEW id \in ListedId, AddRow(id) \/ ImportRow(id) \/ DropRow(id), UNCHANGED clock
      PROVE  WalkIInv'
  BY <1>2, AddKeeps, ImportKeeps, DropKeepsWalk
<1>3. CASE RefuseCursor /\ UNCHANGED clock
  BY <1>3, RefuseKeeps
<1>4. ASSUME NEW requested \in {Missing, 0, 1, PageLimit + 1}, ReadPage(requested), UNCHANGED clock
      PROVE  WalkIInv'
  BY <1>1, <1>4, ReadKeeps
<1>5. CASE UNCHANGED walkVars /\ clock' \in Nat
  BY <1>5, StillKeeps
<1> QED
  BY <1>2, <1>3, <1>4, <1>5 DEF WalkNext

LEMMA WalkIInvHolds == WalkIInv => WalkSeesEachOnce
BY DEF WalkIInv, WalkSeesEachOnce, Seen, Range, IsInjective

-----------------------------------------------------------------------------
(* The library: positions, statuses and listings, while the clock of the     *)
(* server goes on.                                                           *)

libraryVars == <<bookmarkVars, readingVars, walkVars>>

LibraryNext ==
  \/ Tick /\ UNCHANGED <<readingVars, walkVars>>
  \/ ReadingNext /\ UNCHANGED <<bookmarkVars, walkVars>>
  \/ WalkNext /\ UNCHANGED <<bookmarkVars, readingVars>>

LibrarySpec == BookmarksInit /\ ReadingInit /\ WalkInit /\ [][LibraryNext]_libraryVars

LEMMA LibraryBegins == BookmarksInit /\ ReadingInit /\ WalkInit => ReadingIInv /\ WalkIInv
<1>1. BookmarksInit => clock \in Nat
  BY DEF BookmarksInit
<1> QED
  BY <1>1, ReadingBegins, WalkBegins

LEMMA LibraryStep ==
  ReadingIInv /\ WalkIInv /\ [LibraryNext]_libraryVars => (ReadingIInv /\ WalkIInv)'
<1> SUFFICES ASSUME ReadingIInv, WalkIInv, [LibraryNext]_libraryVars
             PROVE  (ReadingIInv /\ WalkIInv)'
  OBVIOUS
<1>1. CASE Tick /\ UNCHANGED <<readingVars, walkVars>>
  <2>1. clock' \in Nat
    BY <1>1 DEF Tick, WalkIInv
  <2> QED
    BY <1>1, <2>1, ReadingStep, WalkStep
<1>2. CASE ReadingNext /\ UNCHANGED <<bookmarkVars, walkVars>>
  <2>1. UNCHANGED walkVars /\ clock' \in Nat
    BY <1>2 DEF bookmarkVars, WalkIInv
  <2> QED
    BY <1>2, <2>1, ReadingStep, WalkStep
<1>3. CASE WalkNext /\ UNCHANGED <<bookmarkVars, readingVars>>
  <2>1. UNCHANGED clock
    BY <1>3 DEF bookmarkVars
  <2> QED
    BY <1>3, <2>1, ReadingStep, WalkStep
<1>4. CASE UNCHANGED libraryVars
  <2>1. UNCHANGED <<readingVars, walkVars>> /\ clock' \in Nat
    BY <1>4 DEF libraryVars, bookmarkVars, WalkIInv
  <2> QED
    BY <2>1, ReadingStep, WalkStep
<1> QED
  BY <1>1, <1>2, <1>3, <1>4 DEF LibraryNext

\* A saved position can be played, a book is shown as what it is, and a client
\* that reads a listing page after page sees once each row past the cursor it
\* started from, whatever is delivered, saved, added or deleted in between, for books of any number of conversions and
\* parts and listings of any length (save-reading-position.use-case.ts,
\* library-status.ts, pagination.ts).
THEOREM LibraryIsTrueInvariant == LibrarySpec => []LibraryIsTrue
<1>1. BookmarksInit /\ ReadingInit /\ WalkInit => ReadingIInv /\ WalkIInv
  BY LibraryBegins
<1>2. ReadingIInv /\ WalkIInv /\ [LibraryNext]_libraryVars => (ReadingIInv /\ WalkIInv)'
  BY LibraryStep
<1>3. ReadingIInv /\ WalkIInv => LibraryIsTrue
  BY ReadingIInvHolds, WalkIInvHolds DEF LibraryIsTrue
<1> QED
  BY <1>1, <1>2, <1>3, PTL DEF LibrarySpec

=============================================================================
