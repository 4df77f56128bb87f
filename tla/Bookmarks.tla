------------------------------ MODULE Bookmarks ------------------------------
(* Bookmarks of the library module (library/application/use-cases,           *)
(* bookmark.drizzle-repository.ts): devices create, edit and delete them     *)
(* with their own clocks, in requests that may overlap, while documents are  *)
(* corrected and deleted.                                                    *)
EXTENDS Integers, FiniteSets, Sequences

CONSTANTS
  Device,
  BookmarkId,
  Document,
  MaxTime,         \* bound of the clocks
  ClockSkew,       \* CLOCK_SKEW_TOLERANCE_MS
  MaxWords,        \* bound of the words of the page bookmarks point to
  MaxBookmarks,    \* MAX_BOOKMARKS_PER_DOCUMENT
  MaxRequests,     \* bound of the requests of a device
  NoRow,           \* no such row
  NoNote           \* a deletion carries no note

Change == [kind : {"edit"}, note : Device, at : 1 .. MaxTime]
          \cup [kind : {"delete"}, note : {NoNote}, at : 1 .. MaxTime]
\* A row of table bookmarks.
BookmarkRow == [doc : Document, word : Nat, note : Device, updatedAt : 1 .. MaxTime,
                deleted : BOOLEAN, deletedAt : 1 .. MaxTime \cup {NoRow}]

ASSUME BookmarksAssumption ==
  /\ MaxTime \in Nat \ {0} /\ ClockSkew \in Nat /\ MaxWords \in Nat \ {0}
  /\ MaxBookmarks \in Nat \ {0} /\ MaxRequests \in Nat
  /\ NoRow \notin BookmarkRow /\ NoRow \notin Change

VARIABLES
  clock,       \* the time of the server
  pageWords,   \* pageWords[doc]: words of its page, NoRow when the document is gone
  bookmarks,   \* bookmarks[id]: the row, or NoRow
  requests,    \* requests[device]: the request being handled, [step |-> "none"] between two
  sent,        \* sent[device]: requests sent so far
  received     \* history: received[id], the changes that reached an existing row

bookmarkVars == <<clock, pageWords, bookmarks, requests, sent, received>>

None == [step |-> "none"]

BookmarksInit ==
  /\ clock = 1
  /\ pageWords = [doc \in Document |-> MaxWords]
  /\ bookmarks = [id \in BookmarkId |-> NoRow]
  /\ requests = [d \in Device |-> None]
  /\ sent = [d \in Device |-> 0]
  /\ received = [id \in BookmarkId |-> {}]

Exists(id) == bookmarks[id] # NoRow
InFuture(at) == at > clock + ClockSkew
activeOf(doc) == {id \in BookmarkId : Exists(id) /\ bookmarks[id].doc = doc /\ ~bookmarks[id].deleted}

MoveTo(d, step) == requests' = [requests EXCEPT ![d].step = step]
Answer(d) == requests' = [requests EXCEPT ![d] = None]

\* A device sends a request; the handler reads the document and the clock.
Send(d) ==
  /\ requests[d] = None /\ sent[d] < MaxRequests
  /\ sent' = [sent EXCEPT ![d] = @ + 1]
  /\ \E id \in BookmarkId, doc \in Document, at \in 1 .. MaxTime, word \in 0 .. MaxWords - 1,
        op \in {"put", "delete"} :
       /\ op = "delete" => word = 0
       /\ requests' = [requests EXCEPT ![d] =
            IF pageWords[doc] = NoRow \/ InFuture(at) THEN None
            ELSE [step |-> op, id |-> id, doc |-> doc, at |-> at, word |-> word]]
  /\ UNCHANGED <<clock, pageWords, bookmarks, received>>

\* findById: a row of this document is edited, another one is a conflict.
FindBookmark(d) ==
  /\ requests[d].step = "put"
  /\ LET r == requests[d]
     IN IF ~Exists(r.id) THEN MoveTo(d, "create")
        ELSE IF bookmarks[r.id].doc # r.doc THEN Answer(d)
        ELSE MoveTo(d, "edit")
  /\ UNCHANGED <<clock, pageWords, bookmarks, sent, received>>

\* The anchor is checked on the current text, the active bookmarks are counted.
CheckCreation(d) ==
  /\ requests[d].step = "create"
  /\ LET r == requests[d]
     IN IF pageWords[r.doc] = NoRow THEN Answer(d)
        ELSE IF r.word >= pageWords[r.doc] THEN Answer(d)
        ELSE IF Cardinality(activeOf(r.doc)) >= MaxBookmarks THEN Answer(d)
        ELSE MoveTo(d, "insert")
  /\ UNCHANGED <<clock, pageWords, bookmarks, sent, received>>

\* INSERT ... ON CONFLICT DO NOTHING; it fails when the document is gone.
InsertBookmark(d) ==
  /\ requests[d].step = "insert"
  /\ LET r == requests[d]
     IN IF Exists(r.id)
        THEN MoveTo(d, "edit") /\ UNCHANGED <<bookmarks, received>>
        ELSE /\ Answer(d)
             /\ IF pageWords[r.doc] = NoRow THEN UNCHANGED <<bookmarks, received>>
                ELSE /\ bookmarks' = [bookmarks EXCEPT ![r.id] =
                          [doc |-> r.doc, word |-> r.word, note |-> d, updatedAt |-> r.at,
                           deleted |-> FALSE, deletedAt |-> NoRow]]
                     /\ received' = [received EXCEPT ![r.id] =
                          @ \cup {[kind |-> "edit", note |-> d, at |-> r.at]}]
  /\ UNCHANGED <<clock, pageWords, sent>>

\* Fault: the last request to come wins.
MergedAsItComes(row, change) ==
  IF change.kind = "edit" THEN [row EXCEPT !.note = change.note, !.updatedAt = change.at, !.deleted = FALSE]
  ELSE [row EXCEPT !.updatedAt = change.at, !.deleted = TRUE]

\* The row after a change: only a newer one is applied.
Merged(row, change) ==
  IF row.updatedAt >= change.at THEN row
  ELSE IF change.kind = "edit"
       THEN [row EXCEPT !.note = change.note, !.updatedAt = change.at,
                        !.deleted = FALSE, !.deletedAt = NoRow]
       ELSE [row EXCEPT !.updatedAt = change.at, !.deleted = TRUE, !.deletedAt = change.at]

\* One UPDATE with its condition; a row that is absent or elsewhere is left alone.
ApplyChange(d) ==
  /\ requests[d].step \in {"edit", "delete"}
  /\ LET r == requests[d]
         change == IF r.step = "edit" THEN [kind |-> "edit", note |-> d, at |-> r.at]
                   ELSE [kind |-> "delete", note |-> NoNote, at |-> r.at]
     IN IF Exists(r.id) /\ bookmarks[r.id].doc = r.doc
        THEN /\ bookmarks' = [bookmarks EXCEPT ![r.id] = Merged(@, change)]
             /\ received' = [received EXCEPT ![r.id] = @ \cup {change}]
        ELSE UNCHANGED <<bookmarks, received>>
  /\ Answer(d)
  /\ UNCHANGED <<clock, pageWords, sent>>

\* The server stops: the requests it was handling are lost.
LoseRequest(d) ==
  /\ requests[d] # None
  /\ Answer(d)
  /\ UNCHANGED <<clock, pageWords, bookmarks, sent, received>>

\* A correction changes the words of the page; stored anchors stay as they are.
CorrectPage(doc) ==
  /\ pageWords[doc] # NoRow
  /\ pageWords' = [pageWords EXCEPT ![doc] = IF @ = MaxWords THEN 1 ELSE MaxWords]
  /\ UNCHANGED <<clock, bookmarks, requests, sent, received>>

\* A document takes its bookmarks and their traces along (ON DELETE CASCADE).
DropDocument(doc) ==
  LET gone == {id \in BookmarkId : Exists(id) /\ bookmarks[id].doc = doc}
  IN /\ pageWords[doc] # NoRow
     /\ pageWords' = [pageWords EXCEPT ![doc] = NoRow]
     /\ bookmarks' = [id \in BookmarkId |-> IF id \in gone THEN NoRow ELSE bookmarks[id]]
     /\ received' = [id \in BookmarkId |-> IF id \in gone THEN {} ELSE received[id]]
     /\ UNCHANGED <<clock, requests, sent>>

Tick == /\ clock < MaxTime
        /\ clock' = clock + 1
        /\ UNCHANGED <<pageWords, bookmarks, requests, sent, received>>

BookmarksNext ==
  \/ \E d \in Device : \/ Send(d) \/ FindBookmark(d) \/ CheckCreation(d)
                       \/ InsertBookmark(d) \/ ApplyChange(d) \/ LoseRequest(d)
  \/ \E doc \in Document : CorrectPage(doc) \/ DropDocument(doc)
  \/ Tick

------------------------------------------------------------------------------
(* Refinement: a row shows its last change *)

ShownChange(row) ==
  IF row = NoRow THEN NoRow
  ELSE [kind |-> IF row.deleted THEN "delete" ELSE "edit",
        note |-> IF row.deleted THEN NoNote ELSE row.note, at |-> row.updatedAt]

Store == INSTANCE BookmarkStore WITH
  Nothing <- NoRow,
  shown <- [id \in BookmarkId |-> ShownChange(bookmarks[id])]

(* The bookmarks implement the store: whatever requests overlap, are sent    *)
(* again or come late, a bookmark shows the latest change that reached it.   *)
ImplementsStore == Store!Spec
=============================================================================
