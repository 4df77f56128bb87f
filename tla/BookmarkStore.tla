---------------------------- MODULE BookmarkStore ----------------------------
(* What the library promises of bookmarks written from several devices: each *)
(* shows the latest of the changes it has received since it was created, the *)
(* first of them when several bear the same time.                            *)
EXTENDS Integers

CONSTANTS
  BookmarkId,
  Change,        \* the changes a device may send: [kind, note, at]
  Nothing        \* no such bookmark

VARIABLES
  shown,         \* shown[id]: the change that is shown, or Nothing
  received       \* received[id]: the changes received since the creation

vars == <<shown, received>>

Latest(changes) == {c \in changes : \A d \in changes : d.at <= c.at}

Init == /\ shown = [id \in BookmarkId |-> Nothing]
        /\ received = [id \in BookmarkId |-> {}]

\* Only an edit creates a bookmark.
Receive(id, change) ==
  /\ change.kind = "edit" \/ shown[id] # Nothing
  /\ received' = [received EXCEPT ![id] = @ \cup {change}]
  /\ shown' = [shown EXCEPT ![id] = IF @ \in Latest(received'[id]) THEN @ ELSE change]

\* The document is deleted, with its bookmarks and their traces.
Forget(ids) ==
  /\ received' = [id \in BookmarkId |-> IF id \in ids THEN {} ELSE received[id]]
  /\ shown' = [id \in BookmarkId |-> IF id \in ids THEN Nothing ELSE shown[id]]

Next == \/ \E id \in BookmarkId, change \in Change : Receive(id, change)
        \/ \E ids \in SUBSET BookmarkId : Forget(ids)

Spec == Init /\ [][Next]_vars
=============================================================================
