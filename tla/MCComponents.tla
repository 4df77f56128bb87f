---------------------------- MODULE MCComponents ----------------------------
(* The components around the core, each on its own: kind tells which one     *)
(* moves, the others stay as they are, so that their states add up instead   *)
(* of multiplying.  A text, an environment or an answer is grown one element *)
(* at a time, and its contracts are checked at each length.                  *)
EXTENDS MCTexts, MCAnswers, Library, SignIn, Uploads

VARIABLES
  kind,    \* the component that moves
  of       \* the elements chosen so far, for a kind of input

sampleVars == <<kind, of>>
vars == <<sampleVars, bookmarkVars, readingVars, walkVars, signInVars, uploadVars>>

\* new Date("3") is in 2001, new Date("32") in 2032; new Date("13") is none.
MCDateOfPage == [n \in {3, 13, 32} |-> CASE n = 3 -> 0 [] n = 13 -> Missing [] n = 32 -> MaxTime + 1]

TextKind == DOMAIN TextAlphabet
AnswerKind == DOMAIN AnswerAlphabet
Machine == {"bookmarks", "reading", "listing", "dispatch", "accounts", "upload"}

Init ==
  /\ kind \in TextKind \cup AnswerKind \cup Machine /\ of = <<>>
  /\ BookmarksInit /\ ReadingInit /\ SignInInit /\ UploadsInit /\ WalkInit
  /\ kind # "listing" => walk.list = "pages" /\ walk.cursor = Missing

GrowText ==
  /\ kind \in TextKind /\ Len(of) < TextLength[kind]
  /\ \E x \in TextAlphabet[kind] : of' = Append(of, x)
GrowAnswer ==
  /\ kind \in AnswerKind /\ Len(of) < AnswerLength[kind]
  /\ \E x \in AnswerAlphabet[kind] : Follows(of, x) /\ of' = Append(of, x)

Next ==
  /\ UNCHANGED kind
  /\ \/ /\ GrowText \/ GrowAnswer
        /\ UNCHANGED <<bookmarkVars, readingVars, walkVars, signInVars, uploadVars>>
     \/ /\ kind = "bookmarks" /\ BookmarksNext
        /\ UNCHANGED <<of, readingVars, walkVars, signInVars, uploadVars>>
     \/ /\ kind \in {"reading", "listing"} /\ Tick
        /\ UNCHANGED <<of, readingVars, walkVars, signInVars, uploadVars>>
     \/ /\ kind = "reading" /\ ReadingNext
        /\ UNCHANGED <<of, bookmarkVars, walkVars, signInVars, uploadVars>>
     \/ /\ kind = "listing" /\ WalkNext
        /\ UNCHANGED <<of, bookmarkVars, readingVars, signInVars, uploadVars>>
     \/ /\ kind = "dispatch" /\ DispatchNext
        /\ UNCHANGED <<of, bookmarkVars, readingVars, walkVars, hour, accountVars, uploadVars>>
     \/ /\ kind = "accounts" /\ AccountsNext
        /\ UNCHANGED <<of, bookmarkVars, readingVars, walkVars, hour, dispatchVars, uploadVars>>
     \/ /\ kind \in {"dispatch", "accounts"} /\ HourPasses
        /\ UNCHANGED <<of, bookmarkVars, readingVars, walkVars, dispatchVars, accountVars, uploadVars>>
     \/ /\ kind = "upload" /\ UploadsNext
        /\ UNCHANGED <<of, bookmarkVars, readingVars, walkVars, signInVars>>

Spec == Init /\ [][Next]_vars

(* The algorithms keep the text: see the contracts of the modules of texts.  *)
TextIsKept == kind \in TextKind => TextContract(kind, of)

(* The server starts only when it can serve, and understands the answers of  *)
(* the services it calls, and its own errors.                                *)
BoundariesHold == kind \in AnswerKind => AnswerContract(kind, of)
=============================================================================
