------------------------------- MODULE Uploads -------------------------------
(* A file sent straight to the object storage, whole or by parts             *)
(* (document/domain/services/multipart.ts, shared/storage/): an upload that  *)
(* is cut and resumed, parts sent again, an assembly whose answer is lost,   *)
(* confirmations sent again while another is handled.                        *)
EXTENDS Integers, Sequences, FiniteSets, Folds

CONSTANTS
  PartSize,      \* MULTIPART_PART_SIZE_BYTES
  MaxFileSize,   \* bound of the declared sizes
  Confirmation   \* confirmations handled at once

ASSUME UploadsAssumption == PartSize \in Nat \ {0, 1} /\ MaxFileSize \in Nat

VARIABLES
  file,       \* the document: [size, pdf, multipart, uploaded], [size |-> 0] before the request
  pieces,     \* pieces[n]: size of the part n the provider holds, 0 for none; <<>>: no open upload
  stored,     \* sizes of the parts of the object, in order; <<>>: no object
  ticket,     \* parts the client was told to send, and those said received
  confirms    \* confirms[c]: the confirmation being handled

uploadVars == <<file, pieces, stored, ticket, confirms>>

usesMultipart(size, requested) == requested /\ size > PartSize

\* Sizes of the planned parts, the last one with the rest.
planUpload(size) ==
  LET wanted == (size + PartSize - 1) \div PartSize
      count == IF wanted = 0 THEN 1 ELSE wanted
  IN [n \in 1 .. count |-> IF n = count THEN size - (n - 1) * PartSize ELSE PartSize]

\* Fault: a part cut short passes for received.
unsentParts(plan, received) == {n \in DOMAIN plan : received[n] = 0}

missingParts(plan, received) == {n \in DOMAIN plan : received[n] # plan[n]}

NoTicket == [asked |-> {}, received |-> {}]
NoConfirmation == [step |-> "idle"]
SizeOf(parts) == MapThenFoldSet(+, 0, LAMBDA n : parts[n], LAMBDA s : CHOOSE n \in s : TRUE, DOMAIN parts)

UploadsInit ==
  /\ file = [size |-> 0] /\ pieces = <<>> /\ stored = <<>>
  /\ ticket = NoTicket
  /\ confirms = [c \in Confirmation |-> NoConfirmation]

\* The upload is opened, then the row inserted; a lost request leaves no row.
AskUpload ==
  /\ file.size = 0
  /\ \E size \in 1 .. MaxFileSize, pdf, requested \in BOOLEAN :
       LET multipart == usesMultipart(size, requested)
       IN /\ file' = [size |-> size, pdf |-> pdf, multipart |-> multipart, uploaded |-> FALSE]
          /\ pieces' = IF multipart THEN [n \in DOMAIN planUpload(size) |-> 0] ELSE <<>>
  /\ UNCHANGED <<stored, ticket, confirms>>

\* The provider takes a body of the signed length only.
presignPut ==
  /\ file.size # 0 /\ ~file.multipart
  /\ stored' = <<file.size>>
  /\ UNCHANGED <<file, pieces, ticket, confirms>>

\* The parts to send are read from the provider, whatever the client believes.
PrepareUploadParts ==
  /\ file.size # 0 /\ ~file.uploaded /\ pieces # <<>>
  /\ LET plan == planUpload(file.size)
         missing == missingParts(plan, pieces)
     IN ticket' = [asked |-> missing, received |-> DOMAIN plan \ missing]
  /\ UNCHANGED <<file, pieces, stored, confirms>>

\* A part is sent, whole or cut short, again too: the last one is kept.
PutPart ==
  /\ pieces # <<>>
  /\ \E n \in ticket.asked \cup ticket.received :
       LET planned == planUpload(file.size)[n]
       IN \E size \in {planned, planned - 1} \ {0} :
            /\ pieces' = [pieces EXCEPT ![n] = size]
            /\ ticket' = [ticket EXCEPT !.received = @ \ {n}]
  /\ UNCHANGED <<file, stored, confirms>>

ConfirmTo(c, step) == confirms' = [confirms EXCEPT ![c] = [step |-> step]]

\* The parts are listed; every one must be there, at its size.
listUploadedParts(c) ==
  /\ confirms[c].step = "idle" /\ file.size # 0
  /\ IF file.uploaded THEN UNCHANGED confirms
     ELSE IF pieces = <<>> THEN ConfirmTo(c, "head")
     ELSE IF missingParts(planUpload(file.size), pieces) # {} THEN UNCHANGED confirms
     ELSE confirms' = [confirms EXCEPT ![c] = [step |-> "complete", parts |-> pieces]]
  /\ UNCHANGED <<file, pieces, stored, ticket>>

\* The provider assembles the parts that were listed, once: a part sent again
\* meanwhile has another mark, an upload already assembled is not found.
completeMultipartUpload(c) ==
  /\ confirms[c].step = "complete"
  /\ IF pieces = <<>> \/ pieces # confirms[c].parts
     THEN ConfirmTo(c, "idle") /\ UNCHANGED <<pieces, stored>>
     ELSE /\ stored' = confirms[c].parts
          /\ pieces' = <<>>
          /\ \E step \in {"head", "idle"} : ConfirmTo(c, step)   \* idle: the answer is lost
  /\ UNCHANGED <<file, ticket>>

\* The file really there: its size and its first bytes.  A wrong one is deleted.
InspectObject(c) ==
  /\ confirms[c].step = "head"
  /\ IF stored = <<>> THEN ConfirmTo(c, "idle") /\ UNCHANGED stored
     ELSE IF SizeOf(stored) # file.size \/ ~file.pdf
     THEN ConfirmTo(c, "idle") /\ stored' = <<>>
     ELSE ConfirmTo(c, "mark") /\ UNCHANGED stored
  /\ UNCHANGED <<file, pieces, ticket>>

markUploaded(c) ==
  /\ confirms[c].step = "mark"
  /\ ConfirmTo(c, "idle")
  /\ file' = [file EXCEPT !.uploaded = TRUE]
  /\ UNCHANGED <<pieces, stored, ticket>>

\* The provider cannot be reached: an answer 503, the client asks again.
unavailable(c) ==
  /\ confirms[c].step \in {"complete", "head", "mark"}
  /\ ConfirmTo(c, "idle")
  /\ UNCHANGED <<file, pieces, stored, ticket>>

UploadsNext ==
  \/ AskUpload \/ presignPut \/ PrepareUploadParts \/ PutPart
  \/ \E c \in Confirmation : \/ listUploadedParts(c) \/ completeMultipartUpload(c)
                             \/ InspectObject(c) \/ markUploaded(c) \/ unavailable(c)

(* Only a PDF of the declared size is taken as uploaded.  A file sent by     *)
(* parts is assembled only from all of them, each once and whole, so that an *)
(* upload is never destroyed by a confirmation that came too early; a client *)
(* that resumes is told to send again every part that is not whole.          *)
UploadIsWhole ==
  /\ file.size # 0 /\ file.uploaded => file.pdf /\ stored # <<>> /\ SizeOf(stored) = file.size
  /\ file.size # 0 /\ stored # <<>> =>
       stored = IF file.multipart THEN planUpload(file.size) ELSE <<file.size>>
  /\ pieces # <<>> => \A n \in ticket.received : pieces[n] = planUpload(file.size)[n]
=============================================================================
