------------------------------ MODULE Providers ------------------------------
(* What the clients of the outside services make of their answers: Mobile    *)
(* Money (payment/infrastructure/gateway/), the voices and their cache       *)
(* (conversion/infrastructure/tts/, synthesize-segment.use-case.ts), the     *)
(* recognition of scans (document/infrastructure/ocr/) and the storage.      *)
EXTENDS PartDelivery, FiniteSets

(* ------------------------------------------------------------------------- *)
(* Mobile Money.  An answer is [cut], or [status, body]; a body is           *)
(* [kind] or [kind |-> "transaction", status, external].                     *)

call(wire) == IF wire.cut THEN [status |-> 0, body |-> [kind |-> "none"]]
              ELSE [status |-> wire.status, body |-> wire.body]

\* Fault: what is not accepted is refused.
collectOrRefuse(wire) ==
  IF call(wire).status = 200 /\ call(wire).body.kind = "reference" THEN "accepted" ELSE "refused"

collect(wire) ==
  LET answer == call(wire)
  IN IF answer.status = 200 /\ answer.body.kind = "reference" THEN "accepted"
     ELSE IF answer.status \in 400 .. 499 /\ answer.body.kind = "phone refused" THEN "refused"
     ELSE "unavailable"

STATUS == ("PENDING" :> "pending") @@ ("SUCCESSFUL" :> "successful") @@ ("FAILED" :> "failed")

\* An external reference that is empty is none (null).
External(reference) == IF reference \in {"", "absent"} THEN "none" ELSE reference

transactionResponse(body) == body.kind = "transaction" /\ body.status \in DOMAIN STATUS

getTransaction(wire) ==
  LET answer == call(wire)
  IN IF answer.status # 200 \/ ~transactionResponse(answer.body) THEN [status |-> "unavailable"]
     ELSE [status |-> STATUS[answer.body.status], external |-> External(answer.body.external)]

\* Fault: off by one.
ExpiredAfter(token, now) == token.exp # <<>> /\ now > token.exp[1]

\* exp and nbf are <<>> when the token has none.
Expired(token, now) == token.exp # <<>> /\ now >= token.exp[1]

checkHs256Jwt(token, now) ==
  IF token.segments # 3 THEN "malformed"
  ELSE IF ~token.ourKey THEN "bad_signature"
  ELSE IF token.alg = "unreadable" \/ ~token.claims THEN "malformed"
  ELSE IF token.alg # "HS256" THEN "unsupported_alg"
  ELSE IF Expired(token, now) THEN "expired"
  ELSE IF token.nbf # <<>> /\ now < token.nbf[1] THEN "not_yet_valid"
  ELSE "valid"

reject(reason) == [taken |-> FALSE, reason |-> reason]
verifyNotification(payload, now) ==
  IF ~payload.fields THEN reject("missing_fields")
  ELSE IF checkHs256Jwt(payload.token, now) # "valid" THEN reject(checkHs256Jwt(payload.token, now))
  ELSE [taken |-> TRUE, external |-> External(payload.external)]

\* The fake provider: its memory is a function of the references it was asked.
fakeCollect(memory, request) == (request.ref :> [amount |-> request.amount, fails |-> request.fails]) @@ memory
fakeGetTransaction(memory, ref) ==
  IF ref \notin DOMAIN memory THEN [status |-> "unavailable"]
  ELSE [status |-> IF memory[ref].fails THEN "failed" ELSE "successful", amount |-> memory[ref].amount]

(* ------------------------------------------------------------------------- *)
(* Voices *)

PollyVoices == {"fr-f1", "fr-m1", "fr-f2", "fr-m2"}

\* Errors of a request that no retry will cure.
REJECTED_ERRORS == {"request"}

send(answer) ==
  IF answer.error = "none" THEN "ok"
  ELSE IF answer.error \in REJECTED_ERRORS THEN "rejected" ELSE "unavailable"

\* Lines of marks: those of the words are kept; other marks and blank lines are not.
parseMarks(lines) ==
  LET kept[i \in 0 .. Len(lines)] ==
        IF i = 0 THEN <<>>
        ELSE IF lines[i].kind = "ssml" THEN Append(kept[i - 1], lines[i]) ELSE kept[i - 1]
  IN IF \E i \in DOMAIN lines : lines[i].kind = "unreadable" THEN [ok |-> FALSE]
     ELSE [ok |-> TRUE, marks |-> kept[Len(lines)]]

\* The outcomes of the two requests made at once: the first to fail decides.
synthesize(voice, audio, marks) ==
  LET failures == {send(audio), send(marks)} \ {"ok"}
      parsed == parseMarks(marks.lines)
  IN IF voice \notin PollyVoices THEN {[kind |-> "rejected"]}
     ELSE IF failures # {} THEN {[kind |-> f] : f \in failures}
     ELSE IF audio.empty \/ marks.empty \/ ~parsed.ok THEN {[kind |-> "unavailable"]}
     ELSE {[kind |-> "audio", marks |-> parsed.marks, durationMs |-> mp3DurationMs(audio.chunk)]}

\* Marks by name: the word i starts at its last mark, when one came back.
alignTimepoints(wordCount, marks) ==
  LET named(i) == {k \in DOMAIN marks : marks[k].word = i}
  IN [i \in 1 .. wordCount |-> IF named(i) = {} THEN Missing ELSE marks[Max(named(i))].time]

\* The fake engine: one mark per word at a steady pace, silence that lasts as long.
fakeSynthesis(wordCount, wordMs) ==
  [marks |-> [i \in 1 .. wordCount |-> [kind |-> "ssml", word |-> i, time |-> (i - 1) * wordMs]],
   durationMs |-> mp3DurationMs(silentMp3(wordCount * wordMs))]

Times(marks) == [i \in DOMAIN marks |-> marks[i].time]

\* Fault: what is in the cache is trusted.
readCacheAsItIs(files) ==
  IF files.marks = <<>> \/ ~files.audio THEN {} ELSE {e \in {files.marks[1]} : e.readable}

\* A file of marks is <<>>, or <<entry>>; the audio is there or not.
readCache(files) ==
  IF files.marks = <<>> \/ ~files.audio THEN {}
  ELSE {e \in {files.marks[1]} : e.readable /\ isAudioComplete(Times(e.marks), e.durationMs)}

\* What is kept of a synthesis, and the files, the audio first: a stop in
\* between leaves the audio alone.
storeSynthesis(files, result) ==
  IF ~isAudioComplete(Times(result.marks), result.durationMs) THEN {files}
  ELSE {[files EXCEPT !.audio = TRUE],
        [audio |-> TRUE, marks |-> <<[readable |-> TRUE, marks |-> result.marks, durationMs |-> result.durationMs]>>]}

(* ------------------------------------------------------------------------- *)
(* Recognition of the pages of a scan *)

\* Only a file that cannot be opened is a definitive refusal.
renderPages(run) == CASE run.exit = 0 -> "rendered" [] run.exit = 1 -> "unreadable" [] OTHER -> "fails"

renderedPages(run) == {f[2] : f \in {g \in run.files : g[1] = "page"}}

recognizePages(run, firstPage, lastPage) ==
  LET wanted == [i \in 1 .. lastPage - firstPage + 1 |-> firstPage + i - 1]
  IN CASE renderPages(run) = "unreadable" -> [kind |-> "unreadable"]
       [] renderPages(run) = "fails"      -> [kind |-> "retry"]
       [] OTHER -> IF \E i \in DOMAIN wanted : wanted[i] \notin renderedPages(run) \ run.killed
                   THEN [kind |-> "retry"]
                   ELSE [kind |-> "pages", of |-> wanted]

(* ------------------------------------------------------------------------- *)
(* Storage *)

isNotFound(error) == error.s3 /\ (error.name \in {"NotFound", "NoSuchKey"} \/ error.status = 404)
isNoSuchUpload(error) == error.s3 /\ (error.name = "NoSuchUpload" \/ error.status = 404)

head(answer) == IF answer.ok THEN "found" ELSE IF isNotFound(answer) THEN "missing" ELSE "unavailable"
abortMultipartUpload(answer) == IF answer.ok \/ isNoSuchUpload(answer) THEN "done" ELSE "unavailable"

(* ------------------------------------------------------------------------- *)
(* What they promise *)

(* A demand that may be on the client's phone is never declared refused, and *)
(* one declared taken was; the verdict is the provider's, and an answer that *)
(* is not understood, late or cut says nothing.                              *)
DemandsAreUnderstood(wire) ==
  /\ collect(wire) = "refused" => ~wire.took
  /\ collect(wire) = "accepted" => wire.took
  /\ LET read == getTransaction(wire).status
     IN read # "unavailable" => ~wire.cut /\ wire.body.kind = "transaction" /\ STATUS[wire.body.status] = read

(* A notification is taken only when it was signed with the key of the       *)
(* application, as announced, and in its time.                               *)
NotificationsAreSigned(payload, now) ==
  verifyNotification(payload, now).taken =>
    /\ payload.fields /\ payload.token.ourKey /\ payload.token.alg = "HS256"
    /\ payload.token.exp # <<>> => now < payload.token.exp[1]
    /\ payload.token.nbf # <<>> => now >= payload.token.nbf[1]

(* A conversion fails for good only on a refusal of the provider, never on a *)
(* breakdown.  What is kept of an answer, and what is read of the cache      *)
(* whenever the writing stopped, has its audio and a mark for every word     *)
(* the provider marked, before the end of the audio.                         *)
SpeechIsWhole(voice, wordCount, audio, marks, files) ==
  LET outcomes == synthesize(voice, audio, marks)
      whole(f) == \A h \in readCache(f) : f.audio /\ \A i \in DOMAIN h.marks : h.marks[i].time < h.durationMs
  IN /\ whole(files)
     /\ \A o \in outcomes :
          /\ o.kind = "rejected" => "request" \in {audio.error, marks.error}
          /\ o.kind = "audio" =>
               /\ {audio.error, marks.error} = {"none"} /\ ~audio.empty
               /\ \A i \in DOMAIN marks.lines : marks.lines[i].kind = "ssml" =>
                    alignTimepoints(wordCount, o.marks)[marks.lines[i].word] # Missing
               /\ \A after \in storeSynthesis(files, o) : whole(after)

(* The fake engine is never taken for a voice cut short: its audio lasts     *)
(* beyond its last mark, whatever the length of a frame, and every word has  *)
(* a mark.                                                                   *)
FakeIsWhole(wordCount, wordMs) ==
  LET fake == fakeSynthesis(wordCount, wordMs)
  IN /\ isAudioComplete(Times(fake.marks), fake.durationMs)
     /\ Missing \notin Range(alignTimepoints(wordCount, fake.marks))

(* Pages are given whole and in order, or the batch is done again; a scan is *)
(* refused for good only when it cannot be opened.                           *)
PagesAreWhole(run, firstPage, lastPage) ==
  LET result == recognizePages(run, firstPage, lastPage)
  IN /\ result.kind = "pages" =>
          /\ Len(result.of) = lastPage - firstPage + 1
          /\ \A i \in DOMAIN result.of : /\ result.of[i] = firstPage + i - 1
                                       /\ <<"page", result.of[i]>> \in run.files
                                       /\ result.of[i] \notin run.killed
     /\ result.kind = "unreadable" => run.exit = 1

(* A file is said missing only when the storage says so, never when it       *)
(* cannot be reached.                                                        *)
MissingIsSure(answer) ==
  /\ head(answer) = "missing" => answer.gone
  /\ abortMultipartUpload(answer) = "done" => answer.ok \/ answer.gone

(* The fake provider answers of each demand what was last asked with its     *)
(* reference, and knows nothing of the others.                               *)
FakeRemembers(demands) ==
  LET memory == FoldLeft(fakeCollect, <<>>, demands)
      last(ref) == SelectLastInSeq(demands, LAMBDA d : d.ref = ref)
  IN \A ref \in {"r1", "r2"} :
       LET answer == fakeGetTransaction(memory, ref)
       IN IF last(ref) = 0 THEN answer.status = "unavailable"
          ELSE /\ answer.amount = demands[last(ref)].amount
               /\ (answer.status = "failed") = demands[last(ref)].fails
=============================================================================
