------------------------------ MODULE MCAnswers ------------------------------
(* Small environments, and answers of the outside services: the inputs of    *)
(* the boundaries of the server, and their contracts.                        *)
EXTENDS Configuration, Providers

Complete ==
  [node |-> "production", databaseUrl |-> "set", database |-> "absent", redisUrl |-> "set",
   redisHost |-> "absent", cursorSecret |-> "set", authSecret |-> "set", counters |-> "database",
   bucket |-> "set", endpoint |-> "absent", keyId |-> "absent", keySecret |-> "absent", region |-> "set",
   otpMode |-> "notification", logAllowed |-> "false", emailFrom |-> "set", smsId |-> "set",
   smsSecret |-> "set", tts |-> "polly", payment |-> "campay", campayUrl |-> "live",
   campayToken |-> "set", campayKey |-> "set", swagger |-> "absent"]
Bare ==
  [Complete EXCEPT !.node = "development", !.databaseUrl = "absent", !.database = "all",
                   !.redisUrl = "absent", !.cursorSecret = "absent", !.bucket = "absent",
                   !.region = "absent", !.otpMode = "log", !.emailFrom = "absent", !.smsId = "absent",
                   !.smsSecret = "absent", !.tts = "fake", !.payment = "fake", !.campayUrl = "absent",
                   !.campayToken = "absent", !.campayKey = "absent"]

\* Variables in an order, with the values they may take.
MCValues ==
  LET blankable == {"absent", "blank", "set"}
  IN << <<"node", {"production", "development"}>>, <<"databaseUrl", blankable>>,
        <<"database", {"absent", "partial", "all"}>>, <<"redisUrl", blankable>>, <<"redisHost", blankable>>,
        <<"cursorSecret", {"absent", "short", "set"}>>, <<"authSecret", {"absent", "short", "set"}>>,
        <<"counters", {"database", "memory"}>>, <<"bucket", blankable>>, <<"endpoint", {"absent", "set"}>>,
        <<"keyId", blankable>>, <<"keySecret", blankable>>, <<"region", {"absent", "set"}>>,
        <<"otpMode", {"log", "notification"}>>, <<"logAllowed", {"true", "false"}>>,
        <<"emailFrom", {"absent", "set"}>>, <<"smsId", blankable>>, <<"smsSecret", blankable>>,
        <<"tts", {"fake", "polly"}>>, <<"payment", {"disabled", "fake", "campay"}>>,
        <<"campayUrl", {"absent", "demo", "live"}>>, <<"campayToken", blankable>>,
        <<"campayKey", blankable>>, <<"swagger", {"absent", "true", "false"}>> >>
MCChanges == UNION {{[rank |-> k, value |-> v] : v \in MCValues[k][2]} : k \in DOMAIN MCValues}
Changed(env, changes) ==
  FoldLeft(LAMBDA e, c : [e EXCEPT ![MCValues[c.rank][1]] = c.value], env, changes)

MCBodies == {[kind |-> "none"], [kind |-> "reference"], [kind |-> "phone refused"], [kind |-> "page"]}
            \cup {[kind |-> "transaction", status |-> s, external |-> e] :
                    s \in {"PENDING", "SUCCESSFUL", "FAILED", "EXPIRED"}, e \in {"absent", "", "ours"}}
\* A demand is taken when its reference comes back, never on a refusal; whether
\* it was is not known of an answer that is cut, or of another failure.
MCDemands == {w \in [cut : BOOLEAN, status : {200, 400, 404, 500, 503}, body : MCBodies, took : BOOLEAN] :
                ~w.cut => /\ w.body.kind = "reference" => (w.status = 200) /\ w.took
                          /\ w.status \in 400 .. 499 => ~w.took}

MCTokens2 == [segments : {2, 3}, ourKey : BOOLEAN, alg : {"HS256", "none", "unreadable"},
              claims : BOOLEAN, exp : {<<>>, <<1>>}, nbf : {<<>>, <<1>>}]
MCNotices == [fields : BOOLEAN, token : MCTokens2, external : {"absent", "", "ours"}]

MCLines == LET ssml(w, t) == [kind |-> "ssml", word |-> w, time |-> t]
           IN {<<>>, <<ssml(1, 0), ssml(2, 3)>>, <<ssml(1, 0), [kind |-> "sentence"], ssml(2, 9)>>,
               <<ssml(1, 0), [kind |-> "unreadable"]>>, <<[kind |-> "blank"], ssml(1, 2)>>}
MCFiles == [audio : BOOLEAN,
            marks : {<<>>, <<[readable |-> FALSE]>>} \cup
                    {<<[readable |-> TRUE, marks |-> <<[kind |-> "ssml", word |-> 1, time |-> t]>>,
                        durationMs |-> 4]>> : t \in {0, 4}}]
MCSpeech == [audio : [error : {"none", "request", "other"}, empty : BOOLEAN,
                      chunk : [frames : {0, 1, 2}, cut : BOOLEAN]],
             marks : [error : {"none", "request", "other"}, empty : BOOLEAN, lines : MCLines],
             files : MCFiles]

MCScans == [exit : {0, 1, 99}, files : SUBSET {<<"page", 2>>, <<"page", 3>>, <<"source", 2>>},
            killed : SUBSET {2, 3}]
MCStorage == {[ok |-> TRUE, s3 |-> FALSE, name |-> "none", status |-> 200, gone |-> FALSE],
              [ok |-> FALSE, s3 |-> FALSE, name |-> "TimeoutError", status |-> 0, gone |-> FALSE]}
             \cup {[ok |-> FALSE, s3 |-> TRUE, name |-> n, status |-> 404, gone |-> TRUE] :
                     n \in {"NotFound", "NoSuchKey", "NoSuchUpload"}}
             \cup {[ok |-> FALSE, s3 |-> TRUE, name |-> n, status |-> s, gone |-> FALSE] :
                     n \in {"AccessDenied", "SlowDown"}, s \in {403, 503}}
MCRequests == [ref : {"r1", "r2"}, amount : {1, 2}, fails : BOOLEAN]

AnswerAlphabet ==
  [production |-> MCChanges, development |-> MCChanges, demands |-> MCDemands, notices |-> MCNotices,
   speech |-> MCSpeech, scans |-> MCScans, storage |-> MCStorage, fake |-> MCRequests]
AnswerLength == [production |-> 3, development |-> 3, demands |-> 1, notices |-> 1, speech |-> 1,
                 scans |-> 1, storage |-> 1, fake |-> 3]
\* Each variable is changed once.
Follows(of, x) == of # <<>> /\ "rank" \in DOMAIN x => Last(of).rank < x.rank

FakesAreWhole == \A wordCount \in 0 .. 3, wordMs \in 1 .. 9 : FakeIsWhole(wordCount, wordMs)

\* The contracts, by kind of input.
AnswerContract(kind, of) ==
  CASE kind = "production"  -> StartsComplete(Changed(Complete, of)) /\ (of = <<>> => ErrorsAreAnswered /\ FakesAreWhole)
    [] kind = "development" -> StartsComplete(Changed(Bare, of))
    [] kind = "fake"        -> FakeRemembers(of)
    [] OTHER -> of # <<>> =>
         CASE kind = "demands" -> DemandsAreUnderstood(of[1])
           [] kind = "notices" -> \A now \in 0 .. 2 : NotificationsAreSigned(of[1], now)
           [] kind = "speech"  -> SpeechIsWhole("fr-f1", 2, of[1].audio, of[1].marks, of[1].files)
           [] kind = "scans"   -> PagesAreWhole(of[1], 2, 3)
           [] kind = "storage" -> MissingIsSure(of[1])
=============================================================================
