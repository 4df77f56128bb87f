---------------------------- MODULE Configuration ----------------------------
(* The environment the server starts from (shared/config/env.schema.ts), the *)
(* adapters the factories build of it, and the HTTP status an error is given *)
(* (shared/http/error-status.ts).  A value is "set", "blank" (declared       *)
(* without a value), "short" (below its smallest length) or "absent".        *)
EXTENDS Integers, Sequences, SequencesExt

\* The variables of the server, before validation.
Blankable == {"absent", "blank", "set"}
Sized == {"absent", "blank", "short", "set"}
Environment ==
  [node : {"production", "development", "test"}, databaseUrl : Blankable,
   database : {"absent", "partial", "all"}, redisUrl : Blankable, redisHost : Blankable,
   cursorSecret : Sized, authSecret : Sized, counters : {"database", "memory"}, bucket : Blankable,
   endpoint : Blankable, keyId : Blankable, keySecret : Blankable, region : Blankable,
   otpMode : {"log", "notification"}, logAllowed : {"true", "false"}, emailFrom : Blankable,
   smsId : Blankable, smsSecret : Blankable, tts : {"fake", "polly"},
   payment : {"disabled", "fake", "campay"}, campayUrl : {"absent", "demo", "live"},
   campayToken : Blankable, campayKey : Blankable, swagger : {"absent", "true", "false"}]

(* ------------------------------------------------------------------------- *)
(* Validation *)

\* Variables whose blank value counts as absent (optionalSecret).
OptionalSecrets == {"databaseUrl", "redisUrl", "smsId", "smsSecret", "keyId", "keySecret",
                    "campayToken", "campayKey"}

optionalSecret(raw, v) == IF v \in OptionalSecrets /\ raw[v] = "blank" THEN "absent" ELSE raw[v]
parsed(raw) == [v \in DOMAIN raw |-> optionalSecret(raw, v)]

\* Variables the schema itself refuses.
envSchema(env) == {v \in DOMAIN env : env[v] \in {"blank", "short"} \/ (v = "authSecret" /\ env[v] = "absent")}

Absent(env, vars) == {v \in vars : env[v] = "absent"}
\* Fault: half a pair of credentials is let through.
NeverHalf(env, a, b) == FALSE

Half(env, a, b) == (env[a] = "absent") # (env[b] = "absent")

ConsistencyRules(env) ==
     {v \in {"databaseUrl"} : env[v] = "absent" /\ env.database # "all"}
  \cup {v \in {"smsId"} : Half(env, "smsId", "smsSecret")}
  \cup {v \in {"keyId"} : Half(env, "keyId", "keySecret")}
  \cup {v \in {"region"} : env.bucket # "absent" /\ env.endpoint = "absent" /\ env.region = "absent"}
  \cup {v \in {"emailFrom", "region"} : env.otpMode = "notification" /\ env[v] = "absent"}
  \cup {v \in {"region"} : env.tts = "polly" /\ env[v] = "absent"}
  \cup {v \in {"payment"} : env.payment = "campay"
                             /\ Absent(env, {"campayUrl", "campayToken", "campayKey"}) # {}}

ProductionRules(env) ==
     {v \in {"redisUrl"} : env.redisUrl = "absent" /\ env.redisHost = "absent"}
  \cup Absent(env, {"cursorSecret", "bucket"})
  \cup {v \in {"counters"} : env.counters # "database"}
  \cup {v \in {"tts"} : env.tts # "polly"}
  \cup {v \in {"otpMode"} : env.otpMode = "log" /\ env.logAllowed # "true"}
  \cup {v \in {"payment"} : env.payment = "fake"}
  \cup {v \in {"campayUrl"} : env.payment = "campay" /\ env.campayUrl # "live"}

\* The variables reported; the server starts when there is none.
validateEnv(raw) ==
  LET env == parsed(raw)
  IN IF envSchema(env) # {} THEN envSchema(env)
     ELSE ConsistencyRules(env) \cup IF env.node = "production" THEN ProductionRules(env) ELSE {}

(* ------------------------------------------------------------------------- *)
(* Factories *)

createPostgresClient(env) == IF env.databaseUrl # "absent" THEN "all" ELSE env.database

\* The server Redis clients call: an URL first, else a host, this one by default.
buildRedisOptions(env) ==
  IF env.redisUrl # "absent" THEN "configured"
  ELSE IF env.redisHost \in {"absent", "blank"} THEN "localhost" ELSE "configured"
RateLimitStore(env) == IF env.redisUrl # "absent" \/ env.redisHost # "absent" THEN "redis" ELSE "memory"

s3ConnectionFromEnv(env) ==
  [region |-> IF env.endpoint = "absent" THEN env.region ELSE "set",
   credentials |-> IF env.keyId = "absent" \/ env.keySecret = "absent" THEN "chain" ELSE "keys"]
ObjectStorage(env) ==
  IF env.bucket = "absent" THEN [kind |-> "unconfigured"]
  ELSE LET connection == s3ConnectionFromEnv(env)
       IN [kind |-> "s3", region |-> connection.region, credentials |-> connection.credentials]

buildTtsEngine(env) ==
  IF env.tts = "fake" THEN [kind |-> "fake"] ELSE [kind |-> "polly", region |-> env.region]

buildPaymentGateway(env) ==
  CASE env.payment = "campay" ->
         IF Absent(env, {"campayUrl", "campayToken", "campayKey"}) # {} THEN "throws" ELSE env.campayUrl
    [] OTHER -> env.payment

resolveCursorSecret(env) == IF env.cursorSecret # "absent" THEN "own" ELSE "derived"

buildSmsSender(env) ==
  IF Absent(env, {"smsId", "smsSecret"}) # {} THEN "unconfigured" ELSE "orange"
buildEmailSender(env) ==
  IF Absent(env, {"emailFrom", "region"}) # {} THEN "unconfigured" ELSE "ses"
OtpSender(env) == IF env.otpMode = "log" THEN "log" ELSE "notification"

configureSwagger(env) ==
  IF env.swagger # "absent" THEN env.swagger = "true" ELSE env.node # "production"

(* A server that starts can serve: no factory throws, its clients have a     *)
(* region and whole credentials, its codes can be sent.  In production       *)
(* nothing of it is fake, in memory, derived or local, no demonstration      *)
(* grants a real offer, and codes are logged or the routes shown only when   *)
(* that was asked for.  A variable declared blank never counts as set.       *)
StartsComplete(raw) ==
  LET env == parsed(raw)
      storage == ObjectStorage(env)
      tts == buildTtsEngine(env)
      gateway == buildPaymentGateway(env)
  IN validateEnv(raw) = {} =>
       /\ createPostgresClient(env) = "all"
       /\ gateway # "throws"
       /\ storage.kind = "s3" =>
            /\ storage.region = "set"
            /\ (storage.credentials = "keys" <=> raw.keyId = "set")
       /\ tts.kind = "polly" => tts.region = "set"
       /\ OtpSender(env) = "notification" => buildEmailSender(env) = "ses"
       /\ (buildSmsSender(env) = "orange" <=> raw.smsId = "set")
       /\ raw.node = "production" =>
            /\ storage.kind = "s3" /\ tts.kind = "polly" /\ gateway \in {"live", "disabled"}
            /\ buildRedisOptions(env) = "configured" /\ RateLimitStore(env) = "redis"
            /\ env.counters = "database" /\ resolveCursorSecret(env) = "own"
            /\ OtpSender(env) = "log" => raw.logAllowed = "true"
            /\ configureSwagger(env) => raw.swagger = "true"

(* ------------------------------------------------------------------------- *)
(* Errors: a code is the sequence of its words. *)

\* Fault: only the status of the quota is declared.
ExplicitStatusOfQuota == <<"QUOTA", "EXCEEDED">> :> 402

ExplicitStatus ==
  (<<"DOCUMENT", "TEXT", "NOT", "READY">> :> 409) @@ (<<"CONVERSION", "NOT", "READY">> :> 409)
  @@ (<<"DOCUMENT", "REVIEW", "REQUIRED">> :> 409) @@ (<<"QUOTA", "EXCEEDED">> :> 402)
  @@ (<<"QUOTA", "CONVERSION", "LIMIT", "EXCEEDED">> :> 422)
  @@ (<<"RECENT", "LOGIN", "REQUIRED">> :> 403)

statusFromCode(code) ==
  LET rules == << IsSuffix(<<"NOT", "FOUND">>, code), IsSuffix(<<"CONFLICT">>, code),
                  IsSuffix(<<"PAYLOAD", "TOO", "LARGE">>, code), code[1] \in {"INVALID", "VALIDATION"},
                  code[1] = "UNAUTHORIZED", code[1] = "FORBIDDEN", IsPrefix(<<"RATE", "LIMIT">>, code),
                  code[1] = "INFRASTRUCTURE" >>
      rule == SelectInSeq(rules, LAMBDA applies : applies)
  IN IF code \in DOMAIN ExplicitStatus THEN ExplicitStatus[code]
     ELSE IF rule = 0 THEN 500 ELSE <<404, 409, 413, 422, 401, 403, 429, 503>>[rule]

titleFromStatus(status) ==
  IF status \in {400, 401, 402, 403, 404, 409, 413, 422, 429, 500, 503} THEN status ELSE "Error"

\* What the client is told of an error, and how it is logged.
buildProblem(exception) ==
  LET status == CASE exception.kind = "domain"           -> statusFromCode(exception.code)
                  [] exception.kind = "http"             -> exception.status
                  [] exception.kind = "entity.too.large" -> 413
                  [] exception.kind = "other"            -> 500
  IN [status |-> status, title |-> titleFromStatus(status),
      detail |-> IF exception.kind \in {"domain", "http"} THEN "its own" ELSE "neutral"]
logged(status) == IF status >= 500 THEN "error" ELSE IF status >= 400 THEN "warn" ELSE "no"

\* The codes of the modules, with the status their catalogues announce.  The
\* codes that never reach a client (TTS_REQUEST_REJECTED) are not among them.
KernelCodes ==
  {<<"VALIDATION", "FAILED", 422>>, <<"INVALID", "CURSOR", 422>>, <<"INVALID", "IDEMPOTENCY", "KEY", 422>>,
   <<"NOT", "FOUND", 404>>, <<"CONFLICT", 409>>, <<"UNAUTHORIZED", 401>>, <<"FORBIDDEN", 403>>,
   <<"RATE", "LIMIT", "EXCEEDED", 429>>, <<"INFRASTRUCTURE", "ERROR", 503>>}
BillingCodes ==
  {<<"QUOTA", "EXCEEDED", 402>>, <<"QUOTA", "CONVERSION", "LIMIT", "EXCEEDED", 422>>,
   <<"OFFER", "NOT", "FOUND", 404>>, <<"PAYMENT", "REFERENCE", "CONFLICT", 409>>}
ConversionCodes ==
  {<<"CONVERSION", "NOT", "FOUND", 404>>, <<"CONVERSION", "NOT", "READY", 409>>, <<"INVALID", "VOICE", 422>>,
   <<"INVALID", "CONVERSION", "TEXT", 422>>, <<"DOCUMENT", "REVIEW", "REQUIRED", 409>>,
   <<"CONVERSION", "CONFLICT", 409>>, <<"INFRASTRUCTURE", "TTS", "UNAVAILABLE", 503>>}
DocumentCodes ==
  {<<"DOCUMENT", "NOT", "FOUND", 404>>, <<"INVALID", "DOCUMENT", "TITLE", 422>>,
   <<"INVALID", "DOCUMENT", "SIZE", 422>>, <<"INVALID", "RIGHTS", "ATTESTATION", 422>>,
   <<"INVALID", "DOCUMENT", "UPLOAD", 422>>, <<"DOCUMENT", "UPLOAD", "CONFLICT", 409>>,
   <<"DOCUMENT", "PAGE", "NOT", "FOUND", 404>>, <<"INVALID", "PAGE", "TEXT", 422>>,
   <<"DOCUMENT", "TEXT", "NOT", "READY", 409>>}
IdentityCodes ==
  {<<"USER", "NOT", "FOUND", 404>>, <<"INVALID", "PHONE", "NUMBER", 422>>, <<"INVALID", "USER", "ROLE", 422>>,
   <<"ACCOUNT", "DELETION", "CONFLICT", 409>>, <<"RECENT", "LOGIN", "REQUIRED", 403>>}
LibraryCodes ==
  {<<"READING", "POSITION", "NOT", "FOUND", 404>>, <<"INVALID", "READING", "POSITION", 422>>,
   <<"DOCUMENT", "DELETION", "CONFLICT", 409>>, <<"INVALID", "BOOKMARK", "NOTE", 422>>,
   <<"INVALID", "BOOKMARK", "ANCHOR", 422>>, <<"INVALID", "BOOKMARK", "TIMESTAMP", 422>>,
   <<"BOOKMARKS", "LIMIT", "CONFLICT", 409>>, <<"BOOKMARK", "ID", "CONFLICT", 409>>}
PaymentCodes ==
  {<<"PAYMENT", "NOT", "FOUND", 404>>, <<"INVALID", "PAYMENT", "PHONE", 422>>,
   <<"PAYMENT", "IN", "PROGRESS", "CONFLICT", 409>>, <<"PAYMENT", "IDEMPOTENCY", "CONFLICT", 409>>,
   <<"RATE", "LIMIT", "PAYMENT", "ATTEMPTS", 429>>, <<"UNAUTHORIZED", "PAYMENT", "NOTIFICATION", 401>>,
   <<"INFRASTRUCTURE", "PAYMENT", "UNAVAILABLE", 503>>}
StorageCodes ==
  {<<"INFRASTRUCTURE", "STORAGE", "UNAVAILABLE", 503>>, <<"INFRASTRUCTURE", "STORAGE", "NOT", "CONFIGURED", 503>>}
Catalogue == KernelCodes \cup BillingCodes \cup ConversionCodes \cup DocumentCodes \cup IdentityCodes
             \cup LibraryCodes \cup PaymentCodes \cup StorageCodes

(* Every error of a module reaches the client with the status its catalogue  *)
(* announces and is never taken for a bug (500); an unforeseen one tells     *)
(* nothing of itself, and is logged as an error.                             *)
ErrorsAreAnswered ==
  /\ \A entry \in Catalogue :
       LET problem == buildProblem([kind |-> "domain", code |-> Front(entry)])
       IN problem.status = Last(entry) /\ problem.title = problem.status
  /\ \A kind \in {"entity.too.large", "other"} :
       LET problem == buildProblem([kind |-> kind])
       IN problem.detail = "neutral" /\ (problem.status >= 500) = (logged(problem.status) = "error")
=============================================================================
