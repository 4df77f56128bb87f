------------------------------- MODULE SignIn -------------------------------
(* Sign-in codes and accounts: codes sent by SMS or e-mail behind two limits *)
(* (notification/), with requests handled at once, a provider whose answers  *)
(* are lost and restarts; sessions opened by a code, accounts deleted by     *)
(* their owner or by an operator (identity/).                                *)
EXTENDS Integers, FiniteSets, Functions

CONSTANTS
  Phone, Mailbox,    \* destinations of codes: Cameroonian mobiles, addresses
  OtpHandler,        \* requests handled at once
  HourLength, DayLength, RetentionLength,   \* an hour, a day, OTP_DISPATCH_RETENTION_MS
  TokenLength,       \* life of a token of the provider, its margin taken off
  MaxPerDestinationPerHour,
  SmsDailyLimit,
  RecentLoginAge,    \* RECENT_LOGIN_MAX_AGE_MS
  MaxHour,           \* bound of the clock
  MaxCodes,          \* bound of the codes asked for
  MaxAccounts        \* bound of the accounts created

ASSUME SignInAssumption ==
  /\ HourLength \in Nat \ {0} /\ DayLength \in Nat \ {0} /\ TokenLength \in Nat
  /\ RetentionLength \in Nat /\ RetentionLength > DayLength /\ RetentionLength > HourLength
  /\ MaxPerDestinationPerHour \in Nat \ {0} /\ SmsDailyLimit \in Nat \ {0}
  /\ RecentLoginAge \in Nat /\ MaxHour \in Nat /\ MaxCodes \in Nat /\ MaxAccounts \in Nat
  /\ IsFiniteSet(OtpHandler) /\ IsFiniteSet(Phone)

VARIABLES
  hour,        \* the clock of the server
  otpLog,      \* otpLog[dest][t]: rows of otp_dispatches sent at t
  handlers,    \* handlers[h]: the dispatch being handled, [step |-> "idle"] between two
  token,       \* when the cached token of the provider expires; 0: none
  asked,       \* codes asked for so far
  accepted,    \* history: accepted[dest][t], messages the provider took
  accounts,    \* accounts[dest]: the account of a contact, 0 when it has none
  sessions,    \* set of [account, createdAt]
  deletion,    \* the deletion being handled, [step |-> "idle"] between two
  created,     \* accounts created so far
  deleted      \* history: deletions done, with what was asked

dispatchVars == <<otpLog, handlers, token, asked, accepted>>
accountVars == <<accounts, sessions, deletion, created, deleted>>
signInVars == <<hour, dispatchVars, accountVars>>

Destination == Phone \cup Mailbox
Idle == [step |-> "idle"]

SignInInit ==
  /\ hour = 0 /\ token = 0 /\ asked = 0 /\ created = 0
  /\ otpLog = [d \in Destination |-> [t \in 0 .. MaxHour |-> 0]]
  /\ accepted = otpLog
  /\ handlers = [h \in OtpHandler |-> Idle]
  /\ accounts = [d \in Destination |-> 0]
  /\ sessions = {} /\ deleted = {}
  /\ deletion = Idle

(* ------------------------------------------------------------------------- *)
(* Sending a code *)

oneHourBefore(now) == now - HourLength
startOfUtcDay(now) == now - (now % DayLength)

Since(counts, since) == SumFunctionOnSet(counts, {t \in 0 .. MaxHour : t >= since})
countForDestinationSince(dest, since) == Since(otpLog[dest], since)
countForChannelSince(since) ==
  SumFunctionOnSet([d \in Phone |-> Since(otpLog[d], since)], Phone)

\* Fault: one too many.
refusalForMore(dest, sentToDestinationLastHour, smsSentToday) ==
  \/ sentToDestinationLastHour > MaxPerDestinationPerHour
  \/ dest \in Phone /\ smsSentToday > SmsDailyLimit

refusalFor(dest, sentToDestinationLastHour, smsSentToday) ==
  \/ sentToDestinationLastHour >= MaxPerDestinationPerHour
  \/ dest \in Phone /\ smsSentToday >= SmsDailyLimit

Dispatch(h, step) == handlers' = [handlers EXCEPT ![h].step = step]
Answered(h) == handlers' = [handlers EXCEPT ![h] = Idle]

\* A code is asked for; only a mobile of the country is given one by SMS.
RequestCode(h) ==
  /\ handlers[h] = Idle /\ asked < MaxCodes
  /\ asked' = asked + 1
  /\ \E dest \in Destination :
       handlers' = [handlers EXCEPT ![h] =
         [step |-> "count", dest |-> dest, now |-> hour, today |-> 0, retried |-> FALSE]]
  /\ UNCHANGED <<otpLog, token, accepted>>

CountToday(h) ==
  /\ handlers[h].step = "count"
  /\ LET r == handlers[h]
     IN handlers' = [handlers EXCEPT
          ![h].step = "check",
          ![h].today = IF r.dest \in Phone THEN countForChannelSince(startOfUtcDay(r.now)) ELSE 0]
  /\ UNCHANGED <<otpLog, token, asked, accepted>>

CheckLimits(h) ==
  /\ handlers[h].step = "check"
  /\ LET r == handlers[h]
     IN IF refusalFor(r.dest, countForDestinationSince(r.dest, oneHourBefore(r.now)), r.today)
        THEN Answered(h) ELSE Dispatch(h, "record")
  /\ UNCHANGED <<otpLog, token, asked, accepted>>

\* The dispatch is recorded before the provider is called.
RecordDispatch(h) ==
  /\ handlers[h].step = "record"
  /\ LET r == handlers[h]
     IN /\ otpLog' = [otpLog EXCEPT ![r.dest][r.now] = @ + 1]
        /\ Dispatch(h, IF r.dest \in Phone THEN "token" ELSE "mail")
  /\ UNCHANGED <<token, asked, accepted>>

accessToken(h) ==
  /\ handlers[h].step = "token"
  /\ \/ token > hour /\ Dispatch(h, "post") /\ UNCHANGED token
     \/ token <= hour /\ token' = hour + TokenLength /\ Dispatch(h, "post")
     \/ token <= hour /\ Answered(h) /\ UNCHANGED token
  /\ UNCHANGED <<otpLog, asked, accepted>>

Take(r, copies) == accepted' = [accepted EXCEPT ![r.dest][r.now] = @ + copies]

\* 201; a refusal; an answer that is lost, the message taken or not.
PostSms(h) ==
  /\ handlers[h].step = "post"
  /\ Answered(h)
  /\ \E copies \in {0, 1} : Take(handlers[h], copies)
  /\ UNCHANGED <<otpLog, token, asked>>

\* 401: the token is dropped, and the message posted once more.
TokenRefused(h) ==
  /\ handlers[h].step = "post"
  /\ IF handlers[h].retried THEN Answered(h) /\ UNCHANGED token
     ELSE /\ token' = 0
          /\ handlers' = [handlers EXCEPT ![h].step = "token", ![h].retried = TRUE]
  /\ UNCHANGED <<otpLog, asked, accepted>>

\* The client of the mail service tries twice (maxAttempts: 2).
MailAttempts == 2
SendMail(h) ==
  /\ handlers[h].step = "mail"
  /\ Answered(h)
  /\ \E copies \in 0 .. MailAttempts : Take(handlers[h], copies)
  /\ UNCHANGED <<otpLog, token, asked>>

purgeBefore(cutoff) ==
  otpLog' = [d \in Destination |-> [t \in 0 .. MaxHour |-> IF t < cutoff THEN 0 ELSE otpLog[d][t]]]

PurgeOtpDispatches ==
  /\ purgeBefore(hour - RetentionLength)
  /\ UNCHANGED <<handlers, token, asked, accepted>>

\* The server restarts: its requests are lost, and the token it kept.
RestartSender ==
  /\ handlers' = [h \in OtpHandler |-> Idle]
  /\ token' = 0
  /\ UNCHANGED <<otpLog, asked, accepted>>

DispatchNext ==
  \/ \E h \in OtpHandler :
       \/ RequestCode(h) \/ CountToday(h) \/ CheckLimits(h) \/ RecordDispatch(h)
       \/ accessToken(h) \/ PostSms(h) \/ TokenRefused(h) \/ SendMail(h)
  \/ PurgeOtpDispatches \/ RestartSender

\* A request ends within the hour: its calls time out.
HourPasses ==
  /\ hour < MaxHour
  /\ \A h \in OtpHandler : handlers[h] # Idle => handlers[h].now = hour
  /\ hour' = hour + 1

(* Nobody is sent more codes in an hour than the limit, and no more SMS go   *)
(* in a day than theirs, save one for each other request handled at the      *)
(* moment, whatever is refused, lost, retried, restarted or purged.  The     *)
(* mail service may take a message twice.                                    *)
DispatchIsBounded ==
  LET atOnce == Cardinality(OtpHandler) - 1
      most(dest) == (IF dest \in Mailbox THEN MailAttempts ELSE 1) * (MaxPerDestinationPerHour + atOnce)
      within(counts, from, length) ==
        SumFunctionOnSet(counts, {t \in 0 .. MaxHour : t >= from /\ t < from + length})
  IN \A from \in 0 .. hour :
       /\ \A d \in Destination : within(accepted[d], from, HourLength + 1) <= most(d)
       /\ from = startOfUtcDay(from) =>
            SumFunctionOnSet([d \in Phone |-> within(accepted[d], from, DayLength)], Phone)
              <= SmsDailyLimit + atOnce

(* ------------------------------------------------------------------------- *)
(* Accounts *)

isRecentLogin(createdAt, now) == now - createdAt <= RecentLoginAge

\* A code is verified: the account is created at the first one, a session opens.
VerifyCode(dest) ==
  /\ accounts[dest] # 0 \/ created < MaxAccounts
  /\ LET new == accounts[dest] = 0
         id == IF new THEN created + 1 ELSE accounts[dest]
     IN /\ created' = IF new THEN created + 1 ELSE created
        /\ accounts' = [accounts EXCEPT ![dest] = id]
        /\ sessions' = sessions \cup {[account |-> id, createdAt |-> hour]}
  /\ UNCHANGED <<deletion, deleted>>

\* The guard reads the session, the command finds the account of a contact.
canActivate ==
  /\ deletion = Idle
  /\ \E s \in sessions :
       deletion' = [step |-> "user", account |-> s.account, openedAt |-> s.createdAt, askedWith |-> created]
  /\ UNCHANGED <<accounts, sessions, created, deleted>>
findIdByContact(contact) ==
  /\ deletion = Idle /\ accounts[contact] # 0
  /\ \E confirmed \in BOOLEAN :
       deletion' = IF ~confirmed THEN Idle
                   ELSE [step |-> "operator", account |-> accounts[contact], openedAt |-> hour,
                         askedWith |-> created]
  /\ UNCHANGED <<accounts, sessions, created, deleted>>

\* Fault: the sessions outlive the account.
SessionsKept(account) == sessions

\* The sessions go with their account.
SessionsWithout(account) == {s \in sessions : s.account # account}

\* In one transaction: the account is locked, and taken with its sessions.
DeleteUser ==
  /\ deletion # Idle
  /\ LET r == deletion
         found == {d \in Destination : accounts[d] = r.account}
     IN IF found = {} \/ (r.step = "user" /\ ~isRecentLogin(r.openedAt, hour))
        THEN UNCHANGED <<accounts, sessions, deleted>>
        ELSE /\ accounts' = [d \in Destination |-> IF d \in found THEN 0 ELSE accounts[d]]
             /\ sessions' = SessionsWithout(r.account)
             /\ deleted' = deleted \cup
                  {[by |-> r.step, account |-> accounts[d], age |-> hour - r.openedAt,
                    askedWith |-> r.askedWith] : d \in found}
  /\ deletion' = Idle
  /\ UNCHANGED created

AccountsNext ==
  \/ \E d \in Destination : VerifyCode(d) \/ findIdByContact(d)
  \/ canActivate \/ DeleteUser

(* A session opens an account that exists.  An owner deletes an account only *)
(* with a session opened shortly before, and a deletion asked for before a   *)
(* contact signed up again never takes the new account.                      *)
AccountsAreOwned ==
  /\ \A s \in sessions : \E d \in Destination : accounts[d] = s.account
  /\ \A x \in deleted : /\ x.account <= x.askedWith
                        /\ x.by = "user" => x.age <= RecentLoginAge

(* Codes are sent within their limits, accounts are deleted by their owners. *)
SignInIsGuarded == DispatchIsBounded /\ AccountsAreOwned
=============================================================================
