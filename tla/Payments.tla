------------------------------ MODULE Payments ------------------------------
(***************************************************************************)
(* The payment module: Mobile Money payments asked by clients, collected   *)
(* by an outside provider, and concluded by its notifications or by the    *)
(* reconciliation sweep.  Handlers are split at each database statement,   *)
(* provider call and transaction, so they interleave as the server's       *)
(* requests do, on the snapshot of the payment each of them read first.    *)
(***************************************************************************)
EXTENDS Naturals, FiniteSets

CONSTANTS
  PaymentId,      \* identifiers drawn for new payments
  Intent,         \* requests clients send and send again: [user, key, phone]
  Client,         \* handlers of POST /v1/payments running at a time
  Notifier,       \* handlers of POST /v1/webhooks/campay running at a time
  Sweeper,        \* runs of the reconciliation job, which may overlap
  RefusedPhone,   \* phones the provider does not accept
  NoReference,    \* provider_reference IS NULL
  MaxUserAttempts, MaxPhoneAttempts,   \* attempt limits
  InFlightWindow, UserWindow, PhoneWindow, SweepGrace, UnreferencedTtl, PendingTtl,
  BatchSize,      \* RECONCILE_BATCH_SIZE
  LastRequest,    \* bound: clients send nothing from this instant on
  MaxTime,        \* bound on the clock
  MaxFaults       \* bound on crashed handlers and unanswered reads

Worker == Notifier \cup Sweeper
Time == 0 .. MaxTime

ASSUME PaymentsAssumption ==
  /\ \A i \in Intent : {"user", "key", "phone"} \subseteq DOMAIN i
  /\ {MaxUserAttempts, MaxPhoneAttempts, InFlightWindow, UserWindow, PhoneWindow,
      SweepGrace, UnreferencedTtl, PendingTtl, BatchSize, LastRequest, MaxTime,
      MaxFaults} \subseteq Nat
  /\ BatchSize > 0
  /\ Notifier \cap Sweeper = {}
  /\ NoReference \notin PaymentId

VARIABLES
  now,          \* the clock
  payments,     \* table payments
  purchases,    \* table purchases of billing: references granted
  granted,      \* times the offer of each payment was given to its user
  transaction,  \* the provider's own record of the demand of each payment
  owed,         \* payments whose conclusion the provider still has to notify
  request,      \* what each handler of POST /v1/payments is doing
  task,         \* what each handler of a notification or sweep is doing
  faults        \* crashes and unanswered reads so far

vars == <<now, payments, purchases, granted, transaction, owed, request, task, faults>>

Statuses == {"pending", "succeeded", "failed", "expired", "amount_mismatch"}

\* The request of a payment stands for its user, idempotency key and hash, a
\* provider reference for the payment whose demand it is: the external
\* reference that demand carries.
PaymentRow == [status : Statuses, reference : PaymentId \cup {NoReference}, createdAt : Time,
               request : Intent, via : {"none", "webhook", "sweep"}]
Transaction == [status : {"none", "pending", "successful", "failed"}, rightAmount : BOOLEAN]

IdleRequest == [step |-> "idle"]
IdleTask == [step |-> "idle"]
Unread == [status |-> "none", rightAmount |-> TRUE]

Init ==
  /\ now = 0
  /\ payments = [p \in {} |-> 0]
  /\ purchases = {}
  /\ granted = [p \in PaymentId |-> 0]
  /\ transaction = [p \in PaymentId |-> Unread]
  /\ owed = {}
  /\ request = [c \in Client |-> IdleRequest]
  /\ task = [w \in Worker |-> IdleTask]
  /\ faults = 0

-----------------------------------------------------------------------------
(* The payment repository                                                    *)

\* findByIdempotencyKey: unique (user_id, idempotency_key).
WithKeyOf(intent) ==
  {p \in DOMAIN payments : /\ payments[p].request.user = intent.user
                           /\ payments[p].request.key = intent.key}

\* The unique key met by an insert.
NeverConflicts(intent) == FALSE                         \* fault: no unique constraint
Conflicts(intent) == WithKeyOf(intent) # {}

\* requestHash: the offer is fixed, so the phone is what may differ.
SameRequest(a, b) == a.phone = b.phone

\* UPDATE ... SET status WHERE id = p AND status = from.
CompletedAnyway(p, from) == TRUE                        \* fault: no compare-and-set
Completed(p, from) == payments[p].status = from
CompleteUnsigned(p, status, via) ==                     \* fault: confirmed_via not written
  payments' = [payments EXCEPT ![p].status = status]
Complete(p, status, via) ==
  payments' = [payments EXCEPT ![p].status = status, ![p].via = via]

\* attachProviderReference: only where there is none.  The column is unique; no
\* other payment holds the reference, as VerdictIsProviders says.
Attach(p, ref) ==
  payments' = [payments EXCEPT ![p].reference = IF @ = NoReference THEN ref ELSE @]

\* GrantOfferUseCase for reference p: nothing more when already granted.
GrantOffer(p) ==
  /\ purchases' = purchases \cup {p}
  /\ granted' = IF p \in purchases THEN granted ELSE [granted EXCEPT ![p] = @ + 1]

-----------------------------------------------------------------------------
(* InitiatePaymentUseCase                                                    *)

Serving(c, step) == request[c].step = step
Continue(c, next) == request' = [request EXCEPT ![c] = next]
Answer(c) == Continue(c, IdleRequest)

BeginRequest(c, intent) ==
  /\ request[c] = IdleRequest
  /\ now < LastRequest
  /\ Continue(c, [step |-> "find", intent |-> intent])
  /\ UNCHANGED <<now, payments, purchases, granted, transaction, owed, task, faults>>

\* A known key is replayed: the same request, still pending and without a
\* provider reference, is collected again; anything else is answered as it is.
FindExisting(c) ==
  LET intent == request[c].intent
      existing == WithKeyOf(intent)
  IN  /\ Serving(c, "find")
      /\ IF existing = {}
         THEN Continue(c, [step |-> "count", intent |-> intent])
         ELSE \E p \in existing :
                IF /\ SameRequest(payments[p].request, intent)
                   /\ payments[p].status = "pending"
                   /\ payments[p].reference = NoReference
                THEN Continue(c, [step |-> "collect", intent |-> intent, id |-> p])
                ELSE Answer(c)
      /\ UNCHANGED <<now, payments, purchases, granted, transaction, owed, task, faults>>

AttemptsOfUser(user) ==
  {p \in DOMAIN payments : /\ payments[p].request.user = user
                           /\ payments[p].createdAt + UserWindow >= now}
AttemptsOfPhone(phone) ==
  {p \in DOMAIN payments : /\ payments[p].request.phone = phone
                           /\ payments[p].createdAt + PhoneWindow >= now}
InFlight(user) ==
  {p \in DOMAIN payments : /\ payments[p].request.user = user
                           /\ payments[p].status = "pending"
                           /\ payments[p].createdAt + InFlightWindow > now}

CountAttempts(c) ==
  LET intent == request[c].intent
  IN  /\ Serving(c, "count")
      /\ IF \/ InFlight(intent.user) # {}
            \/ Cardinality(AttemptsOfUser(intent.user)) >= MaxUserAttempts
            \/ Cardinality(AttemptsOfPhone(intent.phone)) >= MaxPhoneAttempts
         THEN Answer(c)
         ELSE Continue(c, [step |-> "insert", intent |-> intent, at |-> now])
      /\ UNCHANGED <<now, payments, purchases, granted, transaction, owed, task, faults>>

\* ON CONFLICT (user_id, idempotency_key) DO NOTHING: the first one stands
\* and the second answers it without collecting.
InsertPayment(c, p) ==
  LET intent == request[c].intent
  IN  /\ Serving(c, "insert")
      /\ IF ~Conflicts(intent)
         THEN /\ p \notin DOMAIN payments
              /\ payments' = [q \in DOMAIN payments \cup {p} |->
                   IF q = p
                   THEN [status |-> "pending", reference |-> NoReference,
                         createdAt |-> request[c].at, request |-> intent, via |-> "none"]
                   ELSE payments[q]]
              /\ Continue(c, [step |-> "collect", intent |-> intent, id |-> p])
         ELSE /\ Answer(c)
              /\ UNCHANGED payments
      /\ UNCHANGED <<now, purchases, granted, transaction, owed, task, faults>>

\* The provider takes the demand, or finds the one it already has under the
\* same external reference; its answer may be lost.
Collect(c, answered) ==
  LET p == request[c].id
  IN  /\ Serving(c, "collect")
      /\ request[c].intent.phone \notin RefusedPhone
      /\ transaction' = IF transaction[p].status = "none"
                        THEN [transaction EXCEPT ![p].status = "pending"]
                        ELSE transaction
      /\ IF answered THEN Continue(c, [request[c] EXCEPT !.step = "attach"]) ELSE Answer(c)
      /\ UNCHANGED <<now, payments, purchases, granted, owed, task, faults>>

\* The demand never reaches the provider: the payment stays pending.
CollectUnavailable(c) ==
  /\ Serving(c, "collect")
  /\ Answer(c)
  /\ UNCHANGED <<now, payments, purchases, granted, transaction, owed, task, faults>>

CollectRefused(c) ==
  /\ Serving(c, "collect")
  /\ request[c].intent.phone \in RefusedPhone
  /\ Continue(c, [request[c] EXCEPT !.step = "refuse"])
  /\ UNCHANGED <<now, payments, purchases, granted, transaction, owed, task, faults>>

AttachReference(c) ==
  /\ Serving(c, "attach")
  /\ Attach(request[c].id, request[c].id)
  /\ Answer(c)
  /\ UNCHANGED <<now, purchases, granted, transaction, owed, task, faults>>

RefusePhone(c) ==
  /\ Serving(c, "refuse")
  /\ IF Completed(request[c].id, "pending")
     THEN Complete(request[c].id, "failed", "none")
     ELSE UNCHANGED payments
  /\ Answer(c)
  /\ UNCHANGED <<now, purchases, granted, transaction, owed, task, faults>>

-----------------------------------------------------------------------------
(* PaymentSettler, shared by the notification and the sweep.  A task works   *)
(* on `snap`, the payment as it was read when the task began.                *)

Doing(w, step) == task[w].step = step
Proceed(w, next) == task' = [task EXCEPT ![w] = next]

Snapshot(p) == [status |-> payments[p].status, reference |-> payments[p].reference,
                createdAt |-> payments[p].createdAt]

\* HandlePaymentNotificationUseCase: a notification names a transaction of the
\* provider and one of our references; its signature binds neither.  Of the
\* payments, the one that holds the transaction comes first.
Designated(ref, ext) ==
  LET holders == {p \in DOMAIN payments : payments[p].reference = ref}
  IN  IF holders # {} THEN holders ELSE {ext} \cap DOMAIN payments

BeginNotification(w, ref, ext) ==
  /\ task[w] = IdleTask
  /\ transaction[ref].status # "none"
  /\ \E p \in Designated(ref, ext) :
       Proceed(w, [step |-> "read", via |-> "webhook", id |-> p, ref |-> ref,
                   snap |-> Snapshot(p), read |-> Unread, todo |-> [q \in {} |-> Snapshot(q)]])
  /\ UNCHANGED <<now, payments, purchases, granted, transaction, owed, request, faults>>

\* listPendingCreatedBefore: the BatchSize oldest pending payments past the
\* grace left to the notification.
DueReferenced == {p \in DOMAIN payments :               \* fault: unreferenced are left out
                    /\ payments[p].status = "pending" /\ payments[p].reference # NoReference
                    /\ payments[p].createdAt + SweepGrace < now}
Due == {p \in DOMAIN payments : /\ payments[p].status = "pending"
                                /\ payments[p].createdAt + SweepGrace < now}
Oldest(batch, ps) ==
  /\ batch \subseteq ps
  /\ Cardinality(batch) = IF Cardinality(ps) <= BatchSize THEN Cardinality(ps) ELSE BatchSize
  /\ \A p \in batch, q \in ps \ batch : payments[p].createdAt <= payments[q].createdAt

\* The next payment of the batch, oldest first.  Without a reference there is
\* nothing to read: it can only wait or expire.
IsNext(todo, p) ==
  /\ p \in DOMAIN todo
  /\ \A q \in DOMAIN todo : todo[p].createdAt <= todo[q].createdAt
Examine(w, todo) ==
  IF DOMAIN todo = {}
  THEN Proceed(w, IdleTask)
  ELSE \E p \in DOMAIN todo :
         /\ IsNext(todo, p)
         /\ Proceed(w, [step |-> IF todo[p].reference = NoReference THEN "expire" ELSE "read",
                        via |-> "sweep", id |-> p, ref |-> todo[p].reference,
                        snap |-> todo[p], read |-> Unread,
                        todo |-> [q \in DOMAIN todo \ {p} |-> todo[q]]])

BeginSweep(w) ==
  /\ task[w] = IdleTask
  /\ Due # {}
  /\ \E batch \in SUBSET Due :
       /\ Oldest(batch, Due)
       /\ Examine(w, [p \in batch |-> Snapshot(p)])
  /\ UNCHANGED <<now, payments, purchases, granted, transaction, owed, request, faults>>

Done(w) == IF task[w].via = "sweep" THEN Examine(w, task[w].todo) ELSE Proceed(w, IdleTask)

\* Whatever came of it, a notification is answered 200 and the provider, if it
\* was its own, does not send it again.
Answered(w) ==
  owed' = IF /\ task[w].via = "webhook" /\ task[w].ref = task[w].id
             /\ task[w].read.status \in {"successful", "failed"}
          THEN owed \ {task[w].id}
          ELSE owed
Settled(w) == Done(w) /\ Answered(w)

\* getTransaction.  A payment without a reference receives it after this.
ReadTransaction(w) ==
  /\ Doing(w, "read")
  /\ Proceed(w, [task[w] EXCEPT !.step = IF task[w].snap.reference = NoReference THEN "attach" ELSE "apply",
                                !.read = transaction[task[w].ref]])
  /\ UNCHANGED <<now, payments, purchases, granted, transaction, owed, request, faults>>

\* The provider cannot be reached: 503 for a notification, next payment for a sweep.
ReadUnavailable(w) ==
  /\ Doing(w, "read")
  /\ faults < MaxFaults
  /\ faults' = faults + 1
  /\ Done(w)
  /\ UNCHANGED <<now, payments, purchases, granted, transaction, owed, request>>

VerdictOnPending(snap, read) ==                         \* fault: expired is concluded
  IF snap.status # "pending" THEN "none"
  ELSE CASE read.status = "successful" -> IF read.rightAmount THEN "succeed" ELSE "flag"
         [] read.status = "failed" -> "fail"
         [] OTHER -> "wait"
VerdictOnStatus(snap, read) ==                          \* fault: the amount is not compared
  IF read.status = "successful" THEN "succeed" ELSE VerdictOnPending(snap, read)
Verdict(snap, read) ==
  CASE read.status = "pending" /\ snap.status = "pending" -> "wait"
    [] read.status = "successful" /\ snap.status \in {"pending", "expired"} ->
         IF read.rightAmount THEN "succeed" ELSE "flag"
    [] read.status = "successful" /\ snap.status = "failed" -> "anomaly"
    [] read.status = "failed" /\ snap.status = "pending" -> "fail"
    [] read.status = "failed" /\ snap.status = "succeeded" -> "anomaly"
    [] OTHER -> "none"

\* settlementFor, decided on the snapshot: a transaction that carries another
\* external reference says nothing of this payment.
DecisionOfAnyone(t) == Verdict(t.snap, t.read)          \* fault: references not compared
Decision(t) == IF t.ref # t.id THEN "anomaly" ELSE Verdict(t.snap, t.read)

\* After an anomaly the payment is left without the reference.
AttachRead(w) ==
  /\ Doing(w, "attach")
  /\ IF Decision(task[w]) = "anomaly" THEN UNCHANGED payments ELSE Attach(task[w].id, task[w].ref)
  /\ Proceed(w, [task[w] EXCEPT !.step = "apply"])
  /\ UNCHANGED <<now, purchases, granted, transaction, owed, request, faults>>

\* The transition of the payment and the grant of its offer are one transaction.
Succeed(w) ==
  LET p == task[w].id
  IN  /\ Doing(w, "apply")
      /\ Decision(task[w]) = "succeed"
      /\ IF Completed(p, task[w].snap.status)
         THEN Complete(p, "succeeded", task[w].via) /\ GrantOffer(p)
         ELSE UNCHANGED <<payments, purchases, granted>>
      /\ Settled(w)
      /\ UNCHANGED <<now, transaction, request, faults>>

Conclude(w, decision, from, status) ==
  LET p == task[w].id
  IN  /\ Doing(w, "apply")
      /\ Decision(task[w]) = decision
      /\ IF Completed(p, from) THEN Complete(p, status, task[w].via) ELSE UNCHANGED payments
      /\ Settled(w)
      /\ UNCHANGED <<now, purchases, granted, transaction, request, faults>>

Fail(w) == Conclude(w, "fail", "pending", "failed")
FlagAmount(w) == Conclude(w, "flag", task[w].snap.status, "amount_mismatch")

\* Nothing to apply.  A sweep goes on to the expiry of what still waits.
Wait(w) ==
  /\ Doing(w, "apply")
  /\ Decision(task[w]) \in {"wait", "none", "anomaly"}
  /\ IF task[w].via = "sweep" /\ Decision(task[w]) = "wait"
     THEN Proceed(w, [task[w] EXCEPT !.step = "expire"]) /\ UNCHANGED owed
     ELSE Settled(w)
  /\ UNCHANGED <<now, payments, purchases, granted, transaction, request, faults>>

ExpiresAtOnce(snap) == TRUE                             \* fault: no delay for the customer
IsExpiryDue(snap) ==
  now >= snap.createdAt + (IF snap.reference = NoReference THEN UnreferencedTtl ELSE PendingTtl)

Expire(w) ==
  LET p == task[w].id
  IN  /\ Doing(w, "expire")
      /\ IF IsExpiryDue(task[w].snap) /\ Completed(p, "pending")
         THEN Complete(p, "expired", "none")
         ELSE UNCHANGED payments
      /\ Done(w)
      /\ UNCHANGED <<now, purchases, granted, transaction, owed, request, faults>>

-----------------------------------------------------------------------------
(* The provider, the clock and the crashes                                   *)

\* External: the customer confirms, for the asked amount or not, or declines,
\* and the provider has a notification to send.
ProviderConcludes(p) ==
  /\ transaction[p].status = "pending"
  /\ \E outcome \in [status : {"successful", "failed"}, rightAmount : BOOLEAN] :
       transaction' = [transaction EXCEPT ![p] = outcome]
  /\ owed' = owed \cup {p}
  /\ UNCHANGED <<now, payments, purchases, granted, request, task, faults>>

\* Before LastRequest the clock waits for the requests that have not read it.
Tick ==
  /\ now < MaxTime
  /\ now + 1 >= LastRequest => \A c \in Client : request[c].step \notin {"find", "count"}
  /\ now' = now + 1
  /\ UNCHANGED <<payments, purchases, granted, transaction, owed, request, task, faults>>

\* A restart, a database error or a timeout ends a handler between two steps:
\* its transaction in course is rolled back, what was committed stays.
RequestDies(c) ==
  /\ request[c] # IdleRequest
  /\ faults < MaxFaults
  /\ faults' = faults + 1
  /\ Answer(c)
  /\ UNCHANGED <<now, payments, purchases, granted, transaction, owed, task>>

TaskDies(w) ==
  /\ task[w] # IdleTask
  /\ faults < MaxFaults
  /\ faults' = faults + 1
  /\ Proceed(w, IdleTask)
  /\ UNCHANGED <<now, payments, purchases, granted, transaction, owed, request>>

-----------------------------------------------------------------------------

RequestStep(c) ==
  \/ FindExisting(c) \/ CountAttempts(c) \/ (\E p \in PaymentId : InsertPayment(c, p))
  \/ (\E answered \in BOOLEAN : Collect(c, answered))
  \/ CollectUnavailable(c) \/ CollectRefused(c) \/ AttachReference(c) \/ RefusePhone(c)

TaskStep(w) ==
  ReadTransaction(w) \/ AttachRead(w) \/ Succeed(w) \/ Fail(w) \/ FlagAmount(w) \/ Wait(w) \/ Expire(w)

Next ==
  \/ \E c \in Client, intent \in Intent : BeginRequest(c, intent)
  \/ \E c \in Client : RequestStep(c) \/ RequestDies(c)
  \/ \E w \in Notifier, ref, ext \in PaymentId : BeginNotification(w, ref, ext)
  \/ \E w \in Sweeper : BeginSweep(w)
  \/ \E w \in Worker : TaskStep(w) \/ ReadUnavailable(w) \/ TaskDies(w)
  \/ \E p \in PaymentId : ProviderConcludes(p)
  \/ Tick

Spec == Init /\ [][Next]_vars

(* Time passes, the server runs what it has begun and the job on its         *)
(* schedule.  The provider sends what it has to notify until it gets a 200,  *)
(* and no longer: nothing makes it repeat what was answered.                 *)
ServerFairness ==
  /\ SF_vars(Tick)
  /\ \A c \in Client : WF_vars(RequestStep(c))
  /\ \A w \in Worker : WF_vars(TaskStep(w))
  /\ \A w \in Sweeper : WF_vars(BeginSweep(w))

Notify(p) == p \in owed /\ \E w \in Notifier : BeginNotification(w, p, p)
NotificationFairness == \A p \in PaymentId : SF_vars(Notify(p))

FairSpec == Spec /\ ServerFairness /\ NotificationFairness

-----------------------------------------------------------------------------
(* Properties *)

Status(p) == IF p \in DOMAIN payments THEN payments[p].status ELSE "absent"

TypeOK ==
  /\ now \in Time
  /\ DOMAIN payments \subseteq PaymentId
  /\ \A p \in DOMAIN payments :
       /\ payments[p] \in PaymentRow
       /\ payments[p].status = "pending" => payments[p].via = "none"
       /\ payments[p].status \in {"succeeded", "amount_mismatch"} => payments[p].via # "none"
  /\ purchases \subseteq PaymentId
  /\ granted \in [PaymentId -> Nat]
  /\ transaction \in [PaymentId -> Transaction]
  /\ owed \subseteq PaymentId
  /\ faults \in Nat

(* A payment is succeeded exactly when its offer was given, and then once:   *)
(* whatever notifications and sweeps conclude it at the same time, on stale  *)
(* snapshots, and wherever one of them dies (ADR-0021, 6 and 7).             *)
OfferGrantedOnce ==
  \A p \in PaymentId :
    /\ granted[p] = IF Status(p) = "succeeded" THEN 1 ELSE 0
    /\ p \in purchases <=> Status(p) = "succeeded"

(* What a payment was concluded as is what the provider says of its own      *)
(* demand, whatever transaction a notification names: no offer without the   *)
(* exact amount, no failure of a customer who was debited, and no reference  *)
(* of another payment's transaction (ADR-0021, 3 and 4).                     *)
VerdictIsProviders ==
  \A p \in DOMAIN payments :
    /\ payments[p].status = "succeeded" => /\ transaction[p].status = "successful"
                                           /\ transaction[p].rightAmount
    /\ payments[p].status = "amount_mismatch" => /\ transaction[p].status = "successful"
                                                 /\ ~transaction[p].rightAmount
    /\ payments[p].status = "failed" => transaction[p].status \in {"none", "failed"}
    /\ payments[p].reference \in {NoReference, p}

(* A phone rings once per idempotency key: however often the client sends    *)
(* its request again, at the same time or after a lost answer, at most one   *)
(* demand of that key ever exists at the provider (ADR-0021, 7 and 8).       *)
OneDemandPerKey ==
  \A p \in DOMAIN payments, q \in DOMAIN payments :
    /\ p # q
    /\ transaction[p].status # "none" /\ transaction[q].status # "none"
    => \/ payments[p].request.user # payments[q].request.user
       \/ payments[p].request.key # payments[q].request.key

(* The states a payment goes through: a conclusion is never reopened, but    *)
(* for a payment given up by the sweep, which the provider may conclude, for *)
(* the right amount or not.  (The second differs from payment-status.vo.ts:  *)
(* 5-6 and ADR-0021, 5, which have expired -> succeeded only; the code flags *)
(* a wrong amount after the expiry too, settlement.ts:56-60.)                *)
Follows(before, after) ==
  \/ after = before
  \/ before = "absent" /\ after = "pending"
  \/ before = "pending"
  \/ before = "expired" /\ after \in {"succeeded", "amount_mismatch"}

Lifecycle == [][\A p \in PaymentId : Follows(Status(p), Status(p)')]_vars

(* A payment is given up only after PendingTtl (24 h), however old the       *)
(* snapshot of the sweep and whichever handler wrote in between; or after    *)
(* UnreferencedTtl (15 min) by a sweep that read it without a reference.     *)
(* (ADR-0021, 9 has the 24 h for every payment with a reference; the UPDATE  *)
(* of the sweep looks at the status alone, so a reference attached after the *)
(* reading does not win them, reconcile-pending-payments.use-case.ts:73.)    *)
ReadWithoutReference(p) ==
  \E w \in Worker : /\ task[w].step = "expire" /\ task[w].id = p
                    /\ task[w].snap.reference = NoReference
ExpiryIsPatient ==
  [][ \A p \in DOMAIN payments :
        payments[p].status = "pending" /\ payments'[p].status = "expired" =>
          \/ now >= payments[p].createdAt + PendingTtl
          \/ /\ now >= payments[p].createdAt + UnreferencedTtl
             /\ ReadWithoutReference(p) ]_vars

(* No payment stays pending for ever: the sweep concludes it or gives it up, *)
(* even when crashes and an unreachable provider cost it some of its runs.   *)
PendingEnds ==
  \A p \in PaymentId : Status(p) = "pending" ~> Status(p) \notin {"pending", "absent"}

(* "Le client a été débité, il doit recevoir son offre" (ADR-0021, 5), even  *)
(* when the payment was given up before.  It is not so: a notification that  *)
(* is being handled while the sweep gives the payment up finds another       *)
(* status at its write, is answered 200 as raced (payment-settler.service    *)
(* .ts:171), and nothing reads the payment again.                            *)
Debited(p) == transaction[p].status = "successful" /\ transaction[p].rightAmount
DebitedIsServed == \A p \in PaymentId : Debited(p) ~> Status(p) = "succeeded"

(* That race is the only one: a debited customer gets the offer, through     *)
(* crashes, lost answers and an unreachable provider, unless the sweep gives *)
(* the payment up while its notification is being handled.                   *)
Overtaken(p) ==
  /\ Debited(p) /\ Status(p) = "expired"
  /\ \E w \in Notifier : /\ task[w].step # "idle" /\ task[w].id = p /\ task[w].ref = p
                         /\ task[w].snap.status = "pending"
ServedUnlessOvertaken ==
  \A p \in PaymentId : <>Debited(p) => <>(Status(p) = "succeeded" \/ Overtaken(p))
=============================================================================
