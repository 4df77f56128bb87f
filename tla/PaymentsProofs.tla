---------------------------- MODULE PaymentsProofs ----------------------------
(***************************************************************************)
(* Whatever the number of clients, notifications and sweeps at work, the   *)
(* delays, the limits and the faults, a payment is granted once, concluded *)
(* as the provider says, and asked of the provider once per key.           *)
(***************************************************************************)
EXTENDS Payments, TLAPS

(* What the handlers keep between two of their steps.                       *)
Reference == PaymentId \cup {NoReference}
Snap == [status : Statuses, reference : Reference, createdAt : Time]
Batch == UNION {[D -> Snap] : D \in SUBSET PaymentId}
Via == {"none", "webhook", "sweep"}

Finding == [step : {"find", "count"}, intent : Intent]
Inserting == [step : {"insert"}, intent : Intent, at : Time]
Collecting == [step : {"collect", "attach", "refuse"}, intent : Intent, id : PaymentId]
Working == [step : {"read", "attach", "apply", "expire"}, via : {"webhook", "sweep"},
            id : PaymentId, ref : Reference, snap : Snap, read : Transaction, todo : Batch]

HandlersTypeOK ==
  /\ request \in [Client -> {IdleRequest} \cup Finding \cup Inserting \cup Collecting]
  /\ task \in [Worker -> {IdleTask} \cup Working]

\* A handler of a request collects a payment of the phone it was sent for.
RequestsKnow ==
  \A c \in Client : request[c] \in Collecting =>
    /\ request[c].id \in DOMAIN payments
    /\ payments[request[c].id].request.phone = request[c].intent.phone
    /\ request[c].step = "refuse" => request[c].intent.phone \in RefusedPhone

\* However stale its snapshot, a task knows when the payment was created, and
\* a conclusion it has read, of whichever transaction, is final.
SnapshotHolds(p, snap) == p \in DOMAIN payments /\ snap.createdAt = payments[p].createdAt

TasksKnow ==
  \A w \in Worker : task[w] \in Working =>
    /\ SnapshotHolds(task[w].id, task[w].snap)
    /\ \A q \in DOMAIN task[w].todo : SnapshotHolds(q, task[w].todo[q])
    /\ task[w].step # "expire" =>
         /\ task[w].ref \in PaymentId
         /\ task[w].read.status \in {"successful", "failed"} => transaction[task[w].ref] = task[w].read

\* The provider only has demands of recorded payments, of phones it accepts.
DemandsAreRecorded ==
  \A p \in PaymentId : transaction[p].status # "none" =>
    /\ p \in DOMAIN payments
    /\ payments[p].request.phone \notin RefusedPhone

VerdictsAreFinal ==
  \A p \in DOMAIN payments :
    /\ payments[p].status = "succeeded" => /\ transaction[p].status = "successful"
                                           /\ transaction[p].rightAmount
    /\ payments[p].status = "amount_mismatch" => /\ transaction[p].status = "successful"
                                                 /\ ~transaction[p].rightAmount
    /\ payments[p].status = "failed" => \/ transaction[p].status = "failed"
                                        \/ payments[p].request.phone \in RefusedPhone
    /\ payments[p].reference \in {NoReference, p}

\* unique (user_id, idempotency_key)
KeysAreUnique ==
  \A p \in DOMAIN payments, q \in DOMAIN payments :
    p # q => \/ payments[p].request.user # payments[q].request.user
             \/ payments[p].request.key # payments[q].request.key

IInv ==
  /\ TypeOK
  /\ HandlersTypeOK
  /\ RequestsKnow
  /\ TasksKnow
  /\ DemandsAreRecorded
  /\ VerdictsAreFinal
  /\ KeysAreUnique
  /\ OfferGrantedOnce

-----------------------------------------------------------------------------
(* What the statements of the repository do to the table.                    *)

\* The row of a payment after an UPDATE of its status or of its reference.
SameDemand(after, before) ==
  /\ after \in PaymentRow
  /\ after.request = before.request
  /\ after.createdAt = before.createdAt

LEMMA CompleteEffect ==
  ASSUME TypeOK, NEW p \in DOMAIN payments, NEW s \in Statuses, NEW v \in Via,
         Complete(p, s, v)
  PROVE  /\ DOMAIN payments' = DOMAIN payments
         /\ SameDemand(payments'[p], payments[p])
         /\ payments'[p].status = s /\ payments'[p].via = v
         /\ payments'[p].reference = payments[p].reference
         /\ \A q \in DOMAIN payments : q # p => payments'[q] = payments[q]
<1>1. payments[p] \in PaymentRow
  BY DEF TypeOK
<1> DEFINE concluded == [[payments[p] EXCEPT !.status = s] EXCEPT !.via = v]
<1>2. payments'[p] = concluded
  BY DEF Complete
<1>3. /\ SameDemand(concluded, payments[p]) /\ concluded.status = s /\ concluded.via = v
      /\ concluded.reference = payments[p].reference
  BY <1>1 DEF PaymentRow, SameDemand, Via
<1> HIDE DEF concluded
<1>4. /\ SameDemand(payments'[p], payments[p]) /\ payments'[p].status = s /\ payments'[p].via = v
      /\ payments'[p].reference = payments[p].reference
  BY <1>2, <1>3
<1> QED
  BY <1>4 DEF Complete

LEMMA AttachEffect ==
  ASSUME TypeOK, NEW p \in DOMAIN payments, NEW ref \in PaymentId, Attach(p, ref)
  PROVE  /\ DOMAIN payments' = DOMAIN payments
         /\ SameDemand(payments'[p], payments[p])
         /\ payments'[p].status = payments[p].status /\ payments'[p].via = payments[p].via
         /\ payments'[p].reference \in {payments[p].reference, ref}
         /\ \A q \in DOMAIN payments : q # p => payments'[q] = payments[q]
<1>1. payments[p] \in PaymentRow
  BY DEF TypeOK
<1> DEFINE held == IF payments[p].reference = NoReference THEN ref ELSE payments[p].reference
           attached == [payments[p] EXCEPT !.reference = held]
<1>2. payments'[p] = attached
  BY DEF Attach
<1>3. /\ SameDemand(attached, payments[p])
      /\ attached.status = payments[p].status /\ attached.via = payments[p].via
      /\ attached.reference = held
  BY <1>1 DEF PaymentRow, SameDemand
<1> HIDE DEF attached
<1>4. /\ SameDemand(payments'[p], payments[p])
      /\ payments'[p].status = payments[p].status /\ payments'[p].via = payments[p].via
      /\ payments'[p].reference = held
  BY <1>2, <1>3
<1> QED
  BY <1>4 DEF Attach

\* settlementFor answers a conclusion only from a conclusion of the provider,
\* of the demand of the payment itself.
LEMMA DecisionReads ==
  ASSUME NEW t, t.read \in Transaction
  PROVE  /\ Decision(t) # "anomaly" => t.ref = t.id
         /\ Decision(t) = "succeed" => /\ t.ref = t.id
                                       /\ t.read.status = "successful" /\ t.read.rightAmount
                                       /\ t.snap.status \in {"pending", "expired"}
         /\ Decision(t) = "flag" => /\ t.ref = t.id
                                    /\ t.read.status = "successful" /\ ~t.read.rightAmount
                                    /\ t.snap.status \in {"pending", "expired"}
         /\ Decision(t) = "fail" => /\ t.ref = t.id
                                    /\ t.read.status = "failed" /\ t.snap.status = "pending"
<1>1. CASE t.ref # t.id
  BY <1>1 DEF Decision
<1>2. CASE t.ref = t.id
  <2>1. Decision(t) = Verdict(t.snap, t.read)
    BY <1>2 DEF Decision
  <2> DEFINE snap == t.snap
             read == t.read
  <2>2. /\ Verdict(snap, read) = "succeed" => /\ read.status = "successful" /\ read.rightAmount
                                              /\ snap.status \in {"pending", "expired"}
        /\ Verdict(snap, read) = "flag" => /\ read.status = "successful" /\ ~read.rightAmount
                                           /\ snap.status \in {"pending", "expired"}
        /\ Verdict(snap, read) = "fail" => read.status = "failed" /\ snap.status = "pending"
    BY DEF Verdict, Transaction
  <2> QED
    BY <1>2, <2>1, <2>2
<1> QED
  BY <1>1, <1>2

(* The steps, as the tables see them: no row moves, one gets its reference,  *)
(* one is inserted, one is concluded with its grant or without.              *)
Unmoved == UNCHANGED <<payments, purchases, granted>>

Referenced ==
  /\ \E p \in DOMAIN payments : Attach(p, p)
  /\ UNCHANGED <<purchases, granted, transaction>>

Inserted ==
  /\ \E p \in PaymentId, intent \in Intent, at \in Time :
       /\ p \notin DOMAIN payments
       /\ WithKeyOf(intent) = {}
       /\ payments' = [q \in DOMAIN payments \cup {p} |->
            IF q = p THEN [status |-> "pending", reference |-> NoReference, createdAt |-> at,
                           request |-> intent, via |-> "none"]
                     ELSE payments[q]]
  /\ UNCHANGED <<purchases, granted, transaction>>

Served ==
  /\ \E p \in DOMAIN payments, v \in {"webhook", "sweep"} :
       /\ payments[p].status \in {"pending", "expired"}
       /\ transaction[p].status = "successful" /\ transaction[p].rightAmount
       /\ Complete(p, "succeeded", v)
       /\ GrantOffer(p)
  /\ UNCHANGED transaction

Flags(p, s, v) == /\ s = "amount_mismatch" /\ v # "none"
                  /\ payments[p].status \in {"pending", "expired"}
                  /\ transaction[p].status = "successful" /\ ~transaction[p].rightAmount
Fails(p, s, v) == /\ s = "failed"
                  /\ payments[p].status = "pending"
                  /\ \/ transaction[p].status = "failed"
                     \/ payments[p].request.phone \in RefusedPhone
GivesUp(p, s, v) == /\ s = "expired"
                    /\ payments[p].status = "pending"
                    /\ \/ now >= payments[p].createdAt + PendingTtl
                       \/ /\ now >= payments[p].createdAt + UnreferencedTtl
                          /\ ReadWithoutReference(p)

Concluded ==
  /\ \E p \in DOMAIN payments, s \in Statuses, v \in Via :
       /\ Flags(p, s, v) \/ Fails(p, s, v) \/ GivesUp(p, s, v)
       /\ Complete(p, s, v)
  /\ UNCHANGED <<purchases, granted, transaction>>

LEMMA RequestTables ==
  ASSUME IInv, NEW c \in Client, RequestStep(c)
  PROVE  Unmoved \/ Referenced \/ Inserted \/ Concluded
<1> USE DEF IInv
<1>1. CASE FindExisting(c) \/ CountAttempts(c) \/ CollectUnavailable(c) \/ CollectRefused(c)
  BY <1>1 DEF FindExisting, CountAttempts, CollectUnavailable, CollectRefused, Unmoved
<1>2. ASSUME NEW p \in PaymentId, InsertPayment(c, p)
      PROVE  Unmoved \/ Inserted
  <2>1. request[c] \in Inserting
    BY <1>2 DEF InsertPayment, Serving, HandlersTypeOK, IdleRequest, Finding, Inserting, Collecting
  <2>2. request[c].intent \in Intent /\ request[c].at \in Time
    BY <2>1 DEF Inserting
  <2>3. CASE Conflicts(request[c].intent)
    BY <1>2, <2>3 DEF InsertPayment, Unmoved
  <2>4. CASE ~Conflicts(request[c].intent)
    BY <1>2, <2>2, <2>4 DEF InsertPayment, Inserted, Conflicts
  <2> QED
    BY <2>3, <2>4
<1>3. ASSUME NEW answered \in BOOLEAN, Collect(c, answered)
      PROVE  Unmoved
  BY <1>3 DEF Collect, Unmoved
<1>4. CASE AttachReference(c)
  <2>1. request[c] \in Collecting
    BY <1>4 DEF AttachReference, Serving, HandlersTypeOK, IdleRequest, Finding, Inserting, Collecting
  <2> QED
    BY <1>4, <2>1 DEF AttachReference, RequestsKnow, Referenced
<1>5. CASE RefusePhone(c)
  <2>1. request[c] \in Collecting /\ request[c].step = "refuse"
    BY <1>5 DEF RefusePhone, Serving, HandlersTypeOK, IdleRequest, Finding, Inserting, Collecting
  <2>2. /\ request[c].id \in DOMAIN payments
        /\ payments[request[c].id].request.phone \in RefusedPhone
    BY <2>1 DEF RequestsKnow
  <2>3. CASE Completed(request[c].id, "pending")
    BY <1>5, <2>2, <2>3 DEF RefusePhone, Completed, Concluded, Fails, Statuses, Via
  <2>4. CASE ~Completed(request[c].id, "pending")
    BY <1>5, <2>4 DEF RefusePhone, Unmoved
  <2> QED
    BY <2>3, <2>4
<1> QED
  BY <1>1, <1>2, <1>3, <1>4, <1>5 DEF RequestStep

LEMMA TaskIsWorking ==
  ASSUME HandlersTypeOK, TasksKnow, NEW w \in Worker, task[w].step # "idle"
  PROVE  /\ task[w] \in Working
         /\ task[w].via \in {"webhook", "sweep"} /\ task[w].read \in Transaction
         /\ task[w].id \in DOMAIN payments
         /\ task[w].snap.createdAt = payments[task[w].id].createdAt
         /\ task[w].step # "expire" =>
              /\ task[w].ref \in PaymentId
              /\ task[w].read.status \in {"successful", "failed"}
                   => transaction[task[w].ref] = task[w].read
<1>1. task[w] \in Working
  BY DEF HandlersTypeOK, IdleTask
<1> QED
  BY <1>1 DEF TasksKnow, SnapshotHolds, Working

LEMMA TaskTables ==
  ASSUME IInv, NEW w \in Worker, TaskStep(w)
  PROVE  Unmoved \/ Referenced \/ Served \/ Concluded
<1> DEFINE p == task[w].id
<1>1. /\ task[w] \in Working
      /\ task[w].via \in {"webhook", "sweep"} /\ task[w].read \in Transaction
      /\ p \in DOMAIN payments
      /\ task[w].snap.createdAt = payments[p].createdAt
      /\ task[w].step # "expire" =>
           /\ task[w].ref \in PaymentId
           /\ task[w].read.status \in {"successful", "failed"} => transaction[task[w].ref] = task[w].read
  <2>1. task[w].step # "idle"
    BY DEF TaskStep, ReadTransaction, AttachRead, Succeed, Fail, FlagAmount, Conclude, Wait, Expire, Doing
  <2> QED
    BY <2>1, TaskIsWorking DEF IInv
<1>2. CASE ReadTransaction(w) \/ Wait(w)
  BY <1>2 DEF ReadTransaction, Wait, Unmoved
<1>3. CASE AttachRead(w)
  <2>1. CASE Decision(task[w]) = "anomaly"
    BY <1>3, <2>1 DEF AttachRead, Unmoved
  <2>2. CASE Decision(task[w]) # "anomaly"
    <3>1. task[w].ref = p
      BY <1>1, <2>2, DecisionReads
    <3> QED
      BY <1>1, <1>3, <2>2, <3>1 DEF AttachRead, Referenced
  <2> QED
    BY <2>1, <2>2
<1>4. CASE Succeed(w)
  <2>1. /\ task[w].snap.status \in {"pending", "expired"}
        /\ transaction[p].status = "successful" /\ transaction[p].rightAmount
    BY <1>1, <1>4, DecisionReads DEF Succeed, Doing
  <2>2. CASE Completed(p, task[w].snap.status)
    BY <1>1, <1>4, <2>1, <2>2 DEF Succeed, Completed, Served
  <2>3. CASE ~Completed(p, task[w].snap.status)
    BY <1>4, <2>3 DEF Succeed, Unmoved
  <2> QED
    BY <2>2, <2>3
<1>5. CASE Fail(w)
  <2>1. transaction[p].status = "failed"
    BY <1>1, <1>5, DecisionReads DEF Fail, Conclude, Doing
  <2>2. CASE Completed(p, "pending")
    BY <1>1, <1>5, <2>1, <2>2 DEF Fail, Conclude, Completed, Concluded, Fails, Statuses, Via
  <2>3. CASE ~Completed(p, "pending")
    BY <1>5, <2>3 DEF Fail, Conclude, Unmoved
  <2> QED
    BY <2>2, <2>3
<1>6. CASE FlagAmount(w)
  <2>1. /\ task[w].snap.status \in {"pending", "expired"}
        /\ transaction[p].status = "successful" /\ ~transaction[p].rightAmount
    BY <1>1, <1>6, DecisionReads DEF FlagAmount, Conclude, Doing
  <2>2. CASE Completed(p, task[w].snap.status)
    BY <1>1, <1>6, <2>1, <2>2 DEF FlagAmount, Conclude, Completed, Concluded, Flags, Statuses, Via
  <2>3. CASE ~Completed(p, task[w].snap.status)
    BY <1>6, <2>3 DEF FlagAmount, Conclude, Unmoved
  <2> QED
    BY <2>2, <2>3
<1>7. CASE Expire(w)
  <2>1. CASE IsExpiryDue(task[w].snap) /\ Completed(p, "pending")
    <3>1. payments[p].createdAt \in Nat /\ now \in Nat
      BY <1>1, PaymentsAssumption DEF IInv, TypeOK, PaymentRow, Time
    <3>2. \/ now >= payments[p].createdAt + PendingTtl
          \/ /\ now >= payments[p].createdAt + UnreferencedTtl
             /\ ReadWithoutReference(p)
      BY <1>1, <1>7, <2>1, <3>1, PaymentsAssumption DEF IsExpiryDue, ReadWithoutReference, Expire, Doing
    <3> QED
      BY <1>1, <1>7, <2>1, <3>2 DEF Expire, Completed, Concluded, GivesUp, Statuses, Via
  <2>2. CASE ~(IsExpiryDue(task[w].snap) /\ Completed(p, "pending"))
    BY <1>7, <2>2 DEF Expire, Unmoved
  <2> QED
    BY <2>1, <2>2
<1> QED
  BY <1>2, <1>3, <1>4, <1>5, <1>6, <1>7 DEF TaskStep

\* What the provider's records do: a demand is taken, or concluded, once.
Demanded ==
  /\ \E p \in DOMAIN payments :
       /\ payments[p].request.phone \notin RefusedPhone
       /\ transaction' = IF transaction[p].status = "none"
                         THEN [transaction EXCEPT ![p].status = "pending"]
                         ELSE transaction
  /\ UNCHANGED <<payments, purchases, granted>>

ConcludedThere ==
  /\ \E p \in PaymentId : /\ transaction[p].status = "pending"
                          /\ \E outcome \in [status : {"successful", "failed"}, rightAmount : BOOLEAN] :
                               transaction' = [transaction EXCEPT ![p] = outcome]
  /\ UNCHANGED <<payments, purchases, granted>>

LEMMA StepTables ==
  ASSUME IInv, [Next]_vars
  PROVE  \/ Unmoved /\ UNCHANGED transaction
         \/ Referenced \/ Inserted \/ Served \/ Concluded \/ Demanded \/ ConcludedThere
<1>1. ASSUME NEW c \in Client, RequestStep(c)
      PROVE  (Unmoved /\ UNCHANGED transaction) \/ Referenced \/ Inserted \/ Concluded \/ Demanded
  <2>1. CASE UNCHANGED transaction
    BY <1>1, <2>1, RequestTables
  <2>2. ASSUME NEW answered \in BOOLEAN, Collect(c, answered)
        PROVE  Demanded
    <3>1. request[c] \in Collecting
      BY <2>2 DEF IInv, Collect, Serving, HandlersTypeOK, IdleRequest, Finding, Inserting, Collecting
    <3>2. /\ request[c].id \in DOMAIN payments
          /\ payments[request[c].id].request.phone = request[c].intent.phone
      BY <3>1 DEF IInv, RequestsKnow
    <3> QED
      BY <2>2, <3>2 DEF Collect, Demanded
  <2>3. (\E answered \in BOOLEAN : Collect(c, answered)) \/ UNCHANGED transaction
    BY <1>1 DEF RequestStep, FindExisting, CountAttempts, InsertPayment, CollectUnavailable,
                CollectRefused, AttachReference, RefusePhone
  <2> QED
    BY <2>1, <2>2, <2>3
<1>2. ASSUME NEW w \in Worker, TaskStep(w)
      PROVE  (Unmoved /\ UNCHANGED transaction) \/ Referenced \/ Served \/ Concluded
  <2>1. UNCHANGED transaction
    BY <1>2 DEF TaskStep, ReadTransaction, AttachRead, Succeed, Fail, FlagAmount, Conclude, Wait, Expire
  <2> QED
    BY <1>2, <2>1, TaskTables
<1>3. ASSUME NEW p \in PaymentId, ProviderConcludes(p)
      PROVE  ConcludedThere
  BY <1>3 DEF ProviderConcludes, ConcludedThere
<1>4. CASE \/ \E c \in Client, intent \in Intent : BeginRequest(c, intent)
           \/ \E c \in Client : RequestDies(c)
           \/ \E w \in Notifier, ref, ext \in PaymentId : BeginNotification(w, ref, ext)
           \/ \E w \in Sweeper : BeginSweep(w)
           \/ \E w \in Worker : ReadUnavailable(w) \/ TaskDies(w)
           \/ Tick
           \/ UNCHANGED vars
  BY <1>4 DEF BeginRequest, RequestDies, BeginNotification, BeginSweep, ReadUnavailable,
              TaskDies, Tick, vars, Unmoved
<1> QED
  BY <1>1, <1>2, <1>3, <1>4 DEF Next

-----------------------------------------------------------------------------
(* What any of these steps keeps.                                            *)

\* No payment disappears, nor changes its request or its date.
LEMMA PaymentsKept ==
  ASSUME IInv, [Next]_vars, NEW p \in DOMAIN payments
  PROVE  p \in DOMAIN payments' /\ SameDemand(payments'[p], payments[p])
<1> USE DEF IInv
<1>1. payments[p] \in PaymentRow
  BY DEF TypeOK
<1>2. SameDemand(payments[p], payments[p])
  BY <1>1 DEF SameDemand
<1>3. CASE Unmoved \/ Demanded \/ ConcludedThere
  BY <1>2, <1>3 DEF Unmoved, Demanded, ConcludedThere
<1>4. CASE Referenced
  <2>1. PICK q \in DOMAIN payments : Attach(q, q)
    BY <1>4 DEF Referenced
  <2>2. q \in PaymentId
    BY DEF TypeOK
  <2> QED
    BY <1>2, <2>1, <2>2, AttachEffect
<1>5. CASE Inserted
  BY <1>2, <1>5 DEF Inserted
<1>6. CASE Served \/ Concluded
  <2> PICK q \in DOMAIN payments, s \in Statuses, v \in Via : Complete(q, s, v)
    BY <1>6 DEF Served, Concluded, Statuses, Via
  <2> QED
    BY <1>2, CompleteEffect
<1> QED
  BY <1>3, <1>4, <1>5, <1>6, StepTables

\* A conclusion of the provider stands.
LEMMA ConclusionsKept ==
  ASSUME IInv, [Next]_vars, NEW p \in PaymentId
  PROVE  /\ transaction[p].status \in {"successful", "failed"} => transaction'[p] = transaction[p]
         /\ transaction'[p] \in Transaction
         /\ transaction'[p].status = "none" => transaction[p].status = "none"
<1>1. transaction \in [PaymentId -> Transaction]
  BY DEF IInv, TypeOK
<1>2. CASE (Unmoved /\ UNCHANGED transaction) \/ Referenced \/ Inserted \/ Served \/ Concluded
  BY <1>1, <1>2 DEF Referenced, Inserted, Served, Concluded
<1>3. CASE Demanded
  <2> PICK q \in DOMAIN payments :
        transaction' = IF transaction[q].status = "none"
                       THEN [transaction EXCEPT ![q].status = "pending"]
                       ELSE transaction
    BY <1>3 DEF Demanded
  <2> QED
    BY <1>1 DEF Transaction
<1>4. CASE ConcludedThere
  BY <1>1, <1>4 DEF ConcludedThere, Transaction
<1> QED
  BY <1>2, <1>3, <1>4, StepTables

-----------------------------------------------------------------------------
(* The tables.                                                               *)

LEMMA InitInvariant == Init => IInv
<1> SUFFICES ASSUME Init PROVE IInv
  OBVIOUS
<1>1. TypeOK
  BY PaymentsAssumption DEF Init, TypeOK, Time, Transaction, Unread
<1>2. HandlersTypeOK /\ RequestsKnow /\ TasksKnow
  BY DEF Init, HandlersTypeOK, RequestsKnow, TasksKnow, IdleRequest, IdleTask, Collecting, Working
<1>3. DemandsAreRecorded /\ VerdictsAreFinal /\ KeysAreUnique
  BY DEF Init, Unread, DemandsAreRecorded, VerdictsAreFinal, KeysAreUnique
<1>4. OfferGrantedOnce
  BY DEF Init, OfferGrantedOnce, Status
<1> QED
  BY <1>1, <1>2, <1>3, <1>4 DEF IInv

LEMMA TypeOKStep ==
  ASSUME IInv, [Next]_vars
  PROVE  TypeOK'
<1> DEFINE RowOK(row) == /\ row \in PaymentRow
                         /\ row.status = "pending" => row.via = "none"
                         /\ row.status \in {"succeeded", "amount_mismatch"} => row.via # "none"
<1>1. DOMAIN payments \subseteq PaymentId /\ \A p \in DOMAIN payments : RowOK(payments[p])
  BY DEF IInv, TypeOK
<1>2. now' \in Time /\ faults' \in Nat
  <2>1. now \in Nat /\ now <= MaxTime /\ faults \in Nat /\ MaxTime \in Nat
    BY PaymentsAssumption DEF IInv, TypeOK, Time
  <2>2. now' = now \/ (now < MaxTime /\ now' = now + 1)
    BY DEF Next, BeginRequest, RequestStep, FindExisting, CountAttempts, InsertPayment, Collect,
           CollectUnavailable, CollectRefused, AttachReference, RefusePhone, RequestDies,
           BeginNotification, BeginSweep, TaskStep, ReadTransaction, AttachRead, Succeed, Fail,
           FlagAmount, Conclude, Wait, Expire, ReadUnavailable, TaskDies, ProviderConcludes, Tick, vars
  <2>3. faults' = faults \/ faults' = faults + 1
    BY DEF Next, BeginRequest, RequestStep, FindExisting, CountAttempts, InsertPayment, Collect,
           CollectUnavailable, CollectRefused, AttachReference, RefusePhone, RequestDies,
           BeginNotification, BeginSweep, TaskStep, ReadTransaction, AttachRead, Succeed, Fail,
           FlagAmount, Conclude, Wait, Expire, ReadUnavailable, TaskDies, ProviderConcludes, Tick, vars
  <2> QED
    BY <2>1, <2>2, <2>3 DEF Time
<1>3. transaction' \in [PaymentId -> Transaction]
  <2>1. DOMAIN transaction' = PaymentId /\ transaction' = [p \in PaymentId |-> transaction'[p]]
    BY StepTables DEF IInv, TypeOK, Referenced, Inserted, Served, Concluded, Demanded, ConcludedThere
  <2> QED
    BY <2>1, ConclusionsKept
<1>4. DOMAIN payments' \subseteq PaymentId /\ \A p \in DOMAIN payments' : RowOK(payments'[p])
  <2>1. CASE Unmoved \/ Demanded \/ ConcludedThere
    BY <1>1, <2>1 DEF Unmoved, Demanded, ConcludedThere
  <2>2. CASE Referenced
    <3> PICK p \in DOMAIN payments : Attach(p, p)
      BY <2>2 DEF Referenced
    <3>1. RowOK(payments'[p])
      BY <1>1, AttachEffect DEF IInv, SameDemand
    <3> QED
      BY <1>1, <3>1, AttachEffect DEF IInv
  <2>3. CASE Inserted
    <3> PICK p \in PaymentId, intent \in Intent, at \in Time :
          payments' = [q \in DOMAIN payments \cup {p} |->
            IF q = p THEN [status |-> "pending", reference |-> NoReference, createdAt |-> at,
                           request |-> intent, via |-> "none"]
                     ELSE payments[q]]
      BY <2>3 DEF Inserted
    <3>1. RowOK(payments'[p])
      BY DEF PaymentRow, Statuses
    <3> QED
      BY <1>1, <3>1
  <2>4. ASSUME NEW p \in DOMAIN payments, NEW s \in Statuses \ {"pending"}, NEW v \in Via,
               s \in {"succeeded", "amount_mismatch"} => v # "none", Complete(p, s, v)
        PROVE  DOMAIN payments' \subseteq PaymentId /\ \A q \in DOMAIN payments' : RowOK(payments'[q])
    <3>1. RowOK(payments'[p])
      BY <2>4, CompleteEffect DEF IInv, SameDemand
    <3> QED
      BY <1>1, <2>4, <3>1, CompleteEffect DEF IInv
  <2>5. CASE Served
    BY <2>4, <2>5 DEF Served, Statuses, Via
  <2>6. CASE Concluded
    BY <2>4, <2>6 DEF Concluded, Flags, Fails, GivesUp
  <2> QED
    BY <2>1, <2>2, <2>3, <2>5, <2>6, StepTables
<1>6. owed' \subseteq PaymentId
  BY DEF IInv, TypeOK, Next, BeginRequest, RequestStep, FindExisting, CountAttempts, InsertPayment, Collect,
         CollectUnavailable, CollectRefused, AttachReference, RefusePhone, RequestDies,
         BeginNotification, BeginSweep, TaskStep, ReadTransaction, AttachRead, Succeed, Fail,
         FlagAmount, Conclude, Wait, Expire, ReadUnavailable, TaskDies, ProviderConcludes, Tick, vars,
         Settled, Answered
<1>5. purchases' \subseteq PaymentId /\ granted' \in [PaymentId -> Nat]
  BY <1>1, StepTables DEF IInv, TypeOK, Unmoved, Referenced, Inserted, Served, GrantOffer,
     Concluded, Demanded, ConcludedThere
<1> QED
  BY <1>2, <1>3, <1>4, <1>5, <1>6 DEF TypeOK

LEMMA DemandsAreRecordedStep ==
  ASSUME IInv, [Next]_vars
  PROVE  DemandsAreRecorded'
<1> USE DEF IInv
<1> SUFFICES ASSUME NEW p \in PaymentId, transaction'[p].status # "none"
             PROVE  p \in DOMAIN payments' /\ payments'[p].request.phone \notin RefusedPhone
  BY DEF DemandsAreRecorded
<1>1. CASE transaction[p].status # "none"
  <2>1. p \in DOMAIN payments /\ payments[p].request.phone \notin RefusedPhone
    BY <1>1 DEF DemandsAreRecorded
  <2> QED
    BY <2>1, PaymentsKept DEF SameDemand
<1>2. CASE transaction[p].status = "none"
  <2>1. Demanded
    BY <1>2, StepTables DEF TypeOK, Unmoved, Referenced, Inserted, Served, Concluded, ConcludedThere
  <2>2. PICK q \in DOMAIN payments :
          /\ payments[q].request.phone \notin RefusedPhone
          /\ transaction' = IF transaction[q].status = "none"
                            THEN [transaction EXCEPT ![q].status = "pending"]
                            ELSE transaction
    BY <2>1 DEF Demanded
  <2>3. p = q
    BY <1>2, <2>2 DEF TypeOK
  <2> QED
    BY <2>2, <2>3, PaymentsKept DEF SameDemand
<1> QED
  BY <1>1, <1>2

LEMMA ReferencesAreOwnStep ==
  ASSUME IInv, [Next]_vars
  PROVE  \A p \in DOMAIN payments' : payments'[p].reference \in {NoReference, p}
<1>1. \A p \in DOMAIN payments : payments[p].reference \in {NoReference, p}
  BY DEF IInv, VerdictsAreFinal
<1>2. CASE Unmoved \/ Demanded \/ ConcludedThere
  BY <1>1, <1>2 DEF Unmoved, Demanded, ConcludedThere
<1>3. CASE Referenced
  <2> PICK q \in DOMAIN payments : Attach(q, q)
    BY <1>3 DEF Referenced
  <2>1. q \in PaymentId
    BY DEF IInv, TypeOK
  <2>2. /\ DOMAIN payments' = DOMAIN payments
        /\ payments'[q].reference \in {payments[q].reference, q}
        /\ \A r \in DOMAIN payments : r # q => payments'[r] = payments[r]
    BY <2>1, AttachEffect DEF IInv
  <2> QED
    BY <1>1, <2>2
<1>4. CASE Inserted
  BY <1>1, <1>4 DEF Inserted
<1>5. CASE Served \/ Concluded
  <2> PICK q \in DOMAIN payments, s \in Statuses, v \in Via : Complete(q, s, v)
    BY <1>5 DEF Served, Concluded, Statuses, Via
  <2>1. /\ DOMAIN payments' = DOMAIN payments
        /\ payments'[q].reference = payments[q].reference
        /\ \A r \in DOMAIN payments : r # q => payments'[r] = payments[r]
    BY CompleteEffect DEF IInv
  <2> QED
    BY <1>1, <2>1
<1> QED
  BY <1>2, <1>3, <1>4, <1>5, StepTables

LEMMA VerdictsAreFinalStep ==
  ASSUME IInv, [Next]_vars
  PROVE  VerdictsAreFinal'
<1> DEFINE Sound(row, record) ==
             /\ row.status = "succeeded" => record.status = "successful" /\ record.rightAmount
             /\ row.status = "amount_mismatch" => record.status = "successful" /\ ~record.rightAmount
             /\ row.status = "failed" => record.status = "failed" \/ row.request.phone \in RefusedPhone
<1> SUFFICES ASSUME NEW p \in DOMAIN payments' PROVE Sound(payments'[p], transaction'[p])
  BY ReferencesAreOwnStep DEF VerdictsAreFinal
<1>1. p \in PaymentId
  BY TypeOKStep DEF TypeOK
<1>2. ASSUME p \in DOMAIN payments, payments'[p].status = payments[p].status
      PROVE  Sound(payments'[p], transaction'[p])
  <2>1. Sound(payments[p], transaction[p])
    BY <1>2 DEF IInv, VerdictsAreFinal
  <2>2. payments'[p].request = payments[p].request
    BY <1>2, PaymentsKept DEF SameDemand
  <2>3. transaction[p].status \in {"successful", "failed"} => transaction'[p] = transaction[p]
    BY <1>1, ConclusionsKept
  <2> QED
    BY <1>2, <2>1, <2>2, <2>3
<1>3. CASE Unmoved \/ Demanded \/ ConcludedThere
  BY <1>2, <1>3 DEF Unmoved, Demanded, ConcludedThere
<1>4. CASE Referenced
  BY <1>2, <1>4, AttachEffect DEF IInv, TypeOK, Referenced
<1>5. CASE Inserted
  <2>1. p \in DOMAIN payments \/ payments'[p].status = "pending"
    BY <1>5 DEF Inserted
  <2>2. p \in DOMAIN payments => payments'[p].status = payments[p].status
    BY <1>5 DEF Inserted
  <2> QED
    BY <1>2, <2>1, <2>2
<1>6. CASE Served
  <2> PICK q \in DOMAIN payments, v \in {"webhook", "sweep"} :
        /\ transaction[q].status = "successful" /\ transaction[q].rightAmount
        /\ Complete(q, "succeeded", v)
    BY <1>6 DEF Served
  <2>1. DOMAIN payments' = DOMAIN payments /\ payments'[q].status = "succeeded"
        /\ \A r \in DOMAIN payments : r # q => payments'[r] = payments[r]
    BY CompleteEffect DEF IInv, Statuses, Via
  <2>2. transaction' = transaction
    BY <1>6 DEF Served
  <2> QED
    BY <1>2, <2>1, <2>2
<1>7. CASE Concluded
  <2> PICK q \in DOMAIN payments, s \in Statuses, v \in Via :
        /\ Flags(q, s, v) \/ Fails(q, s, v) \/ GivesUp(q, s, v)
        /\ Complete(q, s, v)
    BY <1>7 DEF Concluded
  <2>1. /\ DOMAIN payments' = DOMAIN payments /\ payments'[q].status = s
        /\ payments'[q].request = payments[q].request
        /\ \A r \in DOMAIN payments : r # q => payments'[r] = payments[r]
    BY CompleteEffect DEF IInv, SameDemand
  <2>2. transaction' = transaction
    BY <1>7 DEF Concluded
  <2>3. Sound(payments'[q], transaction'[q])
    BY <2>1, <2>2 DEF Flags, Fails, GivesUp
  <2> QED
    BY <1>2, <2>1, <2>3
<1> QED
  BY <1>3, <1>4, <1>5, <1>6, <1>7, StepTables

LEMMA KeysAreUniqueStep ==
  ASSUME IInv, [Next]_vars
  PROVE  KeysAreUnique'
<1>1. CASE DOMAIN payments' = DOMAIN payments
  BY <1>1, PaymentsKept DEF IInv, KeysAreUnique, SameDemand
<1>2. CASE Inserted
  <2> PICK p \in PaymentId, intent \in Intent, at \in Time :
        /\ p \notin DOMAIN payments
        /\ WithKeyOf(intent) = {}
        /\ payments' = [q \in DOMAIN payments \cup {p} |->
             IF q = p THEN [status |-> "pending", reference |-> NoReference, createdAt |-> at,
                            request |-> intent, via |-> "none"]
                      ELSE payments[q]]
    BY <1>2 DEF Inserted
  <2>1. payments'[p].request = intent
    OBVIOUS
  <2>2. \A q \in DOMAIN payments : q # p /\ payments'[q] = payments[q]
    OBVIOUS
  <2>3. \A q \in DOMAIN payments : \/ payments[q].request.user # intent.user
                                   \/ payments[q].request.key # intent.key
    BY DEF WithKeyOf
  <2>4. DOMAIN payments' = DOMAIN payments \cup {p}
    OBVIOUS
  <2> QED
    BY <2>1, <2>2, <2>3, <2>4 DEF IInv, KeysAreUnique
<1>3. DOMAIN payments' = DOMAIN payments \/ Inserted
  <2>1. CASE Unmoved \/ Demanded \/ ConcludedThere
    BY <2>1 DEF Unmoved, Demanded, ConcludedThere
  <2>2. CASE Referenced
    <3>1. PICK q \in DOMAIN payments : Attach(q, q)
      BY <2>2 DEF Referenced
    <3>2. q \in PaymentId /\ TypeOK
      BY DEF IInv, TypeOK
    <3> QED
      BY <3>1, <3>2, AttachEffect
  <2>3. CASE Served \/ Concluded
    <3> PICK q \in DOMAIN payments, s \in Statuses, v \in Via : Complete(q, s, v)
      BY <2>3 DEF Served, Concluded, Statuses, Via
    <3> QED
      BY CompleteEffect DEF IInv
  <2> QED
    BY <2>1, <2>2, <2>3, StepTables
<1> QED
  BY <1>1, <1>2, <1>3

LEMMA OfferGrantedOnceStep ==
  ASSUME IInv, [Next]_vars
  PROVE  OfferGrantedOnce'
<1>1. ASSUME UNCHANGED <<purchases, granted>>,
             NEW p \in PaymentId, (Status(p) = "succeeded") <=> (Status(p)' = "succeeded")
      PROVE  /\ granted'[p] = IF Status(p)' = "succeeded" THEN 1 ELSE 0
             /\ p \in purchases' <=> Status(p)' = "succeeded"
  BY <1>1 DEF IInv, OfferGrantedOnce
<1>2. CASE Unmoved \/ Demanded \/ ConcludedThere
  BY <1>1, <1>2 DEF Unmoved, Demanded, ConcludedThere, Status, OfferGrantedOnce
<1>3. CASE Referenced
  <2>1. \A p \in PaymentId : Status(p)' = Status(p)
    BY <1>3, AttachEffect DEF IInv, TypeOK, Referenced, Status
  <2> QED
    BY <1>1, <1>3, <2>1 DEF Referenced, OfferGrantedOnce
<1>4. CASE Inserted
  <2>1. \A p \in PaymentId : Status(p)' = Status(p)
                             \/ (Status(p) = "absent" /\ Status(p)' = "pending")
    BY <1>4 DEF Inserted, Status
  <2> QED
    BY <1>1, <1>4, <2>1 DEF Inserted, OfferGrantedOnce
<1>5. CASE Served
  <2> PICK q \in DOMAIN payments, v \in {"webhook", "sweep"} :
        /\ payments[q].status \in {"pending", "expired"}
        /\ Complete(q, "succeeded", v)
        /\ GrantOffer(q)
    BY <1>5 DEF Served
  <2>1. q \in PaymentId /\ Status(q) # "succeeded"
    BY DEF IInv, TypeOK, Status
  <2>2. q \notin purchases /\ granted[q] = 0
    BY <2>1 DEF IInv, OfferGrantedOnce
  <2>3. purchases' = purchases \cup {q} /\ granted' = [granted EXCEPT ![q] = 1]
    BY <2>2 DEF GrantOffer
  <2>4. Status(q)' = "succeeded" /\ \A p \in PaymentId : p # q => Status(p)' = Status(p)
    BY CompleteEffect DEF IInv, Status, Statuses, Via
  <2>5. granted'[q] = 1 /\ \A p \in PaymentId : p # q => granted'[p] = granted[p]
    BY <2>1, <2>3 DEF IInv, TypeOK
  <2> QED
    BY <2>3, <2>4, <2>5 DEF IInv, OfferGrantedOnce
<1>6. CASE Concluded
  <2> PICK q \in DOMAIN payments, s \in Statuses, v \in Via :
        /\ Flags(q, s, v) \/ Fails(q, s, v) \/ GivesUp(q, s, v)
        /\ Complete(q, s, v)
    BY <1>6 DEF Concluded
  <2>1. payments[q].status # "succeeded" /\ s # "succeeded"
    BY DEF Flags, Fails, GivesUp
  <2>2. /\ Status(q)' = s /\ Status(q) = payments[q].status
        /\ \A p \in PaymentId : p # q => Status(p)' = Status(p)
    BY CompleteEffect DEF IInv, Status
  <2> QED
    BY <1>1, <1>6, <2>1, <2>2 DEF Concluded, OfferGrantedOnce
<1> QED
  BY <1>2, <1>3, <1>4, <1>5, <1>6, StepTables

-----------------------------------------------------------------------------
(* The handlers.                                                             *)

\* A request handler goes on to a step it knows enough for, or answers.
RequestOK(state, rows) ==
  \/ state \in {IdleRequest} \cup Finding \cup Inserting
  \/ /\ state \in Collecting
     /\ state.id \in DOMAIN rows
     /\ rows[state.id].request.phone = state.intent.phone
     /\ state.step = "refuse" => state.intent.phone \in RefusedPhone

LEMMA RequestsOK ==
  ASSUME HandlersTypeOK
  PROVE  RequestsKnow <=> \A c \in Client : RequestOK(request[c], payments)
BY DEF HandlersTypeOK, RequestsKnow, RequestOK, IdleRequest, Finding, Inserting, Collecting

LEMMA RequestStays ==
  ASSUME IInv, [Next]_vars, NEW state, RequestOK(state, payments)
  PROVE  RequestOK(state, payments')
BY PaymentsKept DEF RequestOK, SameDemand

LEMMA RequestMoves ==
  ASSUME IInv, NEW c \in Client, RequestStep(c)
  PROVE  \E next : /\ request' = [request EXCEPT ![c] = next]
                   /\ RequestOK(next, payments')
<1> USE DEF IInv
<1>0. [Next]_vars
  BY DEF Next
<1>1. IdleRequest \in {IdleRequest} \cup Finding \cup Inserting /\ RequestOK(IdleRequest, payments')
  BY DEF RequestOK
<1>2. CASE FindExisting(c)
  <2> DEFINE intent == request[c].intent
  <2>1. request[c] \in Finding
    BY <1>2 DEF FindExisting, Serving, HandlersTypeOK, IdleRequest, Finding, Inserting, Collecting
  <2>2. intent \in Intent
    BY <2>1 DEF Finding
  <2>3. CASE request' = [request EXCEPT ![c] = IdleRequest]
    BY <1>1, <2>3
  <2>4. CASE request' = [request EXCEPT ![c] = [step |-> "count", intent |-> intent]]
    <3>1. [step |-> "count", intent |-> intent] \in Finding
      BY <2>2 DEF Finding
    <3> QED
      BY <2>4, <3>1 DEF RequestOK
  <2>5. ASSUME NEW p \in WithKeyOf(intent), SameRequest(payments[p].request, intent),
               request' = [request EXCEPT ![c] = [step |-> "collect", intent |-> intent, id |-> p]]
        PROVE  \E next : request' = [request EXCEPT ![c] = next] /\ RequestOK(next, payments')
    <3> DEFINE next == [step |-> "collect", intent |-> intent, id |-> p]
    <3>1. p \in DOMAIN payments /\ p \in PaymentId
      BY DEF WithKeyOf, TypeOK
    <3>2. next \in Collecting
      BY <2>2, <3>1 DEF Collecting
    <3>3. payments[p].request.phone = intent.phone
      BY <2>5 DEF SameRequest
    <3>4. RequestOK(next, payments)
      BY <3>1, <3>2, <3>3 DEF RequestOK
    <3>5. RequestOK(next, payments')
      BY <1>0, <3>4, RequestStays
    <3> QED
      BY <2>5, <3>5
  <2> QED
    BY <1>2, <2>3, <2>4, <2>5 DEF FindExisting, Answer, Continue
<1>3. CASE CountAttempts(c)
  <2> DEFINE intent == request[c].intent
             next == [step |-> "insert", intent |-> intent, at |-> now]
  <2>1. request[c] \in Finding
    BY <1>3 DEF CountAttempts, Serving, HandlersTypeOK, IdleRequest, Finding, Inserting, Collecting
  <2>2. next \in Inserting
    BY <2>1 DEF Finding, Inserting, TypeOK
  <2>3. RequestOK(next, payments')
    BY <2>2 DEF RequestOK
  <2>4. request' = [request EXCEPT ![c] = IdleRequest] \/ request' = [request EXCEPT ![c] = next]
    BY <1>3 DEF CountAttempts, Answer, Continue
  <2> QED
    BY <1>1, <2>3, <2>4
<1>4. ASSUME NEW p \in PaymentId, InsertPayment(c, p)
      PROVE  \E next : request' = [request EXCEPT ![c] = next] /\ RequestOK(next, payments')
  <2> DEFINE intent == request[c].intent
             next == [step |-> "collect", intent |-> intent, id |-> p]
  <2>1. request[c] \in Inserting
    BY <1>4 DEF InsertPayment, Serving, HandlersTypeOK, IdleRequest, Finding, Inserting, Collecting
  <2>2. intent \in Intent
    BY <2>1 DEF Inserting
  <2>3. CASE Conflicts(intent)
    BY <1>1, <1>4, <2>3 DEF InsertPayment, Answer, Continue
  <2>4. CASE ~Conflicts(intent)
    <3>1. /\ p \in DOMAIN payments' /\ payments'[p].request = intent
          /\ request' = [request EXCEPT ![c] = next]
      BY <1>4, <2>4 DEF InsertPayment, Continue
    <3>2. next \in Collecting
      BY <2>2 DEF Collecting
    <3>3. RequestOK(next, payments')
      BY <3>1, <3>2 DEF RequestOK
    <3> QED
      BY <3>1, <3>3
  <2> QED
    BY <2>3, <2>4
<1>5. ASSUME request[c] \in Collecting,
             NEW step \in {"attach", "refuse"}, step = "refuse" => request[c].intent.phone \in RefusedPhone,
             request' = [request EXCEPT ![c] = [request[c] EXCEPT !.step = step]]
      PROVE  \E next : request' = [request EXCEPT ![c] = next] /\ RequestOK(next, payments')
  <2> DEFINE next == [request[c] EXCEPT !.step = step]
  <2>1. next \in Collecting /\ next.id = request[c].id /\ next.intent = request[c].intent
        /\ next.step = step
    BY <1>5 DEF Collecting
  <2>2. /\ request[c].id \in DOMAIN payments
        /\ payments[request[c].id].request.phone = request[c].intent.phone
    BY <1>5 DEF RequestsKnow
  <2> HIDE DEF next
  <2>3. RequestOK(next, payments)
    BY <1>5, <2>1, <2>2 DEF RequestOK
  <2>4. RequestOK(next, payments')
    BY <1>0, <2>3, RequestStays
  <2> QED
    BY <1>5, <2>4 DEF next
<1>6. ASSUME NEW answered \in BOOLEAN, Collect(c, answered)
      PROVE  \E next : request' = [request EXCEPT ![c] = next] /\ RequestOK(next, payments')
  <2>1. request[c] \in Collecting
    BY <1>6 DEF Collect, Serving, HandlersTypeOK, IdleRequest, Finding, Inserting, Collecting
  <2>2. CASE answered
    BY <1>5, <1>6, <2>1, <2>2 DEF Collect, Continue
  <2>3. CASE ~answered
    BY <1>1, <1>6, <2>3 DEF Collect, Continue, Answer
  <2> QED
    BY <2>2, <2>3
<1>7. CASE CollectRefused(c)
  <2>1. request[c] \in Collecting
    BY <1>7 DEF CollectRefused, Serving, HandlersTypeOK, IdleRequest, Finding, Inserting, Collecting
  <2> QED
    BY <1>5, <1>7, <2>1 DEF CollectRefused, Continue
<1>8. CASE CollectUnavailable(c) \/ AttachReference(c) \/ RefusePhone(c)
  BY <1>1, <1>8 DEF CollectUnavailable, AttachReference, RefusePhone, Answer, Continue
<1> QED
  BY <1>2, <1>3, <1>4, <1>6, <1>7, <1>8 DEF RequestStep

LEMMA RequestsStep ==
  ASSUME IInv, [Next]_vars
  PROVE  /\ request' \in [Client -> {IdleRequest} \cup Finding \cup Inserting \cup Collecting]
         /\ \A c \in Client : RequestOK(request'[c], payments')
<1>1. /\ request \in [Client -> {IdleRequest} \cup Finding \cup Inserting \cup Collecting]
      /\ \A c \in Client : RequestOK(request[c], payments)
  BY RequestsOK DEF IInv, HandlersTypeOK
<1>2. ASSUME NEW c \in Client, NEW next, RequestOK(next, payments'), request' = [request EXCEPT ![c] = next]
      PROVE  /\ request' \in [Client -> {IdleRequest} \cup Finding \cup Inserting \cup Collecting]
             /\ \A d \in Client : RequestOK(request'[d], payments')
  <2>1. next \in {IdleRequest} \cup Finding \cup Inserting \cup Collecting
    BY <1>2 DEF RequestOK
  <2>2. ASSUME NEW d \in Client
        PROVE  RequestOK(request'[d], payments')
    <3>1. CASE d = c
      <4>1. request'[d] = next
        BY <1>1, <1>2, <3>1
      <4> QED
        BY <1>2, <4>1 DEF RequestOK
    <3>2. CASE d # c
      <4>1. request'[d] = request[d]
        BY <1>1, <1>2, <3>2
      <4>2. RequestOK(request[d], payments) 
        BY <1>1
      <4>3. \A p \in DOMAIN payments : p \in DOMAIN payments' /\ SameDemand(payments'[p], payments[p])
        BY PaymentsKept
      <4> QED
        BY <4>1, <4>2, <4>3 DEF RequestOK, SameDemand
    <3> QED
      BY <3>1, <3>2
  <2> QED
    BY <1>1, <1>2, <2>1, <2>2
<1>3. ASSUME NEW c \in Client, RequestStep(c)
      PROVE  \E next : request' = [request EXCEPT ![c] = next] /\ RequestOK(next, payments')
  BY <1>3, RequestMoves
<1>4. ASSUME NEW c \in Client, NEW intent \in Intent, BeginRequest(c, intent)
      PROVE  \E next : request' = [request EXCEPT ![c] = next] /\ RequestOK(next, payments')
  <2>1. [step |-> "find", intent |-> intent] \in Finding
    BY DEF Finding
  <2> QED
    BY <1>4, <2>1 DEF BeginRequest, Continue, RequestOK
<1>5. ASSUME NEW c \in Client, RequestDies(c)
      PROVE  \E next : request' = [request EXCEPT ![c] = next] /\ RequestOK(next, payments')
  BY <1>5 DEF RequestDies, Answer, Continue, RequestOK
<1>6. CASE request' = request
  BY <1>1, <1>6, PaymentsKept DEF RequestOK, SameDemand
<1>7. \/ \E c \in Client : RequestStep(c) \/ RequestDies(c)
      \/ \E c \in Client, intent \in Intent : BeginRequest(c, intent)
      \/ request' = request
  BY DEF Next, vars, BeginNotification, BeginSweep, TaskStep, ReadTransaction, AttachRead, Succeed,
         Fail, FlagAmount, Conclude, Wait, Expire, ReadUnavailable, TaskDies, ProviderConcludes, Tick
<1> QED
  BY <1>2, <1>3, <1>4, <1>5, <1>6, <1>7

\* A task keeps what it has read, and it stays true.
TaskOK(state, rows, records) ==
  \/ state = IdleTask
  \/ /\ state \in Working
     /\ state.id \in DOMAIN rows /\ state.snap.createdAt = rows[state.id].createdAt
     /\ \A q \in DOMAIN state.todo :
          q \in DOMAIN rows /\ state.todo[q].createdAt = rows[q].createdAt
     /\ state.step # "expire" =>
          /\ state.ref \in PaymentId
          /\ state.read.status \in {"successful", "failed"} => records[state.ref] = state.read

LEMMA TasksOK ==
  ASSUME HandlersTypeOK
  PROVE  TasksKnow <=> \A w \in Worker : TaskOK(task[w], payments, transaction)
BY DEF HandlersTypeOK, TasksKnow, TaskOK, SnapshotHolds, IdleTask, Working

LEMMA TaskStays ==
  ASSUME IInv, [Next]_vars, NEW state, TaskOK(state, payments, transaction)
  PROVE  TaskOK(state, payments', transaction')
<1>1. CASE state = IdleTask
  BY <1>1 DEF TaskOK
<1>2. CASE state \in Working
  <2>1. \A p \in DOMAIN payments : p \in DOMAIN payments' /\ payments'[p].createdAt = payments[p].createdAt
    BY PaymentsKept DEF SameDemand
  <2>2. \A p \in PaymentId : transaction[p].status \in {"successful", "failed"}
                               => transaction'[p] = transaction[p]
    BY ConclusionsKept
  <2>3. state # IdleTask
    BY <1>2 DEF Working, IdleTask
  <2>4. state.id \in PaymentId
    BY <1>2 DEF Working
  <2> QED
    BY <2>1, <2>2, <2>3, <2>4 DEF TaskOK
<1> QED
  BY <1>1, <1>2 DEF TaskOK

\* What a task may read of the tables.
LEMMA SnapshotType ==
  ASSUME IInv, NEW p \in DOMAIN payments
  PROVE  /\ p \in PaymentId
         /\ Snapshot(p) \in Snap
         /\ Snapshot(p).createdAt = payments[p].createdAt
BY DEF IInv, TypeOK, PaymentRow, Snapshot, Snap, Reference

LEMMA UnreadType == Unread \in Transaction
BY DEF Unread, Transaction

\* The next payment of a batch.
LEMMA ExamineMoves ==
  ASSUME IInv, NEW w \in Worker, NEW todo \in Batch,
         \A q \in DOMAIN todo : q \in DOMAIN payments /\ todo[q].createdAt = payments[q].createdAt,
         Examine(w, todo)
  PROVE  \E next : task' = [task EXCEPT ![w] = next] /\ TaskOK(next, payments, transaction)
<1>1. CASE DOMAIN todo = {}
  BY <1>1 DEF Examine, Proceed, TaskOK
<1>2. CASE DOMAIN todo # {}
  <2> PICK p \in DOMAIN todo :
        Proceed(w, [step |-> IF todo[p].reference = NoReference THEN "expire" ELSE "read",
                    via |-> "sweep", id |-> p, ref |-> todo[p].reference,
                    snap |-> todo[p], read |-> Unread,
                    todo |-> [q \in DOMAIN todo \ {p} |-> todo[q]]])
    BY <1>2 DEF Examine
  <2> DEFINE rest == [q \in DOMAIN todo \ {p} |-> todo[q]]
             step == IF todo[p].reference = NoReference THEN "expire" ELSE "read"
             next == [step |-> step, via |-> "sweep", id |-> p, ref |-> todo[p].reference,
                      snap |-> todo[p], read |-> Unread, todo |-> rest]
  <2>1. PICK D \in SUBSET PaymentId : todo \in [D -> Snap]
    BY DEF Batch
  <2>2. rest \in [D \ {p} -> Snap]
    BY <2>1
  <2>3. rest \in Batch
    BY <2>1, <2>2 DEF Batch
  <2>4. p \in PaymentId /\ todo[p] \in Snap /\ todo[p].reference \in Reference
    BY <2>1 DEF Snap
  <2>5. step \in {"read", "expire"} /\ (step # "expire" => todo[p].reference \in PaymentId)
    BY <2>4 DEF Reference
  <2>6. \A q \in DOMAIN rest :
          q \in DOMAIN payments /\ rest[q].createdAt = payments[q].createdAt
    OBVIOUS
  <2>7. task' = [task EXCEPT ![w] = next]
    BY DEF Proceed
  <2> HIDE DEF rest, step
  <2>8. next \in Working
    BY <2>3, <2>4, <2>5, UnreadType DEF Working
  <2>9. TaskOK(next, payments, transaction)
    BY <2>5, <2>6, <2>8 DEF TaskOK, Unread
  <2> QED
    BY <2>7, <2>9
<1> QED
  BY <1>1, <1>2

LEMMA DoneMoves ==
  ASSUME IInv, NEW w \in Worker, task[w].step # "idle", Done(w)
  PROVE  \E next : task' = [task EXCEPT ![w] = next] /\ TaskOK(next, payments, transaction)
<1>1. task[w] \in Working
  BY TaskIsWorking DEF IInv
<1>2. /\ task[w].todo \in Batch
      /\ \A q \in DOMAIN task[w].todo :
           q \in DOMAIN payments /\ task[w].todo[q].createdAt = payments[q].createdAt
  BY <1>1 DEF Working, IInv, TasksKnow, SnapshotHolds
<1>3. CASE task[w].via = "sweep"
  <2>1. Examine(w, task[w].todo)
    BY <1>3 DEF Done
  <2> QED
    BY <1>2, <2>1, ExamineMoves
<1>4. CASE task[w].via # "sweep"
  BY <1>4 DEF Done, Proceed, TaskOK
<1> QED
  BY <1>3, <1>4

LEMMA TaskMoves ==
  ASSUME IInv, NEW w \in Worker, TaskStep(w)
  PROVE  \E next : task' = [task EXCEPT ![w] = next] /\ TaskOK(next, payments, transaction)
<1>1. task[w].step # "idle"
  BY DEF TaskStep, ReadTransaction, AttachRead, Succeed, Fail, FlagAmount, Conclude, Wait, Expire, Doing
<1>2. task[w] \in Working
  BY <1>1, TaskIsWorking DEF IInv
<1>3. task[w] # IdleTask /\ TaskOK(task[w], payments, transaction)
  BY <1>1, TasksOK DEF IInv, IdleTask
<1>4. task[w].step # "expire" => /\ task[w].ref \in PaymentId
                                  /\ transaction[task[w].ref] \in Transaction
  BY <1>3 DEF TaskOK, IInv, TypeOK
<1>5. ASSUME task[w].step # "expire", NEW step \in {"apply", "expire"},
             task' = [task EXCEPT ![w] = [task[w] EXCEPT !.step = step]]
      PROVE  \E next : task' = [task EXCEPT ![w] = next] /\ TaskOK(next, payments, transaction)
  <2> DEFINE next == [task[w] EXCEPT !.step = step]
  <2>1. /\ next \in Working /\ next.id = task[w].id /\ next.snap = task[w].snap
        /\ next.todo = task[w].todo /\ next.read = task[w].read /\ next.ref = task[w].ref
    BY <1>2 DEF Working
  <2> HIDE DEF next
  <2>2. TaskOK(next, payments, transaction)
    BY <1>3, <1>5, <2>1 DEF TaskOK
  <2> QED
    BY <1>5, <2>2 DEF next
<1>6. CASE ReadTransaction(w)
  <2> DEFINE step == IF task[w].snap.reference = NoReference THEN "attach" ELSE "apply"
             record == transaction[task[w].ref]
             next == [[task[w] EXCEPT !.step = step] EXCEPT !.read = record]
  <2>1. step \in {"apply", "attach"}
    OBVIOUS
  <2>2. task' = [task EXCEPT ![w] = next]
    BY <1>6 DEF ReadTransaction, Proceed
  <2> HIDE DEF step
  <2>3. /\ next \in Working /\ next.id = task[w].id /\ next.snap = task[w].snap
        /\ next.todo = task[w].todo /\ next.read = record /\ next.ref = task[w].ref
    BY <1>2, <1>4, <1>6, <2>1 DEF Working, ReadTransaction, Doing
  <2> HIDE DEF next
  <2>4. TaskOK(next, payments, transaction)
    BY <1>3, <1>4, <1>6, <2>3 DEF TaskOK, ReadTransaction, Doing
  <2> QED
    BY <2>2, <2>4
<1>7. CASE AttachRead(w)
  BY <1>5, <1>7 DEF AttachRead, Proceed, Doing
<1>8. CASE Wait(w)
  <2>1. Done(w) \/ task' = [task EXCEPT ![w] = [task[w] EXCEPT !.step = "expire"]]
    BY <1>8 DEF Wait, Proceed, Settled
  <2>2. task[w].step # "expire"
    BY <1>8 DEF Wait, Doing
  <2> QED
    BY <1>1, <1>5, <2>1, <2>2, DoneMoves
<1>9. CASE Succeed(w) \/ Fail(w) \/ FlagAmount(w) \/ Expire(w)
  <2>1. Done(w)
    BY <1>9 DEF Succeed, Fail, FlagAmount, Conclude, Expire, Settled
  <2> QED
    BY <1>1, <2>1, DoneMoves
<1> QED
  BY <1>6, <1>7, <1>8, <1>9 DEF TaskStep

LEMMA BeginMoves ==
  ASSUME IInv
  PROVE  /\ \A w \in Notifier, ref, ext \in PaymentId : BeginNotification(w, ref, ext) =>
              \E next : task' = [task EXCEPT ![w] = next] /\ TaskOK(next, payments, transaction)
         /\ \A w \in Sweeper : BeginSweep(w) =>
              \E next : task' = [task EXCEPT ![w] = next] /\ TaskOK(next, payments, transaction)
<1>1. ASSUME NEW w \in Notifier, NEW ref \in PaymentId, NEW ext \in PaymentId,
             BeginNotification(w, ref, ext)
      PROVE  \E next : task' = [task EXCEPT ![w] = next] /\ TaskOK(next, payments, transaction)
  <2> DEFINE none == [q \in {} |-> Snapshot(q)]
  <2> PICK p \in Designated(ref, ext) :
        Proceed(w, [step |-> "read", via |-> "webhook", id |-> p, ref |-> ref,
                    snap |-> Snapshot(p), read |-> Unread, todo |-> none])
    BY <1>1 DEF BeginNotification
  <2> DEFINE next == [step |-> "read", via |-> "webhook", id |-> p, ref |-> ref,
                      snap |-> Snapshot(p), read |-> Unread, todo |-> none]
  <2>1. p \in DOMAIN payments /\ ref \in Reference
    BY DEF Designated, Reference
  <2>2. none \in [{} -> Snap]
    OBVIOUS
  <2>3. none \in Batch
    BY <2>2 DEF Batch
  <2>4. p \in PaymentId /\ Snapshot(p) \in Snap /\ Snapshot(p).createdAt = payments[p].createdAt
    BY <2>1, SnapshotType
  <2>5. task' = [task EXCEPT ![w] = next]
    BY DEF Proceed
  <2>6. DOMAIN none = {}
    OBVIOUS
  <2> HIDE DEF none
  <2>7. next \in Working
    BY <2>1, <2>3, <2>4, UnreadType DEF Working
  <2>8. TaskOK(next, payments, transaction)
    BY <2>1, <2>4, <2>6, <2>7 DEF TaskOK, Unread
  <2> QED
    BY <2>5, <2>8
<1>2. ASSUME NEW w \in Sweeper, BeginSweep(w)
      PROVE  \E next : task' = [task EXCEPT ![w] = next] /\ TaskOK(next, payments, transaction)
  <2> PICK batch \in SUBSET Due : Examine(w, [p \in batch |-> Snapshot(p)])
    BY <1>2 DEF BeginSweep
  <2> DEFINE todo == [p \in batch |-> Snapshot(p)]
  <2>1. batch \subseteq DOMAIN payments
    BY DEF Due
  <2>2. batch \in SUBSET PaymentId
    BY <2>1 DEF IInv, TypeOK
  <2>3. todo \in [batch -> Snap]
    BY <2>1, SnapshotType
  <2>4. todo \in Batch
    BY <2>2, <2>3 DEF Batch
  <2>5. \A q \in DOMAIN todo : q \in DOMAIN payments /\ todo[q].createdAt = payments[q].createdAt
    BY <2>1, SnapshotType
  <2>6. w \in Worker
    BY DEF Worker
  <2> HIDE DEF todo
  <2> QED
    BY <2>4, <2>5, <2>6, ExamineMoves DEF todo
<1> QED
  BY <1>1, <1>2

LEMMA TasksStep ==
  ASSUME IInv, [Next]_vars
  PROVE  /\ task' \in [Worker -> {IdleTask} \cup Working]
         /\ \A w \in Worker : TaskOK(task'[w], payments', transaction')
<1>1. /\ task \in [Worker -> {IdleTask} \cup Working]
      /\ \A w \in Worker : TaskOK(task[w], payments, transaction)
  BY TasksOK DEF IInv, HandlersTypeOK
<1>2. ASSUME NEW w \in Worker, NEW next, TaskOK(next, payments, transaction),
             task' = [task EXCEPT ![w] = next]
      PROVE  /\ task' \in [Worker -> {IdleTask} \cup Working]
             /\ \A v \in Worker : TaskOK(task'[v], payments', transaction')
  <2>1. next \in {IdleTask} \cup Working
    BY <1>2 DEF TaskOK
  <2>2. \A v \in Worker : TaskOK(task'[v], payments, transaction)
    BY <1>1, <1>2
  <2> QED
    BY <1>1, <1>2, <2>1, <2>2, TaskStays
<1>3. CASE task' = task
  BY <1>1, <1>3, TaskStays
<1>4. \/ \E w \in Worker : \E next : task' = [task EXCEPT ![w] = next] /\ TaskOK(next, payments, transaction)
      \/ task' = task
  <2>1. CASE \E w \in Worker : TaskStep(w)
    BY <2>1, TaskMoves
  <2>2. CASE \/ \E w \in Notifier, ref, ext \in PaymentId : BeginNotification(w, ref, ext)
             \/ \E w \in Sweeper : BeginSweep(w)
    BY <2>2, BeginMoves DEF Worker
  <2>3. ASSUME NEW w \in Worker, ReadUnavailable(w)
        PROVE  \E next : task' = [task EXCEPT ![w] = next] /\ TaskOK(next, payments, transaction)
    BY <2>3, DoneMoves DEF ReadUnavailable, Doing
  <2>4. ASSUME NEW w \in Worker, TaskDies(w)
        PROVE  \E next : task' = [task EXCEPT ![w] = next] /\ TaskOK(next, payments, transaction)
    BY <2>4 DEF TaskDies, Proceed, TaskOK
  <2>5. CASE \/ \E c \in Client, intent \in Intent : BeginRequest(c, intent)
             \/ \E c \in Client : RequestStep(c) \/ RequestDies(c)
             \/ \E p \in PaymentId : ProviderConcludes(p)
             \/ Tick \/ UNCHANGED vars
    BY <2>5 DEF BeginRequest, RequestStep, FindExisting, CountAttempts, InsertPayment, Collect,
                CollectUnavailable, CollectRefused, AttachReference, RefusePhone, RequestDies,
                ProviderConcludes, Tick, vars
  <2> QED
    BY <2>1, <2>2, <2>3, <2>4, <2>5 DEF Next
<1> QED
  BY <1>2, <1>3, <1>4

-----------------------------------------------------------------------------
(* The theorems.                                                             *)

LEMMA InductiveInvariant == IInv /\ [Next]_vars => IInv'
<1> SUFFICES ASSUME IInv, [Next]_vars PROVE IInv'
  OBVIOUS
<1>1. HandlersTypeOK'
  BY RequestsStep, TasksStep DEF HandlersTypeOK
<1>2. RequestsKnow'
  BY RequestsStep DEF RequestsKnow, RequestOK, IdleRequest, Finding, Inserting, Collecting
<1>3. TasksKnow'
  BY TasksStep DEF TasksKnow, TaskOK, SnapshotHolds, IdleTask, Working
<1> QED
  BY <1>1, <1>2, <1>3, TypeOKStep, DemandsAreRecordedStep, VerdictsAreFinalStep, KeysAreUniqueStep,
     OfferGrantedOnceStep DEF IInv

LEMMA PaymentsInvariant == Spec => []IInv
BY InitInvariant, InductiveInvariant, PTL DEF Spec

\* Type correctness of the payments, whatever the handlers at work.
THEOREM TypeOKInvariant == Spec => []TypeOK
BY PaymentsInvariant, PTL DEF IInv

\* However many notifications and sweeps conclude a payment on stale snapshots,
\* its offer is granted once, and exactly when it is succeeded.
THEOREM OfferGrantedOnceInvariant == Spec => []OfferGrantedOnce
BY PaymentsInvariant, PTL DEF IInv

\* A payment is never concluded against what the provider says of it.
THEOREM VerdictIsProvidersInvariant == Spec => []VerdictIsProviders
<1>1. IInv => VerdictIsProviders
  BY DEF IInv, TypeOK, Transaction, DemandsAreRecorded, VerdictsAreFinal, VerdictIsProviders, Status
<1> QED
  BY <1>1, PaymentsInvariant, PTL

\* However often a request is sent again, the provider has one demand of its key.
THEOREM OneDemandPerKeyInvariant == Spec => []OneDemandPerKey
<1>1. IInv => OneDemandPerKey
  BY DEF IInv, KeysAreUnique, OneDemandPerKey
<1> QED
  BY <1>1, PaymentsInvariant, PTL

\* A conclusion is never reopened, but for a payment that was given up.
THEOREM LifecycleHolds == Spec => Lifecycle
<1>1. IInv /\ [Next]_vars => [\A p \in PaymentId : Follows(Status(p), Status(p)')]_vars
  <2> SUFFICES ASSUME IInv, [Next]_vars, NEW p \in PaymentId
               PROVE  Follows(Status(p), Status(p)')
    OBVIOUS
  <2>1. CASE Unmoved \/ Demanded \/ ConcludedThere
    BY <2>1 DEF Unmoved, Demanded, ConcludedThere, Status, Follows
  <2>2. CASE Referenced
    BY <2>2, AttachEffect DEF IInv, TypeOK, Referenced, Status, Follows
  <2>3. CASE Inserted
    BY <2>3 DEF Inserted, Status, Follows
  <2>4. CASE Served
    <3> PICK q \in DOMAIN payments, v \in {"webhook", "sweep"} :
          payments[q].status \in {"pending", "expired"} /\ Complete(q, "succeeded", v)
      BY <2>4 DEF Served
    <3>1. payments'[q].status = "succeeded" /\ DOMAIN payments' = DOMAIN payments
          /\ \A r \in DOMAIN payments : r # q => payments'[r] = payments[r]
      BY CompleteEffect DEF IInv, Statuses, Via
    <3> QED
      BY <3>1 DEF Status, Follows
  <2>5. CASE Concluded
    <3> PICK q \in DOMAIN payments, s \in Statuses, v \in Via :
          (Flags(q, s, v) \/ Fails(q, s, v) \/ GivesUp(q, s, v)) /\ Complete(q, s, v)
      BY <2>5 DEF Concluded
    <3>1. payments'[q].status = s /\ DOMAIN payments' = DOMAIN payments
          /\ \A r \in DOMAIN payments : r # q => payments'[r] = payments[r]
      BY CompleteEffect DEF IInv
    <3> QED
      BY <3>1 DEF Status, Follows, Flags, Fails, GivesUp
  <2> QED
    BY <2>1, <2>2, <2>3, <2>4, <2>5, StepTables
<1> QED
  BY <1>1, PaymentsInvariant, PTL DEF Spec, Lifecycle

\* No sweep, however old its snapshot, gives a payment up before 24 hours, but
\* for one that read it without a reference, and that one not before 15 minutes.
THEOREM ExpiryIsPatientHolds == Spec => ExpiryIsPatient
<1>1. IInv /\ [Next]_vars =>
        [ \A p \in DOMAIN payments :
            payments[p].status = "pending" /\ payments'[p].status = "expired" =>
              \/ now >= payments[p].createdAt + PendingTtl
              \/ /\ now >= payments[p].createdAt + UnreferencedTtl
                 /\ ReadWithoutReference(p) ]_vars
  <2> SUFFICES ASSUME IInv, [Next]_vars, NEW p \in DOMAIN payments,
                      payments[p].status = "pending", payments'[p].status = "expired"
               PROVE  \/ now >= payments[p].createdAt + PendingTtl
                      \/ /\ now >= payments[p].createdAt + UnreferencedTtl
                         /\ ReadWithoutReference(p)
    OBVIOUS
  <2>1. CASE Unmoved \/ Demanded \/ ConcludedThere \/ Inserted
    BY <2>1 DEF Unmoved, Demanded, ConcludedThere, Inserted
  <2>2. CASE Referenced
    <3>1. PICK q \in DOMAIN payments : Attach(q, q)
      BY <2>2 DEF Referenced
    <3>2. q \in PaymentId /\ TypeOK
      BY DEF IInv, TypeOK
    <3> QED
      BY <3>1, <3>2, AttachEffect
  <2>3. CASE Served
    BY <2>3, CompleteEffect DEF IInv, Served, Statuses, Via
  <2>4. CASE Concluded
    <3> PICK q \in DOMAIN payments, s \in Statuses, v \in Via :
          (Flags(q, s, v) \/ Fails(q, s, v) \/ GivesUp(q, s, v)) /\ Complete(q, s, v)
      BY <2>4 DEF Concluded
    <3>1. payments'[q].status = s
          /\ \A r \in DOMAIN payments : r # q => payments'[r] = payments[r]
      BY CompleteEffect DEF IInv
    <3> QED
      BY <3>1 DEF Flags, Fails, GivesUp
  <2> QED
    BY <2>1, <2>2, <2>3, <2>4, StepTables
<1> QED
  BY <1>1, PaymentsInvariant, PTL DEF Spec, ExpiryIsPatient

=============================================================================
