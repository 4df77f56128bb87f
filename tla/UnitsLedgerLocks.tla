-------------------------- MODULE UnitsLedgerLocks --------------------------
(***************************************************************************)
(* The billing transactions statement by statement, at READ COMMITTED:     *)
(* each statement sees what is committed when it starts, FOR UPDATE and    *)
(* UPDATE wait for the row lock, and the locks are kept to the commit.     *)
(* The writes of a transaction touch rows it has locked or inserts, so     *)
(* they are grouped with its commit.  Rows created empty before they are   *)
(* locked count as present.  Accounts are not deleted here.                *)
(***************************************************************************)
EXTENDS UnitsLedger

CONSTANTS
  Tx,          \* database connections running billing transactions
  Demands      \* the demands of reservation tried: a set of [tier, chars]

\* A demand over the limit is refused before any transaction.
ASSUME LocksAssumption == Demands \subseteq [tier : Tiers, chars : 1 .. MaxChars]

VARIABLES
  tx,      \* the transaction each connection is in: its statement and what it read
  held     \* the rows each connection has locked

lockVars == <<tx, held>>
allVars == <<now, users, freeUsed, passes, wallet, entries, reservations, purchases, tx, held>>

Idle == [op |-> "none"]

FreeRow(u, m) == <<"free", u, m>>
PassRowLock(p) == <<"pass", p>>
WalletRow(u) == <<"wallet", u>>
ReservationLock(r) == <<"reservation", r>>

LocksInit ==
  /\ Init
  /\ tx = [t \in Tx |-> Idle]
  /\ held = [t \in Tx |-> {}]

At(t, op, step) == tx[t].op = op /\ tx[t].step = step

FreeForAll(t, row) == TRUE           \* fault: rows are read without FOR UPDATE
FreeFor(t, row) == \A other \in Tx \ {t} : row \notin held[other]

\* The statement takes these rows, then the transaction goes on with `next`.
Lock(t, rows, next) ==
  /\ \A row \in rows : FreeFor(t, row)
  /\ held' = [held EXCEPT ![t] = @ \cup rows]
  /\ tx' = [tx EXCEPT ![t] = next]
  /\ UNCHANGED vars

\* COMMIT or ROLLBACK: the locks go and the connection is idle again.
End(t) ==
  /\ tx' = [tx EXCEPT ![t] = Idle]
  /\ held' = [held EXCEPT ![t] = {}]

Abandon(t) == End(t) /\ UNCHANGED vars

-----------------------------------------------------------------------------
(* Reserve: usage row, running pass, wallet, then the decision.              *)

BeginReserve(t, u, r, demand) ==
  /\ tx[t] = Idle
  /\ tx' = [tx EXCEPT ![t] =
       [op |-> "reserve", step |-> "find", user |-> u, id |-> r, tier |-> demand.tier,
        chars |-> demand.chars, at |-> now, pass |-> NoPass, available |-> Nothing]]
  /\ UNCHANGED <<vars, held>>

FindReservation(t) ==
  /\ At(t, "reserve", "find")
  /\ IF tx[t].id \in DOMAIN reservations
     THEN Abandon(t)
     ELSE Lock(t, {}, [tx[t] EXCEPT !.step = "lockFree"])

LockFree(t) ==
  LET x == tx[t]
      m == PeriodOf[x.at]
  IN  /\ At(t, "reserve", "lockFree")
      /\ Lock(t, {FreeRow(x.user, m)},
              [x EXCEPT !.step = "lockPass", !.available.free = FreeLeft(x.user, m)])

LockPass(t) ==
  LET x == tx[t]
  IN  /\ At(t, "reserve", "lockPass")
      /\ \E pass \in ActivePass(x.user, x.at) :
           Lock(t, {PassRowLock(p) : p \in {pass} \ {NoPass}},
                [x EXCEPT !.step = "lockWallet", !.pass = pass,
                          !.available.pass = PassLeft(pass)])

LockWallet(t) ==
  LET x == tx[t]
  IN  /\ At(t, "reserve", "lockWallet")
      /\ Lock(t, {WalletRow(x.user)},
              [x EXCEPT !.step = "write", !.available.credits = wallet[x.user]])

\* The insert of a reservation id committed meanwhile fails and rolls back.
WriteReservation(t) ==
  LET x == tx[t]
  IN  /\ At(t, "reserve", "write")
      /\ IF Covers(ForChars(x.chars, x.tier), x.tier, x.available) /\ x.id \notin DOMAIN reservations
         THEN /\ Debit(x.user, x.id, x.tier, x.chars, x.at, x.pass, x.available)
              /\ End(t)
              /\ UNCHANGED <<now, users, purchases>>
         ELSE Abandon(t)

-----------------------------------------------------------------------------
(* Refund: the reservation row, then the rows of the sources it gives back   *)
(* to, updated in the order free, pass, wallet.                              *)

BeginRefund(t, r, chars) ==
  /\ tx[t] = Idle
  /\ tx' = [tx EXCEPT ![t] = [op |-> "refund", step |-> "lockReservation", id |-> r, chars |-> chars]]
  /\ UNCHANGED <<vars, held>>

LockReservation(t) ==
  LET x == tx[t]
  IN  /\ At(t, "refund", "lockReservation")
      /\ IF x.id \notin DOMAIN reservations
         THEN Abandon(t)
         ELSE /\ FreeFor(t, ReservationLock(x.id))
              /\ IF reservations[x.id].refunded
                 THEN Abandon(t)
                 ELSE Lock(t, {ReservationLock(x.id)},
                           [op |-> "refund", step |-> "updateFree", id |-> x.id,
                            row |-> reservations[x.id],
                            chars |-> Lesser(x.chars, reservations[x.id].chars)])

\* The rows a refund of units x gives back to, in the order they are updated.
Back(x) == SplitRefund(x.row.taken, ForChars(x.chars, x.row.tier))
FreeRowOf(x) == IF Back(x).free > 0 THEN {FreeRow(x.row.user, x.row.period)} ELSE {}
PassRowOf(x) == IF Back(x).pass > 0 THEN {PassRowLock(x.row.pass)} ELSE {}
WalletRowOf(x) == IF Back(x).credits > 0 THEN {WalletRow(x.row.user)} ELSE {}
RowsCreditsFirst(x) == <<WalletRowOf(x), PassRowOf(x), FreeRowOf(x)>>   \* fault: REFUND_ORDER
RowsToUpdate(x) == <<FreeRowOf(x), PassRowOf(x), WalletRowOf(x)>>

UpdateFree(t) ==
  LET x == tx[t]
  IN  /\ At(t, "refund", "updateFree")
      /\ Lock(t, RowsToUpdate(x)[1], [x EXCEPT !.step = "updatePass"])

UpdatePass(t) ==
  LET x == tx[t]
  IN  /\ At(t, "refund", "updatePass")
      /\ Lock(t, RowsToUpdate(x)[2], [x EXCEPT !.step = "updateWallet"])

UpdateWallet(t) ==
  LET x == tx[t]
  IN  /\ At(t, "refund", "updateWallet")
      /\ Lock(t, RowsToUpdate(x)[3], [x EXCEPT !.step = "commit"])

CommitRefund(t) ==
  /\ At(t, "refund", "commit")
  /\ GiveBack(tx[t].id, tx[t].row, tx[t].chars)
  /\ End(t)
  /\ UNCHANGED <<now, users, purchases>>

-----------------------------------------------------------------------------
(* Grant: the wallet of the user serves as a lock on his passes.             *)

BeginGrant(t, u, ref, code) ==
  /\ tx[t] = Idle
  /\ tx' = [tx EXCEPT ![t] =
       [op |-> "grant", step |-> "find", user |-> u, ref |-> ref, code |-> code, at |-> now,
        startsAt |-> now]]
  /\ UNCHANGED <<vars, held>>

FindPurchase(t) ==
  /\ At(t, "grant", "find")
  /\ IF tx[t].ref \in DOMAIN purchases
     THEN Abandon(t)
     ELSE Lock(t, {}, [tx[t] EXCEPT !.step = "lockWallet", !.at = now])

ReadWithoutLock(t) ==                \* fault: the passes are read without the wallet
  /\ At(t, "grant", "lockWallet")
  /\ Lock(t, {}, [tx[t] EXCEPT !.step = "latest"])

LockForPurchase(t) ==
  /\ At(t, "grant", "lockWallet")
  /\ Lock(t, {WalletRow(tx[t].user)}, [tx[t] EXCEPT !.step = "latest"])

ReadLatestPassEnd(t) ==
  /\ At(t, "grant", "latest")
  /\ \E startsAt \in PassStart(tx[t].user, tx[t].at) :
       Lock(t, {}, [tx[t] EXCEPT !.step = "write", !.startsAt = startsAt])

\* ON CONFLICT DO NOTHING: a reference granted meanwhile gives nothing more.
WritePurchase(t) ==
  LET x == tx[t]
  IN  /\ At(t, "grant", "write")
      /\ IF x.ref \in DOMAIN purchases
         THEN Abandon(t)
         ELSE /\ RecordPurchase(x.user, x.ref, x.code, x.startsAt)
              /\ End(t)
              /\ UNCHANGED <<now, users, freeUsed, reservations>>

-----------------------------------------------------------------------------

TickClock == Tick /\ UNCHANGED lockVars

Begin(t) ==
  \/ \E u \in User, r \in ReservationId, demand \in Demands : BeginReserve(t, u, r, demand)
  \/ \E r \in DOMAIN reservations, chars \in 1 .. MaxChars : BeginRefund(t, r, chars)
  \/ \E u \in User, ref \in PaymentRef, code \in OfferCode : BeginGrant(t, u, ref, code)

ReserveStep(t) ==
  FindReservation(t) \/ LockFree(t) \/ LockPass(t) \/ LockWallet(t) \/ WriteReservation(t)

RefundStep(t) ==
  LockReservation(t) \/ UpdateFree(t) \/ UpdatePass(t) \/ UpdateWallet(t) \/ CommitRefund(t)

GrantStep(t) ==
  FindPurchase(t) \/ LockForPurchase(t) \/ ReadLatestPassEnd(t) \/ WritePurchase(t)

Step(t) == ReserveStep(t) \/ RefundStep(t) \/ GrantStep(t)

LocksNext == TickClock \/ \E t \in Tx : Begin(t) \/ Step(t)

LocksSpec == LocksInit /\ [][LocksNext]_allVars

-----------------------------------------------------------------------------
(* Properties *)

(* The two actors of this module are the rows read under lock and the        *)
(* commits of the other connections: what a reservation decides on is still  *)
(* true when it writes, although other transactions committed in between.    *)
ReadsStayCurrent ==
  \A t \in Tx :
    LET x == tx[t]
    IN  /\ x.op = "reserve" =>
             /\ x.step \in {"lockPass", "lockWallet", "write"} =>
                  x.available.free = FreeLeft(x.user, PeriodOf[x.at])
             /\ x.step \in {"lockWallet", "write"} => x.available.pass = PassLeft(x.pass)
             /\ x.step = "write" => x.available.credits = wallet[x.user]
        /\ x.op = "refund" /\ x.step # "lockReservation" => x.row = reservations[x.id]
        /\ x.op = "grant" /\ x.step = "write" => x.startsAt \in PassStart(x.user, x.at)

(* No deadlock (ADR-0019, 6): whichever rows are held, one of the busy       *)
(* connections can execute its next statement, since all of them lock in the *)
(* order usage, pass, wallet, and a refund locks its reservation first.      *)
NeverAllWaiting ==
  (\E t \in Tx : tx[t] # Idle) => \E t \in Tx : tx[t] # Idle /\ ENABLED Step(t)

(* Every interleaving of the statements of the connections is a behaviour of *)
(* UnitsLedger, where each transaction is one step: no reservation is decided*)
(* on a balance another one has spent, no refund is given twice, no pass is  *)
(* started before the end of the last one, no reference is granted twice.    *)
ImplementsLedger == Spec
=============================================================================
