----------------------- MODULE UnitsLedgerLocksProofs -----------------------
(***************************************************************************)
(* The row locks of the billing transactions, for any number of            *)
(* connections, accounts, reservations and payments: what a transaction    *)
(* has read under its locks is still true when it writes, so that every    *)
(* interleaving of their statements is a behaviour of UnitsLedger; and no  *)
(* deadlock stops them, since all of them lock rows in one order.          *)
(***************************************************************************)
EXTENDS UnitsLedgerLocks, UnitsLedgerProofs

-----------------------------------------------------------------------------
(* The inductive invariant: what a connection knows, and the rows it holds   *)
(* for it.                                                                   *)

ReserveTx == [op : {"reserve"}, step : {"find", "lockFree", "lockPass", "lockWallet", "write"},
              user : User, id : ReservationId, tier : Tiers, chars : 1 .. MaxChars, at : Time,
              pass : PaymentRef \cup {NoPass}, available : UnitsBySource]
RefundBegun == [op : {"refund"}, step : {"lockReservation"}, id : ReservationId, chars : 1 .. MaxChars]
RefundTx == [op : {"refund"}, step : {"updateFree", "updatePass", "updateWallet", "commit"},
             id : ReservationId, row : ReservationRow, chars : 1 .. MaxChars]
GrantTx == [op : {"grant"}, step : {"find", "lockWallet", "latest", "write"}, user : User,
            ref : PaymentRef, code : OfferCode, at : Time, startsAt : Nat]

\* A reservation holds the rows it has read, and finds its pass again.
ReserveOK(t) ==
  LET x == tx[t]
  IN  /\ x \in ReserveTx
      /\ x.at <= now
      /\ x.step \in {"lockPass", "lockWallet", "write"} =>
           /\ FreeRow(x.user, PeriodOf[x.at]) \in held[t]
           /\ x.available.free = FreeLeft(x.user, PeriodOf[x.at])
      /\ x.step \in {"lockWallet", "write"} =>
           /\ x.pass # NoPass => PassRowLock(x.pass) \in held[t] /\ x.pass \in ActivePass(x.user, x.at)
           /\ x.available.pass = PassLeft(x.pass)
      /\ x.step = "write" =>
           /\ WalletRow(x.user) \in held[t]
           /\ x.available.credits = wallet[x.user]

\* A refund holds its reservation and the rows it has updated.
RefundOK(t) ==
  LET x == tx[t]
  IN  x \in RefundBegun \/
      /\ x \in RefundTx
      /\ x.id \in DOMAIN reservations /\ x.row = reservations[x.id]
      /\ ~x.row.refunded /\ x.chars <= x.row.chars
      /\ ReservationLock(x.id) \in held[t]
      /\ x.step \in {"updatePass", "updateWallet", "commit"} => FreeRowOf(x) \subseteq held[t]
      /\ x.step \in {"updateWallet", "commit"} => PassRowOf(x) \subseteq held[t]
      /\ x.step = "commit" => WalletRowOf(x) \subseteq held[t]

\* A grant holds the wallet that stands for the passes of its user.
GrantOK(t) ==
  LET x == tx[t]
  IN  /\ x \in GrantTx
      /\ x.at <= now
      /\ x.step \in {"latest", "write"} => WalletRow(x.user) \in held[t]
      /\ x.step = "write" => x.startsAt \in PassStart(x.user, x.at)

TxOK(t) == tx[t] = Idle \/ ReserveOK(t) \/ RefundOK(t) \/ GrantOK(t)

LocksOK ==
  /\ DOMAIN tx = Tx /\ DOMAIN held = Tx
  /\ \A t \in Tx : TxOK(t)
  /\ \A t, o \in Tx : t # o => held[t] \cap held[o] = {}

LocksIInv == TypeOK /\ History /\ users = User /\ LocksOK

-----------------------------------------------------------------------------
(* What the commit of a connection that holds `rowsHeld` does to the ledger. *)

SameDays(p) ==
  /\ passes'[p].user = passes[p].user /\ passes'[p].included = passes[p].included
  /\ passes'[p].startsAt = passes[p].startsAt /\ passes'[p].endsAt = passes[p].endsAt

BalancesMove(rowsHeld) ==
  /\ \A u \in User, m \in Period : freeUsed'[u][m] = freeUsed[u][m] \/ FreeRow(u, m) \in rowsHeld
  /\ \A u \in User : wallet'[u] = wallet[u] \/ WalletRow(u) \in rowsHeld
  /\ \A r \in DOMAIN reservations :
       /\ r \in DOMAIN reservations'
       /\ reservations'[r] = reservations[r] \/ ReservationLock(r) \in rowsHeld

PassesMove(rowsHeld) ==
  /\ \A p \in DOMAIN passes :
       /\ p \in DOMAIN passes' /\ SameDays(p)
       /\ passes'[p].used = passes[p].used \/ PassRowLock(p) \in rowsHeld
  /\ \A p \in DOMAIN passes' \ DOMAIN passes :
       /\ WalletRow(passes'[p].user) \in rowsHeld
       /\ \A q \in PassesOf(passes'[p].user) : passes[q].endsAt <= passes'[p].startsAt

LedgerMoves(rowsHeld) ==
  UNCHANGED users /\ now <= now' /\ BalancesMove(rowsHeld) /\ PassesMove(rowsHeld)

LEMMA StillLedgerMoves ==
  ASSUME TypeOK, UNCHANGED <<users, freeUsed, passes, wallet, reservations>>, now <= now'
  PROVE  LedgerMoves({})
BY DEF LedgerMoves, BalancesMove, PassesMove, SameDays

-----------------------------------------------------------------------------
(* What another connection knows stays true: it holds other rows.            *)

LEMMA PassTypes ==
  ASSUME TypeOK, NEW p \in DOMAIN passes
  PROVE  /\ p \in PaymentRef /\ p # NoPass /\ passes[p].user \in User
         /\ passes[p].startsAt \in Nat /\ passes[p].endsAt \in Nat
         /\ passes[p].included \in Nat /\ passes[p].used \in Nat
BY LedgerAssumption DEF TypeOK, PassRow

LEMMA PassLeftKept ==
  ASSUME TypeOK, TypeOK', NEW h, NEW g, PassesMove(h), h \cap g = {}, NEW p,
         p # NoPass => PassRowLock(p) \in g /\ p \in DOMAIN passes
  PROVE  PassLeft(p)' = PassLeft(p)
<1>1. CASE p = NoPass
  <2>1. p \notin DOMAIN passes /\ p \notin DOMAIN passes'
    BY <1>1, LedgerAssumption DEF TypeOK
  <2> QED
    BY <2>1 DEF PassLeft
<1>2. CASE p # NoPass
  <2>1. p \in DOMAIN passes /\ p \in DOMAIN passes' /\ PassRowLock(p) \notin h
    BY <1>2 DEF PassesMove
  <2>2. passes'[p].used = passes[p].used /\ passes'[p].included = passes[p].included
    BY <2>1 DEF PassesMove, SameDays
  <2> QED
    BY <2>1, <2>2 DEF PassLeft
<1> QED
  BY <1>1, <1>2

\* A pass granted meanwhile starts when the running one has ended.
LEMMA ActivePassKept ==
  ASSUME TypeOK, TypeOK', NEW h, PassesMove(h), NEW u \in User, NEW at \in Time, NEW p,
         p # NoPass, p \in ActivePass(u, at)
  PROVE  p \in ActivePass(u, at)' /\ p \in DOMAIN passes
<1>1. /\ p \in Running(u, at) /\ \A q \in Running(u, at) : passes[p].startsAt <= passes[q].startsAt
  BY DEF ActivePass
<1>2. p \in DOMAIN passes /\ passes[p].user = u /\ passes[p].startsAt <= at /\ at < passes[p].endsAt
  BY <1>1 DEF Running, PassesOf
<1>3. p \in DOMAIN passes' /\ SameDays(p)
  BY <1>2 DEF PassesMove
<1>4. p \in Running(u, at)'
  BY <1>2, <1>3 DEF Running, PassesOf, SameDays
<1>5. ASSUME NEW q \in Running(u, at)'
      PROVE  passes'[p].startsAt <= passes'[q].startsAt
  <2>1. q \in DOMAIN passes' /\ passes'[q].user = u /\ passes'[q].startsAt <= at /\ at < passes'[q].endsAt
    BY <1>5 DEF Running, PassesOf
  <2>2. CASE q \in DOMAIN passes
    <3>1. SameDays(q)
      BY <2>2 DEF PassesMove
    <3>2. q \in Running(u, at)
      BY <2>1, <2>2, <3>1 DEF Running, PassesOf, SameDays
    <3> QED
      BY <1>1, <1>3, <3>1, <3>2 DEF SameDays
  <2>3. CASE q \notin DOMAIN passes
    <3>1. p \in PassesOf(passes'[q].user)
      BY <1>2, <2>1 DEF PassesOf
    <3>2. passes[p].endsAt <= passes'[q].startsAt
      BY <2>1, <2>3, <3>1 DEF PassesMove
    <3>3. passes[p].endsAt \in Nat /\ at \in Nat /\ passes'[q].startsAt \in Nat
      <4>1. passes[p] \in PassRow /\ passes'[q] \in PassRow
        BY <1>2, <2>1 DEF TypeOK
      <4> QED
        BY <4>1, LedgerAssumption DEF PassRow, Time
    <3> QED
      BY <1>2, <2>1, <3>2, <3>3
  <2> QED
    BY <2>2, <2>3
<1> QED
  BY <1>2, <1>4, <1>5 DEF ActivePass

LEMMA PassStartKept ==
  ASSUME NEW h, NEW g, PassesMove(h), h \cap g = {}, NEW u, WalletRow(u) \in g, NEW at
  PROVE  PassStart(u, at)' = PassStart(u, at)
<1>1. PassesOf(u)' = PassesOf(u)
  <2>1. \A p \in DOMAIN passes' \ DOMAIN passes : passes'[p].user # u
    BY DEF PassesMove
  <2> QED
    BY <2>1 DEF PassesMove, SameDays, PassesOf
<1>2. \A p \in PassesOf(u) : passes'[p].endsAt = passes[p].endsAt
  BY DEF PassesMove, SameDays, PassesOf
<1> QED
  BY <1>1, <1>2 DEF PassStart

LEMMA ReserveKept ==
  ASSUME TypeOK, TypeOK', NEW h, LedgerMoves(h), NEW o, ReserveOK(o), h \cap held[o] = {},
         tx'[o] = tx[o], held'[o] = held[o]
  PROVE  ReserveOK(o)'
<1> DEFINE x == tx[o]
           m == PeriodOf[x.at]
           g == held[o]
<1>1. x \in ReserveTx /\ x.at <= now /\ PassesMove(h) /\ BalancesMove(h) /\ now <= now'
  BY DEF ReserveOK, LedgerMoves
<1>2. x.user \in User /\ x.at \in Time /\ m \in Period
  BY <1>1 DEF ReserveTx, Period
<1>3. x.at <= now'
  <2>1. x.at \in Nat /\ now \in Nat /\ now' \in Nat
    BY <1>2, LedgerAssumption DEF TypeOK, Time
  <2> QED
    BY <1>1, <2>1
<1>4. ASSUME x.step \in {"lockPass", "lockWallet", "write"}
      PROVE  FreeRow(x.user, m) \in g /\ x.available.free = FreeLeft(x.user, m)'
  <2>1. FreeRow(x.user, m) \in g /\ x.available.free = FreeLeft(x.user, m)
    BY <1>4 DEF ReserveOK
  <2>2. freeUsed'[x.user][m] = freeUsed[x.user][m]
    BY <1>1, <1>2, <2>1 DEF BalancesMove
  <2> QED
    BY <2>1, <2>2 DEF FreeLeft
<1>5. ASSUME x.step \in {"lockWallet", "write"}
      PROVE  /\ x.pass # NoPass => PassRowLock(x.pass) \in g /\ x.pass \in ActivePass(x.user, x.at)'
             /\ x.available.pass = PassLeft(x.pass)'
  <2> DEFINE p == x.pass
  <2>1. /\ p # NoPass => PassRowLock(p) \in g /\ p \in ActivePass(x.user, x.at)
        /\ x.available.pass = PassLeft(p)
    BY <1>5 DEF ReserveOK
  <2>2. p # NoPass => p \in ActivePass(x.user, x.at)' /\ p \in DOMAIN passes
    BY <1>1, <1>2, <2>1, ActivePassKept
  <2>3. PassLeft(p)' = PassLeft(p)
    BY <1>1, <2>1, <2>2, PassLeftKept
  <2> QED
    BY <2>1, <2>2, <2>3
<1>6. ASSUME x.step = "write"
      PROVE  WalletRow(x.user) \in g /\ x.available.credits = wallet'[x.user]
  BY <1>1, <1>2, <1>6 DEF ReserveOK, BalancesMove
<1> QED
  BY <1>1, <1>3, <1>4, <1>5, <1>6 DEF ReserveOK

LEMMA RefundKept ==
  ASSUME NEW h, BalancesMove(h), NEW o, RefundOK(o), h \cap held[o] = {},
         tx'[o] = tx[o], held'[o] = held[o]
  PROVE  RefundOK(o)'
<1> DEFINE x == tx[o]
<1>1. CASE x \in RefundBegun
  BY <1>1 DEF RefundOK
<1>2. CASE x \notin RefundBegun
  <2>1. x.id \in DOMAIN reservations /\ ReservationLock(x.id) \in held[o]
    BY <1>2 DEF RefundOK
  <2>2. x.id \in DOMAIN reservations' /\ reservations'[x.id] = reservations[x.id]
    BY <2>1 DEF BalancesMove
  <2> QED
    BY <1>2, <2>1, <2>2 DEF RefundOK, FreeRowOf, PassRowOf, WalletRowOf, Back
<1> QED
  BY <1>1, <1>2

LEMMA GrantKept ==
  ASSUME TypeOK, TypeOK', NEW h, LedgerMoves(h), NEW o, GrantOK(o), h \cap held[o] = {},
         tx'[o] = tx[o], held'[o] = held[o]
  PROVE  GrantOK(o)'
<1> DEFINE x == tx[o]
<1>1. x \in GrantTx /\ x.at <= now /\ now <= now' /\ PassesMove(h)
  BY DEF GrantOK, LedgerMoves
<1>2. x.at <= now'
  <2>1. x.at \in Nat /\ now \in Nat /\ now' \in Nat
    BY <1>1, LedgerAssumption DEF GrantTx, TypeOK, Time
  <2> QED
    BY <1>1, <2>1
<1>3. ASSUME x.step = "write"
      PROVE  x.startsAt \in PassStart(x.user, x.at)'
  <2>1. WalletRow(x.user) \in held[o] /\ x.startsAt \in PassStart(x.user, x.at)
    BY <1>3 DEF GrantOK
  <2>2. PassStart(x.user, x.at)' = PassStart(x.user, x.at)
    BY <1>1, <2>1, PassStartKept
  <2> QED
    BY <2>1, <2>2
<1> QED
  BY <1>1, <1>2, <1>3 DEF GrantOK

LEMMA OthersKept ==
  ASSUME LocksIInv, TypeOK', NEW t \in Tx, LedgerMoves(held[t]),
         \A o \in Tx \ {t} : tx'[o] = tx[o] /\ held'[o] = held[o]
  PROVE  \A o \in Tx \ {t} : TxOK(o)'
<1> SUFFICES ASSUME NEW o \in Tx \ {t} PROVE TxOK(o)'
  OBVIOUS
<1>1. TypeOK /\ TxOK(o) /\ held[t] \cap held[o] = {} /\ tx'[o] = tx[o] /\ held'[o] = held[o]
  BY DEF LocksIInv, LocksOK
<1>2. CASE tx[o] = Idle
  BY <1>1, <1>2 DEF TxOK
<1>3. CASE ReserveOK(o)
  BY <1>1, <1>3, ReserveKept DEF TxOK
<1>4. CASE RefundOK(o)
  BY <1>1, <1>4, RefundKept DEF TxOK, LedgerMoves
<1>5. CASE GrantOK(o)
  BY <1>1, <1>5, GrantKept DEF TxOK
<1> QED
  BY <1>1, <1>2, <1>3, <1>4, <1>5 DEF TxOK

-----------------------------------------------------------------------------
(* The statements that only lock rows and read.                              *)

LEMMA LedgerStep ==
  ASSUME TypeOK, History, [Next]_vars
  PROVE  TypeOK' /\ History'
BY TypeOKStep, HistoryStep

LEMMA TxPut ==
  ASSUME LocksIInv, [Next]_vars, NEW t \in Tx, LedgerMoves(held[t]),
         DOMAIN tx' = Tx, DOMAIN held' = Tx,
         \A o \in Tx \ {t} : tx'[o] = tx[o] /\ held'[o] = held[o],
         TxOK(t)', \A o \in Tx \ {t} : held'[t] \cap held[o] = {}
  PROVE  LocksIInv'
<1>1. TypeOK' /\ History'
  BY LedgerStep DEF LocksIInv
<1>2. users' = User
  BY DEF LocksIInv, LedgerMoves
<1>3. \A o \in Tx : TxOK(o)'
  BY <1>1, OthersKept
<1>4. \A o, v \in Tx : o # v => held'[o] \cap held'[v] = {}
  BY DEF LocksIInv, LocksOK
<1> QED
  BY <1>1, <1>2, <1>3, <1>4 DEF LocksIInv, LocksOK

\* A connection that neither commits nor writes.
LEMMA Still ==
  ASSUME LocksIInv, UNCHANGED vars, NEW t
  PROVE  [Next]_vars /\ LedgerMoves(held[t])
<1>1. now <= now'
  <2>1. now \in Nat /\ now' = now
    BY LedgerAssumption DEF LocksIInv, TypeOK, Time, vars
  <2> QED
    BY <2>1
<1> QED
  BY <1>1 DEF vars, LedgerMoves, BalancesMove, PassesMove, SameDays

LEMMA LockPut ==
  ASSUME LocksIInv, NEW t \in Tx, NEW rows, NEW y, Lock(t, rows, y), TxOK(t)'
  PROVE  LocksIInv'
<1>1. /\ \A row \in rows : FreeFor(t, row)
      /\ held' = [held EXCEPT ![t] = held[t] \cup rows] /\ tx' = [tx EXCEPT ![t] = y]
      /\ UNCHANGED vars
  BY DEF Lock
<1>2. /\ DOMAIN tx' = Tx /\ DOMAIN held' = Tx /\ held'[t] = held[t] \cup rows
      /\ \A o \in Tx \ {t} : tx'[o] = tx[o] /\ held'[o] = held[o]
  BY <1>1 DEF LocksIInv, LocksOK
<1>3. \A o \in Tx \ {t} : held'[t] \cap held[o] = {}
  BY <1>1, <1>2 DEF FreeFor, LocksIInv, LocksOK
<1> QED
  BY <1>1, <1>2, <1>3, Still, TxPut

LEMMA BeginPut ==
  ASSUME LocksIInv, NEW t \in Tx, NEW y, tx' = [tx EXCEPT ![t] = y], UNCHANGED <<vars, held>>, TxOK(t)'
  PROVE  LocksIInv'
<1>1. /\ DOMAIN tx' = Tx /\ DOMAIN held' = Tx
      /\ \A o \in Tx \ {t} : tx'[o] = tx[o] /\ held'[o] = held[o]
  BY DEF LocksIInv, LocksOK
<1>2. \A o \in Tx \ {t} : held'[t] \cap held[o] = {}
  BY DEF LocksIInv, LocksOK
<1> QED
  BY <1>1, <1>2, Still, TxPut

LEMMA EndPut ==
  ASSUME LocksIInv, NEW t \in Tx, End(t), [Next]_vars, LedgerMoves(held[t])
  PROVE  LocksIInv'
<1>1. tx' = [tx EXCEPT ![t] = Idle] /\ held' = [held EXCEPT ![t] = {}]
  BY DEF End
<1>2. /\ DOMAIN tx' = Tx /\ DOMAIN held' = Tx /\ tx'[t] = Idle /\ held'[t] = {}
      /\ \A o \in Tx \ {t} : tx'[o] = tx[o] /\ held'[o] = held[o]
  BY <1>1 DEF LocksIInv, LocksOK
<1>3. TxOK(t)'
  BY <1>2 DEF TxOK
<1> QED
  BY <1>2, <1>3, TxPut

LEMMA AbandonPut ==
  ASSUME LocksIInv, NEW t \in Tx, Abandon(t)
  PROVE  LocksIInv'
BY Still, EndPut DEF Abandon

\* What the connection has after Lock.
LEMMA AfterLock ==
  ASSUME LocksIInv, NEW t \in Tx, NEW rows, NEW y, Lock(t, rows, y)
  PROVE  tx'[t] = y /\ held'[t] = held[t] \cup rows /\ UNCHANGED vars
BY DEF Lock, LocksIInv, LocksOK

-----------------------------------------------------------------------------
(* Reservations.                                                             *)

\* The transaction of a connection, by its operation.
LEMMA OpOf ==
  ASSUME LocksIInv, NEW t \in Tx
  PROVE  /\ tx[t].op = "reserve" => ReserveOK(t)
         /\ tx[t].op = "refund" => RefundOK(t)
         /\ tx[t].op = "grant" => GrantOK(t)
<1>1. TxOK(t)
  BY DEF LocksIInv, LocksOK
<1>2. tx[t] = Idle => tx[t].op = "none"
  BY DEF Idle
<1>3. ReserveOK(t) => tx[t].op = "reserve"
  BY DEF ReserveOK, ReserveTx
<1>4. RefundOK(t) => tx[t].op = "refund"
  BY DEF RefundOK, RefundTx, RefundBegun
<1>5. GrantOK(t) => tx[t].op = "grant"
  BY DEF GrantOK, GrantTx
<1> QED
  BY <1>1, <1>2, <1>3, <1>4, <1>5 DEF TxOK

LEMMA BalancesRead ==
  ASSUME TypeOK, NEW u \in User, NEW m \in Period, NEW pass
  PROVE  FreeLeft(u, m) \in Nat /\ PassLeft(pass) \in Nat /\ wallet[u] \in Nat
<1>1. Available(u, m, pass) \in UnitsBySource
  BY AvailableType
<1> QED
  BY <1>1 DEF Available, UnitsBySource

LEMMA BeginReserveKeeps ==
  ASSUME LocksIInv, NEW t \in Tx, NEW u \in User, NEW r \in ReservationId, NEW demand \in Demands,
         BeginReserve(t, u, r, demand)
  PROVE  LocksIInv'
<1> DEFINE y == [op |-> "reserve", step |-> "find", user |-> u, id |-> r, tier |-> demand.tier,
                 chars |-> demand.chars, at |-> now, pass |-> NoPass, available |-> Nothing]
<1>1. now \in Time /\ now <= now
  BY LedgerAssumption DEF LocksIInv, TypeOK, Time
<1>2. demand.tier \in Tiers /\ demand.chars \in 1 .. MaxChars
  BY LocksAssumption
<1>3. y \in ReserveTx /\ y.step = "find" /\ y.at = now
  BY <1>1, <1>2 DEF ReserveTx, UnitsBySource, Nothing
<1>4. tx' = [tx EXCEPT ![t] = y] /\ UNCHANGED <<vars, held>>
  BY DEF BeginReserve
<1> HIDE DEF y
<1>5. tx'[t] = y /\ now' = now
  BY <1>4 DEF LocksIInv, LocksOK, vars
<1>6. TxOK(t)'
  BY <1>1, <1>3, <1>5 DEF TxOK, ReserveOK
<1> QED
  BY <1>4, <1>6, BeginPut

LEMMA LockFreeKeeps ==
  ASSUME LocksIInv, NEW t \in Tx, FindReservation(t) \/ LockFree(t)
  PROVE  LocksIInv'
<1> DEFINE x == tx[t]
           m == PeriodOf[x.at]
<1>1. x \in ReserveTx /\ x.at <= now
  BY OpOf DEF FindReservation, LockFree, At, ReserveOK
<1>2. CASE FindReservation(t)
  <2> DEFINE y == [x EXCEPT !.step = "lockFree"]
  <2>1. CASE Abandon(t)
    BY <2>1, AbandonPut
  <2>2. CASE Lock(t, {}, y)
    <3>1. y \in ReserveTx /\ y.step = "lockFree" /\ y.at = x.at
      BY <1>1 DEF ReserveTx
    <3>2. tx'[t] = y /\ now' = now
      BY <2>2, AfterLock DEF vars
    <3> HIDE DEF y
    <3>3. TxOK(t)'
      BY <1>1, <3>1, <3>2 DEF TxOK, ReserveOK
    <3> QED
      BY <2>2, <3>3, LockPut
  <2> QED
    BY <1>2, <2>1, <2>2 DEF FindReservation
<1>3. CASE LockFree(t)
  <2> DEFINE row == FreeRow(x.user, m)
             n == FreeLeft(x.user, m)
             y == [x EXCEPT !.step = "lockPass", !.available.free = n]
  <2>1. Lock(t, {row}, y)
    BY <1>3 DEF LockFree
  <2>2. x.user \in User /\ m \in Period /\ n \in Nat
    BY <1>1, BalancesRead DEF ReserveTx, Period, LocksIInv
  <2>3. /\ y \in ReserveTx /\ y.step = "lockPass" /\ y.user = x.user /\ y.at = x.at
        /\ y.available.free = n
    <3> HIDE DEF n
    <3> QED
      BY <1>1, <2>2 DEF ReserveTx, UnitsBySource
  <2>4. tx'[t] = y /\ row \in held'[t] /\ now' = now /\ freeUsed' = freeUsed
    BY <2>1, AfterLock DEF vars
  <2> HIDE DEF y
  <2>6. TxOK(t)'
    BY <1>1, <2>3, <2>4 DEF TxOK, ReserveOK, FreeLeft
  <2> QED
    BY <2>1, <2>6, LockPut
<1> QED
  BY <1>2, <1>3

LEMMA LockPassKeeps ==
  ASSUME LocksIInv, NEW t \in Tx, LockPass(t)
  PROVE  LocksIInv'
<1> DEFINE x == tx[t]
           m == PeriodOf[x.at]
<1>1. /\ x \in ReserveTx /\ x.at <= now /\ x.step = "lockPass"
      /\ FreeRow(x.user, m) \in held[t] /\ x.available.free = FreeLeft(x.user, m)
  BY OpOf DEF LockPass, At, ReserveOK
<1>2. PICK pass \in ActivePass(x.user, x.at) :
        Lock(t, {PassRowLock(p) : p \in {pass} \ {NoPass}},
             [x EXCEPT !.step = "lockWallet", !.pass = pass, !.available.pass = PassLeft(pass)])
  BY DEF LockPass
<1> DEFINE n == PassLeft(pass)
           rows == {PassRowLock(p) : p \in {pass} \ {NoPass}}
           y == [x EXCEPT !.step = "lockWallet", !.pass = pass, !.available.pass = n]
<1>3. Lock(t, rows, y)
  BY <1>2
<1>4. x.user \in User /\ x.at \in Time /\ m \in Period
  BY <1>1 DEF ReserveTx, Period
<1>5. n \in Nat
  BY <1>4, BalancesRead DEF LocksIInv
<1>6. pass \in PaymentRef \cup {NoPass}
  BY DEF ActivePass, Running, PassesOf, LocksIInv, TypeOK
<1>7. pass # NoPass => PassRowLock(pass) \in rows
  OBVIOUS
<1>8. /\ y \in ReserveTx /\ y.step = "lockWallet" /\ y.user = x.user /\ y.at = x.at /\ y.pass = pass
      /\ y.available.free = x.available.free /\ y.available.pass = n
  <2> HIDE DEF n
  <2> QED
    BY <1>1, <1>5, <1>6 DEF ReserveTx, UnitsBySource
<1> HIDE DEF y, rows
<1>9. tx'[t] = y /\ held'[t] = held[t] \cup rows /\ UNCHANGED vars
  BY <1>3, AfterLock
<1>10. /\ x.available.free = FreeLeft(tx[t].user, PeriodOf[tx[t].at])'
       /\ PassLeft(pass)' = PassLeft(pass) /\ pass \in ActivePass(tx[t].user, tx[t].at)'
  <2>1. PICK u, at : u = x.user /\ at = x.at
    OBVIOUS
  <2>2. /\ FreeLeft(u, PeriodOf[at])' = FreeLeft(u, PeriodOf[at])
        /\ ActivePass(u, at)' = ActivePass(u, at) /\ PassLeft(pass)' = PassLeft(pass)
    BY <1>9 DEF vars, FreeLeft, PassLeft, ActivePass, Running, PassesOf
  <2>3. tx'[t].user = u /\ tx'[t].at = at
    BY <1>8, <1>9, <2>1
  <2> QED
    BY <1>1, <1>2, <2>1, <2>2, <2>3
<1>11. FreeRow(x.user, m) \in held'[t] /\ (pass # NoPass => PassRowLock(pass) \in held'[t])
  BY <1>1, <1>7, <1>9
<1>12. now' = now
  BY <1>9 DEF vars
<1>13. TxOK(t)'
  BY <1>1, <1>2, <1>8, <1>9, <1>10, <1>11, <1>12 DEF TxOK, ReserveOK
<1> QED
  BY <1>3, <1>13, LockPut

LEMMA LockWalletKeeps ==
  ASSUME LocksIInv, NEW t \in Tx, LockWallet(t)
  PROVE  LocksIInv'
<1> DEFINE x == tx[t]
           m == PeriodOf[x.at]
           n == wallet[x.user]
           rows == {WalletRow(x.user)}
           y == [x EXCEPT !.step = "write", !.available.credits = n]
<1>1. /\ x \in ReserveTx /\ x.at <= now /\ x.step = "lockWallet"
      /\ FreeRow(x.user, m) \in held[t] /\ x.available.free = FreeLeft(x.user, m)
      /\ x.pass # NoPass => PassRowLock(x.pass) \in held[t] /\ x.pass \in ActivePass(x.user, x.at)
      /\ x.available.pass = PassLeft(x.pass)
  BY OpOf DEF LockWallet, At, ReserveOK
<1>2. Lock(t, rows, y)
  BY DEF LockWallet
<1>3. n \in Nat
  BY <1>1 DEF ReserveTx, LocksIInv, TypeOK
<1>4. /\ y \in ReserveTx /\ y.step = "write" /\ y.user = x.user /\ y.at = x.at /\ y.pass = x.pass
      /\ y.available.free = x.available.free /\ y.available.pass = x.available.pass
      /\ y.available.credits = n
  <2> HIDE DEF n
  <2> QED
    BY <1>1, <1>3 DEF ReserveTx, UnitsBySource
<1> HIDE DEF y
<1>5. tx'[t] = y /\ held'[t] = held[t] \cup rows /\ UNCHANGED vars
  BY <1>2, AfterLock
<1>6. /\ x.available.free = FreeLeft(tx[t].user, PeriodOf[tx[t].at])'
      /\ x.available.pass = PassLeft(tx[t].pass)'
      /\ x.pass # NoPass => x.pass \in ActivePass(tx[t].user, tx[t].at)'
  <2>1. PICK u, at, p : u = x.user /\ at = x.at /\ p = x.pass
    OBVIOUS
  <2>2. /\ FreeLeft(u, PeriodOf[at])' = FreeLeft(u, PeriodOf[at])
        /\ ActivePass(u, at)' = ActivePass(u, at) /\ PassLeft(p)' = PassLeft(p)
    BY <1>5 DEF vars, FreeLeft, PassLeft, ActivePass, Running, PassesOf
  <2>3. tx'[t].user = u /\ tx'[t].at = at /\ tx'[t].pass = p
    BY <1>4, <1>5, <2>1
  <2> QED
    BY <1>1, <2>1, <2>2, <2>3
<1>7. now' = now /\ wallet' = wallet
  BY <1>5 DEF vars
<1>8. TxOK(t)'
  BY <1>1, <1>4, <1>5, <1>6, <1>7 DEF TxOK, ReserveOK
<1> QED
  BY <1>2, <1>8, LockPut

\* A commit that debits or gives back: the use of the passes it names moves.
LEMMA UseMoves ==
  ASSUME TypeOK, NEW h, NEW pass, NEW n, passes' = [p \in DOMAIN passes |->
                        IF p = pass THEN [passes[p] EXCEPT !.used = n] ELSE passes[p]],
         pass \in DOMAIN passes => passes[pass].used = n \/ PassRowLock(pass) \in h
  PROVE  PassesMove(h)
<1>1. DOMAIN passes' = DOMAIN passes
  OBVIOUS
<1>2. ASSUME NEW p \in DOMAIN passes
      PROVE  SameDays(p) /\ (passes'[p].used = passes[p].used \/ PassRowLock(p) \in h)
  <2>1. passes[p] \in PassRow
    BY DEF TypeOK
  <2>2. CASE p # pass
    BY <2>2 DEF SameDays
  <2>3. CASE p = pass
    <3>1. passes'[p] = [passes[p] EXCEPT !.used = n]
      BY <2>3
    <3> QED
      BY <2>1, <2>3, <3>1 DEF SameDays, PassRow
  <2> QED
    BY <2>2, <2>3
<1> QED
  BY <1>1, <1>2 DEF PassesMove

LEMMA WriteReservationKeeps ==
  ASSUME LocksIInv, NEW t \in Tx, WriteReservation(t)
  PROVE  LocksIInv' /\ [Next]_vars
<1> DEFINE x == tx[t]
           m == PeriodOf[x.at]
           taken == Taken(ForChars(x.chars, x.tier), x.tier, x.available)
<1>1. /\ x \in ReserveTx /\ x.at <= now /\ x.step = "write"
      /\ FreeRow(x.user, m) \in held[t] /\ x.available.free = FreeLeft(x.user, m)
      /\ x.pass # NoPass => PassRowLock(x.pass) \in held[t] /\ x.pass \in ActivePass(x.user, x.at)
      /\ x.available.pass = PassLeft(x.pass)
      /\ WalletRow(x.user) \in held[t] /\ x.available.credits = wallet[x.user]
  BY OpOf DEF WriteReservation, At, ReserveOK
<1>2. CASE Abandon(t)
  BY <1>2, AbandonPut DEF Abandon
<1>3. CASE /\ Covers(ForChars(x.chars, x.tier), x.tier, x.available) /\ x.id \notin DOMAIN reservations
           /\ Debit(x.user, x.id, x.tier, x.chars, x.at, x.pass, x.available)
           /\ End(t)
           /\ UNCHANGED <<now, users, purchases>>
  <2>1. /\ x.user \in User /\ x.id \in ReservationId /\ x.tier \in Tiers /\ x.chars \in 1 .. MaxChars
        /\ x.at \in Time /\ m \in Period /\ x.available \in UnitsBySource
    BY <1>1 DEF ReserveTx, Period
  <2>2. x.available = Available(x.user, m, x.pass)
    BY <1>1, <2>1 DEF Available, UnitsBySource
  <2>3. x.pass \in ActivePass(x.user, x.at) \cup {NoPass} /\ x.chars <= MaxChars /\ x.user \in users
    BY <1>1, <2>1, LedgerAssumption DEF LocksIInv
  <2>4. Reserve(x.user, x.id, x.tier, x.chars, x.at, x.pass)
    BY <1>1, <1>3, <2>2, <2>3 DEF Reserve
  <2>5. [Next]_vars
    BY <2>1, <2>3, <2>4 DEF Next
  <2>6. /\ reservations' = Insert(reservations, x.id, reservations'[x.id])
        /\ freeUsed' = [freeUsed EXCEPT ![x.user][m] = @ + taken.free]
        /\ passes' = [p \in DOMAIN passes |->
                        IF p = x.pass THEN [passes[p] EXCEPT !.used = @ + taken.pass] ELSE passes[p]]
        /\ wallet' = [wallet EXCEPT ![x.user] = @ - taken.credits]
    BY <1>3 DEF Debit, Insert
  <2> HIDE DEF taken
  <2>7. BalancesMove(held[t])
    <3>1. \A v \in User, k \in Period : freeUsed'[v][k] = freeUsed[v][k] \/ FreeRow(v, k) \in held[t]
      BY <1>1, <2>1, <2>6 DEF LocksIInv, TypeOK
    <3>2. \A v \in User : wallet'[v] = wallet[v] \/ WalletRow(v) \in held[t]
      BY <1>1, <2>1, <2>6 DEF LocksIInv, TypeOK
    <3>3. \A r \in DOMAIN reservations : r \in DOMAIN reservations' /\ reservations'[r] = reservations[r]
      BY <1>3, <2>6 DEF Insert
    <3> QED
      BY <3>1, <3>2, <3>3 DEF BalancesMove
  <2>8. PassesMove(held[t])
    <3> DEFINE n == passes[x.pass].used + taken.pass
    <3>1. passes' = [p \in DOMAIN passes |->
                       IF p = x.pass THEN [passes[p] EXCEPT !.used = n] ELSE passes[p]]
      BY <2>6
    <3>2. NoPass \notin DOMAIN passes
      BY NotAPass DEF LocksIInv
    <3> HIDE DEF n
    <3> QED
      BY <1>1, <3>1, <3>2, UseMoves DEF LocksIInv
  <2>9. now <= now'
    BY <1>3, LedgerAssumption DEF LocksIInv, TypeOK, Time
  <2> QED
    BY <1>3, <2>5, <2>7, <2>8, <2>9, EndPut DEF LedgerMoves
<1> QED
  BY <1>2, <1>3 DEF WriteReservation

-----------------------------------------------------------------------------
(* Refunds.                                                                  *)

LEMMA BeginRefundKeeps ==
  ASSUME LocksIInv, NEW t \in Tx, NEW r \in DOMAIN reservations, NEW chars \in 1 .. MaxChars,
         BeginRefund(t, r, chars)
  PROVE  LocksIInv'
<1> DEFINE y == [op |-> "refund", step |-> "lockReservation", id |-> r, chars |-> chars]
<1>1. y \in RefundBegun
  BY DEF RefundBegun, LocksIInv, TypeOK
<1>2. tx' = [tx EXCEPT ![t] = y] /\ UNCHANGED <<vars, held>>
  BY DEF BeginRefund
<1> HIDE DEF y
<1>3. tx'[t] = y
  BY <1>2 DEF LocksIInv, LocksOK
<1>4. TxOK(t)'
  BY <1>1, <1>3 DEF TxOK, RefundOK
<1> QED
  BY <1>2, <1>4, BeginPut

LEMMA LockReservationKeeps ==
  ASSUME LocksIInv, NEW t \in Tx, LockReservation(t)
  PROVE  LocksIInv'
<1> DEFINE x == tx[t]
           row == reservations[x.id]
           given == Lesser(x.chars, row.chars)
           rows == {ReservationLock(x.id)}
           y == [op |-> "refund", step |-> "updateFree", id |-> x.id, row |-> row, chars |-> given]
<1>1. x \in RefundBegun
  BY OpOf DEF LockReservation, At, RefundOK, RefundTx
<1>2. CASE Abandon(t)
  BY <1>2, AbandonPut
<1>3. CASE x.id \in DOMAIN reservations /\ ~row.refunded /\ Lock(t, rows, y)
  <2>1. row \in ReservationRow
    BY <1>3 DEF LocksIInv, TypeOK
  <2>2. given \in 1 .. MaxChars /\ given <= row.chars
    <3>1. row.chars \in Nat \ {0} /\ x.chars \in 1 .. MaxChars /\ MaxChars \in Nat
      BY <1>1, <2>1, LedgerAssumption DEF ReservationRow, RefundBegun
    <3> QED
      BY <3>1 DEF Lesser
  <2> HIDE DEF given
  <2>3. /\ y \in RefundTx /\ y.id = x.id /\ y.row = row /\ y.chars = given /\ y.step = "updateFree"
    BY <1>1, <2>1, <2>2 DEF RefundTx, RefundBegun
  <2> HIDE DEF y
  <2>4. tx'[t] = y /\ ReservationLock(x.id) \in held'[t] /\ reservations' = reservations
    BY <1>3, AfterLock DEF vars
  <2>5. TxOK(t)'
    BY <1>3, <2>2, <2>3, <2>4 DEF TxOK, RefundOK
  <2> QED
    BY <1>3, <2>5, LockPut
<1> QED
  BY <1>2, <1>3 DEF LockReservation

\* The rows of a refund depend on what it gives back, not on how far it is.
LEMMA SameRefundRows ==
  ASSUME NEW x \in RefundTx, NEW step \in {"updatePass", "updateWallet", "commit"}, NEW y,
         y = [x EXCEPT !.step = step]
  PROVE  /\ y \in RefundTx /\ y.step = step /\ y.id = x.id /\ y.row = x.row /\ y.chars = x.chars
         /\ FreeRowOf(y) = FreeRowOf(x) /\ PassRowOf(y) = PassRowOf(x) /\ WalletRowOf(y) = WalletRowOf(x)
<1>1. y \in RefundTx /\ y.step = step /\ y.id = x.id /\ y.row = x.row /\ y.chars = x.chars
  BY DEF RefundTx
<1> QED
  BY <1>1 DEF FreeRowOf, PassRowOf, WalletRowOf, Back

LEMMA RefundGoesOn ==
  ASSUME LocksIInv, NEW t \in Tx, RefundOK(t), tx[t] \in RefundTx, NEW rows,
         NEW step \in {"updatePass", "updateWallet", "commit"},
         Lock(t, rows, [tx[t] EXCEPT !.step = step]),
         FreeRowOf(tx[t]) \subseteq held[t] \cup rows,
         step \in {"updateWallet", "commit"} => PassRowOf(tx[t]) \subseteq held[t] \cup rows,
         step = "commit" => WalletRowOf(tx[t]) \subseteq held[t] \cup rows
  PROVE  LocksIInv'
<1> DEFINE x == tx[t]
           y == [x EXCEPT !.step = step]
<1>1. /\ x \in RefundTx /\ x.id \in DOMAIN reservations /\ x.row = reservations[x.id]
      /\ ~x.row.refunded /\ x.chars <= x.row.chars /\ ReservationLock(x.id) \in held[t]
  BY DEF RefundOK, RefundTx, RefundBegun
<1>2. /\ y \in RefundTx /\ y.step = step /\ y.id = x.id /\ y.row = x.row /\ y.chars = x.chars
      /\ FreeRowOf(y) = FreeRowOf(x) /\ PassRowOf(y) = PassRowOf(x) /\ WalletRowOf(y) = WalletRowOf(x)
  BY <1>1, SameRefundRows
<1> HIDE DEF y
<1>3. tx'[t] = y /\ held'[t] = held[t] \cup rows /\ reservations' = reservations
  BY AfterLock DEF vars, y
<1>4. /\ FreeRowOf(tx[t])' = FreeRowOf(x) /\ PassRowOf(tx[t])' = PassRowOf(x)
      /\ WalletRowOf(tx[t])' = WalletRowOf(x)
  BY <1>2, <1>3 DEF FreeRowOf, PassRowOf, WalletRowOf, Back
<1>5. RefundOK(t)'
  BY <1>1, <1>2, <1>3, <1>4 DEF RefundOK
<1> QED
  BY <1>5, LockPut DEF y, TxOK

LEMMA UpdateKeeps ==
  ASSUME LocksIInv, NEW t \in Tx, UpdateFree(t) \/ UpdatePass(t) \/ UpdateWallet(t)
  PROVE  LocksIInv'
<1> DEFINE x == tx[t]
<1>1. RefundOK(t) /\ x \in RefundTx
  BY OpOf DEF UpdateFree, UpdatePass, UpdateWallet, At, RefundOK, RefundBegun
<1>2. /\ x.step \in {"updatePass", "updateWallet", "commit"} => FreeRowOf(x) \subseteq held[t]
      /\ x.step \in {"updateWallet", "commit"} => PassRowOf(x) \subseteq held[t]
  BY <1>1 DEF RefundOK, RefundBegun, RefundTx
<1>3. /\ RowsToUpdate(x)[1] = FreeRowOf(x) /\ RowsToUpdate(x)[2] = PassRowOf(x)
      /\ RowsToUpdate(x)[3] = WalletRowOf(x)
  BY DEF RowsToUpdate
<1>4. CASE UpdateFree(t)
  <2>1. Lock(t, FreeRowOf(x), [x EXCEPT !.step = "updatePass"])
    BY <1>3, <1>4 DEF UpdateFree
  <2> QED
    BY <1>1, <2>1, RefundGoesOn
<1>5. CASE UpdatePass(t)
  <2>1. x.step = "updatePass" /\ Lock(t, PassRowOf(x), [x EXCEPT !.step = "updateWallet"])
    BY <1>3, <1>5 DEF UpdatePass, At
  <2> QED
    BY <1>1, <1>2, <2>1, RefundGoesOn
<1>6. CASE UpdateWallet(t)
  <2>1. x.step = "updateWallet" /\ Lock(t, WalletRowOf(x), [x EXCEPT !.step = "commit"])
    BY <1>3, <1>6 DEF UpdateWallet, At
  <2> QED
    BY <1>1, <1>2, <2>1, RefundGoesOn
<1> QED
  BY <1>4, <1>5, <1>6

LEMMA CommitRefundKeeps ==
  ASSUME LocksIInv, NEW t \in Tx, CommitRefund(t)
  PROVE  LocksIInv' /\ [Next]_vars
<1> DEFINE x == tx[t]
           r == x.id
           row == x.row
           back == Back(x)
<1>1. /\ x \in RefundTx /\ r \in DOMAIN reservations /\ row = reservations[r]
      /\ ~row.refunded /\ x.chars <= row.chars /\ ReservationLock(r) \in held[t]
      /\ FreeRowOf(x) \subseteq held[t] /\ PassRowOf(x) \subseteq held[t]
      /\ WalletRowOf(x) \subseteq held[t]
  BY OpOf DEF CommitRefund, At, RefundOK, RefundBegun, RefundTx
<1>2. GiveBack(r, row, x.chars) /\ End(t) /\ UNCHANGED <<now, users, purchases>>
  BY DEF CommitRefund
<1>3. /\ r \in ReservationId /\ row \in ReservationRow /\ x.chars \in 1 .. MaxChars
  BY <1>1 DEF LocksIInv, TypeOK, RefundTx
<1>4. Lesser(x.chars, row.chars) = x.chars /\ x.chars > 0 /\ x.chars \in Nat
  <2>1. row.chars \in Nat /\ x.chars \in 1 .. MaxChars /\ MaxChars \in Nat
    BY <1>3, LedgerAssumption DEF ReservationRow
  <2> QED
    BY <1>1, <2>1 DEF Lesser
<1>5. [Next]_vars
  <2>1. Refund(r, x.chars)
    BY <1>1, <1>2, <1>4 DEF Refund
  <2> QED
    BY <1>3, <2>1 DEF Next
<1>6. back \in UnitsBySource
  <2>1. row.taken \in UnitsBySource /\ ForChars(x.chars, row.tier) \in Nat
    BY <1>3, <1>4, ForCharsType DEF ReservationRow
  <2> QED
    BY <2>1, SplitRefundFits DEF Back
<1>7. /\ reservations' = [reservations EXCEPT ![r].refunded = TRUE, ![r].refundedChars = x.chars]
      /\ freeUsed' = [freeUsed EXCEPT ![row.user][row.period] = Floor(@, back.free)]
      /\ passes' = [p \in DOMAIN passes |->
                      IF p = row.pass THEN [passes[p] EXCEPT !.used = Floor(@, back.pass)]
                                      ELSE passes[p]]
      /\ wallet' = [wallet EXCEPT ![row.user] = @ + back.credits]
  BY <1>2 DEF GiveBack, Back, RefundPeriod
<1>8. /\ back.free > 0 => FreeRow(row.user, row.period) \in held[t]
      /\ back.pass > 0 => PassRowLock(row.pass) \in held[t]
      /\ back.credits > 0 => WalletRow(row.user) \in held[t]
  BY <1>1 DEF FreeRowOf, PassRowOf, WalletRowOf
<1>9. /\ row.user \in User /\ row.period \in Period
      /\ back.free \in Nat /\ back.pass \in Nat /\ back.credits \in Nat
  BY <1>3, <1>6 DEF ReservationRow, UnitsBySource
<1> HIDE DEF back
<1>10. BalancesMove(held[t])
  <2>1. ASSUME NEW v \in User, NEW k \in Period
        PROVE  freeUsed'[v][k] = freeUsed[v][k] \/ FreeRow(v, k) \in held[t]
    <3>1. freeUsed[v][k] \in Nat
      BY DEF LocksIInv, TypeOK
    <3>2. CASE v = row.user /\ k = row.period
      <4>1. freeUsed'[v][k] = Floor(freeUsed[v][k], back.free)
        BY <1>7, <1>9, <3>2 DEF LocksIInv, TypeOK
      <4> QED
        BY <1>8, <1>9, <3>1, <3>2, <4>1 DEF Floor
    <3>3. CASE ~(v = row.user /\ k = row.period)
      BY <1>7, <1>9, <3>3 DEF LocksIInv, TypeOK
    <3> QED
      BY <3>2, <3>3
  <2>2. ASSUME NEW v \in User
        PROVE  wallet'[v] = wallet[v] \/ WalletRow(v) \in held[t]
    BY <1>7, <1>8, <1>9 DEF LocksIInv, TypeOK
  <2>3. \A k \in DOMAIN reservations :
          /\ k \in DOMAIN reservations'
          /\ reservations'[k] = reservations[k] \/ ReservationLock(k) \in held[t]
    BY <1>1, <1>7
  <2> QED
    BY <2>1, <2>2, <2>3 DEF BalancesMove
<1>11. PassesMove(held[t])
  <2> DEFINE n == Floor(passes[row.pass].used, back.pass)
  <2>1. passes' = [p \in DOMAIN passes |->
                     IF p = row.pass THEN [passes[p] EXCEPT !.used = n] ELSE passes[p]]
    BY <1>7
  <2>2. row.pass \in DOMAIN passes => passes[row.pass].used = n \/ PassRowLock(row.pass) \in held[t]
    <3>1. row.pass \in DOMAIN passes => passes[row.pass].used \in Nat
      BY DEF LocksIInv, TypeOK, PassRow
    <3> QED
      BY <1>8, <1>9, <3>1 DEF Floor
  <2> HIDE DEF n
  <2> QED
    BY <2>1, <2>2, UseMoves DEF LocksIInv
<1>12. now <= now'
  BY <1>2, LedgerAssumption DEF LocksIInv, TypeOK, Time
<1> QED
  BY <1>2, <1>5, <1>10, <1>11, <1>12, EndPut DEF LedgerMoves

-----------------------------------------------------------------------------
(* Grants.                                                                   *)

LEMMA BeginGrantKeeps ==
  ASSUME LocksIInv, NEW t \in Tx, NEW u \in User, NEW ref \in PaymentRef, NEW code \in OfferCode,
         BeginGrant(t, u, ref, code)
  PROVE  LocksIInv'
<1> DEFINE y == [op |-> "grant", step |-> "find", user |-> u, ref |-> ref, code |-> code,
                 at |-> now, startsAt |-> now]
<1>1. now \in Time /\ now \in Nat /\ now <= now
  BY LedgerAssumption DEF LocksIInv, TypeOK, Time
<1>2. y \in GrantTx /\ y.step = "find" /\ y.at = now
  BY <1>1 DEF GrantTx
<1>3. tx' = [tx EXCEPT ![t] = y] /\ UNCHANGED <<vars, held>>
  BY DEF BeginGrant
<1> HIDE DEF y
<1>4. tx'[t] = y /\ now' = now
  BY <1>3 DEF LocksIInv, LocksOK, vars
<1>5. TxOK(t)'
  BY <1>1, <1>2, <1>4 DEF TxOK, GrantOK
<1> QED
  BY <1>3, <1>5, BeginPut

LEMMA FindPurchaseKeeps ==
  ASSUME LocksIInv, NEW t \in Tx, FindPurchase(t)
  PROVE  LocksIInv'
<1> DEFINE x == tx[t]
           y == [x EXCEPT !.step = "lockWallet", !.at = now]
<1>1. x \in GrantTx
  BY OpOf DEF FindPurchase, At, GrantOK
<1>2. CASE Abandon(t)
  BY <1>2, AbandonPut
<1>3. CASE Lock(t, {}, y)
  <2>1. now \in Time /\ now <= now
    BY LedgerAssumption DEF LocksIInv, TypeOK, Time
  <2>2. y \in GrantTx /\ y.step = "lockWallet" /\ y.at = now
    BY <1>1, <2>1 DEF GrantTx
  <2> HIDE DEF y
  <2>3. tx'[t] = y /\ now' = now
    BY <1>3, AfterLock DEF vars
  <2>4. TxOK(t)'
    BY <2>1, <2>2, <2>3 DEF TxOK, GrantOK
  <2> QED
    BY <1>3, <2>4, LockPut
<1> QED
  BY <1>2, <1>3 DEF FindPurchase

LEMMA LockForPurchaseKeeps ==
  ASSUME LocksIInv, NEW t \in Tx, LockForPurchase(t)
  PROVE  LocksIInv'
<1> DEFINE x == tx[t]
           rows == {WalletRow(x.user)}
           y == [x EXCEPT !.step = "latest"]
<1>1. x \in GrantTx /\ x.at <= now
  BY OpOf DEF LockForPurchase, At, GrantOK
<1>2. Lock(t, rows, y)
  BY DEF LockForPurchase
<1>3. y \in GrantTx /\ y.step = "latest" /\ y.at = x.at /\ y.user = x.user
  BY <1>1 DEF GrantTx
<1> HIDE DEF y
<1>4. tx'[t] = y /\ WalletRow(x.user) \in held'[t] /\ now' = now
  BY <1>2, AfterLock DEF vars
<1>5. TxOK(t)'
  BY <1>1, <1>3, <1>4 DEF TxOK, GrantOK
<1> QED
  BY <1>2, <1>5, LockPut

LEMMA ReadLatestPassEndKeeps ==
  ASSUME LocksIInv, NEW t \in Tx, ReadLatestPassEnd(t)
  PROVE  LocksIInv'
<1> DEFINE x == tx[t]
<1>1. x \in GrantTx /\ x.at <= now /\ x.step = "latest" /\ WalletRow(x.user) \in held[t]
  BY OpOf DEF ReadLatestPassEnd, At, GrantOK
<1>2. PICK startsAt \in PassStart(x.user, x.at) :
        Lock(t, {}, [x EXCEPT !.step = "write", !.startsAt = startsAt])
  BY DEF ReadLatestPassEnd
<1> DEFINE y == [x EXCEPT !.step = "write", !.startsAt = startsAt]
<1>3. startsAt \in Nat
  <2>1. x.user \in User /\ x.at \in Time
    BY <1>1 DEF GrantTx
  <2> QED
    BY <2>1, PassStartType DEF LocksIInv
<1>4. y \in GrantTx /\ y.step = "write" /\ y.at = x.at /\ y.user = x.user /\ y.startsAt = startsAt
  BY <1>1, <1>3 DEF GrantTx
<1>5. Lock(t, {}, y)
  BY <1>2
<1> HIDE DEF y
<1>6. tx'[t] = y /\ WalletRow(x.user) \in held'[t] /\ UNCHANGED vars
  BY <1>1, <1>5, AfterLock
<1>7. startsAt \in PassStart(tx[t].user, tx[t].at)'
  <2>1. PICK u, at : u = x.user /\ at = x.at
    OBVIOUS
  <2>2. PassStart(u, at)' = PassStart(u, at)
    BY <1>6 DEF vars, PassStart, PassesOf
  <2>3. tx'[t].user = u /\ tx'[t].at = at
    BY <1>4, <1>6, <2>1
  <2> QED
    BY <1>2, <2>1, <2>2, <2>3
<1>8. now' = now
  BY <1>6 DEF vars
<1>9. TxOK(t)'
  BY <1>1, <1>4, <1>6, <1>7, <1>8 DEF TxOK, GrantOK
<1> QED
  BY <1>5, <1>9, LockPut

LEMMA WritePurchaseKeeps ==
  ASSUME LocksIInv, NEW t \in Tx, WritePurchase(t)
  PROVE  LocksIInv' /\ [Next]_vars
<1> DEFINE x == tx[t]
<1>1. /\ x \in GrantTx /\ x.at <= now /\ WalletRow(x.user) \in held[t]
      /\ x.startsAt \in PassStart(x.user, x.at)
  BY OpOf DEF WritePurchase, At, GrantOK
<1>2. CASE Abandon(t)
  BY <1>2, AbandonPut DEF Abandon
<1>3. CASE /\ x.ref \notin DOMAIN purchases
           /\ RecordPurchase(x.user, x.ref, x.code, x.startsAt)
           /\ End(t)
           /\ UNCHANGED <<now, users, freeUsed, reservations>>
  <2>1. /\ x.user \in User /\ x.ref \in PaymentRef /\ x.code \in OfferCode /\ x.at \in Time
        /\ x.user \in users
    BY <1>1 DEF GrantTx, LocksIInv
  <2>2. Grant(x.user, x.ref, x.code, x.at, x.startsAt)
    BY <1>1, <1>3, <2>1 DEF Grant
  <2>3. [Next]_vars
    BY <1>1, <2>1, <2>2 DEF Next
  <2>4. x.ref \notin DOMAIN passes
    BY <1>3 DEF LocksIInv, History, PassesArePurchased
  <2> DEFINE offer == Offers[x.code]
             pass == [user |-> x.user, startsAt |-> x.startsAt,
                      endsAt |-> x.startsAt + offer.days, included |-> offer.units, used |-> 0]
  <2>5. \/ passes' = Insert(passes, x.ref, pass) /\ wallet' = wallet
        \/ passes' = passes /\ wallet' = [wallet EXCEPT ![x.user] = @ + offer.units]
    BY <1>3 DEF RecordPurchase
  <2>6. pass.user = x.user /\ pass.startsAt = x.startsAt
    OBVIOUS
  <2> HIDE DEF pass, offer
  <2>7. BalancesMove(held[t])
    <3>1. \A v \in User : wallet'[v] = wallet[v] \/ WalletRow(v) \in held[t]
      BY <1>1, <2>1, <2>5 DEF LocksIInv, TypeOK
    <3> QED
      BY <1>3, <3>1 DEF BalancesMove
  <2>8. PassesMove(held[t])
    <3>1. CASE passes' = passes
      BY <3>1 DEF PassesMove, SameDays
    <3>2. CASE passes' = Insert(passes, x.ref, pass)
      <4>1. /\ DOMAIN passes' = DOMAIN passes \cup {x.ref} /\ passes'[x.ref] = pass
            /\ \A p \in DOMAIN passes : passes'[p] = passes[p]
        BY <2>4, <3>2 DEF Insert
      <4>2. \A q \in PassesOf(x.user) : passes[q].endsAt <= x.startsAt
        BY <1>1 DEF PassStart
      <4>3. \A p \in DOMAIN passes' \ DOMAIN passes : passes'[p] = pass
        BY <4>1
      <4> QED
        BY <1>1, <2>6, <4>1, <4>2, <4>3 DEF PassesMove, SameDays
    <3> QED
      BY <2>5, <3>1, <3>2
  <2>9. now <= now'
    BY <1>3, LedgerAssumption DEF LocksIInv, TypeOK, Time
  <2> QED
    BY <1>3, <2>3, <2>7, <2>8, <2>9, EndPut DEF LedgerMoves
<1> QED
  BY <1>2, <1>3 DEF WritePurchase

-----------------------------------------------------------------------------
(* The theorems. *)

LEMMA InitLocksIInv == LocksInit => LocksIInv
<1> SUFFICES ASSUME LocksInit PROVE LocksIInv
  OBVIOUS
<1>1. Init /\ DOMAIN tx = Tx /\ DOMAIN held = Tx /\ \A t \in Tx : tx[t] = Idle /\ held[t] = {}
  BY DEF LocksInit
<1>2. TypeOK /\ History /\ users = User
  BY <1>1, InitTypeOK, InitHistory DEF Init
<1>3. LocksOK
  BY <1>1 DEF LocksOK, TxOK
<1> QED
  BY <1>2, <1>3 DEF LocksIInv

\* The ledger moves without any connection.
LEMMA NobodyMoves ==
  ASSUME LocksIInv, [Next]_vars, LedgerMoves({}), tx' = tx, held' = held
  PROVE  LocksIInv'
<1>1. TypeOK' /\ History'
  BY LedgerStep DEF LocksIInv
<1>2. ASSUME NEW t \in Tx
      PROVE  TxOK(t)'
  <2>1. TxOK(t) /\ tx'[t] = tx[t] /\ held'[t] = held[t] /\ {} \cap held[t] = {}
    BY DEF LocksIInv, LocksOK
  <2>2. CASE tx[t] = Idle
    BY <2>1, <2>2 DEF TxOK
  <2>3. CASE ReserveOK(t)
    BY <1>1, <2>1, <2>3, ReserveKept DEF TxOK, LocksIInv
  <2>4. CASE RefundOK(t)
    BY <2>1, <2>4, RefundKept DEF TxOK, LedgerMoves
  <2>5. CASE GrantOK(t)
    BY <1>1, <2>1, <2>5, GrantKept DEF TxOK, LocksIInv
  <2> QED
    BY <2>1, <2>2, <2>3, <2>4, <2>5 DEF TxOK
<1>3. LocksOK' /\ users' = User
  BY <1>2 DEF LocksIInv, LocksOK, LedgerMoves
<1> QED
  BY <1>1, <1>3 DEF LocksIInv

LEMMA TickClockKeeps ==
  ASSUME LocksIInv, TickClock
  PROVE  LocksIInv' /\ [Next]_vars
<1>1. [Next]_vars
  BY DEF TickClock, Next
<1>2. now <= now'
  BY LedgerAssumption DEF TickClock, Tick, LocksIInv, TypeOK, Time
<1>3. LedgerMoves({})
  BY <1>2, StillLedgerMoves DEF TickClock, Tick, LocksIInv
<1> QED
  BY <1>1, <1>3, NobodyMoves DEF TickClock, lockVars

LEMMA UnchangedKeeps ==
  ASSUME LocksIInv, UNCHANGED allVars
  PROVE  LocksIInv' /\ [Next]_vars
<1>1. UNCHANGED vars /\ tx' = tx /\ held' = held
  BY DEF allVars, vars
<1>2. LedgerMoves({})
  BY <1>1, StillLedgerMoves, LedgerAssumption DEF vars, LocksIInv, TypeOK, Time
<1> QED
  BY <1>1, <1>2, NobodyMoves

\* A statement that neither commits nor writes leaves the ledger as it is.
LEMMA Statements ==
  ASSUME NEW t
  PROVE  /\ FindReservation(t) \/ LockFree(t) \/ LockPass(t) \/ LockWallet(t) => UNCHANGED vars
         /\ LockReservation(t) \/ UpdateFree(t) \/ UpdatePass(t) \/ UpdateWallet(t) => UNCHANGED vars
         /\ FindPurchase(t) \/ LockForPurchase(t) \/ ReadLatestPassEnd(t) => UNCHANGED vars
         /\ Begin(t) => UNCHANGED vars
<1>1. FindReservation(t) \/ LockFree(t) \/ LockPass(t) \/ LockWallet(t) => UNCHANGED vars
  BY DEF FindReservation, LockFree, LockPass, LockWallet, Lock, Abandon
<1>2. LockReservation(t) \/ UpdateFree(t) \/ UpdatePass(t) \/ UpdateWallet(t) => UNCHANGED vars
  BY DEF LockReservation, UpdateFree, UpdatePass, UpdateWallet, Lock, Abandon
<1>3. FindPurchase(t) \/ LockForPurchase(t) \/ ReadLatestPassEnd(t) => UNCHANGED vars
  BY DEF FindPurchase, LockForPurchase, ReadLatestPassEnd, Lock, Abandon
<1>4. Begin(t) => UNCHANGED vars
  BY DEF Begin, BeginReserve, BeginRefund, BeginGrant
<1> QED
  BY <1>1, <1>2, <1>3, <1>4

LEMMA BeginKeeps ==
  ASSUME LocksIInv, NEW t \in Tx, Begin(t)
  PROVE  LocksIInv'
<1>1. CASE \E u \in User, r \in ReservationId, demand \in Demands : BeginReserve(t, u, r, demand)
  BY <1>1, BeginReserveKeeps
<1>2. CASE \E r \in DOMAIN reservations, chars \in 1 .. MaxChars : BeginRefund(t, r, chars)
  BY <1>2, BeginRefundKeeps
<1>3. CASE \E u \in User, ref \in PaymentRef, code \in OfferCode : BeginGrant(t, u, ref, code)
  BY <1>3, BeginGrantKeeps
<1> QED
  BY <1>1, <1>2, <1>3 DEF Begin

LEMMA StepKeeps ==
  ASSUME LocksIInv, NEW t \in Tx, Step(t)
  PROVE  LocksIInv' /\ [Next]_vars
<1>1. CASE ReserveStep(t)
  BY <1>1, LockFreeKeeps, LockPassKeeps, LockWalletKeeps, WriteReservationKeeps, Statements
     DEF ReserveStep
<1>2. CASE RefundStep(t)
  BY <1>2, LockReservationKeeps, UpdateKeeps, CommitRefundKeeps, Statements DEF RefundStep
<1>3. CASE GrantStep(t)
  BY <1>3, FindPurchaseKeeps, LockForPurchaseKeeps, ReadLatestPassEndKeeps, WritePurchaseKeeps,
     Statements DEF GrantStep
<1> QED
  BY <1>1, <1>2, <1>3 DEF Step

LEMMA LocksStep == LocksIInv /\ [LocksNext]_allVars => LocksIInv' /\ [Next]_vars
<1> SUFFICES ASSUME LocksIInv, [LocksNext]_allVars PROVE LocksIInv' /\ [Next]_vars
  OBVIOUS
<1>1. CASE UNCHANGED allVars
  BY <1>1, UnchangedKeeps
<1>2. CASE TickClock
  BY <1>2, TickClockKeeps
<1>3. ASSUME NEW t \in Tx, Begin(t)
      PROVE  LocksIInv' /\ [Next]_vars
  BY <1>3, BeginKeeps, Statements
<1>4. ASSUME NEW t \in Tx, Step(t)
      PROVE  LocksIInv' /\ [Next]_vars
  BY <1>4, StepKeeps
<1> QED
  BY <1>1, <1>2, <1>3, <1>4 DEF LocksNext

LEMMA LocksInvariant == LocksSpec => []LocksIInv
<1> QED
  BY InitLocksIInv, LocksStep, PTL DEF LocksSpec

\* What a transaction has read under its locks is still true when it writes,
\* whatever the other connections have committed in between (lockBalances,
\* refundOnce, lockForPurchase).
THEOREM ReadsStayCurrentInvariant == LocksSpec => []ReadsStayCurrent
<1>1. LocksIInv => ReadsStayCurrent
  <2> SUFFICES ASSUME LocksIInv, NEW t \in Tx
               PROVE  /\ tx[t].op = "reserve" =>
                           /\ tx[t].step \in {"lockPass", "lockWallet", "write"} =>
                                tx[t].available.free = FreeLeft(tx[t].user, PeriodOf[tx[t].at])
                           /\ tx[t].step \in {"lockWallet", "write"} =>
                                tx[t].available.pass = PassLeft(tx[t].pass)
                           /\ tx[t].step = "write" => tx[t].available.credits = wallet[tx[t].user]
                      /\ tx[t].op = "refund" /\ tx[t].step # "lockReservation" =>
                           tx[t].row = reservations[tx[t].id]
                      /\ tx[t].op = "grant" /\ tx[t].step = "write" =>
                           tx[t].startsAt \in PassStart(tx[t].user, tx[t].at)
    BY DEF ReadsStayCurrent
  <2> QED
    BY OpOf DEF ReserveOK, RefundOK, RefundBegun, GrantOK
<1> QED
  BY <1>1, LocksInvariant, PTL

\* Every interleaving of the statements of the connections is a behaviour of
\* UnitsLedger, whose transactions are single steps: the row locks make the
\* transactions of the billing repository atomic.
THEOREM ImplementsLedgerHolds == LocksSpec => ImplementsLedger
<1>1. LocksInit => Init
  BY DEF LocksInit
<1> QED
  BY <1>1, LocksStep, LocksInvariant, PTL DEF LocksSpec, ImplementsLedger, Spec

-----------------------------------------------------------------------------
(* No deadlock.  Every transaction takes its rows in the order reservation,  *)
(* usage, pass, wallet, so that one that waits waits for a transaction       *)
(* further in that order, and the furthest one does not wait.                *)

\* The place of a row in that order, and the place a statement has come to.
RankOf(row) ==
  CASE row[1] = "reservation" -> 0
    [] row[1] = "free" -> 1
    [] row[1] = "pass" -> 2
    [] row[1] = "wallet" -> 3

StageOf(step) ==
  CASE step \in {"find", "lockReservation"} -> 0
    [] step \in {"lockFree", "updateFree"} -> 1
    [] step \in {"lockPass", "updatePass"} -> 2
    [] step \in {"lockWallet", "updateWallet"} -> 3
    [] step \in {"latest", "write", "commit"} -> 4

\* What a connection has locked comes before what it is about to lock.
HeldInOrder ==
  \A t \in Tx : \A row \in held[t] :
    tx[t] # Idle /\ RankOf(row) \in Nat /\ RankOf(row) < StageOf(tx[t].step)

\* The next statement of a connection finds its rows free, and has an outcome.
CanGoOn(t) ==
  LET x == tx[t]
  IN  /\ At(t, "reserve", "lockFree") => FreeFor(t, FreeRow(x.user, PeriodOf[x.at]))
      /\ At(t, "reserve", "lockPass") =>
           \E pass \in ActivePass(x.user, x.at) : pass # NoPass => FreeFor(t, PassRowLock(pass))
      /\ At(t, "reserve", "lockWallet") => FreeFor(t, WalletRow(x.user))
      /\ At(t, "refund", "lockReservation") =>
           (x.id \in DOMAIN reservations => FreeFor(t, ReservationLock(x.id)))
      /\ At(t, "refund", "updateFree") => \A row \in FreeRowOf(x) : FreeFor(t, row)
      /\ At(t, "refund", "updatePass") => \A row \in PassRowOf(x) : FreeFor(t, row)
      /\ At(t, "refund", "updateWallet") => \A row \in WalletRowOf(x) : FreeFor(t, row)
      /\ At(t, "grant", "lockWallet") => FreeFor(t, WalletRow(x.user))
      /\ At(t, "grant", "latest") => PassStart(x.user, x.at) # {}

LEMMA Ranks ==
  /\ \A r : RankOf(ReservationLock(r)) = 0
  /\ \A u, m : RankOf(FreeRow(u, m)) = 1
  /\ \A p : RankOf(PassRowLock(p)) = 2
  /\ \A u : RankOf(WalletRow(u)) = 3
<1>1. \A r : RankOf(ReservationLock(r)) = 0
  BY DEF RankOf, ReservationLock
<1>2. \A u, m : RankOf(FreeRow(u, m)) = 1
  BY DEF RankOf, FreeRow
<1>3. \A p : RankOf(PassRowLock(p)) = 2
  BY DEF RankOf, PassRowLock
<1>4. \A u : RankOf(WalletRow(u)) = 3
  BY DEF RankOf, WalletRow
<1> QED
  BY <1>1, <1>2, <1>3, <1>4

LEMMA Stages ==
  /\ StageOf("find") = 0 /\ StageOf("lockReservation") = 0
  /\ StageOf("lockFree") = 1 /\ StageOf("updateFree") = 1
  /\ StageOf("lockPass") = 2 /\ StageOf("updatePass") = 2
  /\ StageOf("lockWallet") = 3 /\ StageOf("updateWallet") = 3
  /\ StageOf("latest") = 4 /\ StageOf("write") = 4 /\ StageOf("commit") = 4
BY DEF StageOf

LEMMA RefundRanks ==
  ASSUME NEW x
  PROVE  /\ \A row \in FreeRowOf(x) : RankOf(row) = 1
         /\ \A row \in PassRowOf(x) : RankOf(row) = 2
         /\ \A row \in WalletRowOf(x) : RankOf(row) = 3
BY Ranks DEF FreeRowOf, PassRowOf, WalletRowOf

LEMMA BusyStep ==
  ASSUME LocksIInv, NEW t \in Tx, tx[t] # Idle
  PROVE  /\ tx[t].step \in {"find", "lockReservation", "lockFree", "updateFree", "lockPass", "updatePass",
                            "lockWallet", "updateWallet", "latest", "write", "commit"}
         /\ StageOf(tx[t].step) \in 0 .. 4
<1>1. ReserveOK(t) \/ RefundOK(t) \/ GrantOK(t)
  BY DEF LocksIInv, LocksOK, TxOK
<1>2. tx[t].step \in {"find", "lockReservation", "lockFree", "updateFree", "lockPass", "updatePass",
                      "lockWallet", "updateWallet", "latest", "write", "commit"}
  BY <1>1 DEF ReserveOK, ReserveTx, RefundOK, RefundBegun, RefundTx, GrantOK, GrantTx
<1> QED
  BY <1>2, Stages

-----------------------------------------------------------------------------
(* Each statement keeps to the order.                                        *)

LEMMA LockKeepsOrder ==
  ASSUME LocksIInv, HeldInOrder, NEW t \in Tx, NEW rows, NEW y, Lock(t, rows, y), y # Idle,
         tx[t] # Idle, StageOf(tx[t].step) <= StageOf(y.step), StageOf(y.step) \in Nat,
         \A row \in rows : RankOf(row) \in Nat /\ RankOf(row) < StageOf(y.step)
  PROVE  HeldInOrder'
<1>1. /\ tx'[t] = y /\ held'[t] = held[t] \cup rows
      /\ \A o \in Tx \ {t} : tx'[o] = tx[o] /\ held'[o] = held[o]
  BY DEF Lock, LocksIInv, LocksOK
<1>2. StageOf(tx[t].step) \in Nat
  BY BusyStep
<1> SUFFICES ASSUME NEW o \in Tx, NEW row \in held'[o]
             PROVE  tx'[o] # Idle /\ RankOf(row) \in Nat /\ RankOf(row) < StageOf(tx'[o].step)
  BY DEF HeldInOrder, RankOf, StageOf
<1>3. CASE o # t
  BY <1>1, <1>3 DEF HeldInOrder
<1>4. CASE o = t /\ row \in rows
  BY <1>1, <1>4
<1>5. CASE o = t /\ row \in held[t]
  <2>1. RankOf(row) \in Nat /\ RankOf(row) < StageOf(tx[t].step)
    BY <1>5 DEF HeldInOrder
  <2> QED
    BY <1>1, <1>2, <1>5, <2>1
<1> QED
  BY <1>1, <1>3, <1>4, <1>5

LEMMA EndKeepsOrder ==
  ASSUME LocksIInv, HeldInOrder, NEW t \in Tx, End(t)
  PROVE  HeldInOrder'
<1>1. held'[t] = {} /\ \A o \in Tx \ {t} : tx'[o] = tx[o] /\ held'[o] = held[o]
  BY DEF End, LocksIInv, LocksOK
<1> SUFFICES ASSUME NEW o \in Tx, NEW row \in held'[o]
             PROVE  tx'[o] # Idle /\ RankOf(row) \in Nat /\ RankOf(row) < StageOf(tx'[o].step)
  BY DEF HeldInOrder, RankOf, StageOf
<1> QED
  BY <1>1 DEF HeldInOrder

LEMMA BeginKeepsOrder ==
  ASSUME LocksIInv, HeldInOrder, NEW t \in Tx, Begin(t)
  PROVE  HeldInOrder'
<1>1. tx[t] = Idle /\ held' = held /\ \A o \in Tx \ {t} : tx'[o] = tx[o]
  BY DEF Begin, BeginReserve, BeginRefund, BeginGrant, LocksIInv, LocksOK
<1>2. held[t] = {}
  BY <1>1 DEF HeldInOrder
<1> SUFFICES ASSUME NEW o \in Tx, NEW row \in held'[o]
             PROVE  tx'[o] # Idle /\ RankOf(row) \in Nat /\ RankOf(row) < StageOf(tx'[o].step)
  BY DEF HeldInOrder, RankOf, StageOf
<1> QED
  BY <1>1, <1>2 DEF HeldInOrder

LEMMA ReserveKeepsOrder ==
  ASSUME LocksIInv, HeldInOrder, NEW t \in Tx, ReserveStep(t)
  PROVE  HeldInOrder'
<1> DEFINE x == tx[t]
<1>1. x.op = "reserve"
  BY DEF ReserveStep, FindReservation, LockFree, LockPass, LockWallet, WriteReservation, At
<1>2. x # Idle /\ x \in ReserveTx
  BY <1>1, OpOf DEF Idle, ReserveOK
<1>3. CASE FindReservation(t)
  <2> DEFINE y == [x EXCEPT !.step = "lockFree"]
  <2>1. x.step = "find" /\ (Abandon(t) \/ Lock(t, {}, y))
    BY <1>3 DEF FindReservation, At
  <2>2. y # Idle /\ y.step = "lockFree"
    BY <1>2 DEF Idle, ReserveTx
  <2> HIDE DEF y
  <2> QED
    BY <1>2, <2>1, <2>2, Stages, EndKeepsOrder, LockKeepsOrder DEF Abandon
<1>4. CASE LockFree(t)
  <2> DEFINE y == [x EXCEPT !.step = "lockPass", !.available.free = FreeLeft(x.user, PeriodOf[x.at])]
             rows == {FreeRow(x.user, PeriodOf[x.at])}
  <2>1. x.step = "lockFree" /\ Lock(t, rows, y)
    BY <1>4 DEF LockFree, At
  <2>2. y # Idle /\ y.step = "lockPass"
    BY <1>2 DEF Idle, ReserveTx
  <2>3. \A row \in rows : RankOf(row) = 1
    BY Ranks
  <2> HIDE DEF y, rows
  <2> QED
    BY <1>2, <2>1, <2>2, <2>3, Stages, LockKeepsOrder
<1>5. CASE LockPass(t)
  <2>1. PICK pass \in ActivePass(x.user, x.at) :
          Lock(t, {PassRowLock(p) : p \in {pass} \ {NoPass}},
               [x EXCEPT !.step = "lockWallet", !.pass = pass, !.available.pass = PassLeft(pass)])
    BY <1>5 DEF LockPass
  <2> DEFINE y == [x EXCEPT !.step = "lockWallet", !.pass = pass, !.available.pass = PassLeft(pass)]
             rows == {PassRowLock(p) : p \in {pass} \ {NoPass}}
  <2>2. x.step = "lockPass" /\ Lock(t, rows, y)
    BY <1>5, <2>1 DEF LockPass, At
  <2>3. y # Idle /\ y.step = "lockWallet"
    BY <1>2 DEF Idle, ReserveTx
  <2>4. \A row \in rows : RankOf(row) = 2
    BY Ranks
  <2> HIDE DEF y, rows
  <2> QED
    BY <1>2, <2>2, <2>3, <2>4, Stages, LockKeepsOrder
<1>6. CASE LockWallet(t)
  <2> DEFINE y == [x EXCEPT !.step = "write", !.available.credits = wallet[x.user]]
             rows == {WalletRow(x.user)}
  <2>1. x.step = "lockWallet" /\ Lock(t, rows, y)
    BY <1>6 DEF LockWallet, At
  <2>2. y # Idle /\ y.step = "write"
    BY <1>2 DEF Idle, ReserveTx
  <2>3. \A row \in rows : RankOf(row) = 3
    BY Ranks
  <2> HIDE DEF y, rows
  <2> QED
    BY <1>2, <2>1, <2>2, <2>3, Stages, LockKeepsOrder
<1>7. CASE WriteReservation(t)
  BY <1>7, EndKeepsOrder DEF WriteReservation, Abandon
<1> QED
  BY <1>3, <1>4, <1>5, <1>6, <1>7 DEF ReserveStep

LEMMA RefundKeepsOrder ==
  ASSUME LocksIInv, HeldInOrder, NEW t \in Tx, RefundStep(t)
  PROVE  HeldInOrder'
<1> DEFINE x == tx[t]
<1>1. x.op = "refund"
  BY DEF RefundStep, LockReservation, UpdateFree, UpdatePass, UpdateWallet, CommitRefund, At
<1>2. x # Idle /\ (x \in RefundBegun \/ x \in RefundTx)
  BY <1>1, OpOf DEF Idle, RefundOK
<1>3. /\ RowsToUpdate(x)[1] = FreeRowOf(x) /\ RowsToUpdate(x)[2] = PassRowOf(x)
      /\ RowsToUpdate(x)[3] = WalletRowOf(x)
  BY DEF RowsToUpdate
<1>4. CASE LockReservation(t)
  <2> DEFINE y == [op |-> "refund", step |-> "updateFree", id |-> x.id, row |-> reservations[x.id],
                   chars |-> Lesser(x.chars, reservations[x.id].chars)]
             rows == {ReservationLock(x.id)}
  <2>1. x.step = "lockReservation" /\ (Abandon(t) \/ Lock(t, rows, y))
    BY <1>4 DEF LockReservation, At
  <2>2. y # Idle /\ y.step = "updateFree"
    BY DEF Idle
  <2>3. \A row \in rows : RankOf(row) = 0
    BY Ranks
  <2> HIDE DEF y, rows
  <2> QED
    BY <1>2, <2>1, <2>2, <2>3, Stages, EndKeepsOrder, LockKeepsOrder DEF Abandon
<1>5. CASE UpdateFree(t)
  <2> DEFINE y == [x EXCEPT !.step = "updatePass"]
  <2>1. x.step = "updateFree" /\ Lock(t, FreeRowOf(x), y)
    BY <1>3, <1>5 DEF UpdateFree, At
  <2>2. y # Idle /\ y.step = "updatePass"
    BY <1>2 DEF Idle, RefundBegun, RefundTx
  <2> HIDE DEF y
  <2> QED
    BY <1>2, <2>1, <2>2, RefundRanks, Stages, LockKeepsOrder
<1>6. CASE UpdatePass(t)
  <2> DEFINE y == [x EXCEPT !.step = "updateWallet"]
  <2>1. x.step = "updatePass" /\ Lock(t, PassRowOf(x), y)
    BY <1>3, <1>6 DEF UpdatePass, At
  <2>2. y # Idle /\ y.step = "updateWallet"
    BY <1>2 DEF Idle, RefundBegun, RefundTx
  <2> HIDE DEF y
  <2> QED
    BY <1>2, <2>1, <2>2, RefundRanks, Stages, LockKeepsOrder
<1>7. CASE UpdateWallet(t)
  <2> DEFINE y == [x EXCEPT !.step = "commit"]
  <2>1. x.step = "updateWallet" /\ Lock(t, WalletRowOf(x), y)
    BY <1>3, <1>7 DEF UpdateWallet, At
  <2>2. y # Idle /\ y.step = "commit"
    BY <1>2 DEF Idle, RefundBegun, RefundTx
  <2> HIDE DEF y
  <2> QED
    BY <1>2, <2>1, <2>2, RefundRanks, Stages, LockKeepsOrder
<1>8. CASE CommitRefund(t)
  BY <1>8, EndKeepsOrder DEF CommitRefund
<1> QED
  BY <1>4, <1>5, <1>6, <1>7, <1>8 DEF RefundStep

LEMMA GrantKeepsOrder ==
  ASSUME LocksIInv, HeldInOrder, NEW t \in Tx, GrantStep(t)
  PROVE  HeldInOrder'
<1> DEFINE x == tx[t]
<1>1. x.op = "grant"
  BY DEF GrantStep, FindPurchase, LockForPurchase, ReadLatestPassEnd, WritePurchase, At
<1>2. x # Idle /\ x \in GrantTx
  BY <1>1, OpOf DEF Idle, GrantOK
<1>3. CASE FindPurchase(t)
  <2> DEFINE y == [x EXCEPT !.step = "lockWallet", !.at = now]
  <2>1. x.step = "find" /\ (Abandon(t) \/ Lock(t, {}, y))
    BY <1>3 DEF FindPurchase, At
  <2>2. y # Idle /\ y.step = "lockWallet"
    BY <1>2 DEF Idle, GrantTx
  <2> HIDE DEF y
  <2> QED
    BY <1>2, <2>1, <2>2, Stages, EndKeepsOrder, LockKeepsOrder DEF Abandon
<1>4. CASE LockForPurchase(t)
  <2> DEFINE y == [x EXCEPT !.step = "latest"]
             rows == {WalletRow(x.user)}
  <2>1. x.step = "lockWallet" /\ Lock(t, rows, y)
    BY <1>4 DEF LockForPurchase, At
  <2>2. y # Idle /\ y.step = "latest"
    BY <1>2 DEF Idle, GrantTx
  <2>3. \A row \in rows : RankOf(row) = 3
    BY Ranks
  <2> HIDE DEF y, rows
  <2> QED
    BY <1>2, <2>1, <2>2, <2>3, Stages, LockKeepsOrder
<1>5. CASE ReadLatestPassEnd(t)
  <2>1. PICK startsAt \in PassStart(x.user, x.at) :
          Lock(t, {}, [x EXCEPT !.step = "write", !.startsAt = startsAt])
    BY <1>5 DEF ReadLatestPassEnd
  <2> DEFINE y == [x EXCEPT !.step = "write", !.startsAt = startsAt]
  <2>2. x.step = "latest" /\ Lock(t, {}, y)
    BY <1>5, <2>1 DEF ReadLatestPassEnd, At
  <2>3. y # Idle /\ y.step = "write"
    BY <1>2 DEF Idle, GrantTx
  <2> HIDE DEF y
  <2> QED
    BY <1>2, <2>2, <2>3, Stages, LockKeepsOrder
<1>6. CASE WritePurchase(t)
  BY <1>6, EndKeepsOrder DEF WritePurchase, Abandon
<1> QED
  BY <1>3, <1>4, <1>5, <1>6 DEF GrantStep

LEMMA HeldInOrderStep == LocksIInv /\ HeldInOrder /\ [LocksNext]_allVars => HeldInOrder'
<1> SUFFICES ASSUME LocksIInv, HeldInOrder, [LocksNext]_allVars PROVE HeldInOrder'
  OBVIOUS
<1>1. CASE tx' = tx /\ held' = held
  BY <1>1 DEF HeldInOrder, RankOf, StageOf
<1>2. ASSUME NEW t \in Tx, Begin(t) \/ Step(t)
      PROVE  HeldInOrder'
  BY <1>2, BeginKeepsOrder, ReserveKeepsOrder, RefundKeepsOrder, GrantKeepsOrder DEF Step
<1> QED
  BY <1>1, <1>2 DEF LocksNext, TickClock, lockVars, allVars

-----------------------------------------------------------------------------
(* Who waits, and for whom.                                                  *)

\* The pass a reservation asks for, and the end of the last pass, exist.
LEMMA RowsAreFound ==
  ASSUME TypeOK, TablesAreFinite, PassesArePurchased, NEW u, NEW at \in Time
  PROVE  ActivePass(u, at) # {} /\ PassStart(u, at) # {}
<1>1. ASSUME Running(u, at) # {}
      PROVE  \E p \in Running(u, at) : \A q \in Running(u, at) : passes[p].startsAt <= passes[q].startsAt
  <2> DEFINE Starts == {passes[p].startsAt : p \in Running(u, at)}
  <2>1. Starts \subseteq Nat
    BY PassTypes DEF Running, PassesOf
  <2>2. Starts # {}
    BY <1>1
  <2>3. PICK n \in Starts : \A m \in Starts : n <= m
    BY <2>1, <2>2, LeastNatural
  <2> QED
    BY <2>3
<1>2. ActivePass(u, at) # {}
  BY <1>1 DEF ActivePass
<1>3. IsFiniteSet(PassesOf(u))
  <2>1. PassesOf(u) \subseteq DOMAIN purchases
    BY DEF PassesOf, PassesArePurchased
  <2> QED
    BY <2>1, FS_Subset DEF TablesAreFinite
<1>4. at \in Nat /\ \A p \in PassesOf(u) : passes[p].endsAt \in Nat
  BY PassTypes, LedgerAssumption DEF PassesOf, Time
<1>. PICK ends : ends = [p \in PassesOf(u) |-> passes[p].endsAt]
  OBVIOUS
<1>5. PassesOf(u) = {} \/ \E p \in PassesOf(u) : \A q \in PassesOf(u) : ends[q] <= ends[p]
  <2>1. ends \in [PassesOf(u) -> Nat]
    BY <1>4
  <2> QED
    BY <1>3, <2>1, GreatestAttained
<1>6. CASE PassesOf(u) = {}
  <2>1. at \in PassStart(u, at)
    BY <1>4, <1>6 DEF PassStart
  <2> QED
    BY <1>2, <2>1
<1>7. ASSUME NEW p \in PassesOf(u), \A q \in PassesOf(u) : ends[q] <= ends[p]
      PROVE  PassStart(u, at) # {}
  <2>1. \A q \in PassesOf(u) : passes[q].endsAt <= passes[p].endsAt
    BY <1>7
  <2>2. CASE at <= passes[p].endsAt
    <3>1. passes[p].endsAt \in PassStart(u, at)
      BY <2>1, <2>2 DEF PassStart
    <3> QED
      BY <3>1
  <2>3. CASE passes[p].endsAt < at
    <3>1. \A q \in PassesOf(u) : passes[q].endsAt <= at
      BY <1>4, <2>1, <2>3
    <3>2. at \in PassStart(u, at)
      BY <1>4, <3>1 DEF PassStart
    <3> QED
      BY <3>2
  <2> QED
    BY <1>4, <2>2, <2>3
<1> QED
  BY <1>2, <1>5, <1>6, <1>7

\* A row that is not free is held by a connection further in the order.
LEMMA HolderIsFurther ==
  ASSUME HeldInOrder, NEW t \in Tx, NEW row, ~ FreeFor(t, row), RankOf(row) = StageOf(tx[t].step)
  PROVE  \E o \in Tx : tx[o] # Idle /\ StageOf(tx[t].step) < StageOf(tx[o].step)
<1>1. PICK o \in Tx \ {t} : row \in held[o]
  BY DEF FreeFor
<1>2. tx[o] # Idle /\ RankOf(row) < StageOf(tx[o].step)
  BY <1>1 DEF HeldInOrder
<1> QED
  BY <1>2

\* A reservation, a refund, a grant that cannot go on.
LEMMA ReserveWaits ==
  ASSUME LocksIInv, HeldInOrder, NEW t \in Tx, tx[t].op = "reserve", ~ CanGoOn(t)
  PROVE  \E o \in Tx : tx[o] # Idle /\ StageOf(tx[t].step) < StageOf(tx[o].step)
<1> DEFINE x == tx[t]
           further == \E o \in Tx : tx[o] # Idle /\ StageOf(x.step) < StageOf(tx[o].step)
<1>1. CASE x.step = "lockFree" /\ ~ FreeFor(t, FreeRow(x.user, PeriodOf[x.at]))
  BY <1>1, Ranks, Stages, HolderIsFurther
<1>2. CASE /\ x.step = "lockPass"
           /\ \A pass \in ActivePass(x.user, x.at) : pass # NoPass /\ ~ FreeFor(t, PassRowLock(pass))
  <2>1. x.at \in Time
    BY OpOf DEF ReserveOK, ReserveTx
  <2>2. PICK pass \in ActivePass(x.user, x.at) : TRUE
    BY <2>1, RowsAreFound DEF LocksIInv, History
  <2>3. ~ FreeFor(t, PassRowLock(pass))
    BY <1>2, <2>2
  <2> QED
    BY <1>2, <2>3, Ranks, Stages, HolderIsFurther
<1>3. CASE x.step = "lockWallet" /\ ~ FreeFor(t, WalletRow(x.user))
  BY <1>3, Ranks, Stages, HolderIsFurther
<1> QED
  BY <1>1, <1>2, <1>3 DEF CanGoOn, At

LEMMA RefundWaits ==
  ASSUME LocksIInv, HeldInOrder, NEW t \in Tx, tx[t].op = "refund", ~ CanGoOn(t)
  PROVE  \E o \in Tx : tx[o] # Idle /\ StageOf(tx[t].step) < StageOf(tx[o].step)
<1> DEFINE x == tx[t]
<1>1. CASE x.step = "lockReservation" /\ ~ FreeFor(t, ReservationLock(x.id))
  BY <1>1, Ranks, Stages, HolderIsFurther
<1>2. ASSUME x.step = "updateFree", NEW row \in FreeRowOf(x), ~ FreeFor(t, row)
      PROVE  \E o \in Tx : tx[o] # Idle /\ StageOf(x.step) < StageOf(tx[o].step)
  BY <1>2, RefundRanks, Stages, HolderIsFurther
<1>3. ASSUME x.step = "updatePass", NEW row \in PassRowOf(x), ~ FreeFor(t, row)
      PROVE  \E o \in Tx : tx[o] # Idle /\ StageOf(x.step) < StageOf(tx[o].step)
  BY <1>3, RefundRanks, Stages, HolderIsFurther
<1>4. ASSUME x.step = "updateWallet", NEW row \in WalletRowOf(x), ~ FreeFor(t, row)
      PROVE  \E o \in Tx : tx[o] # Idle /\ StageOf(x.step) < StageOf(tx[o].step)
  BY <1>4, RefundRanks, Stages, HolderIsFurther
<1> QED
  BY <1>1, <1>2, <1>3, <1>4 DEF CanGoOn, At

LEMMA GrantWaits ==
  ASSUME LocksIInv, HeldInOrder, NEW t \in Tx, tx[t].op = "grant", ~ CanGoOn(t)
  PROVE  \E o \in Tx : tx[o] # Idle /\ StageOf(tx[t].step) < StageOf(tx[o].step)
<1> DEFINE x == tx[t]
<1>1. x.at \in Time
  BY OpOf DEF GrantOK, GrantTx
<1>2. PassStart(x.user, x.at) # {}
  BY <1>1, RowsAreFound DEF LocksIInv, History
<1>3. x.step = "lockWallet" /\ ~ FreeFor(t, WalletRow(x.user))
  BY <1>2 DEF CanGoOn, At
<1> QED
  BY <1>3, Ranks, Stages, HolderIsFurther

LEMMA WaitsForFurther ==
  ASSUME LocksIInv, HeldInOrder, NEW t \in Tx, tx[t] # Idle, ~ CanGoOn(t)
  PROVE  \E o \in Tx : tx[o] # Idle /\ StageOf(tx[t].step) < StageOf(tx[o].step)
<1>1. ReserveOK(t) \/ RefundOK(t) \/ GrantOK(t)
  BY DEF LocksIInv, LocksOK, TxOK
<1>2. tx[t].op \in {"reserve", "refund", "grant"}
  BY <1>1 DEF ReserveOK, ReserveTx, RefundOK, RefundBegun, RefundTx, GrantOK, GrantTx
<1> QED
  BY <1>2, ReserveWaits, RefundWaits, GrantWaits

\* No deadlock among any number of connections (ADR-0019, 6): while one of
\* them is busy, the next statement of a busy one finds its rows free, since
\* lockBalances, refundOnce and lockForPurchase lock in one order.
SomeoneGoesOn ==
  (\E t \in Tx : tx[t] # Idle) => \E t \in Tx : tx[t] # Idle /\ CanGoOn(t)

THEOREM SomeoneGoesOnInvariant == LocksSpec => []SomeoneGoesOn
<1>1. LocksIInv /\ HeldInOrder => SomeoneGoesOn
  <2> SUFFICES ASSUME LocksIInv, HeldInOrder, NEW b \in Tx, tx[b] # Idle,
                      \A t \in Tx : tx[t] # Idle => ~ CanGoOn(t)
               PROVE  FALSE
    BY DEF SomeoneGoesOn
  <2> DEFINE Left == {4 - StageOf(tx[t].step) : t \in {o \in Tx : tx[o] # Idle}}
  <2>1. Left \subseteq Nat /\ Left # {}
    BY BusyStep
  <2>2. PICK n \in Left : \A m \in Left : n <= m
    BY <2>1, LeastNatural
  <2>3. PICK t \in Tx : tx[t] # Idle /\ n = 4 - StageOf(tx[t].step)
    BY <2>2
  <2>4. PICK o \in Tx : tx[o] # Idle /\ StageOf(tx[t].step) < StageOf(tx[o].step)
    BY <2>3, WaitsForFurther
  <2>5. n <= 4 - StageOf(tx[o].step)
    BY <2>2, <2>4
  <2> QED
    BY <2>3, <2>4, <2>5, BusyStep
<1>2. LocksInit => HeldInOrder
  BY DEF LocksInit, HeldInOrder
<1> QED
  BY <1>1, <1>2, HeldInOrderStep, LocksInvariant, PTL DEF LocksSpec
=============================================================================
