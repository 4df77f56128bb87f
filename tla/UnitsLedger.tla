---------------------------- MODULE UnitsLedger ----------------------------
(***************************************************************************)
(* The billing module: free monthly quota, passes, credit wallet, the      *)
(* reservations taken on them and the purchases that fill them.  Every     *)
(* action is one committed transaction; UnitsLedgerLocks shows that the    *)
(* row locks of the code make them so.                                     *)
(***************************************************************************)
EXTENDS UnitAllocation, Integers, Sequences, Functions

CONSTANTS
  User,           \* account identifiers
  ReservationId,  \* conversion identifiers, used as reservation ids
  PaymentRef,     \* references of confirmed payments
  Offers,         \* the catalogue: a function from offer codes to offers
  FreeLimit,      \* FREE_TIER_UNITS_PER_MONTH
  MaxChars,       \* MAX_CHARS_PER_CONVERSION
  MaxTime,        \* bound on the clock
  PeriodOf,       \* the calendar month of each instant
  NoPass,         \* null passId
  Detached        \* null userId of a purchase whose account is deleted

Time == 0 .. MaxTime
OfferCode == DOMAIN Offers
Period == {PeriodOf[t] : t \in Time}

Offer == [kind : {"pass", "credits"}, units : Nat \ {0}, days : Nat]

ASSUME LedgerAssumption ==
  /\ FreeLimit \in Nat /\ MaxChars \in Nat /\ MaxTime \in Nat
  /\ \A t \in Time : PeriodOf[t] \in Nat
  /\ \A c \in OfferCode : Offers[c] \in Offer
  /\ \A c \in OfferCode : Offers[c].kind = "pass" => Offers[c].days > 0
  /\ NoPass \notin PaymentRef
  /\ Detached \notin User

VARIABLES
  now,           \* the clock
  users,         \* rows of table user
  freeUsed,      \* quota_usage.reserved_chars; an absent row counts 0
  passes,        \* table passes, keyed by its unique payment reference
  wallet,        \* wallets.balance_units; an absent row counts 0
  entries,       \* credit_entries of each user, oldest first
  reservations,  \* table quota_reservations
  purchases      \* table purchases, keyed by payment reference

vars == <<now, users, freeUsed, passes, wallet, entries, reservations, purchases>>

PassRow == [user : User, startsAt : Nat, endsAt : Nat, included : Nat, used : Nat]
ReservationRow == [user : User, period : Period, tier : Tiers, chars : Nat \ {0},
                   pass : PaymentRef \cup {NoPass}, taken : UnitsBySource,
                   refunded : BOOLEAN, refundedChars : Nat]
PurchaseRow == [user : User \cup {Detached}, offer : OfferCode]
Entry == [kind : {"purchase", "consumption", "refund"}, units : Nat \ {0}]

\* INSERT of a row and DELETE of the rows outside keep, on a keyed table.
Insert(table, key, row) ==
  [k \in DOMAIN table \cup {key} |-> IF k = key THEN row ELSE table[k]]
Keep(table, keep) == [k \in keep |-> table[k]]

TypeOK ==
  /\ now \in Time
  /\ users \subseteq User
  /\ freeUsed \in [User -> [Period -> Nat]]
  /\ DOMAIN passes \subseteq PaymentRef
  /\ \A p \in DOMAIN passes : passes[p] \in PassRow
  /\ wallet \in [User -> Nat]
  /\ entries \in [User -> Seq(Entry)]
  /\ DOMAIN reservations \subseteq ReservationId
  /\ \A r \in DOMAIN reservations : reservations[r] \in ReservationRow
  /\ DOMAIN purchases \subseteq PaymentRef
  /\ \A p \in DOMAIN purchases : purchases[p] \in PurchaseRow

Init ==
  /\ now = 0
  /\ users = User
  /\ freeUsed = [u \in User |-> [m \in Period |-> 0]]
  /\ passes = [p \in {} |-> 0]
  /\ wallet = [u \in User |-> 0]
  /\ entries = [u \in User |-> <<>>]
  /\ reservations = [r \in {} |-> 0]
  /\ purchases = [p \in {} |-> 0]

-----------------------------------------------------------------------------
(* Reading the balances *)

PassesOf(u) == {p \in DOMAIN passes : passes[p].user = u}

Running(u, at) ==
  {p \in PassesOf(u) : passes[p].startsAt <= at /\ at < passes[p].endsAt}

\* The pass lockBalances finds: the first running one by start, or none.
ActivePass(u, at) ==
  IF Running(u, at) = {}
  THEN {NoPass}
  ELSE {p \in Running(u, at) :
          \A q \in Running(u, at) : passes[p].startsAt <= passes[q].startsAt}

Floor(a, b) == IF a >= b THEN a - b ELSE 0      \* greatest(a - b, 0)

FreeLeft(u, period) == Floor(FreeLimit, freeUsed[u][period])
PassIncluded(pass) ==                          \* fault: what was used is forgotten
  IF pass \in DOMAIN passes THEN passes[pass].included ELSE 0
PassLeft(pass) ==
  IF pass \in DOMAIN passes THEN Floor(passes[pass].included, passes[pass].used) ELSE 0

Available(u, period, pass) ==
  [free |-> FreeLeft(u, period), pass |-> PassLeft(pass), credits |-> wallet[u]]

\* The row of credit_entries, written only when credits move.
AppendEntry(u, kind, units) ==                 \* fault: an entry of nothing
  entries' = [entries EXCEPT ![u] = Append(@, [kind |-> kind, units |-> units])]
JournalDebits(u, kind, units) ==               \* fault: refunds are not journaled
  IF kind = "refund" \/ units = 0 THEN UNCHANGED entries ELSE AppendEntry(u, kind, units)
Journal(u, kind, units) ==
  IF units = 0 THEN UNCHANGED entries ELSE AppendEntry(u, kind, units)

-----------------------------------------------------------------------------
(* ReserveQuotaUseCase: the lock, the allocation and the debit.  An          *)
(* existing reservation, a demand over the limit or not covered by the       *)
(* balances leaves the ledger unchanged.  `at` is the clock read before the  *)
(* locks were waited for.  The pass is looked up by a statement of its own,  *)
(* so one granted while the reservation waits for the wallet is overlooked:  *)
(* the reservation then goes on without a pass.                              *)
Debit(u, r, tier, chars, at, pass, available) ==
  LET taken == Taken(ForChars(chars, tier), tier, available)
  IN  /\ reservations' = Insert(reservations, r,
           [user |-> u, period |-> PeriodOf[at], tier |-> tier, chars |-> chars,
            pass |-> IF taken.pass > 0 THEN pass ELSE NoPass, taken |-> taken,
            refunded |-> FALSE, refundedChars |-> 0])
      /\ freeUsed' = [freeUsed EXCEPT ![u][PeriodOf[at]] = @ + taken.free]
      /\ passes' = [p \in DOMAIN passes |->
                      IF p = pass THEN [passes[p] EXCEPT !.used = @ + taken.pass]
                                  ELSE passes[p]]
      /\ wallet' = [wallet EXCEPT ![u] = @ - taken.credits]
      /\ Journal(u, "consumption", taken.credits)

Reserve(u, r, tier, chars, at, pass) ==
  LET available == Available(u, PeriodOf[at], pass)
  IN  /\ u \in users
      /\ r \notin DOMAIN reservations
      /\ chars <= MaxChars
      /\ at <= now
      /\ pass \in ActivePass(u, at) \cup {NoPass}
      /\ Covers(ForChars(chars, tier), tier, available)
      /\ Debit(u, r, tier, chars, at, pass, available)
      /\ UNCHANGED <<now, users, purchases>>

(* RefundQuotaUseCase: the first refund of a reservation, of at most the     *)
(* characters it was taken for, to the sources it was taken from, in the     *)
(* month of the debit.                                                       *)
CurrentPeriod(row) == PeriodOf[now]            \* fault: the month of the refund
RefundPeriod(row) == row.period

GiveBack(r, row, refundedChars) ==
  LET back == SplitRefund(row.taken, ForChars(refundedChars, row.tier))
  IN  /\ reservations' = [reservations EXCEPT ![r].refunded = TRUE,
                                              ![r].refundedChars = refundedChars]
      /\ freeUsed' = [freeUsed EXCEPT ![row.user][RefundPeriod(row)] = Floor(@, back.free)]
      /\ passes' = [p \in DOMAIN passes |->
                      IF p = row.pass THEN [passes[p] EXCEPT !.used = Floor(@, back.pass)]
                                      ELSE passes[p]]
      /\ wallet' = [wallet EXCEPT ![row.user] = @ + back.credits]
      /\ Journal(row.user, "refund", back.credits)

RefundAgain(r, chars) ==                       \* fault: a second refund is taken
  /\ r \in DOMAIN reservations
  /\ GiveBack(r, reservations[r], Lesser(chars, reservations[r].chars))
  /\ UNCHANGED <<now, users, purchases>>

Refund(r, chars) ==
  /\ chars > 0
  /\ r \in DOMAIN reservations
  /\ ~reservations[r].refunded
  /\ GiveBack(r, reservations[r], Lesser(chars, reservations[r].chars))
  /\ UNCHANGED <<now, users, purchases>>

(* GrantOfferUseCase.  A pass starts now, or when the last pass of the user  *)
(* ends; a reference already granted gives nothing more.                     *)
StartNow(u, at) == {at}                        \* fault: a renewal starts at once
PassStart(u, at) ==
  {t \in {at} \cup {passes[p].endsAt : p \in PassesOf(u)} :
     at <= t /\ \A p \in PassesOf(u) : passes[p].endsAt <= t}

RecordPurchase(u, ref, code, startsAt) ==
  LET offer == Offers[code]
  IN  /\ purchases' = Insert(purchases, ref, [user |-> u, offer |-> code])
      /\ IF offer.kind = "pass"
         THEN /\ passes' = Insert(passes, ref,
                   [user |-> u, startsAt |-> startsAt, endsAt |-> startsAt + offer.days,
                    included |-> offer.units, used |-> 0])
              /\ UNCHANGED <<wallet, entries>>
         ELSE /\ wallet' = [wallet EXCEPT ![u] = @ + offer.units]
              /\ Journal(u, "purchase", offer.units)
              /\ UNCHANGED passes

GrantAgain(u, ref, code, at, startsAt) ==      \* fault: a notification repeated gives again
  /\ u \in users
  /\ ref \in DOMAIN purchases => purchases[ref] = [user |-> u, offer |-> code]
  /\ at <= now
  /\ RecordPurchase(u, ref, code, startsAt)
  /\ UNCHANGED <<now, users, freeUsed, reservations>>

Grant(u, ref, code, at, startsAt) ==
  /\ u \in users
  /\ ref \notin DOMAIN purchases
  /\ at <= now
  /\ startsAt \in PassStart(u, at)
  /\ RecordPurchase(u, ref, code, startsAt)
  /\ UNCHANGED <<now, users, freeUsed, reservations>>

(* Account deletion, as the foreign keys carry it into the billing tables:   *)
(* everything of the user goes, the purchases stay without their user.       *)
DeleteAccount(u) ==
  /\ u \in users
  /\ users' = users \ {u}
  /\ freeUsed' = [freeUsed EXCEPT ![u] = [m \in Period |-> 0]]
  /\ passes' = Keep(passes, DOMAIN passes \ PassesOf(u))
  /\ wallet' = [wallet EXCEPT ![u] = 0]
  /\ entries' = [entries EXCEPT ![u] = <<>>]
  /\ reservations' = Keep(reservations, {r \in DOMAIN reservations : reservations[r].user # u})
  /\ purchases' = [p \in DOMAIN purchases |->
                     IF purchases[p].user = u THEN [purchases[p] EXCEPT !.user = Detached]
                                              ELSE purchases[p]]
  /\ UNCHANGED now

Tick ==
  /\ now < MaxTime
  /\ now' = now + 1
  /\ UNCHANGED <<users, freeUsed, passes, wallet, entries, reservations, purchases>>

Next ==
  \/ \E u \in User, r \in ReservationId, tier \in Tiers, chars \in 1 .. MaxChars, at \in Time :
       \E pass \in ActivePass(u, at) \cup {NoPass} : Reserve(u, r, tier, chars, at, pass)
  \/ \E r \in ReservationId, chars \in 1 .. MaxChars : Refund(r, chars)
  \/ \E u \in User, ref \in PaymentRef, code \in OfferCode, at \in Time :
       \E startsAt \in PassStart(u, at) : Grant(u, ref, code, at, startsAt)
  \/ \E u \in User : DeleteAccount(u)
  \/ Tick

Spec == Init /\ [][Next]_vars

-----------------------------------------------------------------------------
(* Properties *)

NetTaken(r) ==
  LET row == reservations[r]
  IN  IF row.refunded
      THEN Less(row.taken, SplitRefund(row.taken, ForChars(row.refundedChars, row.tier)))
      ELSE row.taken

(* The counters of the three sources are what the reservations still hold    *)
(* and the purchases brought: no interleaving of debits, refunds after a     *)
(* month or a pass has ended, grants and deletions loses or invents a unit   *)
(* (applyToSources, whose greatest(.., 0) would otherwise hide a loss).      *)
HeldFree == [r \in DOMAIN reservations |-> NetTaken(r).free]
HeldPass == [r \in DOMAIN reservations |-> NetTaken(r).pass]
HeldCredits == [r \in DOMAIN reservations |-> NetTaken(r).credits]

OfUser(u) == {r \in DOMAIN reservations : reservations[r].user = u}
OfMonth(u, m) == {r \in OfUser(u) : reservations[r].period = m}
OfPass(p) == {r \in DOMAIN reservations : reservations[r].pass = p}

CreditPurchases(u) ==
  {ref \in DOMAIN purchases : /\ purchases[ref].user = u
                              /\ Offers[purchases[ref].offer].kind = "credits"}
UnitsBought == [ref \in DOMAIN purchases |-> Offers[purchases[ref].offer].units]

FreeMatchesReservations ==
  \A u \in User, m \in Period : freeUsed[u][m] = SumFunctionOnSet(HeldFree, OfMonth(u, m))

PassMatchesReservations ==
  \A p \in DOMAIN passes : passes[p].used = SumFunctionOnSet(HeldPass, OfPass(p))

WalletMatchesHistory ==
  \A u \in User :
    wallet[u] + SumFunctionOnSet(HeldCredits, OfUser(u))
      = SumFunctionOnSet(UnitsBought, CreditPurchases(u))

BalancesMatchHistory ==
  FreeMatchesReservations /\ PassMatchesReservations /\ WalletMatchesHistory

(* The journal is written in the transaction that moves the balance          *)
(* (ADR-0019, 10): its purchases and refunds minus its consumptions are the  *)
(* balance, which no prefix of the journal leaves negative.                  *)
Signed(e) == IF e.kind = "consumption" THEN - e.units ELSE e.units
Movements(journal) == [n \in DOMAIN journal |-> Signed(journal[n])]
Balance(journal, n) == SumFunctionOnSet(Movements(journal), 1 .. n)

JournalExplainsBalance ==
  \A u \in User :
    /\ Balance(entries[u], Len(entries[u])) = wallet[u]
    /\ \A n \in 0 .. Len(entries[u]) : Balance(entries[u], n) >= 0

(* No source is ever overdrawn: the free tier of a month stays within its    *)
(* limit and a pass within its included units, so the CHECK constraints of   *)
(* the schema never fail a transaction.                                      *)
NeverOverdrawn ==
  /\ \A u \in User, m \in Period : freeUsed[u][m] <= FreeLimit
  /\ \A p \in DOMAIN passes : passes[p].used <= passes[p].included

(* The passes of one user follow one another: an early renewal starts at the *)
(* end of the last one, whatever the order in which payments are confirmed,  *)
(* so no day is paid twice and at most one pass runs at a time (ADR-0019, 3).*)
Disjoint(a, b) == a.endsAt <= b.startsAt \/ b.endsAt <= a.startsAt

PassesNeverOverlap ==
  \A p \in DOMAIN passes, q \in DOMAIN passes :
    p # q /\ passes[p].user = passes[q].user => Disjoint(passes[p], passes[q])

(* A reservation took all of its price or was not made; a natural voice took *)
(* nothing from the free tier, and a pass is named exactly when it was used. *)
AllOrNothing ==
  \A r \in DOMAIN reservations :
    LET row == reservations[r]
    IN  /\ TotalUnits(row.taken) = ForChars(row.chars, row.tier)
        /\ row.tier = "natural" => row.taken.free = 0
        /\ row.pass = NoPass <=> row.taken.pass = 0

(* What a refund leaves charged is the price of the characters that were     *)
(* synthesised, imputed to the first sources of the debit order (ADR-0019,4).*)
RefundKeepsEarliestSources ==
  \A r \in DOMAIN reservations :
    LET row == reservations[r]
        net == NetTaken(r)
    IN  /\ TotalUnits(net) = ForChars(row.chars - row.refundedChars, row.tier)
        /\ net.pass > 0 => net.free = row.taken.free
        /\ net.credits > 0 => net.free = row.taken.free /\ net.pass = row.taken.pass

(* A payment is honoured once and for ever.  The step that records its       *)
(* reference gives its offer to its user.  The row then stays, but for its   *)
(* user when the account is deleted, and nothing is given for it again: the  *)
(* passes are the ones that came with their reference, and no purchase of    *)
(* credits is journaled, nor a balance raised but by a refund, without a     *)
(* reference that was not there before (ADR-0021, 7: granting is idempotent).*)
Bought(u) == {n \in DOMAIN entries[u] : entries[u][n].kind = "purchase"}

Given(ref) ==
  LET u == purchases'[ref].user
      offer == Offers[purchases'[ref].offer]
  IN  IF offer.kind = "pass"
      THEN /\ ref \in DOMAIN passes'
           /\ passes'[ref].user = u
           /\ passes'[ref].included = offer.units
           /\ passes'[ref].used = 0
      ELSE /\ wallet'[u] = wallet[u] + offer.units
           /\ entries'[u] = Append(entries[u], [kind |-> "purchase", units |-> offer.units])

GivenNow(u) ==
  \E ref \in DOMAIN purchases' \ DOMAIN purchases :
    purchases'[ref].user = u /\ Offers[purchases'[ref].offer].kind = "credits"
RefundedNow(u) ==
  \E r \in DOMAIN reservations :
    /\ reservations[r].user = u /\ ~reservations[r].refunded
    /\ reservations'[r].refunded

SameGrant(old, new) ==
  /\ new.user = old.user /\ new.included = old.included
  /\ new.startsAt = old.startsAt /\ new.endsAt = old.endsAt

GrantedForever ==
  [][ /\ \A ref \in DOMAIN purchases :
           /\ ref \in DOMAIN purchases'
           /\ purchases'[ref] = purchases[ref]
                \/ (purchases'[ref] = [purchases[ref] EXCEPT !.user = Detached]
                    /\ purchases[ref].user \notin users')
      /\ \A ref \in DOMAIN purchases' \ DOMAIN purchases : Given(ref)
      /\ \A p \in DOMAIN passes' :
           IF p \in DOMAIN passes THEN SameGrant(passes[p], passes'[p])
                                  ELSE p \in DOMAIN purchases' \ DOMAIN purchases
      /\ \A u \in User :
           GivenNow(u) \/ (/\ Bought(u)' \subseteq Bought(u)
                           /\ wallet'[u] <= wallet[u] \/ RefundedNow(u))
    ]_vars

(* A reservation is refunded at most once and is otherwise never rewritten,  *)
(* so a redelivered failure cannot give the units back again.                *)
RefundedOnce ==
  [][ \A r \in DOMAIN reservations \cap DOMAIN reservations' :
        reservations[r].user \in users' =>
          \/ reservations'[r] = reservations[r]
          \/ /\ ~reservations[r].refunded /\ reservations'[r].refunded
             /\ reservations'[r].refundedChars \in 1 .. reservations[r].chars
             /\ reservations'[r].taken = reservations[r].taken
    ]_vars
=============================================================================
